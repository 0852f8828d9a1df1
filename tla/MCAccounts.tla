----------------------------- MODULE MCAccounts -----------------------------
(* An instance of Accounts for TLC. *)
EXTENDS Accounts, TLC

CONSTANTS p1, p2, k1

Workload(accts, toks, ops, keys, calls, faults, expire) ==
    [accounts |-> accts, tokens |-> toks, ops |-> ops, keys |-> keys, calls |-> calls,
     faults |-> faults, expire |-> expire]

Active == <<Account(1, "active", p1, "create")>>
Pending == <<Account(2, "pending", p1, "signup")>>

\* A reset among sessions; requests repeated under a key; the administration of
\* a user; signup and verification; invitation and signup; a reset that verifies.
MCWorkloads ==
    {Workload(Active, <<Token("refresh", 1), Token("reset", 1)>>,
              {"login", "refresh", "reset"}, {NoKey}, 4, 1, TRUE),
     Workload(Active, <<Token("refresh", 1)>>,
              {"login", "refresh", "logout"}, {k1}, 3, 1, TRUE),
     Workload(Active, <<Token("refresh", 1)>>,
              {"changePassword", "enable", "disable", "profile", "delete", "refresh", "forgot", "reset"},
              {NoKey}, 3, 0, FALSE),
     Workload(<<>>, <<>>, {"signup", "verify", "resend", "login"}, {NoKey}, 4, 0, FALSE),
     Workload(<<>>, <<Token("invite", 0)>>,
              {"signup", "invite", "accept", "create"}, {NoKey}, 3, 1, FALSE),
     Workload(Pending, <<Token("verify", 1)>>,
              {"verify", "forgot", "reset", "login"}, {NoKey}, 3, 1, FALSE)}
=============================================================================
