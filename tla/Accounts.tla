------------------------------ MODULE Accounts ------------------------------
(***************************************************************************)
(* Accounts and sessions: login, refresh, logout (domain/auth/service/       *)
(* auth_service.go), signup, verification, reset and invitation              *)
(* (account_service.go), the administration of users (domain/iam/service/    *)
(* user_service.go), all behind the idempotency middleware                   *)
(* (presenter/middleware/idempotency.go).                                    *)
(*                                                                          *)
(* One person with one email address.  A request runs the database calls of  *)
(* its handler one at a time, as Steps lists them; other requests run in     *)
(* between.                                                                  *)
(***************************************************************************)
EXTENDS Naturals, Sequences, SequencesExt

CONSTANTS Workers,      \* requests served at the same time
          Keys, NoKey,  \* idempotency keys; a request without one
          Passwords,
          Workloads,    \* what a behaviour starts from and which requests it has
          MaxAccounts, MaxTokens

ASSUME AccountsAssumption == NoKey \notin Keys /\ MaxAccounts \in Nat /\ MaxTokens \in Nat

VARIABLES accounts,   \* documents of the user collection, in the order of creation
          tenants,    \* tenants so far; the first one invites and administers
          tokens,     \* refresh tokens, emailed links and invitations
          cache,      \* answers stored under an idempotency key
          req,        \* the request a worker serves
          runs,       \* handlers that succeeded under a key since its last answer ran out
          muddled,    \* keys and tokens that two requests used at once, or whose
                      \* request broke off half way; keys whose answer was not
                      \* stored, or not found by a lookup that failed
          load

vars == <<accounts, tenants, tokens, cache, req, runs, muddled, load>>

Idle == [op |-> "none", todo |-> <<>>]

\* Mutation of ResetSteps: the sessions are revoked before the password is changed.
ResetStepsRevokeFirst == <<"findToken", "revokeAll", "load", "store", "mark">>

\* ResetPassword
ResetSteps == <<"findToken", "load", "store", "mark", "revokeAll">>

\* The calls of each handler that read or write the database.
SessionSteps ==
    [login   |-> <<"findByEmail", "issue">>,
     refresh |-> <<"findToken", "mark", "load", "issue">>,
     logout  |-> <<"findToken", "mark">>]

SignupSteps ==
    [signup  |-> <<"findByEmail", "createTenant", "createUser", "verification">>,
     verify  |-> <<"findToken", "load", "store", "mark">>,
     resend  |-> <<"findByEmail", "invalidate", "verification">>]

PasswordSteps ==
    [forgot  |-> <<"findByEmail", "invalidate", "resetToken">>,
     reset   |-> ResetSteps]

InviteSteps ==
    [invite  |-> <<"findByEmail", "invitation">>,
     accept  |-> <<"findToken", "createUser", "mark">>]

EditSteps == <<"load", "store">>

UserSteps ==
    [create  |-> <<"createUser">>,
     delete  |-> <<"delete">>,
     profile |-> EditSteps, changePassword |-> EditSteps,
     enable  |-> EditSteps, disable |-> EditSteps]

Steps(op) ==
    CASE op \in DOMAIN SessionSteps  -> SessionSteps[op]
      [] op \in DOMAIN SignupSteps   -> SignupSteps[op]
      [] op \in DOMAIN PasswordSteps -> PasswordSteps[op]
      [] op \in DOMAIN InviteSteps   -> InviteSteps[op]
      [] op \in DOMAIN UserSteps     -> UserSteps[op]

Ops == DOMAIN SessionSteps \cup DOMAIN SignupSteps \cup DOMAIN PasswordSteps
         \cup DOMAIN InviteSteps \cup DOMAIN UserSteps

Redeems(op) ==
    CASE op \in {"refresh", "logout"} -> "refresh"
      [] op = "verify" -> "verify"
      [] op = "reset" -> "reset"
      [] op = "accept" -> "invite"
      [] OTHER -> "nothing"

\* Operations on an account the caller names.
OnAccount == {"profile", "changePassword", "enable", "disable", "delete"}

Statuses == {"pending", "active", "disabled", "deleted"}
Kinds == {"refresh", "verify", "reset", "invite"}

User == [tenant : Nat, status : Statuses, pw : Passwords, by : {"create", "signup", "accept"},
         era : Nat, unrevoked : BOOLEAN]

TokenDoc == [kind : Kinds, acc : Nat, spent : BOOLEAN, uses : Nat, era : Nat, late : BOOLEAN]

\* A behaviour starts from a database whose documents refer to documents, with
\* one user per tenant and at most one that signed up, and counts from there.
ASSUME WorkloadAssumption ==
    /\ Workloads \subseteq [accounts : Seq(User), tokens : Seq(TokenDoc), ops : SUBSET Ops,
                            keys : SUBSET (Keys \cup {NoKey}), calls : Nat, faults : Nat,
                            expire : BOOLEAN]
    /\ \A l \in Workloads :
          /\ \A i \in DOMAIN l.accounts : l.accounts[i].era = 0 /\ ~l.accounts[i].unrevoked
          /\ \A i, j \in {n \in DOMAIN l.accounts : l.accounts[n].status # "deleted"} :
                \/ l.accounts[i].tenant = l.accounts[j].tenant
                \/ l.accounts[i].by = "signup" /\ l.accounts[j].by = "signup"
                => i = j
          /\ \A t \in DOMAIN l.tokens :
                LET s == l.tokens[t]
                IN  /\ s.uses = 0 /\ s.era = 0 /\ ~s.late
                    /\ s.acc \in 0..Len(l.accounts)
                    /\ s.kind # "invite" => s.acc # 0

Init ==
    /\ load \in Workloads
    /\ accounts = load.accounts
    /\ tokens = load.tokens
    /\ tenants = 1
    /\ cache = [k \in Keys |-> <<>>]
    /\ req = [w \in Workers |-> Idle]
    /\ runs = [k \in Keys |-> 0]
    /\ muddled = {}

Stored == {i \in DOMAIN accounts : accounts[i].status # "deleted"}
Busy(w) == req[w].op # "none"
At(w, step) == Busy(w) /\ req[w].todo # <<>> /\ Head(req[w].todo) = step
Others(w) == {v \in Workers \ {w} : Busy(v)}

\* The request goes on with changes to what it holds; it is refused or breaks
\* off; it was found to have nothing left to do and succeeds.
Proceed(w, r) == req' = [req EXCEPT ![w] = [r EXCEPT !.todo = Tail(req[w].todo)]]
Refuse(w) == req' = [req EXCEPT ![w] = Idle]
Succeed(w) == req' = [req EXCEPT ![w].todo = <<>>]

-----------------------------------------------------------------------------
(* The middleware.                                                           *)

Body(r) == <<r.t, r.acc, r.pw, r.new>>

NewRequest(op, key, t, acc, pw, new) ==
    [op |-> op, todo |-> Steps(op), key |-> key, t |-> t, acc |-> acc, tenant |-> 1, pw |-> pw, new |-> new,
     doc |-> [status |-> "none", pw |-> pw], era |-> 0, late |-> FALSE, did |-> FALSE]

Answered(key) == key # NoKey /\ cache[key] # <<>>

\* Under a key with a stored answer the request is answered from the cache or,
\* with another payload, refused, unless the lookup fails: "cache miss or Redis
\* down: process normally".  The endpoint is not compared, nor is the tenant: the
\* middleware runs before a caller is known, so every key is of "anon".
Comes(w, r) ==
    \/ /\ Answered(r.key)
       /\ load' = [load EXCEPT !.calls = @ - 1]
       /\ UNCHANGED <<req, muddled>>
    \/ /\ ~Answered(r.key)
       /\ req' = [req EXCEPT ![w] = r]
       /\ muddled' = IF r.key # NoKey /\ \E v \in Others(w) : req[v].key = r.key
                     THEN muddled \cup {<<"key", r.key>>} ELSE muddled
       /\ load' = [load EXCEPT !.calls = @ - 1]
    \/ /\ Answered(r.key) /\ load.faults > 0
       /\ req' = [req EXCEPT ![w] = r]
       /\ muddled' = muddled \cup {<<"key", r.key>>}
       /\ load' = [load EXCEPT !.calls = @ - 1, !.faults = @ - 1]

\* A request comes in.
Receive(w) ==
    /\ ~Busy(w) /\ load.calls > 0
    /\ \E op \in load.ops, key \in load.keys, pw \in Passwords, new \in Passwords :
       \E t \in IF Redeems(op) = "nothing" THEN {0}
                ELSE {i \in DOMAIN tokens : tokens[i].kind = Redeems(op)} :
       \E acc \in IF op \in OnAccount THEN DOMAIN accounts ELSE {0} :
          /\ op \in {"reset", "changePassword", "create"} \/ new = pw
          /\ op \in {"login", "signup", "accept", "changePassword"} \/ pw = CHOOSE p \in Passwords : TRUE
          /\ Comes(w, NewRequest(op, key, t, acc, pw, new))
    /\ UNCHANGED <<accounts, tenants, tokens, cache, runs>>

\* Success is stored under the key, unless Redis is away.
Answer(w) ==
    /\ Busy(w) /\ req[w].todo = <<>>
    /\ Refuse(w)
    /\ IF req[w].key = NoKey THEN UNCHANGED <<cache, runs, muddled, load>>
       ELSE /\ runs' = [runs EXCEPT ![req[w].key] = @ + 1]
            /\ \/ cache' = [cache EXCEPT ![req[w].key] = Body(req[w])] /\ UNCHANGED <<muddled, load>>
               \/ /\ load.faults > 0 /\ load' = [load EXCEPT !.faults = @ - 1]
                  /\ muddled' = muddled \cup {<<"key", req[w].key>>}
                  /\ UNCHANGED cache
    /\ UNCHANGED <<accounts, tenants, tokens>>

\* A call fails or the process dies: the steps that are left are not taken.
BreakOff(w) ==
    /\ Busy(w) /\ load.faults > 0
    /\ load' = [load EXCEPT !.faults = @ - 1]
    /\ muddled' = IF req[w].did THEN muddled \cup {<<"key", req[w].key>>, <<"token", req[w].t>>} ELSE muddled
    /\ accounts' = IF req[w].op = "reset" /\ req[w].did
                   THEN [accounts EXCEPT ![req[w].acc].unrevoked = TRUE] ELSE accounts
    /\ Refuse(w)
    /\ UNCHANGED <<tenants, tokens, cache, runs>>

\* A stored answer runs out.
Forget ==
    /\ load.expire
    /\ \E k \in Keys :
          /\ cache[k] # <<>>
          /\ cache' = [cache EXCEPT ![k] = <<>>]
          /\ runs' = [runs EXCEPT ![k] = 0]
    /\ load' = [load EXCEPT !.expire = FALSE]
    /\ UNCHANGED <<accounts, tenants, tokens, req, muddled>>

\* A call fails whose error the handler ignores: the earlier links stay good, a
\* pending signup gets no other mail, or the sessions of a reset are not revoked
\* though it succeeds.
Ignore(w) ==
    /\ \/ At(w, "invalidate") \/ At(w, "revokeAll")
       \/ At(w, "verification") /\ req[w].op = "signup" /\ ~req[w].did
    /\ load.faults > 0 /\ load' = [load EXCEPT !.faults = @ - 1]
    /\ accounts' = IF At(w, "revokeAll")
                   THEN [accounts EXCEPT ![req[w].acc].unrevoked = TRUE] ELSE accounts
    /\ Proceed(w, req[w])
    /\ UNCHANGED <<tenants, tokens, cache, runs, muddled>>

-----------------------------------------------------------------------------
(* Tokens.                                                                   *)

Token(kind, acc) == [kind |-> kind, acc |-> acc, spent |-> FALSE, uses |-> 0,
                     era |-> 0, late |-> FALSE]

AddToken(t) == Len(tokens) < MaxTokens /\ tokens' = Append(tokens, t)

\* An effect of the request under way, and a use of the token it redeems.
Used(t) == IF t = 0 THEN tokens ELSE [tokens EXCEPT ![t].uses = @ + 1]

\* Still to be marked by another request that has found it usable.
Contested(w, t) ==
    \E v \in Others(w) : req[v].t = t /\ Contains(req[v].todo, "mark") /\ ~At(v, "findToken")

\* Mutation of FindToken: a spent token is as good as a new one.
FindTokenSpent(w) ==
    /\ At(w, "findToken")
    /\ LET t == tokens[req[w].t]
       IN  /\ Proceed(w, [req[w] EXCEPT !.acc = t.acc, !.era = t.era, !.late = t.late])
           /\ muddled' = IF Contested(w, req[w].t) THEN muddled \cup {<<"token", req[w].t>>} ELSE muddled
    /\ UNCHANGED <<accounts, tenants, tokens, cache, runs, load>>

\* FindByHash with Active or Usable; Logout takes any.
FindToken(w) ==
    /\ At(w, "findToken")
    /\ LET t == tokens[req[w].t]
       IN  IF t.spent /\ req[w].op # "logout" THEN Refuse(w) /\ UNCHANGED muddled
           ELSE /\ Proceed(w, [req[w] EXCEPT !.acc = t.acc, !.era = t.era, !.late = t.late])
                /\ muddled' = IF Contested(w, req[w].t) THEN muddled \cup {<<"token", req[w].t>>} ELSE muddled
    /\ UNCHANGED <<accounts, tenants, tokens, cache, runs, load>>

\* Revoke, MarkUsed, MarkAccepted: of a token marked already, nothing.
Mark(w) ==
    /\ At(w, "mark")
    /\ tokens' = [tokens EXCEPT ![req[w].t].spent = TRUE]
    /\ Proceed(w, req[w])
    /\ UNCHANGED <<accounts, tenants, cache, runs, muddled, load>>

\* InvalidateForUser.
Invalidate(w) ==
    /\ At(w, "invalidate")
    /\ LET kind == IF req[w].op = "resend" THEN "verify" ELSE "reset"
       IN  tokens' = [i \in DOMAIN tokens |->
                        IF tokens[i].kind = kind /\ tokens[i].acc = req[w].acc
                        THEN [tokens[i] EXCEPT !.spent = TRUE] ELSE tokens[i]]
    /\ Proceed(w, req[w])
    /\ UNCHANGED <<accounts, tenants, cache, runs, muddled, load>>

\* issueVerification, and the tokens of ForgotPassword and Invite.
Email(w) ==
    /\ \/ At(w, "verification") /\ AddToken(Token("verify", req[w].acc))
       \/ At(w, "resetToken") /\ AddToken(Token("reset", req[w].acc))
       \/ At(w, "invitation") /\ AddToken(Token("invite", 0))
    /\ Proceed(w, [req[w] EXCEPT !.did = TRUE])
    /\ UNCHANGED <<accounts, tenants, cache, runs, muddled, load>>

\* issue: a session of the account the request has read.
Issue(w) ==
    /\ At(w, "issue") /\ Len(tokens) < MaxTokens
    /\ tokens' = Append(Used(req[w].t),
                        [Token("refresh", req[w].acc) EXCEPT !.era = req[w].era, !.late = req[w].late])
    /\ Proceed(w, [req[w] EXCEPT !.did = TRUE])
    /\ UNCHANGED <<accounts, tenants, cache, runs, muddled, load>>

\* RevokeAllForUser.  A login or refresh that has read what it needs goes on.
RevokeAll(w) ==
    /\ At(w, "revokeAll")
    /\ tokens' = [i \in DOMAIN tokens |->
                    IF tokens[i].kind = "refresh" /\ tokens[i].acc = req[w].acc
                    THEN [tokens[i] EXCEPT !.spent = TRUE] ELSE tokens[i]]
    /\ req' = [v \in Workers |->
                 IF v = w THEN [req[w] EXCEPT !.todo = Tail(@)]
                 ELSE IF Busy(v) /\ req[v].acc = req[w].acc /\ Contains(req[v].todo, "issue")
                 THEN [req[v] EXCEPT !.late = TRUE] ELSE req[v]]
    /\ accounts' = [accounts EXCEPT ![req[w].acc].unrevoked = FALSE]
    /\ UNCHANGED <<tenants, cache, runs, muddled, load>>

\* Time passes: a token expires.
Expire ==
    /\ load.expire
    /\ \E i \in DOMAIN tokens :
          ~tokens[i].spent /\ tokens' = [tokens EXCEPT ![i].spent = TRUE]
    /\ load' = [load EXCEPT !.expire = FALSE]
    /\ UNCHANGED <<accounts, tenants, cache, req, runs, muddled>>

-----------------------------------------------------------------------------
(* Users.                                                                    *)

Account(tenant, status, pw, by) ==
    [tenant |-> tenant, status |-> status, pw |-> pw, by |-> by, era |-> 0, unrevoked |-> FALSE]

\* FindByEmailAnyTenant, of an invitation FindByEmail in the tenant: what each
\* handler makes of the account it finds, or of none.
FindByEmail(w) ==
    /\ At(w, "findByEmail")
    /\ LET r == req[w]
           found == {i \in Stored : r.op = "invite" => accounts[i].tenant = 1}
           with(i) == [r EXCEPT !.acc = i, !.era = accounts[i].era]
       IN  \/ /\ found = {}
              /\ CASE r.op \in {"signup", "invite"} -> Proceed(w, r)
                   [] r.op = "login" -> Refuse(w)
                   [] OTHER -> Succeed(w)
           \/ \E i \in found :
                 LET a == accounts[i]
                 IN  CASE r.op = "invite" -> Refuse(w)
                       [] r.op = "login" ->
                            IF a.status = "active" /\ a.pw = r.pw THEN Proceed(w, with(i)) ELSE Refuse(w)
                       [] r.op = "signup" ->
                            IF a.status = "pending"
                            THEN req' = [req EXCEPT ![w] = [with(i) EXCEPT !.todo = <<"verification">>]]
                            ELSE Succeed(w)
                       [] r.op = "resend" -> IF a.status = "pending" THEN Proceed(w, with(i)) ELSE Succeed(w)
                       [] r.op = "forgot" -> IF a.status # "disabled" THEN Proceed(w, with(i)) ELSE Succeed(w)
    /\ muddled' = IF /\ req[w].op = "signup" /\ Stored = {}
                     /\ \E v \in Others(w) : Contains(req[v].todo, "createUser") /\ ~At(v, "findByEmail")
                  THEN muddled \cup {<<"email">>} ELSE muddled
    /\ UNCHANGED <<accounts, tenants, tokens, cache, runs, load>>

\* The tenant and its default roles.
CreateTenant(w) ==
    /\ At(w, "createTenant")
    /\ tenants' = tenants + 1
    /\ Proceed(w, [req[w] EXCEPT !.tenant = tenants + 1])
    /\ UNCHANGED <<accounts, tokens, cache, runs, muddled, load>>

NewAccount(w) ==
    IF req[w].op = "signup" THEN Account(req[w].tenant, "pending", req[w].pw, "signup")
    ELSE Account(req[w].tenant, "active", req[w].new, req[w].op)

\* Mutation of CreateUser: nothing keeps an email unique in a tenant.
CreateUserTwice(w) ==
    /\ At(w, "createUser") /\ Len(accounts) < MaxAccounts
    /\ accounts' = Append(accounts, NewAccount(w))
    /\ tokens' = Used(req[w].t)
    /\ Proceed(w, [req[w] EXCEPT !.acc = Len(accounts) + 1, !.did = TRUE])
    /\ UNCHANGED <<tenants, cache, runs, muddled, load>>

\* The email is unique in a tenant.
CreateUser(w) ==
    /\ At(w, "createUser") /\ Len(accounts) < MaxAccounts
    /\ IF \E i \in Stored : accounts[i].tenant = NewAccount(w).tenant
       THEN Refuse(w) /\ UNCHANGED <<accounts, tokens>>
       ELSE /\ accounts' = Append(accounts, NewAccount(w))
            /\ tokens' = Used(req[w].t)
            /\ Proceed(w, [req[w] EXCEPT !.acc = Len(accounts) + 1, !.did = TRUE])
    /\ UNCHANGED <<tenants, cache, runs, muddled, load>>

\* FindByID and what the handler checks of the document.
Load(w) ==
    /\ At(w, "load")
    /\ LET r == req[w]
           a == accounts[r.acc]
           doc == [status |-> a.status, pw |-> a.pw]
           next == [r EXCEPT !.doc = doc]
       IN  IF \/ r.acc \notin Stored
              \/ r.op = "refresh" /\ a.status # "active"
              \/ r.op = "changePassword" /\ a.pw # r.pw
           THEN Refuse(w)
           ELSE IF r.op = "verify" /\ a.status # "pending"
                THEN req' = [req EXCEPT ![w] = [next EXCEPT !.todo = <<"mark">>]]
                ELSE Proceed(w, next)
    /\ UNCHANGED <<accounts, tenants, tokens, cache, runs, muddled, load>>

\* The document a handler writes back.
Edited(r) ==
    CASE r.op \in {"verify", "reset"} ->
            [status |-> IF r.doc.status = "pending" THEN "active" ELSE r.doc.status,
             pw |-> IF r.op = "reset" THEN r.new ELSE r.doc.pw]
      [] r.op = "changePassword" -> [r.doc EXCEPT !.pw = r.new]
      [] r.op = "enable" -> [r.doc EXCEPT !.status = "active"]
      [] r.op = "disable" -> [r.doc EXCEPT !.status = "disabled"]
      [] OTHER -> r.doc

\* Update: the fields as they were loaded, whatever was stored meanwhile; a
\* deleted document is not found.
Store(w) ==
    /\ At(w, "store")
    /\ LET r == req[w]
           a == accounts[r.acc]
       IN  IF r.acc \notin Stored THEN Refuse(w) /\ UNCHANGED <<accounts, tokens>>
           ELSE /\ accounts' = [accounts EXCEPT ![r.acc] =
                                  [a EXCEPT !.status = Edited(r).status, !.pw = Edited(r).pw,
                                            !.era = IF r.op = "reset" THEN @ + 1 ELSE @]]
                /\ tokens' = Used(r.t)
                /\ Proceed(w, [r EXCEPT !.did = TRUE])
    /\ UNCHANGED <<tenants, cache, runs, muddled, load>>

Delete(w) ==
    /\ At(w, "delete")
    /\ IF req[w].acc \notin Stored THEN Refuse(w) /\ UNCHANGED accounts
       ELSE /\ accounts' = [accounts EXCEPT ![req[w].acc].status = "deleted"]
            /\ Proceed(w, [req[w] EXCEPT !.did = TRUE])
    /\ UNCHANGED <<tenants, tokens, cache, runs, muddled, load>>

-----------------------------------------------------------------------------
Next ==
    \/ \E w \in Workers :
          \/ Receive(w) \/ Answer(w) \/ BreakOff(w) \/ Ignore(w)
          \/ FindToken(w) \/ Mark(w) \/ Invalidate(w) \/ Email(w) \/ Issue(w) \/ RevokeAll(w)
          \/ FindByEmail(w) \/ CreateTenant(w) \/ CreateUser(w) \/ Load(w) \/ Store(w) \/ Delete(w)
    \/ Expire \/ Forget

Spec == Init /\ [][Next]_vars

-----------------------------------------------------------------------------
\* Documents refer to documents, and no tenant has two users of one email.
TypeOK ==
    /\ \A i \in DOMAIN accounts : accounts[i].status \in Statuses
    /\ \A i, j \in Stored : accounts[i].tenant = accounts[j].tenant => i = j
    /\ \A t \in DOMAIN tokens :
          /\ tokens[t].kind \in Kinds
          /\ tokens[t].kind # "invite" => tokens[t].acc \in DOMAIN accounts
    /\ \A w \in Workers : Busy(w) => req[w].acc \in 0..Len(accounts) /\ req[w].t \in 0..Len(tokens)
    /\ \A k \in Keys : runs[k] \in Nat

\* What is to happen once happens once: a single-use link, an invitation and a
\* refresh token bring about one change, a request repeated under its key runs
\* once until the answer runs out, 24 hours later, and "never create a second
\* account for the same email"; unless two requests were at it at the same time,
\* one broke off half way, or the answer under a key could not be stored or read.
DoneOnce ==
    /\ \A t \in DOMAIN tokens : <<"token", t>> \notin muddled => tokens[t].uses <= 1
    /\ \A k \in Keys : <<"key", k>> \notin muddled => runs[k] <= 1
    /\ <<"email">> \notin muddled =>
          \A i, j \in Stored : accounts[i].by = "signup" /\ accounts[j].by = "signup" => i = j

Resetting(i) == \E w \in Workers : Busy(w) /\ req[w].op = "reset" /\ req[w].acc = i /\ req[w].did
                                           /\ req[w].todo # <<>>

\* "invalidate every existing session after a password change": once a reset is
\* through, no session goes back, through refreshes too, to a login from before
\* it, except by a login or refresh that was under way at the time.  Where the
\* revocation failed, and the reset succeeded all the same, or was never reached,
\* the sessions live on until another reset revokes them (unrevoked).
SessionsEnd ==
    \A t \in DOMAIN tokens :
        LET s == tokens[t]
        IN  (/\ s.kind = "refresh" /\ ~s.spent /\ ~s.late
             /\ ~Resetting(s.acc) /\ ~accounts[s.acc].unrevoked)
            => s.era = accounts[s.acc].era
=============================================================================
