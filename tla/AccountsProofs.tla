--------------------------- MODULE AccountsProofs ---------------------------
(***************************************************************************)
(* Theorems about Accounts: documents refer to documents (TypeCorrect), what *)
(* is to happen once happens once (OnceOnly), and a reset ends the sessions   *)
(* from before it (ResetsEndSessions).                                       *)
(***************************************************************************)
EXTENDS Accounts, SequenceTheorems, TLAPS

-----------------------------------------------------------------------------
(* The calls a request has left.                                           *)

Redeemers == {"refresh", "logout", "verify", "reset", "accept"}
Edits == {"profile", "changePassword", "enable", "disable"}

\* The calls of an operation, from each of them on.
Todos(op) ==
    CASE op = "login" -> {<<"findByEmail", "issue">>, <<"issue">>, <<>>}
      [] op = "refresh" -> {<<"findToken", "mark", "load", "issue">>, <<"mark", "load", "issue">>,
                            <<"load", "issue">>, <<"issue">>, <<>>}
      [] op = "logout" -> {<<"findToken", "mark">>, <<"mark">>, <<>>}
      [] op = "signup" -> {<<"findByEmail", "createTenant", "createUser", "verification">>,
                           <<"createTenant", "createUser", "verification">>,
                           <<"createUser", "verification">>, <<"verification">>, <<>>}
      [] op = "verify" -> {<<"findToken", "load", "store", "mark">>, <<"load", "store", "mark">>,
                           <<"store", "mark">>, <<"mark">>, <<>>}
      [] op = "resend" -> {<<"findByEmail", "invalidate", "verification">>,
                           <<"invalidate", "verification">>, <<"verification">>, <<>>}
      [] op = "forgot" -> {<<"findByEmail", "invalidate", "resetToken">>,
                           <<"invalidate", "resetToken">>, <<"resetToken">>, <<>>}
      [] op = "reset" -> {<<"findToken", "load", "store", "mark", "revokeAll">>,
                          <<"load", "store", "mark", "revokeAll">>,
                          <<"store", "mark", "revokeAll">>, <<"mark", "revokeAll">>,
                          <<"revokeAll">>, <<>>}
      [] op = "invite" -> {<<"findByEmail", "invitation">>, <<"invitation">>, <<>>}
      [] op = "accept" -> {<<"findToken", "createUser", "mark">>, <<"createUser", "mark">>,
                           <<"mark">>, <<>>}
      [] op = "create" -> {<<"createUser">>, <<>>}
      [] op = "delete" -> {<<"delete">>, <<>>}
      [] op \in Edits -> {<<"load", "store">>, <<"store">>, <<>>}

\* What is left when a token was found usable and has yet to be marked, ...
Marking == {<<"mark", "load", "issue">>, <<"load", "store", "mark">>, <<"store", "mark">>, <<"mark">>,
            <<"load", "store", "mark", "revokeAll">>, <<"store", "mark", "revokeAll">>,
            <<"mark", "revokeAll">>, <<"createUser", "mark">>}

\* ... when it has yet to bring about its change, ...
Using == {<<"mark", "load", "issue">>, <<"load", "issue">>, <<"issue">>,
          <<"load", "store", "mark">>, <<"store", "mark">>,
          <<"load", "store", "mark", "revokeAll">>, <<"store", "mark", "revokeAll">>,
          <<"createUser", "mark">>}

\* ... and when the change is there and only the mark is missing.
Closing == {<<"mark">>, <<"mark", "revokeAll">>}

\* What is left when the account of a session to come was read.
Issuing == {<<"mark", "load", "issue">>, <<"load", "issue">>, <<"issue">>}

\* What is left when a signup found no user of the email.
Signing == {<<"createTenant", "createUser", "verification">>, <<"createUser", "verification">>}

Storing == {<<"store">>, <<"store", "mark">>, <<"store", "mark", "revokeAll">>}

\* What is left of a reset that has changed the password.
Done == {<<"mark", "revokeAll">>, <<"revokeAll">>, <<>>}

LEMMA OpCases ==
    ASSUME NEW op \in Ops
    PROVE  /\ op # "none"
           /\ \/ op \in {"login", "refresh", "logout", "signup", "verify", "resend", "forgot",
                         "reset", "invite", "accept", "create", "delete"}
              \/ op \in Edits
BY DEF Ops, SessionSteps, SignupSteps, PasswordSteps, InviteSteps, UserSteps, Edits

\* The table is that of the calls.
LEMMA StepsLeft ==
    ASSUME NEW op \in Ops
    PROVE  /\ Steps(op) \in Todos(op) /\ <<>> \in Todos(op) /\ Steps(op) # <<>>
           /\ Redeems(op) # "nothing" <=> op \in Redeemers
           /\ op \in Redeemers <=> Head(Steps(op)) = "findToken"
           /\ op \in Redeemers /\ op # "accept" => Redeems(op) \in Kinds \ {"invite"}
           /\ Steps(op) \notin Storing \cup Signing \cup Issuing \cup Marking
           /\ op \in Redeemers => Steps(op) \notin Using
           /\ op = "reset" => Steps(op) \notin Done
           /\ Steps(op) # <<"verification">>
<1> USE DEF Steps, Todos, SessionSteps, SignupSteps, PasswordSteps, ResetSteps, InviteSteps,
       UserSteps, Redeems, Redeemers, Kinds, Edits, Storing, Signing, Issuing, Marking, Using, Done
<1>1. CASE op = "login"
  BY <1>1
<1>2. CASE op = "refresh"
  BY <1>2
<1>3. CASE op = "logout"
  BY <1>3
<1>4. CASE op = "signup"
  BY <1>4
<1>5. CASE op = "verify"
  BY <1>5
<1>6. CASE op = "resend"
  BY <1>6
<1>7. CASE op = "forgot"
  BY <1>7
<1>8. CASE op = "reset"
  BY <1>8
<1>9. CASE op = "invite"
  BY <1>9
<1>10. CASE op = "accept"
  BY <1>10
<1>11. CASE op = "create"
  BY <1>11
<1>12. CASE op = "delete"
  BY <1>12
<1>13. CASE op \in Edits
  <2>1. Steps(op) = <<"load", "store">>
    <3>1. CASE op = "profile"
      BY <3>1 DEF EditSteps
    <3>2. CASE op = "changePassword"
      BY <3>2 DEF EditSteps
    <3>3. CASE op = "enable"
      BY <3>3 DEF EditSteps
    <3>4. CASE op = "disable"
      BY <3>4 DEF EditSteps
    <3> QED BY <1>13, <3>1, <3>2, <3>3, <3>4
  <2>2. /\ <<"load", "store">> \notin Storing \cup Signing \cup Issuing \cup Marking
        /\ <<"load", "store">> # <<"verification">> /\ Head(<<"load", "store">>) = "load"
    OBVIOUS
  <2>3. Todos(op) = {<<"load", "store">>, <<"store">>, <<>>}
    BY <1>13
  <2>4. op \notin Redeemers /\ op # "reset" /\ Redeems(op) = "nothing"
    BY <1>13
  <2> HIDE DEF Steps, Todos, Redeemers, Redeems, Storing, Signing, Issuing, Marking, Edits
  <2> QED BY <2>1, <2>2, <2>3, <2>4
<1> QED BY <1>1, <1>2, <1>3, <1>4, <1>5, <1>6, <1>7, <1>8, <1>9, <1>10, <1>11, <1>12, <1>13, OpCases

\* Taking a call off leaves the calls after it.
LEMMA TailsLeft ==
    ASSUME NEW op \in Ops, NEW todo \in Todos(op), todo # <<>>
    PROVE  Tail(todo) \in Todos(op)
<1> USE DEF Todos, Edits
<1>0. /\ Tail(<<"findByEmail", "issue">>) = <<"issue">>
      /\ Tail(<<"issue">>) = <<>>
      /\ Tail(<<"findToken", "mark", "load", "issue">>) = <<"mark", "load", "issue">>
      /\ Tail(<<"mark", "load", "issue">>) = <<"load", "issue">>
      /\ Tail(<<"load", "issue">>) = <<"issue">>
      /\ Tail(<<"findToken", "mark">>) = <<"mark">>
      /\ Tail(<<"mark">>) = <<>>
      /\ Tail(<<"findByEmail", "createTenant", "createUser", "verification">>) = <<"createTenant", "createUser", "verification">>
      /\ Tail(<<"createTenant", "createUser", "verification">>) = <<"createUser", "verification">>
      /\ Tail(<<"createUser", "verification">>) = <<"verification">>
      /\ Tail(<<"verification">>) = <<>>
      /\ Tail(<<"findToken", "load", "store", "mark">>) = <<"load", "store", "mark">>
      /\ Tail(<<"load", "store", "mark">>) = <<"store", "mark">>
      /\ Tail(<<"store", "mark">>) = <<"mark">>
      /\ Tail(<<"findByEmail", "invalidate", "verification">>) = <<"invalidate", "verification">>
      /\ Tail(<<"invalidate", "verification">>) = <<"verification">>
      /\ Tail(<<"findByEmail", "invalidate", "resetToken">>) = <<"invalidate", "resetToken">>
      /\ Tail(<<"invalidate", "resetToken">>) = <<"resetToken">>
      /\ Tail(<<"resetToken">>) = <<>>
      /\ Tail(<<"findToken", "load", "store", "mark", "revokeAll">>) = <<"load", "store", "mark", "revokeAll">>
      /\ Tail(<<"load", "store", "mark", "revokeAll">>) = <<"store", "mark", "revokeAll">>
      /\ Tail(<<"store", "mark", "revokeAll">>) = <<"mark", "revokeAll">>
      /\ Tail(<<"mark", "revokeAll">>) = <<"revokeAll">>
      /\ Tail(<<"revokeAll">>) = <<>>
      /\ Tail(<<"findByEmail", "invitation">>) = <<"invitation">>
      /\ Tail(<<"invitation">>) = <<>>
      /\ Tail(<<"findToken", "createUser", "mark">>) = <<"createUser", "mark">>
      /\ Tail(<<"createUser", "mark">>) = <<"mark">>
      /\ Tail(<<"createUser">>) = <<>>
      /\ Tail(<<"delete">>) = <<>>
      /\ Tail(<<"load", "store">>) = <<"store">>
      /\ Tail(<<"store">>) = <<>>
  OBVIOUS
<1>1. CASE op = "login"
  <2>1. \/ todo = <<"findByEmail", "issue">>
        \/ todo = <<"issue">>
    BY <1>1
  <2> QED BY <1>0, <1>1, <2>1
<1>2. CASE op = "refresh"
  <2>1. \/ todo = <<"findToken", "mark", "load", "issue">>
        \/ todo = <<"mark", "load", "issue">>
        \/ todo = <<"load", "issue">>
        \/ todo = <<"issue">>
    BY <1>2
  <2> QED BY <1>0, <1>2, <2>1
<1>3. CASE op = "logout"
  <2>1. \/ todo = <<"findToken", "mark">>
        \/ todo = <<"mark">>
    BY <1>3
  <2> QED BY <1>0, <1>3, <2>1
<1>4. CASE op = "signup"
  <2>1. \/ todo = <<"findByEmail", "createTenant", "createUser", "verification">>
        \/ todo = <<"createTenant", "createUser", "verification">>
        \/ todo = <<"createUser", "verification">>
        \/ todo = <<"verification">>
    BY <1>4
  <2> QED BY <1>0, <1>4, <2>1
<1>5. CASE op = "verify"
  <2>1. \/ todo = <<"findToken", "load", "store", "mark">>
        \/ todo = <<"load", "store", "mark">>
        \/ todo = <<"store", "mark">>
        \/ todo = <<"mark">>
    BY <1>5
  <2> QED BY <1>0, <1>5, <2>1
<1>6. CASE op = "resend"
  <2>1. \/ todo = <<"findByEmail", "invalidate", "verification">>
        \/ todo = <<"invalidate", "verification">>
        \/ todo = <<"verification">>
    BY <1>6
  <2> QED BY <1>0, <1>6, <2>1
<1>7. CASE op = "forgot"
  <2>1. \/ todo = <<"findByEmail", "invalidate", "resetToken">>
        \/ todo = <<"invalidate", "resetToken">>
        \/ todo = <<"resetToken">>
    BY <1>7
  <2> QED BY <1>0, <1>7, <2>1
<1>8. CASE op = "reset"
  <2>1. \/ todo = <<"findToken", "load", "store", "mark", "revokeAll">>
        \/ todo = <<"load", "store", "mark", "revokeAll">>
        \/ todo = <<"store", "mark", "revokeAll">>
        \/ todo = <<"mark", "revokeAll">>
        \/ todo = <<"revokeAll">>
    BY <1>8
  <2> QED BY <1>0, <1>8, <2>1
<1>9. CASE op = "invite"
  <2>1. \/ todo = <<"findByEmail", "invitation">>
        \/ todo = <<"invitation">>
    BY <1>9
  <2> QED BY <1>0, <1>9, <2>1
<1>10. CASE op = "accept"
  <2>1. \/ todo = <<"findToken", "createUser", "mark">>
        \/ todo = <<"createUser", "mark">>
        \/ todo = <<"mark">>
    BY <1>10
  <2> QED BY <1>0, <1>10, <2>1
<1>11. CASE op = "create"
  <2>1. \/ todo = <<"createUser">>
    BY <1>11
  <2> QED BY <1>0, <1>11, <2>1
<1>12. CASE op = "delete"
  <2>1. \/ todo = <<"delete">>
    BY <1>12
  <2> QED BY <1>0, <1>12, <2>1
<1>13. CASE op \in Edits
  <2>1. \/ todo = <<"load", "store">>
        \/ todo = <<"store">>
    BY <1>13
  <2> QED BY <1>0, <1>13, <2>1
<1> QED BY <1>1, <1>2, <1>3, <1>4, <1>5, <1>6, <1>7, <1>8, <1>9, <1>10, <1>11, <1>12, <1>13, OpCases

\* Which operation is at which call, and what it has left then.
LEMMA CallsLeft ==
    ASSUME NEW op \in Ops, NEW todo \in Todos(op), todo # <<>>
    PROVE  /\ Head(todo) = "findToken" => op \in Redeemers /\ todo = Steps(op)
           /\ Head(todo) = "mark" =>
                 \/ op = "refresh" /\ todo = <<"mark", "load", "issue">>
                 \/ op \in {"logout", "verify", "accept"} /\ todo = <<"mark">>
                 \/ op = "reset" /\ todo = <<"mark", "revokeAll">>
           /\ Head(todo) = "issue" => op \in {"login", "refresh"} /\ todo = <<"issue">>
           /\ Head(todo) = "revokeAll" => op = "reset" /\ todo = <<"revokeAll">>
           /\ Head(todo) = "findByEmail" =>
                 op \in {"login", "signup", "resend", "forgot", "invite"} /\ todo = Steps(op)
           /\ Head(todo) = "invalidate" =>
                 \/ op = "resend" /\ todo = <<"invalidate", "verification">>
                 \/ op = "forgot" /\ todo = <<"invalidate", "resetToken">>
           /\ Head(todo) = "verification" => op \in {"signup", "resend"} /\ todo = <<"verification">>
           /\ Head(todo) = "resetToken" => op = "forgot" /\ todo = <<"resetToken">>
           /\ Head(todo) = "invitation" => op = "invite" /\ todo = <<"invitation">>
           /\ Head(todo) = "createTenant" =>
                 op = "signup" /\ todo = <<"createTenant", "createUser", "verification">>
           /\ Head(todo) = "createUser" =>
                 \/ op = "signup" /\ todo = <<"createUser", "verification">>
                 \/ op = "accept" /\ todo = <<"createUser", "mark">>
                 \/ op = "create" /\ todo = <<"createUser">>
           /\ Head(todo) = "load" =>
                 \/ op = "refresh" /\ todo = <<"load", "issue">>
                 \/ op = "verify" /\ todo = <<"load", "store", "mark">>
                 \/ op = "reset" /\ todo = <<"load", "store", "mark", "revokeAll">>
                 \/ op \in Edits /\ todo = <<"load", "store">>
           /\ Head(todo) = "store" =>
                 \/ op = "verify" /\ todo = <<"store", "mark">>
                 \/ op = "reset" /\ todo = <<"store", "mark", "revokeAll">>
                 \/ op \in Edits /\ todo = <<"store">>
           /\ Head(todo) = "delete" => op = "delete" /\ todo = <<"delete">>
<1>0. /\ Head(<<"findByEmail", "issue">>) = "findByEmail"
      /\ Head(<<"issue">>) = "issue"
      /\ Head(<<"findToken", "mark", "load", "issue">>) = "findToken"
      /\ Head(<<"mark", "load", "issue">>) = "mark"
      /\ Head(<<"load", "issue">>) = "load"
      /\ Head(<<"findToken", "mark">>) = "findToken"
      /\ Head(<<"mark">>) = "mark"
      /\ Head(<<"findByEmail", "createTenant", "createUser", "verification">>) = "findByEmail"
      /\ Head(<<"createTenant", "createUser", "verification">>) = "createTenant"
      /\ Head(<<"createUser", "verification">>) = "createUser"
      /\ Head(<<"verification">>) = "verification"
      /\ Head(<<"findToken", "load", "store", "mark">>) = "findToken"
      /\ Head(<<"load", "store", "mark">>) = "load"
      /\ Head(<<"store", "mark">>) = "store"
      /\ Head(<<"findByEmail", "invalidate", "verification">>) = "findByEmail"
      /\ Head(<<"invalidate", "verification">>) = "invalidate"
      /\ Head(<<"findByEmail", "invalidate", "resetToken">>) = "findByEmail"
      /\ Head(<<"invalidate", "resetToken">>) = "invalidate"
      /\ Head(<<"resetToken">>) = "resetToken"
      /\ Head(<<"findToken", "load", "store", "mark", "revokeAll">>) = "findToken"
      /\ Head(<<"load", "store", "mark", "revokeAll">>) = "load"
      /\ Head(<<"store", "mark", "revokeAll">>) = "store"
      /\ Head(<<"mark", "revokeAll">>) = "mark"
      /\ Head(<<"revokeAll">>) = "revokeAll"
      /\ Head(<<"findByEmail", "invitation">>) = "findByEmail"
      /\ Head(<<"invitation">>) = "invitation"
      /\ Head(<<"findToken", "createUser", "mark">>) = "findToken"
      /\ Head(<<"createUser", "mark">>) = "createUser"
      /\ Head(<<"createUser">>) = "createUser"
      /\ Head(<<"delete">>) = "delete"
      /\ Head(<<"load", "store">>) = "load"
      /\ Head(<<"store">>) = "store"
  OBVIOUS
<1>1. CASE op = "login"
  <2>1. \/ todo = <<"findByEmail", "issue">>
        \/ todo = <<"issue">>
    BY <1>1 DEF Todos, Edits
  <2>2. Steps(op) = <<"findByEmail", "issue">>
    BY <1>1 DEF Steps, SessionSteps, SignupSteps, PasswordSteps, ResetSteps, InviteSteps, UserSteps
  <2> QED BY <1>0, <1>1, <2>1, <2>2 DEF Redeemers, Edits
<1>2. CASE op = "refresh"
  <2>1. \/ todo = <<"findToken", "mark", "load", "issue">>
        \/ todo = <<"mark", "load", "issue">>
        \/ todo = <<"load", "issue">>
        \/ todo = <<"issue">>
    BY <1>2 DEF Todos, Edits
  <2>2. Steps(op) = <<"findToken", "mark", "load", "issue">>
    BY <1>2 DEF Steps, SessionSteps, SignupSteps, PasswordSteps, ResetSteps, InviteSteps, UserSteps
  <2> QED BY <1>0, <1>2, <2>1, <2>2 DEF Redeemers, Edits
<1>3. CASE op = "logout"
  <2>1. \/ todo = <<"findToken", "mark">>
        \/ todo = <<"mark">>
    BY <1>3 DEF Todos, Edits
  <2>2. Steps(op) = <<"findToken", "mark">>
    BY <1>3 DEF Steps, SessionSteps, SignupSteps, PasswordSteps, ResetSteps, InviteSteps, UserSteps
  <2> QED BY <1>0, <1>3, <2>1, <2>2 DEF Redeemers, Edits
<1>4. CASE op = "signup"
  <2>1. \/ todo = <<"findByEmail", "createTenant", "createUser", "verification">>
        \/ todo = <<"createTenant", "createUser", "verification">>
        \/ todo = <<"createUser", "verification">>
        \/ todo = <<"verification">>
    BY <1>4 DEF Todos, Edits
  <2>2. Steps(op) = <<"findByEmail", "createTenant", "createUser", "verification">>
    BY <1>4 DEF Steps, SessionSteps, SignupSteps, PasswordSteps, ResetSteps, InviteSteps, UserSteps
  <2> QED BY <1>0, <1>4, <2>1, <2>2 DEF Redeemers, Edits
<1>5. CASE op = "verify"
  <2>1. \/ todo = <<"findToken", "load", "store", "mark">>
        \/ todo = <<"load", "store", "mark">>
        \/ todo = <<"store", "mark">>
        \/ todo = <<"mark">>
    BY <1>5 DEF Todos, Edits
  <2>2. Steps(op) = <<"findToken", "load", "store", "mark">>
    BY <1>5 DEF Steps, SessionSteps, SignupSteps, PasswordSteps, ResetSteps, InviteSteps, UserSteps
  <2> QED BY <1>0, <1>5, <2>1, <2>2 DEF Redeemers, Edits
<1>6. CASE op = "resend"
  <2>1. \/ todo = <<"findByEmail", "invalidate", "verification">>
        \/ todo = <<"invalidate", "verification">>
        \/ todo = <<"verification">>
    BY <1>6 DEF Todos, Edits
  <2>2. Steps(op) = <<"findByEmail", "invalidate", "verification">>
    BY <1>6 DEF Steps, SessionSteps, SignupSteps, PasswordSteps, ResetSteps, InviteSteps, UserSteps
  <2> QED BY <1>0, <1>6, <2>1, <2>2 DEF Redeemers, Edits
<1>7. CASE op = "forgot"
  <2>1. \/ todo = <<"findByEmail", "invalidate", "resetToken">>
        \/ todo = <<"invalidate", "resetToken">>
        \/ todo = <<"resetToken">>
    BY <1>7 DEF Todos, Edits
  <2>2. Steps(op) = <<"findByEmail", "invalidate", "resetToken">>
    BY <1>7 DEF Steps, SessionSteps, SignupSteps, PasswordSteps, ResetSteps, InviteSteps, UserSteps
  <2> QED BY <1>0, <1>7, <2>1, <2>2 DEF Redeemers, Edits
<1>8. CASE op = "reset"
  <2>1. \/ todo = <<"findToken", "load", "store", "mark", "revokeAll">>
        \/ todo = <<"load", "store", "mark", "revokeAll">>
        \/ todo = <<"store", "mark", "revokeAll">>
        \/ todo = <<"mark", "revokeAll">>
        \/ todo = <<"revokeAll">>
    BY <1>8 DEF Todos, Edits
  <2>2. Steps(op) = <<"findToken", "load", "store", "mark", "revokeAll">>
    BY <1>8 DEF Steps, SessionSteps, SignupSteps, PasswordSteps, ResetSteps, InviteSteps, UserSteps
  <2> QED BY <1>0, <1>8, <2>1, <2>2 DEF Redeemers, Edits
<1>9. CASE op = "invite"
  <2>1. \/ todo = <<"findByEmail", "invitation">>
        \/ todo = <<"invitation">>
    BY <1>9 DEF Todos, Edits
  <2>2. Steps(op) = <<"findByEmail", "invitation">>
    BY <1>9 DEF Steps, SessionSteps, SignupSteps, PasswordSteps, ResetSteps, InviteSteps, UserSteps
  <2> QED BY <1>0, <1>9, <2>1, <2>2 DEF Redeemers, Edits
<1>10. CASE op = "accept"
  <2>1. \/ todo = <<"findToken", "createUser", "mark">>
        \/ todo = <<"createUser", "mark">>
        \/ todo = <<"mark">>
    BY <1>10 DEF Todos, Edits
  <2>2. Steps(op) = <<"findToken", "createUser", "mark">>
    BY <1>10 DEF Steps, SessionSteps, SignupSteps, PasswordSteps, ResetSteps, InviteSteps, UserSteps
  <2> QED BY <1>0, <1>10, <2>1, <2>2 DEF Redeemers, Edits
<1>11. CASE op = "create"
  <2>1. \/ todo = <<"createUser">>
    BY <1>11 DEF Todos, Edits
  <2> QED BY <1>0, <1>11, <2>1 DEF Redeemers, Edits
<1>12. CASE op = "delete"
  <2>1. \/ todo = <<"delete">>
    BY <1>12 DEF Todos, Edits
  <2> QED BY <1>0, <1>12, <2>1 DEF Redeemers, Edits
<1>13. CASE op \in Edits
  <2>1. \/ todo = <<"load", "store">>
        \/ todo = <<"store">>
    BY <1>13 DEF Todos, Edits
  <2> QED BY <1>0, <1>13, <2>1 DEF Redeemers, Edits
<1> QED BY <1>1, <1>2, <1>3, <1>4, <1>5, <1>6, <1>7, <1>8, <1>9, <1>10, <1>11, <1>12, <1>13, OpCases

\* The code's questions about what a request has left.
LEMMA ContainsLeft ==
    ASSUME NEW op \in Ops, NEW todo \in Todos(op)
    PROVE  /\ Contains(todo, "mark") <=> todo \in Marking \/ (todo # <<>> /\ Head(todo) = "findToken")
           /\ todo \in Issuing => Contains(todo, "issue")
           /\ todo \in Signing => Contains(todo, "createUser") /\ Head(todo) # "findByEmail"
           /\ todo \in Marking => Head(todo) # "findToken"
           /\ todo \in Signing => op = "signup"
<1>1. CASE op = "login"
  <2>1. \/ todo = <<"findByEmail", "issue">>
        \/ todo = <<"issue">>
        \/ todo = <<>>
    BY <1>1 DEF Todos, Edits
  <2>2. CASE todo = <<"findByEmail", "issue">>
    BY <1>1, <2>2 DEF Contains, Marking, Issuing, Signing
  <2>3. CASE todo = <<"issue">>
    BY <1>1, <2>3 DEF Contains, Marking, Issuing, Signing
  <2>4. CASE todo = <<>>
    BY <1>1, <2>4 DEF Contains, Marking, Issuing, Signing
  <2> QED BY <2>1, <2>2, <2>3, <2>4
<1>2. CASE op = "refresh"
  <2>1. \/ todo = <<"findToken", "mark", "load", "issue">>
        \/ todo = <<"mark", "load", "issue">>
        \/ todo = <<"load", "issue">>
        \/ todo = <<"issue">>
        \/ todo = <<>>
    BY <1>2 DEF Todos, Edits
  <2>2. CASE todo = <<"findToken", "mark", "load", "issue">>
    BY <1>2, <2>2 DEF Contains, Marking, Issuing, Signing
  <2>3. CASE todo = <<"mark", "load", "issue">>
    BY <1>2, <2>3 DEF Contains, Marking, Issuing, Signing
  <2>4. CASE todo = <<"load", "issue">>
    BY <1>2, <2>4 DEF Contains, Marking, Issuing, Signing
  <2>5. CASE todo = <<"issue">>
    BY <1>2, <2>5 DEF Contains, Marking, Issuing, Signing
  <2>6. CASE todo = <<>>
    BY <1>2, <2>6 DEF Contains, Marking, Issuing, Signing
  <2> QED BY <2>1, <2>2, <2>3, <2>4, <2>5, <2>6
<1>3. CASE op = "logout"
  <2>1. \/ todo = <<"findToken", "mark">>
        \/ todo = <<"mark">>
        \/ todo = <<>>
    BY <1>3 DEF Todos, Edits
  <2>2. CASE todo = <<"findToken", "mark">>
    BY <1>3, <2>2 DEF Contains, Marking, Issuing, Signing
  <2>3. CASE todo = <<"mark">>
    BY <1>3, <2>3 DEF Contains, Marking, Issuing, Signing
  <2>4. CASE todo = <<>>
    BY <1>3, <2>4 DEF Contains, Marking, Issuing, Signing
  <2> QED BY <2>1, <2>2, <2>3, <2>4
<1>4. CASE op = "signup"
  <2>1. \/ todo = <<"findByEmail", "createTenant", "createUser", "verification">>
        \/ todo = <<"createTenant", "createUser", "verification">>
        \/ todo = <<"createUser", "verification">>
        \/ todo = <<"verification">>
        \/ todo = <<>>
    BY <1>4 DEF Todos, Edits
  <2>2. CASE todo = <<"findByEmail", "createTenant", "createUser", "verification">>
    BY <1>4, <2>2 DEF Contains, Marking, Issuing, Signing
  <2>3. CASE todo = <<"createTenant", "createUser", "verification">>
    BY <1>4, <2>3 DEF Contains, Marking, Issuing, Signing
  <2>4. CASE todo = <<"createUser", "verification">>
    BY <1>4, <2>4 DEF Contains, Marking, Issuing, Signing
  <2>5. CASE todo = <<"verification">>
    BY <1>4, <2>5 DEF Contains, Marking, Issuing, Signing
  <2>6. CASE todo = <<>>
    BY <1>4, <2>6 DEF Contains, Marking, Issuing, Signing
  <2> QED BY <2>1, <2>2, <2>3, <2>4, <2>5, <2>6
<1>5. CASE op = "verify"
  <2>1. \/ todo = <<"findToken", "load", "store", "mark">>
        \/ todo = <<"load", "store", "mark">>
        \/ todo = <<"store", "mark">>
        \/ todo = <<"mark">>
        \/ todo = <<>>
    BY <1>5 DEF Todos, Edits
  <2>2. CASE todo = <<"findToken", "load", "store", "mark">>
    BY <1>5, <2>2 DEF Contains, Marking, Issuing, Signing
  <2>3. CASE todo = <<"load", "store", "mark">>
    BY <1>5, <2>3 DEF Contains, Marking, Issuing, Signing
  <2>4. CASE todo = <<"store", "mark">>
    BY <1>5, <2>4 DEF Contains, Marking, Issuing, Signing
  <2>5. CASE todo = <<"mark">>
    BY <1>5, <2>5 DEF Contains, Marking, Issuing, Signing
  <2>6. CASE todo = <<>>
    BY <1>5, <2>6 DEF Contains, Marking, Issuing, Signing
  <2> QED BY <2>1, <2>2, <2>3, <2>4, <2>5, <2>6
<1>6. CASE op = "resend"
  <2>1. \/ todo = <<"findByEmail", "invalidate", "verification">>
        \/ todo = <<"invalidate", "verification">>
        \/ todo = <<"verification">>
        \/ todo = <<>>
    BY <1>6 DEF Todos, Edits
  <2>2. CASE todo = <<"findByEmail", "invalidate", "verification">>
    BY <1>6, <2>2 DEF Contains, Marking, Issuing, Signing
  <2>3. CASE todo = <<"invalidate", "verification">>
    BY <1>6, <2>3 DEF Contains, Marking, Issuing, Signing
  <2>4. CASE todo = <<"verification">>
    BY <1>6, <2>4 DEF Contains, Marking, Issuing, Signing
  <2>5. CASE todo = <<>>
    BY <1>6, <2>5 DEF Contains, Marking, Issuing, Signing
  <2> QED BY <2>1, <2>2, <2>3, <2>4, <2>5
<1>7. CASE op = "forgot"
  <2>1. \/ todo = <<"findByEmail", "invalidate", "resetToken">>
        \/ todo = <<"invalidate", "resetToken">>
        \/ todo = <<"resetToken">>
        \/ todo = <<>>
    BY <1>7 DEF Todos, Edits
  <2>2. CASE todo = <<"findByEmail", "invalidate", "resetToken">>
    BY <1>7, <2>2 DEF Contains, Marking, Issuing, Signing
  <2>3. CASE todo = <<"invalidate", "resetToken">>
    BY <1>7, <2>3 DEF Contains, Marking, Issuing, Signing
  <2>4. CASE todo = <<"resetToken">>
    BY <1>7, <2>4 DEF Contains, Marking, Issuing, Signing
  <2>5. CASE todo = <<>>
    BY <1>7, <2>5 DEF Contains, Marking, Issuing, Signing
  <2> QED BY <2>1, <2>2, <2>3, <2>4, <2>5
<1>8. CASE op = "reset"
  <2>1. \/ todo = <<"findToken", "load", "store", "mark", "revokeAll">>
        \/ todo = <<"load", "store", "mark", "revokeAll">>
        \/ todo = <<"store", "mark", "revokeAll">>
        \/ todo = <<"mark", "revokeAll">>
        \/ todo = <<"revokeAll">>
        \/ todo = <<>>
    BY <1>8 DEF Todos, Edits
  <2>2. CASE todo = <<"findToken", "load", "store", "mark", "revokeAll">>
    BY <1>8, <2>2 DEF Contains, Marking, Issuing, Signing
  <2>3. CASE todo = <<"load", "store", "mark", "revokeAll">>
    BY <1>8, <2>3 DEF Contains, Marking, Issuing, Signing
  <2>4. CASE todo = <<"store", "mark", "revokeAll">>
    BY <1>8, <2>4 DEF Contains, Marking, Issuing, Signing
  <2>5. CASE todo = <<"mark", "revokeAll">>
    BY <1>8, <2>5 DEF Contains, Marking, Issuing, Signing
  <2>6. CASE todo = <<"revokeAll">>
    BY <1>8, <2>6 DEF Contains, Marking, Issuing, Signing
  <2>7. CASE todo = <<>>
    BY <1>8, <2>7 DEF Contains, Marking, Issuing, Signing
  <2> QED BY <2>1, <2>2, <2>3, <2>4, <2>5, <2>6, <2>7
<1>9. CASE op = "invite"
  <2>1. \/ todo = <<"findByEmail", "invitation">>
        \/ todo = <<"invitation">>
        \/ todo = <<>>
    BY <1>9 DEF Todos, Edits
  <2>2. CASE todo = <<"findByEmail", "invitation">>
    BY <1>9, <2>2 DEF Contains, Marking, Issuing, Signing
  <2>3. CASE todo = <<"invitation">>
    BY <1>9, <2>3 DEF Contains, Marking, Issuing, Signing
  <2>4. CASE todo = <<>>
    BY <1>9, <2>4 DEF Contains, Marking, Issuing, Signing
  <2> QED BY <2>1, <2>2, <2>3, <2>4
<1>10. CASE op = "accept"
  <2>1. \/ todo = <<"findToken", "createUser", "mark">>
        \/ todo = <<"createUser", "mark">>
        \/ todo = <<"mark">>
        \/ todo = <<>>
    BY <1>10 DEF Todos, Edits
  <2>2. CASE todo = <<"findToken", "createUser", "mark">>
    BY <1>10, <2>2 DEF Contains, Marking, Issuing, Signing
  <2>3. CASE todo = <<"createUser", "mark">>
    BY <1>10, <2>3 DEF Contains, Marking, Issuing, Signing
  <2>4. CASE todo = <<"mark">>
    BY <1>10, <2>4 DEF Contains, Marking, Issuing, Signing
  <2>5. CASE todo = <<>>
    BY <1>10, <2>5 DEF Contains, Marking, Issuing, Signing
  <2> QED BY <2>1, <2>2, <2>3, <2>4, <2>5
<1>11. CASE op = "create"
  <2>1. \/ todo = <<"createUser">>
        \/ todo = <<>>
    BY <1>11 DEF Todos, Edits
  <2>2. CASE todo = <<"createUser">>
    BY <1>11, <2>2 DEF Contains, Marking, Issuing, Signing
  <2>3. CASE todo = <<>>
    BY <1>11, <2>3 DEF Contains, Marking, Issuing, Signing
  <2> QED BY <2>1, <2>2, <2>3
<1>12. CASE op = "delete"
  <2>1. \/ todo = <<"delete">>
        \/ todo = <<>>
    BY <1>12 DEF Todos, Edits
  <2>2. CASE todo = <<"delete">>
    BY <1>12, <2>2 DEF Contains, Marking, Issuing, Signing
  <2>3. CASE todo = <<>>
    BY <1>12, <2>3 DEF Contains, Marking, Issuing, Signing
  <2> QED BY <2>1, <2>2, <2>3
<1>13. CASE op \in Edits
  <2>1. \/ todo = <<"load", "store">>
        \/ todo = <<"store">>
        \/ todo = <<>>
    BY <1>13 DEF Todos, Edits
  <2>2. CASE todo = <<"load", "store">>
    BY <1>13, <2>2 DEF Contains, Marking, Issuing, Signing
  <2>3. CASE todo = <<"store">>
    BY <1>13, <2>3 DEF Contains, Marking, Issuing, Signing
  <2>4. CASE todo = <<>>
    BY <1>13, <2>4 DEF Contains, Marking, Issuing, Signing
  <2> QED BY <2>1, <2>2, <2>3, <2>4
<1> QED BY <1>1, <1>2, <1>3, <1>4, <1>5, <1>6, <1>7, <1>8, <1>9, <1>10, <1>11, <1>12, <1>13, OpCases

-----------------------------------------------------------------------------
(* Types.                                                                  *)

LoadType == [accounts : Seq(User), tokens : Seq(TokenDoc), ops : SUBSET Ops,
             keys : SUBSET (Keys \cup {NoKey}), calls : Nat, faults : Nat, expire : BOOLEAN]

DocType == [status : Statuses \cup {"none"}, pw : Passwords]

\* The record of a request.
Request(r) ==
    /\ r \in [op : Ops, todo : {r.todo}, key : Keys \cup {NoKey}, t : Nat, acc : Nat, tenant : Nat,
              pw : Passwords, new : Passwords, doc : DocType, era : Nat, late : BOOLEAN, did : BOOLEAN]
    /\ r.todo \in Todos(r.op)

\* Where a request has an account: from its first read on.
Known(r) ==
    \/ r.op \in Redeemers \ {"accept"} /\ r.todo # Steps(r.op)
    \/ r.op \in {"login", "resend", "forgot"} /\ r.todo \notin {Steps(r.op), <<>>}
    \/ r.op = "signup" /\ r.todo = <<"verification">>

\* A request refers to documents: nas accounts are there, and the tokens ts.
Proper(r, nas, ts) ==
    /\ Request(r)
    /\ r.acc \in 0..nas /\ (Known(r) => r.acc # 0)
    /\ IF r.op \in Redeemers THEN r.t \in DOMAIN ts /\ ts[r.t].kind = Redeems(r.op) ELSE r.t = 0
    /\ r.todo \in Storing => r.doc.status \in Statuses \ {"deleted"}
    /\ r.op = "reset" => (r.did <=> r.todo \in Done)

\* The token s refers to one of nas accounts.
Refers(s, nas) == s.acc \in 0..nas /\ (s.kind # "invite" => s.acc # 0)

Typed ==
    /\ load \in LoadType
    /\ accounts \in Seq(User) /\ tokens \in Seq(TokenDoc) /\ tenants \in Nat
    /\ \A i, j \in Stored : accounts[i].tenant = accounts[j].tenant => i = j
    /\ \A t \in DOMAIN tokens : Refers(tokens[t], Len(accounts))
    /\ cache = [k \in Keys |-> cache[k]] /\ runs \in [Keys -> Nat]
    /\ req = [w \in Workers |-> req[w]]
    /\ \A w \in Workers : req[w] = Idle \/ Proper(req[w], Len(accounts), tokens)

LEMMA BusyRequests ==
    ASSUME NEW w \in Workers, Typed
    PROVE  /\ Busy(w) => Proper(req[w], Len(accounts), tokens) /\ Request(req[w]) /\ req[w].op \in Ops
           /\ ~Busy(w) => req[w] = Idle
BY OpCases DEF Typed, Busy, Idle, Proper, Request

LEMMA TypedInit == Init => Typed
<1> SUFFICES ASSUME Init PROVE Typed
  OBVIOUS
<1>1. load \in LoadType /\ accounts = load.accounts /\ tokens = load.tokens /\ tenants = 1
  BY WorkloadAssumption DEF Init, LoadType
<1>2. accounts \in Seq(User) /\ tokens \in Seq(TokenDoc)
  BY <1>1 DEF LoadType
<1>3. \A i, j \in Stored : accounts[i].tenant = accounts[j].tenant => i = j
  BY <1>1, WorkloadAssumption DEF Init, Stored
<1>4. \A t \in DOMAIN tokens : Refers(tokens[t], Len(accounts))
  BY <1>1, WorkloadAssumption DEF Init, Refers
<1>5. /\ cache = [k \in Keys |-> cache[k]] /\ runs \in [Keys -> Nat]
      /\ req = [w \in Workers |-> req[w]] /\ \A w \in Workers : req[w] = Idle
  BY DEF Init
<1> QED BY <1>1, <1>2, <1>3, <1>4, <1>5 DEF Typed

\* Accounts and tokens are never taken out of their collections, and a token
\* keeps its kind.
Grow ==
    /\ accounts' \in Seq(User) /\ tokens' \in Seq(TokenDoc)
    /\ Len(accounts) <= Len(accounts')
    /\ \A t \in DOMAIN tokens : t \in DOMAIN tokens' /\ tokens'[t].kind = tokens[t].kind

\* Nobody but w goes on; a session to come may become late.
Follow(w) ==
    /\ req' = [v \in Workers |-> req'[v]]
    /\ \A v \in Workers \ {w} :
          req'[v] = req[v] \/ (Busy(v) /\ req'[v] = [req[v] EXCEPT !.late = TRUE])

\* The request r has the fields of q but for those that are named.
Alike(r, q) == r.op = q.op /\ r.key = q.key /\ r.t = q.t

LEMMA ProperGrows ==
    ASSUME NEW r, NEW n \in Nat, Proper(r, n, tokens), Grow, NEW m \in Nat, n <= m,
           NEW q, q = r \/ q = [r EXCEPT !.late = TRUE]
    PROVE  /\ Proper(q, m, tokens') /\ Alike(q, r) /\ q.todo = r.todo /\ q.acc = r.acc
           /\ q.era = r.era /\ q.did = r.did /\ q.late \in {r.late, TRUE}
<1>1. Request(r)
  BY DEF Proper
<1>2. /\ Request(q) /\ Alike(q, r) /\ q.todo = r.todo /\ q.acc = r.acc /\ q.doc = r.doc
      /\ q.era = r.era /\ q.did = r.did /\ q.late \in {r.late, TRUE}
  BY <1>1 DEF Request, Alike
<1>3. Known(q) <=> Known(r)
  BY <1>2 DEF Known, Alike
<1>4. q.acc \in 0..m /\ (Known(q) => q.acc # 0)
  BY <1>2, <1>3 DEF Proper
<1>5. IF q.op \in Redeemers THEN q.t \in DOMAIN tokens' /\ tokens'[q.t].kind = Redeems(q.op) ELSE q.t = 0
  BY <1>2 DEF Proper, Alike, Grow
<1>6. /\ q.todo \in Storing => q.doc.status \in Statuses \ {"deleted"}
      /\ q.op = "reset" => (q.did <=> q.todo \in Done)
  BY <1>2 DEF Proper, Alike
<1> QED BY <1>2, <1>4, <1>5, <1>6 DEF Proper

LEMMA TypedStep ==
    ASSUME Typed, Grow, NEW w \in Workers, Follow(w),
           req'[w] = Idle \/ Proper(req'[w], Len(accounts'), tokens'),
           load' \in LoadType, tenants' \in Nat,
           \A i, j \in Stored' : accounts'[i].tenant = accounts'[j].tenant => i = j,
           \A t \in DOMAIN tokens' : Refers(tokens'[t], Len(accounts')),
           cache' = [k \in Keys |-> cache'[k]], runs' \in [Keys -> Nat]
    PROVE  Typed'
<1>1. Len(accounts) \in Nat /\ Len(accounts') \in Nat
  BY DEF Typed, Grow
<1>2. ASSUME NEW v \in Workers PROVE req'[v] = Idle \/ Proper(req'[v], Len(accounts'), tokens')
  <2>1. CASE v = w
    BY <2>1
  <2>2. CASE v # w
    <3>1. CASE req'[v] = req[v]
      BY <1>1, <3>1, ProperGrows DEF Typed, Grow
    <3>2. CASE Busy(v) /\ req'[v] = [req[v] EXCEPT !.late = TRUE]
      BY <1>1, <3>2, ProperGrows, BusyRequests DEF Grow
    <3> QED BY <2>2, <3>1, <3>2 DEF Follow
  <2> QED BY <2>1, <2>2
<1> QED BY <1>2 DEF Typed, Grow, Follow

\* A request that goes on, that is refused and that is cut short.
LEMMA Proceeds ==
    ASSUME Typed, NEW w \in Workers, Busy(w), req[w].todo # <<>>, NEW r, Request(r),
           r.op = req[w].op, Proceed(w, r)
    PROVE  /\ Follow(w) /\ req'[w] = [r EXCEPT !.todo = Tail(req[w].todo)]
           /\ Request(req'[w]) /\ req'[w].todo = Tail(req[w].todo) /\ Alike(req'[w], r)
           /\ req'[w].acc = r.acc /\ req'[w].doc = r.doc /\ req'[w].era = r.era
           /\ req'[w].late = r.late /\ req'[w].did = r.did /\ req'[w].tenant = r.tenant
           /\ \A v \in Workers \ {w} : req'[v] = req[v]
<1>1. Request(req[w]) /\ Tail(req[w].todo) \in Todos(r.op)
  BY BusyRequests, TailsLeft DEF Request
<1>2. /\ req'[w] = [r EXCEPT !.todo = Tail(req[w].todo)]
      /\ \A v \in Workers \ {w} : req'[v] = req[v]
      /\ req' = [v \in Workers |-> req'[v]]
  BY DEF Proceed, Typed
<1> QED BY <1>1, <1>2 DEF Follow, Request, Alike

LEMMA Ends ==
    ASSUME Typed, NEW w \in Workers, Refuse(w)
    PROVE  Follow(w) /\ req'[w] = Idle /\ \A v \in Workers \ {w} : req'[v] = req[v]
BY DEF Typed, Refuse, Follow

LEMMA CutShort ==
    ASSUME Typed, NEW w \in Workers, Busy(w), NEW r, Request(r), r.op = req[w].op,
           NEW todo \in Todos(r.op), req' = [req EXCEPT ![w] = [r EXCEPT !.todo = todo]]
    PROVE  /\ Follow(w) /\ Request(req'[w]) /\ req'[w].todo = todo /\ Alike(req'[w], r)
           /\ req'[w].acc = r.acc /\ req'[w].doc = r.doc /\ req'[w].era = r.era
           /\ req'[w].late = r.late /\ req'[w].did = r.did
           /\ \A v \in Workers \ {w} : req'[v] = req[v]
<1>1. /\ req'[w] = [r EXCEPT !.todo = todo]
      /\ \A v \in Workers \ {w} : req'[v] = req[v]
      /\ req' = [v \in Workers |-> req'[v]]
  BY DEF Typed
<1> QED BY <1>1 DEF Follow, Request, Alike

-----------------------------------------------------------------------------
(* What the steps do to the documents.                                     *)

LEMMA SameLength ==
    ASSUME NEW S, NEW s \in Seq(S), NEW f, f = [i \in DOMAIN s |-> f[i]], \A i \in DOMAIN s : f[i] \in S
    PROVE  f \in Seq(S) /\ Len(f) = Len(s) /\ DOMAIN f = DOMAIN s
OBVIOUS

\* The fields a token keeps: s becomes z.
Ages(s, z) ==
    /\ z.kind = s.kind /\ z.acc = s.acc /\ z.era = s.era /\ z.late = s.late
    /\ s.spent => z.spent

\* The tokens that were there are there.
Older(n) ==
    /\ tokens' \in Seq(TokenDoc) /\ Len(tokens') = Len(tokens) + n
    /\ \A t \in DOMAIN tokens : t \in DOMAIN tokens' /\ Ages(tokens[t], tokens'[t])

\* Every use counted, or none.
Idly == \A t \in DOMAIN tokens : tokens'[t].uses = tokens[t].uses
Uses(n) == \A t \in DOMAIN tokens :
              tokens'[t].uses = IF t = n THEN tokens[t].uses + 1 ELSE tokens[t].uses

LEMMA TokensSame ==
    ASSUME tokens \in Seq(TokenDoc), tokens' = tokens
    PROVE  Older(0) /\ Idly /\ DOMAIN tokens' = DOMAIN tokens
BY DEF Older, Idly, Ages

LEMMA TokensUsed ==
    ASSUME tokens \in Seq(TokenDoc), NEW n \in 0..Len(tokens)
    PROVE  /\ Used(n) \in Seq(TokenDoc) /\ Len(Used(n)) = Len(tokens) /\ DOMAIN Used(n) = DOMAIN tokens
           /\ \A t \in DOMAIN tokens :
                 /\ Used(n)[t] \in TokenDoc /\ Ages(tokens[t], Used(n)[t])
                 /\ Used(n)[t].uses = IF t = n THEN tokens[t].uses + 1 ELSE tokens[t].uses
                 /\ Used(n)[t].spent = tokens[t].spent
<1>1. \A t \in DOMAIN tokens : tokens[t] \in TokenDoc
  OBVIOUS
<1>2. CASE n = 0
  BY <1>1, <1>2 DEF Used, Ages
<1>3. CASE n # 0
  <2>1. n \in DOMAIN tokens
    BY <1>3
  <2>2. Used(n) = [tokens EXCEPT ![n].uses = tokens[n].uses + 1]
    BY <1>3 DEF Used
  <2>3. /\ Used(n) = [t \in DOMAIN tokens |-> Used(n)[t]]
        /\ Used(n)[n] = [tokens[n] EXCEPT !.uses = tokens[n].uses + 1]
        /\ \A t \in DOMAIN tokens \ {n} : Used(n)[t] = tokens[t]
    BY <2>1, <2>2
  <2>4. /\ Used(n)[n] \in TokenDoc /\ Ages(tokens[n], Used(n)[n])
        /\ Used(n)[n].uses = tokens[n].uses + 1 /\ Used(n)[n].spent = tokens[n].spent
    BY <1>1, <2>1, <2>3 DEF TokenDoc, Ages
  <2>5. ASSUME NEW t \in DOMAIN tokens
        PROVE  /\ Used(n)[t] \in TokenDoc /\ Ages(tokens[t], Used(n)[t])
               /\ Used(n)[t].uses = IF t = n THEN tokens[t].uses + 1 ELSE tokens[t].uses
               /\ Used(n)[t].spent = tokens[t].spent
    BY <1>1, <2>3, <2>4 DEF Ages
  <2>6. Used(n) \in Seq(TokenDoc) /\ Len(Used(n)) = Len(tokens) /\ DOMAIN Used(n) = DOMAIN tokens
    BY <2>3, <2>5, SameLength
  <2> QED BY <2>5, <2>6
<1> QED BY <1>2, <1>3

LEMMA TokensUse ==
    ASSUME tokens \in Seq(TokenDoc), NEW n \in 0..Len(tokens), tokens' = Used(n)
    PROVE  /\ Older(0) /\ Uses(n) /\ DOMAIN tokens' = DOMAIN tokens
           /\ \A t \in DOMAIN tokens : tokens'[t].spent = tokens[t].spent
BY TokensUsed DEF Older, Uses

\* The tokens S are spent.
LEMMA TokensSpent ==
    ASSUME tokens \in Seq(TokenDoc), NEW S,
           tokens' = [i \in DOMAIN tokens |->
                        IF i \in S THEN [tokens[i] EXCEPT !.spent = TRUE] ELSE tokens[i]]
    PROVE  /\ Older(0) /\ Idly /\ DOMAIN tokens' = DOMAIN tokens
           /\ \A t \in DOMAIN tokens : (tokens'[t].spent <=> tokens[t].spent \/ t \in S)
<1>1. ASSUME NEW t \in DOMAIN tokens
      PROVE  /\ tokens'[t] \in TokenDoc /\ Ages(tokens[t], tokens'[t])
             /\ tokens'[t].uses = tokens[t].uses /\ (tokens'[t].spent <=> tokens[t].spent \/ t \in S)
  <2>1. tokens[t] \in TokenDoc
    BY <1>1
  <2>2. tokens'[t] = IF t \in S THEN [tokens[t] EXCEPT !.spent = TRUE] ELSE tokens[t]
    BY <1>1
  <2>3. CASE t \in S
    <3>1. tokens'[t] = [tokens[t] EXCEPT !.spent = TRUE]
      BY <2>2, <2>3
    <3> QED BY <2>1, <2>3, <3>1 DEF TokenDoc, Ages
  <2>4. CASE t \notin S
    <3>1. tokens[t].spent \in BOOLEAN /\ tokens'[t] = tokens[t]
      BY <2>1, <2>2, <2>4 DEF TokenDoc
    <3> QED BY <2>1, <2>4, <3>1 DEF Ages
  <2> QED BY <2>3, <2>4
<1>2. tokens' \in Seq(TokenDoc) /\ Len(tokens') = Len(tokens) /\ DOMAIN tokens' = DOMAIN tokens
  <2>1. tokens' = [i \in DOMAIN tokens |-> tokens'[i]]
    OBVIOUS
  <2> QED BY <1>1, <2>1, SameLength
<1>3. Len(tokens) \in Nat
  OBVIOUS
<1>4. \A t \in DOMAIN tokens : Ages(tokens[t], tokens'[t]) /\ tokens'[t].uses = tokens[t].uses
  BY <1>1
<1>5. \A t \in DOMAIN tokens : tokens'[t].spent <=> tokens[t].spent \/ t \in S
  BY <1>1
<1> QED BY <1>2, <1>3, <1>4, <1>5 DEF Older, Idly

\* A token is added, the one the request redeems used.
LEMMA TokensAdded ==
    ASSUME tokens \in Seq(TokenDoc), NEW n \in 0..Len(tokens), NEW s \in TokenDoc,
           tokens' = Append(Used(n), s)
    PROVE  /\ Older(1) /\ Uses(n) /\ tokens'[Len(tokens) + 1] = s
           /\ DOMAIN tokens' = DOMAIN tokens \cup {Len(tokens) + 1} /\ Len(tokens) + 1 \notin DOMAIN tokens
           /\ \A t \in DOMAIN tokens : tokens'[t].spent = tokens[t].spent
<1>1. /\ Used(n) \in Seq(TokenDoc) /\ Len(Used(n)) = Len(tokens) /\ DOMAIN Used(n) = DOMAIN tokens
      /\ DOMAIN tokens = 1..Len(tokens) /\ Len(tokens) \in Nat
  BY TokensUsed
<1>2. /\ tokens' \in Seq(TokenDoc) /\ Len(tokens') = Len(tokens) + 1 /\ tokens'[Len(tokens) + 1] = s
      /\ DOMAIN tokens' = 1..(Len(tokens) + 1)
      /\ \A t \in DOMAIN tokens : tokens'[t] = Used(n)[t]
  BY <1>1
<1>3. DOMAIN tokens' = DOMAIN tokens \cup {Len(tokens) + 1} /\ Len(tokens) + 1 \notin DOMAIN tokens
  BY <1>1, <1>2
<1> QED BY <1>2, <1>3, TokensUsed DEF Older, Uses

\* Users keep their tenant and how they came; a deleted one stays deleted.
Kept ==
    /\ accounts' \in Seq(User) /\ Len(accounts') = Len(accounts) /\ DOMAIN accounts' = DOMAIN accounts
    /\ Stored' \subseteq Stored
    /\ \A i \in DOMAIN accounts : accounts'[i].tenant = accounts[i].tenant /\ accounts'[i].by = accounts[i].by

LEMMA AccountsSame ==
    ASSUME accounts \in Seq(User), accounts' = accounts
    PROVE  Kept /\ Stored' = Stored
BY DEF Kept, Stored

LEMMA AccountsEdited ==
    ASSUME accounts \in Seq(User), NEW n \in DOMAIN accounts, NEW a \in User,
           accounts' = [accounts EXCEPT ![n] = a], a.tenant = accounts[n].tenant,
           a.by = accounts[n].by, accounts[n].status = "deleted" => a.status = "deleted"
    PROVE  Kept /\ accounts'[n] = a /\ \A i \in DOMAIN accounts \ {n} : accounts'[i] = accounts[i]
<1>1. /\ accounts' = [i \in DOMAIN accounts |-> accounts'[i]] /\ accounts'[n] = a
      /\ \A i \in DOMAIN accounts \ {n} : accounts'[i] = accounts[i]
  OBVIOUS
<1>2. accounts' \in Seq(User) /\ Len(accounts') = Len(accounts) /\ DOMAIN accounts' = DOMAIN accounts
  <2>1. \A i \in DOMAIN accounts : accounts'[i] \in User
    BY <1>1
  <2> QED BY <1>1, <2>1, SameLength
<1>3. Stored' \subseteq Stored
  BY <1>1, <1>2 DEF Stored
<1> QED BY <1>1, <1>2, <1>3 DEF Kept

-----------------------------------------------------------------------------
(* The steps, one by one.                                                  *)

\* A request that comes in is at its first call.
LEMMA Receives ==
    ASSUME Typed, NEW w \in Workers, Receive(w)
    PROVE  /\ ~Busy(w) /\ Follow(w) /\ load' \in LoadType
           /\ \A v \in Workers \ {w} : req'[v] = req[v]
           /\ accounts' = accounts /\ tenants' = tenants /\ tokens' = tokens /\ cache' = cache
           /\ runs' = runs
           /\ \/ req' = req /\ muddled' = muddled
              \/ LET r == req'[w]
                 IN  /\ Proper(r, Len(accounts), tokens) /\ r.todo = Steps(r.op)
                     /\ muddled \subseteq muddled'
                     /\ \/ r.key \in Keys /\ muddled' = muddled \cup {<<"key", r.key>>}
                        \/ /\ r.key \in Keys => cache[r.key] = <<>>
                           /\ muddled' = IF r.key # NoKey /\ \E v \in Others(w) : req[v].key = r.key
                                         THEN muddled \cup {<<"key", r.key>>} ELSE muddled
<1>1. ~Busy(w) /\ load.calls > 0
  BY DEF Receive
<1>2. /\ [load EXCEPT !.calls = load.calls - 1] \in LoadType
      /\ load.faults > 0 => [load EXCEPT !.calls = load.calls - 1, !.faults = load.faults - 1] \in LoadType
  <2>1. load \in LoadType /\ load.calls \in Nat /\ load.faults \in Nat
    BY DEF Typed, LoadType
  <2>2. load.calls - 1 \in Nat /\ (load.faults > 0 => load.faults - 1 \in Nat)
    BY <1>1, <2>1
  <2> QED BY <2>1, <2>2 DEF LoadType
<1>3. PICK op \in load.ops, key \in load.keys, pw \in Passwords, new \in Passwords :
      \E t \in IF Redeems(op) = "nothing" THEN {0}
               ELSE {i \in DOMAIN tokens : tokens[i].kind = Redeems(op)} :
      \E acc \in IF op \in OnAccount THEN DOMAIN accounts ELSE {0} :
         Comes(w, NewRequest(op, key, t, acc, pw, new))
  BY DEF Receive
<1>4. PICK t \in IF Redeems(op) = "nothing" THEN {0}
                 ELSE {i \in DOMAIN tokens : tokens[i].kind = Redeems(op)},
           acc \in IF op \in OnAccount THEN DOMAIN accounts ELSE {0} :
         Comes(w, NewRequest(op, key, t, acc, pw, new))
  BY <1>3
<1>5. op \in Ops /\ key \in Keys \cup {NoKey}
  BY DEF Typed, LoadType
<1>6. Len(accounts) \in Nat /\ acc \in 0..Len(accounts) /\ t \in Nat
      /\ IF op \in Redeemers THEN t \in DOMAIN tokens /\ tokens[t].kind = Redeems(op) ELSE t = 0
  BY <1>5, StepsLeft DEF Typed
<1>7. CASE req' = req /\ muddled' = muddled /\ load' = [load EXCEPT !.calls = load.calls - 1]
  BY <1>1, <1>2, <1>7 DEF Receive, Follow, Typed
<1>8. CASE ~(req' = req /\ muddled' = muddled /\ load' = [load EXCEPT !.calls = load.calls - 1])
  <2> DEFINE r == NewRequest(op, key, t, acc, pw, new)
  <2>1. /\ r.op = op /\ r.todo = Steps(op) /\ r.key = key /\ r.t = t /\ r.acc = acc /\ r.did = FALSE
        /\ Request(r)
    <3>1. [status |-> "none", pw |-> pw] \in DocType
      BY DEF DocType
    <3> QED BY <1>5, <1>6, <3>1, StepsLeft DEF NewRequest, Request
  <2>2. /\ req' = [req EXCEPT ![w] = r] /\ muddled \subseteq muddled'
        /\ \/ r.key # NoKey /\ muddled' = muddled \cup {<<"key", r.key>>}
           \/ /\ ~(r.key # NoKey /\ cache[r.key] # <<>>)
              /\ muddled' = IF r.key # NoKey /\ \E v \in Others(w) : req[v].key = r.key
                            THEN muddled \cup {<<"key", r.key>>} ELSE muddled
        /\ load' \in LoadType
    <3>1. Comes(w, r)
      BY <1>4
    <3> HIDE DEF r
    <3> QED BY <1>2, <1>8, <3>1 DEF Comes, Answered
  <2> HIDE DEF r
  <2>3. ~Known(r) /\ r.todo \notin Storing /\ (r.op = "reset" => r.todo \notin Done)
    BY <1>5, <2>1, StepsLeft DEF Known
  <2>4. Proper(r, Len(accounts), tokens)
    BY <1>6, <2>1, <2>3 DEF Proper
  <2>5. req'[w] = r /\ req' = [v \in Workers |-> req'[v]] /\ \A v \in Workers \ {w} : req'[v] = req[v]
    BY <2>2 DEF Typed
  <2>6. Follow(w) /\ accounts' = accounts /\ tenants' = tenants /\ tokens' = tokens /\ cache' = cache
        /\ runs' = runs
    BY <2>5 DEF Receive, Follow
  <2>7. \/ r.key \in Keys /\ muddled' = muddled \cup {<<"key", r.key>>}
        \/ /\ r.key \in Keys => cache[r.key] = <<>>
           /\ muddled' = IF r.key # NoKey /\ \E v \in Others(w) : req[v].key = r.key
                         THEN muddled \cup {<<"key", r.key>>} ELSE muddled
    BY <1>5, <2>1, <2>2, AccountsAssumption
  <2> QED BY <1>1, <2>1, <2>2, <2>4, <2>5, <2>6, <2>7
<1> QED BY <1>7, <1>8

LEMMA Answers ==
    ASSUME Typed, NEW w \in Workers, Answer(w)
    PROVE  /\ Busy(w) /\ req[w].todo = <<>> /\ Follow(w) /\ req'[w] = Idle
           /\ \A v \in Workers \ {w} : req'[v] = req[v]
           /\ load' \in LoadType /\ cache' = [k \in Keys |-> cache'[k]] /\ runs' \in [Keys -> Nat]
           /\ accounts' = accounts /\ tenants' = tenants /\ tokens' = tokens
           /\ muddled \subseteq muddled'
<1>1. /\ Busy(w) /\ req[w].todo = <<>> /\ Refuse(w)
      /\ accounts' = accounts /\ tenants' = tenants /\ tokens' = tokens
  BY DEF Answer
<1>2. req[w].key \in Keys \cup {NoKey}
  BY <1>1, BusyRequests DEF Request
<1>3. load' \in LoadType /\ muddled \subseteq muddled'
  <2>1. load \in LoadType /\ load.faults \in Nat
    BY DEF Typed, LoadType
  <2>2. CASE load' = load
    BY <2>1, <2>2 DEF Answer
  <2>3. CASE load.faults > 0 /\ load' = [load EXCEPT !.faults = load.faults - 1]
    <3>1. load.faults - 1 \in Nat
      BY <2>1, <2>3
    <3>2. load' \in LoadType
      BY <2>1, <2>3, <3>1 DEF LoadType
    <3> QED BY <3>2 DEF Answer
  <2> QED BY <2>2, <2>3 DEF Answer
<1>4. cache' = [k \in Keys |-> cache'[k]]
  BY DEF Answer, Typed
<1>5. runs' \in [Keys -> Nat]
  <2>1. CASE req[w].key = NoKey
    BY <2>1 DEF Answer, Typed
  <2>2. CASE req[w].key # NoKey
    <3>1. runs' = [runs EXCEPT ![req[w].key] = runs[req[w].key] + 1]
      BY <2>2 DEF Answer
    <3> QED BY <1>2, <2>2, <3>1 DEF Typed
  <2> QED BY <2>1, <2>2
<1> QED BY <1>1, <1>3, <1>4, <1>5, Ends

\* What becomes of the eras.
Steady ==
    /\ Kept
    /\ \A i \in DOMAIN accounts :
          /\ accounts'[i].era = accounts[i].era
          /\ accounts[i].unrevoked => accounts'[i].unrevoked

LEMMA BreaksOff ==
    ASSUME Typed, NEW w \in Workers, BreakOff(w)
    PROVE  /\ Busy(w) /\ Follow(w) /\ req'[w] = Idle
           /\ \A v \in Workers \ {w} : req'[v] = req[v]
           /\ load' \in LoadType /\ cache' = cache /\ runs' = runs
           /\ tenants' = tenants /\ tokens' = tokens
           /\ Steady
           /\ req[w].op = "reset" /\ req[w].did =>
                 req[w].acc \in DOMAIN accounts /\ accounts'[req[w].acc].unrevoked
           /\ muddled' = IF req[w].did
                         THEN muddled \cup {<<"key", req[w].key>>, <<"token", req[w].t>>} ELSE muddled
<1>1. /\ Busy(w) /\ Refuse(w) /\ load' = [load EXCEPT !.faults = load.faults - 1] /\ load.faults > 0
      /\ cache' = cache /\ runs' = runs /\ tenants' = tenants /\ tokens' = tokens
      /\ muddled' = IF req[w].did
                    THEN muddled \cup {<<"key", req[w].key>>, <<"token", req[w].t>>} ELSE muddled
      /\ accounts' = IF req[w].op = "reset" /\ req[w].did
                     THEN [accounts EXCEPT ![req[w].acc].unrevoked = TRUE] ELSE accounts
  BY DEF BreakOff
<1>2. load' \in LoadType
  <2>1. load \in LoadType /\ load.faults \in Nat
    BY DEF Typed, LoadType
  <2>2. load.faults - 1 \in Nat
    BY <1>1, <2>1
  <2> QED BY <1>1, <2>1, <2>2 DEF LoadType
<1>3. accounts \in Seq(User) /\ \A i \in DOMAIN accounts : accounts[i] \in User
  BY DEF Typed
<1>4. CASE req[w].op = "reset" /\ req[w].did
  <2>1. req[w].acc \in DOMAIN accounts
    <3>1. Proper(req[w], Len(accounts), tokens) /\ req[w].todo \in Done
      BY <1>1, <1>4, BusyRequests DEF Proper
    <3>2. req[w].todo # Steps("reset")
      BY <1>1, <1>4, <3>1, BusyRequests, StepsLeft
    <3>3. req[w].acc \in 0..Len(accounts) /\ req[w].acc # 0
      BY <1>4, <3>1, <3>2 DEF Proper, Known, Redeemers
    <3> QED BY <1>3, <3>3
  <2> DEFINE a == [accounts[req[w].acc] EXCEPT !.unrevoked = TRUE]
  <2>2. /\ a \in User /\ a.tenant = accounts[req[w].acc].tenant /\ a.by = accounts[req[w].acc].by
        /\ a.status = accounts[req[w].acc].status /\ a.era = accounts[req[w].acc].era /\ a.unrevoked
    BY <1>3, <2>1 DEF User
  <2>3. accounts' = [accounts EXCEPT ![req[w].acc] = a]
    BY <1>1, <1>4
  <2> HIDE DEF a
  <2>4. /\ Kept /\ accounts'[req[w].acc] = a
        /\ \A i \in DOMAIN accounts \ {req[w].acc} : accounts'[i] = accounts[i]
    BY <1>3, <2>1, <2>2, <2>3, AccountsEdited
  <2> QED BY <1>1, <1>2, <2>1, <2>2, <2>4, Ends DEF Steady
<1>5. CASE ~(req[w].op = "reset" /\ req[w].did)
  BY <1>1, <1>2, <1>3, <1>5, Ends, AccountsSame DEF Steady
<1> QED BY <1>4, <1>5

\* The calls after a token was found.
LEMMA SecondCall ==
    ASSUME NEW op \in Redeemers
    PROVE  \/ op = "refresh" /\ Steps(op) = <<"findToken", "mark", "load", "issue">>
              /\ Tail(Steps(op)) = <<"mark", "load", "issue">>
           \/ op = "logout" /\ Steps(op) = <<"findToken", "mark">>
              /\ Tail(Steps(op)) = <<"mark">>
           \/ op = "verify" /\ Steps(op) = <<"findToken", "load", "store", "mark">>
              /\ Tail(Steps(op)) = <<"load", "store", "mark">>
           \/ op = "reset" /\ Steps(op) = <<"findToken", "load", "store", "mark", "revokeAll">>
              /\ Tail(Steps(op)) = <<"load", "store", "mark", "revokeAll">>
           \/ op = "accept" /\ Steps(op) = <<"findToken", "createUser", "mark">>
              /\ Tail(Steps(op)) = <<"createUser", "mark">>
<1>1. CASE op = "refresh"
  <2>1. Steps(op) = <<"findToken", "mark", "load", "issue">>
    BY <1>1 DEF Steps, SessionSteps, SignupSteps, PasswordSteps, ResetSteps, InviteSteps, UserSteps
  <2>2. Tail(Steps(op)) = <<"mark", "load", "issue">>
    BY <2>1
  <2> QED BY <1>1, <2>1, <2>2
<1>2. CASE op = "logout"
  <2>1. Steps(op) = <<"findToken", "mark">>
    BY <1>2 DEF Steps, SessionSteps, SignupSteps, PasswordSteps, ResetSteps, InviteSteps, UserSteps
  <2>2. Tail(Steps(op)) = <<"mark">>
    BY <2>1
  <2> QED BY <1>2, <2>1, <2>2
<1>3. CASE op = "verify"
  <2>1. Steps(op) = <<"findToken", "load", "store", "mark">>
    BY <1>3 DEF Steps, SessionSteps, SignupSteps, PasswordSteps, ResetSteps, InviteSteps, UserSteps
  <2>2. Tail(Steps(op)) = <<"load", "store", "mark">>
    BY <2>1
  <2> QED BY <1>3, <2>1, <2>2
<1>4. CASE op = "reset"
  <2>1. Steps(op) = <<"findToken", "load", "store", "mark", "revokeAll">>
    BY <1>4 DEF Steps, SessionSteps, SignupSteps, PasswordSteps, ResetSteps, InviteSteps, UserSteps
  <2>2. Tail(Steps(op)) = <<"load", "store", "mark", "revokeAll">>
    BY <2>1
  <2> QED BY <1>4, <2>1, <2>2
<1>5. CASE op = "accept"
  <2>1. Steps(op) = <<"findToken", "createUser", "mark">>
    BY <1>5 DEF Steps, SessionSteps, SignupSteps, PasswordSteps, ResetSteps, InviteSteps, UserSteps
  <2>2. Tail(Steps(op)) = <<"createUser", "mark">>
    BY <2>1
  <2> QED BY <1>5, <2>1, <2>2
<1> QED BY <1>1, <1>2, <1>3, <1>4, <1>5 DEF Redeemers

LEMMA SecondCalls ==
    ASSUME NEW op \in Redeemers
    PROVE  LET todo == Tail(Steps(op))
           IN  /\ todo \in Marking /\ todo \notin Storing /\ todo # Steps(op)
               /\ todo \in Using <=> op # "logout"
               /\ todo \in Issuing <=> op = "refresh"
               /\ op = "reset" => todo \notin Done
<1> DEFINE todo == Tail(Steps(op))
<1> SUFFICES /\ todo \in Marking /\ todo \notin Storing /\ todo # Steps(op)
             /\ todo \in Using <=> op # "logout"
             /\ todo \in Issuing <=> op = "refresh"
             /\ op = "reset" => todo \notin Done
  OBVIOUS
<1>1. ASSUME op = "refresh" PROVE Steps(op) = <<"findToken", "mark", "load", "issue">> /\ todo = <<"mark", "load", "issue">>
  BY <1>1, SecondCall
<1>2. ASSUME op = "logout" PROVE Steps(op) = <<"findToken", "mark">> /\ todo = <<"mark">>
  BY <1>2, SecondCall
<1>3. ASSUME op = "verify" PROVE Steps(op) = <<"findToken", "load", "store", "mark">> /\ todo = <<"load", "store", "mark">>
  BY <1>3, SecondCall
<1>4. ASSUME op = "reset" PROVE Steps(op) = <<"findToken", "load", "store", "mark", "revokeAll">> /\ todo = <<"load", "store", "mark", "revokeAll">>
  BY <1>4, SecondCall
<1>5. ASSUME op = "accept" PROVE Steps(op) = <<"findToken", "createUser", "mark">> /\ todo = <<"createUser", "mark">>
  BY <1>5, SecondCall
<1> HIDE DEF todo
<1> USE DEF Marking, Storing, Using, Issuing, Done
<1>6. CASE op = "refresh"
  BY <1>1, <1>6
<1>7. CASE op = "logout"
  BY <1>2, <1>7
<1>8. CASE op = "verify"
  BY <1>3, <1>8
<1>9. CASE op = "reset"
  BY <1>4, <1>9
<1>10. CASE op = "accept"
  BY <1>5, <1>10
<1> QED BY <1>6, <1>7, <1>8, <1>9, <1>10 DEF Redeemers

LEMMA FindsToken ==
    ASSUME Typed, NEW w \in Workers, FindToken(w)
    PROVE  LET r == req[w] q == req'[w] s == tokens[req[w].t]
           IN  /\ Busy(w) /\ Follow(w) /\ \A v \in Workers \ {w} : req'[v] = req[v]
               /\ UNCHANGED <<accounts, tenants, tokens, cache, runs, load>>
               /\ r.op \in Redeemers /\ r.todo = Steps(r.op) /\ r.t \in DOMAIN tokens
               /\ s.kind = Redeems(r.op)
               /\ \/ q = Idle /\ muddled' = muddled
                  \/ /\ Proper(q, Len(accounts), tokens) /\ Alike(q, r) /\ q.todo = Tail(r.todo)
                     /\ q.acc = s.acc /\ q.era = s.era /\ q.late = s.late /\ q.did = r.did
                     /\ r.op # "logout" => ~s.spent
                     /\ muddled' = IF Contested(w, r.t) THEN muddled \cup {<<"token", r.t>>} ELSE muddled
<1> DEFINE r == req[w] s == tokens[req[w].t]
<1>1. /\ Busy(w) /\ r.todo # <<>> /\ Head(r.todo) = "findToken"
      /\ UNCHANGED <<accounts, tenants, tokens, cache, runs, load>>
  BY DEF FindToken, At
<1>2. Proper(r, Len(accounts), tokens) /\ Request(r)
  BY <1>1, BusyRequests
<1>3. r.op \in Ops /\ r.op \in Redeemers /\ r.todo = Steps(r.op)
  BY <1>1, <1>2, CallsLeft DEF Request
<1>4. r.t \in DOMAIN tokens /\ s.kind = Redeems(r.op)
  BY <1>2, <1>3 DEF Proper
<1>5. CASE s.spent /\ r.op # "logout"
  <2>1. Refuse(w) /\ muddled' = muddled
    BY <1>5 DEF FindToken
  <2> QED BY <1>1, <1>3, <1>4, <2>1, Ends
<1>6. CASE ~(s.spent /\ r.op # "logout")
  <2> DEFINE n == [r EXCEPT !.acc = s.acc, !.era = s.era, !.late = s.late]
  <2>1. Proceed(w, n) /\ muddled' = IF Contested(w, r.t) THEN muddled \cup {<<"token", r.t>>} ELSE muddled
    BY <1>6 DEF FindToken
  <2>2. s \in TokenDoc /\ Refers(s, Len(accounts))
    BY <1>4 DEF Typed
  <2>3. /\ Request(n) /\ n.op = r.op /\ n.acc = s.acc /\ n.era = s.era /\ n.late = s.late
        /\ n.did = r.did /\ Alike(n, r)
    BY <1>2, <2>2 DEF Request, Alike, TokenDoc
  <2> HIDE DEF n
  <2>4. /\ Follow(w) /\ Request(req'[w]) /\ req'[w].todo = Tail(r.todo) /\ Alike(req'[w], n)
        /\ req'[w].acc = n.acc /\ req'[w].era = n.era /\ req'[w].late = n.late /\ req'[w].did = n.did
        /\ \A v \in Workers \ {w} : req'[v] = req[v]
    BY <1>1, <2>1, <2>3, Proceeds
  <2>5. Alike(req'[w], r)
    BY <2>3, <2>4 DEF Alike
  <2>6. /\ req'[w].todo \notin Storing
        /\ r.op = "reset" => req'[w].todo \notin Done /\ r.todo \notin Done
    BY <1>3, <2>4, SecondCalls, StepsLeft
  <2>7. Known(req'[w]) => req'[w].acc # 0
    <3>1. Known(req'[w]) => r.op \in Redeemers \ {"accept"}
      BY <1>3, <2>5 DEF Known, Alike, Redeemers
    <3>2. r.op \in Redeemers \ {"accept"} => s.kind # "invite"
      BY <1>3, <1>4, StepsLeft
    <3> QED BY <2>2, <2>3, <2>4, <3>1, <3>2 DEF Refers
  <2>8. req'[w].acc \in 0..Len(accounts)
    BY <2>2, <2>3, <2>4 DEF Refers
  <2>9. Proper(req'[w], Len(accounts), tokens)
    BY <1>2, <1>3, <1>4, <2>3, <2>4, <2>5, <2>6, <2>7, <2>8 DEF Proper, Alike
  <2> QED BY <1>1, <1>3, <1>4, <1>6, <2>1, <2>3, <2>4, <2>5, <2>9
<1> QED BY <1>5, <1>6

\* A request that goes on, with the documents as they are then.
LEMMA GoesOn ==
    ASSUME Typed, NEW w \in Workers, Busy(w), req[w].todo # <<>>, NEW r, Request(r),
           Alike(r, req[w]), Proceed(w, r), Grow,
           r.acc \in 0..Len(accounts'),
           r.acc = 0 => ~Known(req'[w]),
           Tail(req[w].todo) \in Storing => r.doc.status \in Statuses \ {"deleted"},
           r.op = "reset" => (r.did <=> Tail(req[w].todo) \in Done)
    PROVE  /\ Follow(w) /\ Proper(req'[w], Len(accounts'), tokens') /\ Alike(req'[w], req[w])
           /\ req'[w].todo = Tail(req[w].todo) /\ req'[w].acc = r.acc /\ req'[w].era = r.era
           /\ req'[w].late = r.late /\ req'[w].did = r.did /\ req'[w].tenant = r.tenant
           /\ \A v \in Workers \ {w} : req'[v] = req[v]
<1>1. /\ Follow(w) /\ Request(req'[w]) /\ req'[w].todo = Tail(req[w].todo) /\ Alike(req'[w], r)
      /\ req'[w].acc = r.acc /\ req'[w].doc = r.doc /\ req'[w].era = r.era
      /\ req'[w].late = r.late /\ req'[w].did = r.did /\ req'[w].tenant = r.tenant
      /\ \A v \in Workers \ {w} : req'[v] = req[v]
  <2>1. r.op = req[w].op
    BY DEF Alike
  <2> QED BY <2>1, Proceeds
<1>2. Alike(req'[w], req[w])
  BY <1>1 DEF Alike
<1>3. Proper(req[w], Len(accounts), tokens)
  BY BusyRequests
<1>4. IF req'[w].op \in Redeemers
      THEN req'[w].t \in DOMAIN tokens' /\ tokens'[req'[w].t].kind = Redeems(req'[w].op)
      ELSE req'[w].t = 0
  BY <1>2, <1>3 DEF Proper, Alike, Grow
<1>5. /\ req'[w].todo \in Storing => req'[w].doc.status \in Statuses \ {"deleted"}
      /\ req'[w].op = "reset" => (req'[w].did <=> req'[w].todo \in Done)
  BY <1>1 DEF Alike
<1> QED BY <1>1, <1>2, <1>4, <1>5 DEF Proper

\* Tokens that grow older leave every reference in place.
LEMMA OlderGrows ==
    ASSUME Typed, NEW n \in Nat, Older(n), accounts' \in Seq(User), Len(accounts) <= Len(accounts')
    PROVE  Grow /\ \A t \in DOMAIN tokens : Refers(tokens'[t], Len(accounts'))
<1>1. Len(accounts) \in Nat /\ Len(accounts') \in Nat
  BY DEF Typed
<1> QED BY <1>1 DEF Typed, Older, Ages, Grow, Refers

LEMMA OlderSame ==
    ASSUME Typed, NEW n \in Nat, Older(n), accounts' = accounts
    PROVE  Grow /\ \A t \in DOMAIN tokens : Refers(tokens'[t], Len(accounts'))
<1>1. accounts' \in Seq(User) /\ Len(accounts) <= Len(accounts')
  BY DEF Typed
<1> QED BY <1>1, OlderGrows

\* The request as it is.
LEMMA AtCalls ==
    ASSUME Typed, NEW w \in Workers, NEW step, At(w, step)
    PROVE  /\ Busy(w) /\ req[w].todo # <<>> /\ Head(req[w].todo) = step
           /\ Proper(req[w], Len(accounts), tokens) /\ Request(req[w]) /\ Alike(req[w], req[w])
           /\ req[w].op \in Ops /\ req[w].todo \in Todos(req[w].op)
           /\ req[w].acc \in 0..Len(accounts) /\ Len(accounts) \in Nat /\ Len(tokens) \in Nat
           /\ req[w].t \in 0..Len(tokens)
<1>1. Proper(req[w], Len(accounts), tokens) /\ Request(req[w])
  BY BusyRequests DEF At
<1>2. /\ Busy(w) /\ req[w].todo # <<>> /\ Head(req[w].todo) = step
      /\ req[w].op \in Ops /\ req[w].todo \in Todos(req[w].op) /\ req[w].acc \in 0..Len(accounts)
      /\ Alike(req[w], req[w])
  BY <1>1 DEF At, Proper, Request, Alike
<1>3. Len(accounts) \in Nat /\ Len(tokens) \in Nat /\ req[w].t \in 0..Len(tokens)
  BY <1>1 DEF Proper, Typed
<1> QED BY <1>1, <1>2, <1>3

LEMMA Marks ==
    ASSUME Typed, NEW w \in Workers, Mark(w)
    PROVE  /\ Busy(w) /\ Follow(w) /\ \A v \in Workers \ {w} : req'[v] = req[v]
           /\ UNCHANGED <<accounts, tenants, cache, runs, muddled, load>>
           /\ Proper(req'[w], Len(accounts'), tokens') /\ Alike(req'[w], req[w])
           /\ req'[w].todo = Tail(req[w].todo) /\ req'[w].acc = req[w].acc /\ req'[w].era = req[w].era
           /\ req'[w].late = req[w].late /\ req'[w].did = req[w].did
           /\ Older(0) /\ Idly /\ DOMAIN tokens' = DOMAIN tokens /\ req[w].t \in DOMAIN tokens
           /\ \A t \in DOMAIN tokens : tokens'[t].spent <=> tokens[t].spent \/ t = req[w].t
           /\ \/ req[w].op = "refresh" /\ req[w].todo = <<"mark", "load", "issue">>
              \/ req[w].op \in {"logout", "verify", "accept"} /\ req[w].todo = <<"mark">>
              \/ req[w].op = "reset" /\ req[w].todo = <<"mark", "revokeAll">>
<1>1. /\ At(w, "mark") /\ tokens' = [tokens EXCEPT ![req[w].t].spent = TRUE] /\ Proceed(w, req[w])
      /\ UNCHANGED <<accounts, tenants, cache, runs, muddled, load>>
  BY DEF Mark
<1>2. \/ req[w].op = "refresh" /\ req[w].todo = <<"mark", "load", "issue">>
      \/ req[w].op \in {"logout", "verify", "accept"} /\ req[w].todo = <<"mark">>
      \/ req[w].op = "reset" /\ req[w].todo = <<"mark", "revokeAll">>
  BY <1>1, AtCalls, CallsLeft
<1>3. req[w].t \in DOMAIN tokens
  BY <1>1, <1>2, AtCalls DEF Proper, Redeemers
<1>4. tokens' = [i \in DOMAIN tokens |->
                   IF i \in {req[w].t} THEN [tokens[i] EXCEPT !.spent = TRUE] ELSE tokens[i]]
  <2>1. tokens \in Seq(TokenDoc)
    BY DEF Typed
  <2> QED BY <1>1, <1>3, <2>1
<1>5. /\ Older(0) /\ Idly /\ DOMAIN tokens' = DOMAIN tokens
      /\ \A t \in DOMAIN tokens : tokens'[t].spent <=> tokens[t].spent \/ t = req[w].t
  <2>1. tokens \in Seq(TokenDoc)
    BY DEF Typed
  <2> DEFINE S == {req[w].t}
  <2>2. tokens' = [i \in DOMAIN tokens |->
                     IF i \in S THEN [tokens[i] EXCEPT !.spent = TRUE] ELSE tokens[i]]
    BY <1>4
  <2>3. \A t : t \in S <=> t = req[w].t
    OBVIOUS
  <2> HIDE DEF S
  <2> QED BY <2>1, <2>2, <2>3, TokensSpent
<1>6. Grow
  BY <1>1, <1>5, OlderSame
<1>7. Tail(req[w].todo) \notin Storing /\ (req[w].op = "reset" => req[w].did /\ Tail(req[w].todo) \in Done)
  <2>1. CASE req[w].op = "refresh" /\ req[w].todo = <<"mark", "load", "issue">>
    BY <2>1 DEF Storing
  <2>2. CASE req[w].op \in {"logout", "verify", "accept"} /\ req[w].todo = <<"mark">>
    BY <2>2 DEF Storing
  <2>3. CASE req[w].op = "reset" /\ req[w].todo = <<"mark", "revokeAll">>
    <3>1. req[w].did <=> req[w].todo \in Done
      BY <1>1, <2>3, AtCalls DEF Proper
    <3> QED BY <2>3, <3>1 DEF Storing, Done
  <2> QED BY <1>2, <2>1, <2>2, <2>3
<1>8. req[w].acc = 0 => ~Known(req'[w])
  <2>1. req[w].op \in Redeemers /\ (req[w].op # "accept" => req[w].todo # Steps(req[w].op))
    <3>1. req[w].op \in Redeemers
      BY <1>2 DEF Redeemers
    <3>2. Head(Steps(req[w].op)) = "findToken"
      BY <1>1, <3>1, AtCalls, StepsLeft
    <3> QED BY <1>1, <3>1, <3>2, AtCalls
  <2>2. req[w].op # "accept" => req[w].acc # 0
    BY <1>1, <2>1, AtCalls DEF Proper, Known
  <2>3. Alike(req'[w], req[w])
    BY <1>1, AtCalls, Proceeds
  <2> QED BY <2>1, <2>2, <2>3 DEF Known, Alike, Redeemers
<1> QED BY <1>1, <1>2, <1>3, <1>5, <1>6, <1>7, <1>8, AtCalls, GoesOn

LEMMA Invalidates ==
    ASSUME Typed, NEW w \in Workers, Invalidate(w)
    PROVE  /\ Busy(w) /\ Follow(w) /\ \A v \in Workers \ {w} : req'[v] = req[v]
           /\ UNCHANGED <<accounts, tenants, cache, runs, muddled, load>>
           /\ Proper(req'[w], Len(accounts'), tokens') /\ Alike(req'[w], req[w])
           /\ req'[w].todo \in {<<"verification">>, <<"resetToken">>}
           /\ req[w].op \in {"resend", "forgot"}
           /\ Older(0) /\ Idly /\ DOMAIN tokens' = DOMAIN tokens
<1>1. /\ At(w, "invalidate") /\ Proceed(w, req[w])
      /\ UNCHANGED <<accounts, tenants, cache, runs, muddled, load>>
  BY DEF Invalidate
<1>2. \/ req[w].op = "resend" /\ req[w].todo = <<"invalidate", "verification">>
      \/ req[w].op = "forgot" /\ req[w].todo = <<"invalidate", "resetToken">>
  BY <1>1, AtCalls, CallsLeft
<1>3. Older(0) /\ Idly /\ DOMAIN tokens' = DOMAIN tokens
  <2> DEFINE kind == IF req[w].op = "resend" THEN "verify" ELSE "reset"
             S == {i \in DOMAIN tokens : tokens[i].kind = kind /\ tokens[i].acc = req[w].acc}
  <2>1. tokens' = [i \in DOMAIN tokens |->
                     IF i \in S THEN [tokens[i] EXCEPT !.spent = TRUE] ELSE tokens[i]]
    BY DEF Invalidate
  <2>2. tokens \in Seq(TokenDoc)
    BY DEF Typed
  <2> HIDE DEF S
  <2> QED BY <2>1, <2>2, TokensSpent
<1>4. Grow
  BY <1>1, <1>3, OlderSame
<1>5. Tail(req[w].todo) \in {<<"verification">>, <<"resetToken">>}
  <2>1. CASE req[w].todo = <<"invalidate", "verification">>
    BY <2>1
  <2>2. CASE req[w].todo = <<"invalidate", "resetToken">>
    BY <2>2
  <2> QED BY <1>2, <2>1, <2>2
<1>6. Tail(req[w].todo) \notin Storing
  BY <1>5 DEF Storing
<1>7. req[w].acc # 0
  <2>1. Head(Steps(req[w].op)) # "invalidate"
    BY <1>2 DEF Steps, SessionSteps, SignupSteps, PasswordSteps, ResetSteps, InviteSteps, UserSteps
  <2>2. Known(req[w])
    BY <1>1, <1>2, <2>1, AtCalls DEF Known
  <2> QED BY <1>1, <2>2, AtCalls DEF Proper
<1> QED BY <1>1, <1>2, <1>3, <1>4, <1>5, <1>6, <1>7, AtCalls, GoesOn

\* A link goes out; it is a use of nothing.
LEMMA Emails ==
    ASSUME Typed, NEW w \in Workers, Email(w)
    PROVE  /\ Busy(w) /\ Follow(w) /\ \A v \in Workers \ {w} : req'[v] = req[v]
           /\ UNCHANGED <<accounts, tenants, cache, runs, muddled, load>>
           /\ Proper(req'[w], Len(accounts'), tokens') /\ Alike(req'[w], req[w])
           /\ req'[w].todo = <<>> /\ req[w].t = 0
           /\ req[w].op \in {"signup", "resend", "forgot", "invite"}
           /\ Older(1) /\ Idly /\ DOMAIN tokens' = DOMAIN tokens \cup {Len(tokens) + 1}
           /\ Len(tokens) + 1 \notin DOMAIN tokens
           /\ LET s == tokens'[Len(tokens) + 1]
              IN  s.kind # "refresh" /\ s.uses = 0 /\ Refers(s, Len(accounts'))
           /\ \A t \in DOMAIN tokens : tokens'[t].spent = tokens[t].spent
<1> DEFINE r == [req[w] EXCEPT !.did = TRUE]
<1>1. /\ UNCHANGED <<accounts, tenants, cache, runs, muddled, load>> /\ Proceed(w, r)
      /\ \E step \in {"verification", "resetToken", "invitation"} : At(w, step)
  BY DEF Email
<1>2. \/ req[w].op \in {"signup", "resend"} /\ req[w].todo = <<"verification">>
      \/ req[w].op = "forgot" /\ req[w].todo = <<"resetToken">>
      \/ req[w].op = "invite" /\ req[w].todo = <<"invitation">>
  BY <1>1, AtCalls, CallsLeft
<1>3. /\ Busy(w) /\ req[w].todo # <<>> /\ Proper(req[w], Len(accounts), tokens) /\ Request(req[w])
      /\ req[w].op \in Ops /\ req[w].acc \in 0..Len(accounts) /\ Len(accounts) \in Nat
      /\ Len(tokens) \in Nat
  BY <1>1, AtCalls
<1>4. Request(r) /\ Alike(r, req[w]) /\ r.acc = req[w].acc /\ r.op = req[w].op
  BY <1>3 DEF Request, Alike
<1>5. req[w].op # "invite" => req[w].acc # 0
  <2>1. Steps(req[w].op) \notin {<<"verification">>, <<"resetToken">>}
    BY <1>2 DEF Steps, SessionSteps, SignupSteps, PasswordSteps, ResetSteps, InviteSteps, UserSteps
  <2>2. req[w].op \in {"resend", "forgot"} => req[w].todo \notin {Steps(req[w].op), <<>>}
    BY <1>2, <1>3, <2>1
  <2>3. req[w].op # "invite" => Known(req[w])
    BY <1>2, <2>2 DEF Known
  <2> QED BY <1>3, <2>3 DEF Proper
<1>6. req[w].t = 0 /\ Used(0) = tokens
  BY <1>2, <1>3 DEF Proper, Redeemers, Used
<1>7. PICK s \in TokenDoc : /\ tokens' = Append(tokens, s) /\ s.kind # "refresh" /\ s.uses = 0
                            /\ Refers(s, Len(accounts))
  <2>1. ASSUME NEW kind \in Kinds \ {"refresh"}, NEW acc \in 0..Len(accounts), kind # "invite" => acc # 0,
               AddToken(Token(kind, acc))
        PROVE  \E s \in TokenDoc : /\ tokens' = Append(tokens, s) /\ s.kind # "refresh" /\ s.uses = 0
                                   /\ Refers(s, Len(accounts))
    <3>1. /\ Token(kind, acc) \in TokenDoc /\ Token(kind, acc).kind = kind
          /\ Token(kind, acc).uses = 0 /\ Token(kind, acc).acc = acc
      BY <1>3 DEF Token, TokenDoc
    <3> QED BY <2>1, <3>1 DEF AddToken, Refers
  <2>2. CASE At(w, "verification") /\ AddToken(Token("verify", req[w].acc))
    BY <1>3, <1>5, <2>1, <2>2, AtCalls, CallsLeft DEF Kinds
  <2>3. CASE At(w, "resetToken") /\ AddToken(Token("reset", req[w].acc))
    BY <1>3, <1>5, <2>1, <2>3, AtCalls, CallsLeft DEF Kinds
  <2>4. CASE At(w, "invitation") /\ AddToken(Token("invite", 0))
    BY <1>3, <2>1, <2>4 DEF Kinds
  <2> QED BY <2>2, <2>3, <2>4 DEF Email
<1>8. /\ Older(1) /\ Uses(0) /\ tokens'[Len(tokens) + 1] = s
      /\ DOMAIN tokens' = DOMAIN tokens \cup {Len(tokens) + 1} /\ Len(tokens) + 1 \notin DOMAIN tokens
      /\ \A t \in DOMAIN tokens : tokens'[t].spent = tokens[t].spent
  <2>1. tokens \in Seq(TokenDoc) /\ 0 \in 0..Len(tokens) /\ tokens' = Append(Used(0), s)
    BY <1>3, <1>6, <1>7 DEF Typed
  <2> QED BY <2>1, TokensAdded
<1>9. Idly
  <2>1. 0 \notin DOMAIN tokens
    BY DEF Typed
  <2> QED BY <1>8, <2>1 DEF Uses, Idly
<1>10. Grow
  BY <1>1, <1>8, OlderSame
<1>11. Tail(req[w].todo) = <<>> /\ <<>> \notin Storing /\ req[w].op # "reset"
  <2>1. <<>> \notin Storing /\ req[w].op # "reset"
    BY <1>2 DEF Storing
  <2>2. /\ Tail(<<"verification">>) = <<>> /\ Tail(<<"resetToken">>) = <<>>
        /\ Tail(<<"invitation">>) = <<>>
    OBVIOUS
  <2> QED BY <1>2, <2>1, <2>2
<1> HIDE DEF r
<1>12. r.acc = 0 => ~Known(req'[w])
  <2>1. Alike(req'[w], r)
    BY <1>1, <1>3, <1>4, Proceeds
  <2> QED BY <1>2, <1>4, <1>5, <2>1 DEF Known, Alike, Redeemers
<1>13. r.acc \in 0..Len(accounts')
  BY <1>1, <1>3, <1>4
<1>14. /\ Follow(w) /\ Proper(req'[w], Len(accounts'), tokens') /\ Alike(req'[w], req[w])
       /\ req'[w].todo = Tail(req[w].todo) /\ \A v \in Workers \ {w} : req'[v] = req[v]
  BY <1>1, <1>3, <1>4, <1>10, <1>11, <1>12, <1>13, GoesOn
<1> QED BY <1>1, <1>2, <1>3, <1>6, <1>7, <1>8, <1>9, <1>11, <1>14

LEMMA Issues ==
    ASSUME Typed, NEW w \in Workers, Issue(w)
    PROVE  /\ Busy(w) /\ Follow(w) /\ \A v \in Workers \ {w} : req'[v] = req[v]
           /\ UNCHANGED <<accounts, tenants, cache, runs, muddled, load>>
           /\ Proper(req'[w], Len(accounts'), tokens') /\ Alike(req'[w], req[w])
           /\ req'[w].todo = <<>> /\ req[w].todo = <<"issue">> /\ req[w].op \in {"login", "refresh"}
           /\ Older(1) /\ Uses(req[w].t) /\ DOMAIN tokens' = DOMAIN tokens \cup {Len(tokens) + 1}
           /\ Len(tokens) + 1 \notin DOMAIN tokens
           /\ LET s == tokens'[Len(tokens) + 1]
              IN  /\ s.kind = "refresh" /\ s.uses = 0 /\ Refers(s, Len(accounts'))
                  /\ s.acc = req[w].acc /\ s.era = req[w].era /\ s.late = req[w].late
           /\ \A t \in DOMAIN tokens : tokens'[t].spent = tokens[t].spent
<1> DEFINE r == [req[w] EXCEPT !.did = TRUE]
           s == [Token("refresh", req[w].acc) EXCEPT !.era = req[w].era, !.late = req[w].late]
<1>1. /\ UNCHANGED <<accounts, tenants, cache, runs, muddled, load>> /\ Proceed(w, r)
      /\ At(w, "issue") /\ tokens' = Append(Used(req[w].t), s)
  BY DEF Issue
<1>2. req[w].op \in {"login", "refresh"} /\ req[w].todo = <<"issue">>
  BY <1>1, AtCalls, CallsLeft
<1>3. /\ Busy(w) /\ req[w].todo # <<>> /\ Proper(req[w], Len(accounts), tokens) /\ Request(req[w])
      /\ req[w].op \in Ops /\ req[w].acc \in 0..Len(accounts) /\ Len(accounts) \in Nat
      /\ Len(tokens) \in Nat /\ req[w].t \in 0..Len(tokens)
  BY <1>1, AtCalls
<1>4. Request(r) /\ Alike(r, req[w]) /\ r.acc = req[w].acc /\ r.op = req[w].op
  BY <1>3 DEF Request, Alike
<1>5. req[w].acc # 0
  <2>1. Steps(req[w].op) # <<"issue">>
    BY <1>2 DEF Steps, SessionSteps, SignupSteps, PasswordSteps, ResetSteps, InviteSteps, UserSteps
  <2>2. Known(req[w])
    BY <1>2, <1>3, <2>1 DEF Known, Redeemers
  <2> QED BY <1>3, <2>2 DEF Proper
<1>6. /\ s \in TokenDoc /\ s.kind = "refresh" /\ s.uses = 0
      /\ s.acc = req[w].acc /\ s.era = req[w].era /\ s.late = req[w].late
  BY <1>3 DEF Token, TokenDoc, Kinds, Request
<1> HIDE DEF r, s
<1>7. Refers(s, Len(accounts'))
  BY <1>1, <1>3, <1>5, <1>6 DEF Refers
<1>8. /\ Older(1) /\ Uses(req[w].t) /\ tokens'[Len(tokens) + 1] = s
      /\ DOMAIN tokens' = DOMAIN tokens \cup {Len(tokens) + 1} /\ Len(tokens) + 1 \notin DOMAIN tokens
      /\ \A t \in DOMAIN tokens : tokens'[t].spent = tokens[t].spent
  <2>1. tokens \in Seq(TokenDoc)
    BY DEF Typed
  <2> QED BY <1>1, <1>3, <1>6, <2>1, TokensAdded
<1>9. Grow
  BY <1>1, <1>8, OlderSame
<1>10. Tail(req[w].todo) = <<>> /\ <<>> \notin Storing /\ req[w].op # "reset"
  BY <1>2 DEF Storing
<1>11. /\ Follow(w) /\ Proper(req'[w], Len(accounts'), tokens') /\ Alike(req'[w], req[w])
       /\ req'[w].todo = Tail(req[w].todo) /\ \A v \in Workers \ {w} : req'[v] = req[v]
  BY <1>1, <1>3, <1>4, <1>5, <1>9, <1>10, GoesOn
<1> QED BY <1>1, <1>2, <1>3, <1>6, <1>7, <1>8, <1>10, <1>11

\* Sessions to come of the account that is reset become late.
LEMMA RevokesAll ==
    ASSUME Typed, NEW w \in Workers, RevokeAll(w)
    PROVE  /\ Busy(w) /\ Follow(w)
           /\ UNCHANGED <<tenants, cache, runs, muddled, load>> /\ Kept
           /\ \A i \in DOMAIN accounts : /\ accounts'[i].era = accounts[i].era
                                         /\ i # req[w].acc => accounts'[i] = accounts[i]
           /\ Proper(req'[w], Len(accounts'), tokens') /\ Alike(req'[w], req[w])
           /\ req[w].op = "reset" /\ req[w].todo = <<"revokeAll">> /\ req'[w].todo = <<>>
           /\ req'[w].acc = req[w].acc /\ req[w].acc # 0
           /\ \A v \in Workers \ {w} :
                 Busy(v) /\ req[v].acc = req[w].acc /\ req[v].todo \in Issuing => req'[v].late
           /\ Older(0) /\ Idly /\ DOMAIN tokens' = DOMAIN tokens
           /\ \A t \in DOMAIN tokens : tokens'[t].spent <=>
                 tokens[t].spent \/ (tokens[t].kind = "refresh" /\ tokens[t].acc = req[w].acc)
<1>1. /\ UNCHANGED <<tenants, cache, runs, muddled, load>> /\ At(w, "revokeAll")
      /\ accounts' = [accounts EXCEPT ![req[w].acc].unrevoked = FALSE]
      /\ req' = [v \in Workers |->
                 IF v = w THEN [req[w] EXCEPT !.todo = Tail(req[w].todo)]
                 ELSE IF Busy(v) /\ req[v].acc = req[w].acc /\ Contains(req[v].todo, "issue")
                 THEN [req[v] EXCEPT !.late = TRUE] ELSE req[v]]
  BY DEF RevokeAll
<1>2. req[w].op = "reset" /\ req[w].todo = <<"revokeAll">>
  BY <1>1, AtCalls, CallsLeft
<1>3. /\ Busy(w) /\ Proper(req[w], Len(accounts), tokens) /\ Request(req[w]) /\ req[w].op \in Ops
  BY <1>1, AtCalls
<1>4. Older(0) /\ Idly /\ DOMAIN tokens' = DOMAIN tokens
      /\ \A t \in DOMAIN tokens : tokens'[t].spent <=>
            tokens[t].spent \/ (tokens[t].kind = "refresh" /\ tokens[t].acc = req[w].acc)
  <2> DEFINE S == {i \in DOMAIN tokens : tokens[i].kind = "refresh" /\ tokens[i].acc = req[w].acc}
  <2>1. tokens' = [i \in DOMAIN tokens |->
                     IF i \in S THEN [tokens[i] EXCEPT !.spent = TRUE] ELSE tokens[i]]
    BY DEF RevokeAll
  <2>2. tokens \in Seq(TokenDoc)
    BY DEF Typed
  <2>3. \A t \in DOMAIN tokens : t \in S <=> tokens[t].kind = "refresh" /\ tokens[t].acc = req[w].acc
    OBVIOUS
  <2> HIDE DEF S
  <2> QED BY <2>1, <2>2, <2>3, TokensSpent
<1>6. Follow(w) /\ req'[w] = [req[w] EXCEPT !.todo = Tail(req[w].todo)]
  BY <1>1 DEF Follow
<1>7. ASSUME NEW v \in Workers \ {w}, Busy(v), req[v].acc = req[w].acc, req[v].todo \in Issuing
      PROVE  req'[v].late
  <2>1. Request(req[v]) /\ Contains(req[v].todo, "issue")
    BY <1>7, BusyRequests, ContainsLeft DEF Request
  <2>2. req'[v] = [req[v] EXCEPT !.late = TRUE]
    BY <1>1, <1>7, <2>1
  <2> QED BY <2>1, <2>2 DEF Request
<1>8. Tail(req[w].todo) = <<>> /\ <<>> \in Todos("reset") /\ <<>> \in Done /\ <<>> \notin Storing
      /\ <<"revokeAll">> \in Done
  BY <1>2, <1>3, StepsLeft DEF Done, Storing
<1>9. /\ Request(req'[w]) /\ Alike(req'[w], req[w]) /\ req'[w].todo = <<>> /\ req'[w].acc = req[w].acc
      /\ req'[w].did = req[w].did
  BY <1>2, <1>3, <1>6, <1>8 DEF Request, Alike
<1>10. req[w].did /\ req[w].acc # 0
  <2>1. Known(req[w])
    BY <1>2, <1>3, <1>8, StepsLeft DEF Known, Redeemers
  <2> QED BY <1>2, <1>3, <1>8, <2>1 DEF Proper
<1>12. Kept /\ \A i \in DOMAIN accounts : /\ accounts'[i].era = accounts[i].era
                                          /\ i # req[w].acc => accounts'[i] = accounts[i]
  <2>1. accounts \in Seq(User) /\ req[w].acc \in DOMAIN accounts
    BY <1>3, <1>10 DEF Proper, Typed
  <2> DEFINE a == [accounts[req[w].acc] EXCEPT !.unrevoked = FALSE]
  <2>2. /\ a \in User /\ a.tenant = accounts[req[w].acc].tenant /\ a.by = accounts[req[w].acc].by
        /\ a.status = accounts[req[w].acc].status /\ a.era = accounts[req[w].acc].era
    <3>1. accounts[req[w].acc] \in User
      BY <2>1
    <3> QED BY <3>1 DEF User
  <2>3. accounts' = [accounts EXCEPT ![req[w].acc] = a]
    BY <1>1
  <2> HIDE DEF a
  <2>4. /\ Kept /\ accounts'[req[w].acc] = a
        /\ \A i \in DOMAIN accounts \ {req[w].acc} : accounts'[i] = accounts[i]
    BY <2>1, <2>2, <2>3, AccountsEdited
  <2> QED BY <2>1, <2>2, <2>4
<1>5. Grow /\ Len(accounts') = Len(accounts)
  <2>1. accounts' \in Seq(User) /\ Len(accounts) <= Len(accounts') /\ Len(accounts') = Len(accounts)
    BY <1>3, <1>12 DEF Kept, Typed
  <2> QED BY <1>4, <2>1, OlderGrows
<1>11. Proper(req'[w], Len(accounts'), tokens')
  <2>1. req[w].t \in DOMAIN tokens /\ tokens[req[w].t].kind = Redeems("reset")
    BY <1>2, <1>3 DEF Proper, Redeemers
  <2>2. tokens'[req'[w].t].kind = Redeems(req'[w].op) /\ req'[w].t \in DOMAIN tokens'
    BY <1>2, <1>5, <1>9, <2>1 DEF Grow, Alike
  <2>3. req'[w].acc \in 0..Len(accounts')
    BY <1>3, <1>5, <1>9 DEF Proper
  <2>4. req'[w].op \in Redeemers
    BY <1>2, <1>9 DEF Alike, Redeemers
  <2> QED BY <1>8, <1>9, <1>10, <2>2, <2>3, <2>4 DEF Proper
<1> QED BY <1>1, <1>2, <1>3, <1>4, <1>6, <1>7, <1>9, <1>10, <1>11, <1>12

\* A call whose failure is ignored.
LEMMA Ignores ==
    ASSUME Typed, NEW w \in Workers, Ignore(w)
    PROVE  /\ Busy(w) /\ Follow(w) /\ \A v \in Workers \ {w} : req'[v] = req[v]
           /\ UNCHANGED <<tenants, tokens, cache, runs, muddled>> /\ load' \in LoadType /\ Steady
           /\ Proper(req'[w], Len(accounts'), tokens') /\ Alike(req'[w], req[w])
           /\ \/ /\ req[w].op \in {"resend", "forgot"}
                 /\ req'[w].todo \in {<<"verification">>, <<"resetToken">>}
              \/ req[w].op = "signup" /\ req'[w].todo = <<>>
              \/ /\ req[w].op = "reset" /\ req[w].todo = <<"revokeAll">> /\ req'[w].todo = <<>>
                 /\ req[w].acc \in DOMAIN accounts /\ accounts'[req[w].acc].unrevoked
<1> DEFINE r == req[w]
<1>1. /\ Proceed(w, r) /\ UNCHANGED <<tenants, tokens, cache, runs, muddled>>
      /\ load.faults > 0 /\ load' = [load EXCEPT !.faults = load.faults - 1]
      /\ accounts' = IF At(w, "revokeAll") THEN [accounts EXCEPT ![r.acc].unrevoked = TRUE] ELSE accounts
      /\ At(w, "invalidate") \/ At(w, "revokeAll") \/ (At(w, "verification") /\ r.op = "signup")
  BY DEF Ignore
<1>2. \/ At(w, "invalidate") /\ r.op = "resend" /\ r.todo = <<"invalidate", "verification">>
      \/ At(w, "invalidate") /\ r.op = "forgot" /\ r.todo = <<"invalidate", "resetToken">>
      \/ At(w, "verification") /\ r.op = "signup" /\ r.todo = <<"verification">>
      \/ At(w, "revokeAll") /\ r.op = "reset" /\ r.todo = <<"revokeAll">>
  BY <1>1, AtCalls, CallsLeft
<1>3. /\ Busy(w) /\ r.todo # <<>> /\ Proper(r, Len(accounts), tokens) /\ Request(r) /\ r.op \in Ops
      /\ Alike(r, r) /\ r.acc \in 0..Len(accounts) /\ Len(accounts) \in Nat
  BY <1>1, AtCalls
<1>4. load' \in LoadType
  <2>1. load \in LoadType /\ load.faults \in Nat
    BY DEF Typed, LoadType
  <2>2. load.faults - 1 \in Nat
    BY <1>1, <2>1
  <2> QED BY <1>1, <2>1, <2>2 DEF LoadType
<1>5. accounts \in Seq(User) /\ tokens \in Seq(TokenDoc)
  BY DEF Typed
<1>6. ASSUME Steady PROVE Grow /\ Len(accounts') = Len(accounts)
  <2>1. accounts' \in Seq(User) /\ Len(accounts') = Len(accounts) /\ Len(accounts) <= Len(accounts')
    BY <1>3, <1>6 DEF Steady, Kept
  <2>2. Older(0)
    BY <1>1, <1>5, TokensSame
  <2> QED BY <2>1, <2>2, OlderGrows
<1>7. CASE ~At(w, "revokeAll")
  <2>1. Steady
    BY <1>1, <1>5, <1>7, AccountsSame DEF Steady
  <2>2. \/ r.op \in {"resend", "forgot"} /\ Tail(r.todo) \in {<<"verification">>, <<"resetToken">>}
        \/ r.op = "signup" /\ Tail(r.todo) = <<>>
    <3>1. CASE r.todo = <<"invalidate", "verification">>
      BY <1>2, <1>7, <3>1
    <3>2. CASE r.todo = <<"invalidate", "resetToken">>
      BY <1>2, <1>7, <3>2
    <3>3. CASE r.todo = <<"verification">>
      BY <1>2, <1>7, <3>3
    <3> QED BY <1>2, <1>7, <3>1, <3>2, <3>3
  <2>3. Tail(r.todo) \notin Storing
    <3>1. {<<"verification">>, <<"resetToken">>, <<>>} \cap Storing = {}
      BY DEF Storing
    <3> QED BY <2>2, <3>1
  <2>4. r.op # "reset" /\ (r.acc = 0 => ~Known(req'[w]))
    <3>1. r.op \in {"resend", "forgot"} => Head(Steps(r.op)) # "invalidate"
      BY DEF Steps, SessionSteps, SignupSteps, PasswordSteps, ResetSteps, InviteSteps, UserSteps
    <3>2. r.op \in {"resend", "forgot"} => Known(r)
      BY <1>1, <1>2, <1>7, <3>1, AtCalls DEF Known
    <3>3. r.op = "signup" => Head(Steps(r.op)) # "verification"
      BY DEF Steps, SessionSteps, SignupSteps, PasswordSteps, ResetSteps, InviteSteps, UserSteps
    <3>4. r.op = "signup" => Known(r)
      BY <1>1, <1>2, <1>7, <3>3, AtCalls DEF Known
    <3> QED BY <1>3, <2>2, <3>2, <3>4 DEF Proper
  <2>5. /\ Follow(w) /\ Proper(req'[w], Len(accounts'), tokens') /\ Alike(req'[w], r)
        /\ req'[w].todo = Tail(r.todo) /\ \A v \in Workers \ {w} : req'[v] = req[v]
    BY <1>1, <1>3, <1>6, <2>1, <2>3, <2>4, GoesOn
  <2> QED BY <1>1, <1>3, <1>4, <2>1, <2>2, <2>5
<1>8. CASE At(w, "revokeAll")
  <2>1. r.op = "reset" /\ r.todo = <<"revokeAll">> /\ Tail(r.todo) = <<>>
    <3>1. r.op = "reset" /\ r.todo = <<"revokeAll">>
      BY <1>2, <1>8 DEF At
    <3> QED BY <3>1
  <2>2. <<>> \in Done /\ <<>> \notin Storing /\ <<"revokeAll">> \in Done
    BY DEF Done, Storing
  <2>3. r.did /\ r.acc # 0 /\ r.acc \in DOMAIN accounts
    <3>1. Known(r)
      BY <1>3, <2>1, <2>2, StepsLeft DEF Known, Redeemers
    <3> QED BY <1>3, <1>5, <2>1, <2>2, <3>1 DEF Proper
  <2> DEFINE a == [accounts[r.acc] EXCEPT !.unrevoked = TRUE]
  <2>4. /\ a \in User /\ a.tenant = accounts[r.acc].tenant /\ a.by = accounts[r.acc].by
        /\ a.status = accounts[r.acc].status /\ a.era = accounts[r.acc].era /\ a.unrevoked
    <3>1. accounts[r.acc] \in User
      BY <1>5, <2>3
    <3> QED BY <3>1 DEF User
  <2>5. accounts' = [accounts EXCEPT ![r.acc] = a]
    BY <1>1, <1>8
  <2> HIDE DEF a
  <2>6. Kept /\ accounts'[r.acc] = a /\ \A i \in DOMAIN accounts \ {r.acc} : accounts'[i] = accounts[i]
    BY <1>5, <2>3, <2>4, <2>5, AccountsEdited
  <2>7. Steady
    BY <2>3, <2>4, <2>6 DEF Steady
  <2>8. /\ Follow(w) /\ Proper(req'[w], Len(accounts'), tokens') /\ Alike(req'[w], r)
        /\ req'[w].todo = Tail(r.todo) /\ \A v \in Workers \ {w} : req'[v] = req[v]
    BY <1>1, <1>3, <1>6, <2>1, <2>2, <2>3, <2>7, GoesOn
  <2> QED BY <1>1, <1>3, <1>4, <2>1, <2>3, <2>4, <2>6, <2>7, <2>8
<1> QED BY <1>7, <1>8

\* An answer runs out.
LEMMA Forgets ==
    ASSUME Typed, Forget
    PROVE  /\ UNCHANGED <<accounts, tenants, tokens, req, muddled>> /\ load' \in LoadType
           /\ cache' = [k \in Keys |-> cache'[k]] /\ runs' \in [Keys -> Nat]
           /\ \A k \in Keys : (cache'[k] = cache[k] /\ runs'[k] = runs[k])
                             \/ (cache[k] # <<>> /\ cache'[k] = <<>> /\ runs'[k] = 0)
<1>1. /\ UNCHANGED <<accounts, tenants, tokens, req, muddled>>
      /\ load' = [load EXCEPT !.expire = FALSE]
  BY DEF Forget
<1>2. PICK n \in Keys : /\ cache[n] # <<>> /\ cache' = [cache EXCEPT ![n] = <<>>]
                        /\ runs' = [runs EXCEPT ![n] = 0]
  BY DEF Forget
<1>3. load' \in LoadType
  <2>1. load \in LoadType
    BY DEF Typed
  <2> QED BY <1>1, <2>1 DEF LoadType
<1>4. cache' = [k \in Keys |-> cache'[k]] /\ runs' \in [Keys -> Nat]
  BY <1>2 DEF Typed
<1>5. ASSUME NEW k \in Keys
      PROVE  (cache'[k] = cache[k] /\ runs'[k] = runs[k])
             \/ (cache[k] # <<>> /\ cache'[k] = <<>> /\ runs'[k] = 0)
  <2>1. CASE k = n
    BY <1>2, <2>1 DEF Typed
  <2>2. CASE k # n
    BY <1>2, <2>2 DEF Typed
  <2> QED BY <2>1, <2>2
<1> QED BY <1>1, <1>3, <1>4, <1>5

LEMMA Expires ==
    ASSUME Typed, Expire
    PROVE  /\ UNCHANGED <<accounts, tenants, cache, req, runs, muddled>> /\ load' \in LoadType
           /\ Older(0) /\ Idly /\ DOMAIN tokens' = DOMAIN tokens
<1>1. /\ UNCHANGED <<accounts, tenants, cache, req, runs, muddled>>
      /\ load' = [load EXCEPT !.expire = FALSE]
  BY DEF Expire
<1>2. PICK n \in DOMAIN tokens : tokens' = [tokens EXCEPT ![n].spent = TRUE]
  BY DEF Expire
<1>3. tokens \in Seq(TokenDoc) /\ load \in LoadType
  BY DEF Typed
<1>4. load' \in LoadType
  BY <1>1, <1>3 DEF LoadType
<1> DEFINE S == {n}
<1>5. tokens' = [i \in DOMAIN tokens |->
                   IF i \in S THEN [tokens[i] EXCEPT !.spent = TRUE] ELSE tokens[i]]
  BY <1>2, <1>3
<1> HIDE DEF S
<1> QED BY <1>1, <1>3, <1>4, <1>5, TokensSpent

Finders == {"login", "signup", "resend", "forgot", "invite"}

\* The calls after the account was looked for.
LEMMA SearchCalls ==
    ASSUME NEW op \in Finders
    PROVE  \/ op = "login" /\ Tail(Steps(op)) = <<"issue">>
           \/ op = "signup" /\ Tail(Steps(op)) = <<"createTenant", "createUser", "verification">>
           \/ op = "resend" /\ Tail(Steps(op)) = <<"invalidate", "verification">>
           \/ op = "forgot" /\ Tail(Steps(op)) = <<"invalidate", "resetToken">>
           \/ op = "invite" /\ Tail(Steps(op)) = <<"invitation">>
<1>1. CASE op = "login"
  <2>1. Steps(op) = <<"findByEmail", "issue">>
    BY <1>1 DEF Steps, SessionSteps, SignupSteps, PasswordSteps, ResetSteps, InviteSteps, UserSteps
  <2>2. Tail(Steps(op)) = <<"issue">>
    BY <2>1
  <2> QED BY <1>1, <2>2
<1>2. CASE op = "signup"
  <2>1. Steps(op) = <<"findByEmail", "createTenant", "createUser", "verification">>
    BY <1>2 DEF Steps, SessionSteps, SignupSteps, PasswordSteps, ResetSteps, InviteSteps, UserSteps
  <2>2. Tail(Steps(op)) = <<"createTenant", "createUser", "verification">>
    BY <2>1
  <2> QED BY <1>2, <2>2
<1>3. CASE op = "resend"
  <2>1. Steps(op) = <<"findByEmail", "invalidate", "verification">>
    BY <1>3 DEF Steps, SessionSteps, SignupSteps, PasswordSteps, ResetSteps, InviteSteps, UserSteps
  <2>2. Tail(Steps(op)) = <<"invalidate", "verification">>
    BY <2>1
  <2> QED BY <1>3, <2>2
<1>4. CASE op = "forgot"
  <2>1. Steps(op) = <<"findByEmail", "invalidate", "resetToken">>
    BY <1>4 DEF Steps, SessionSteps, SignupSteps, PasswordSteps, ResetSteps, InviteSteps, UserSteps
  <2>2. Tail(Steps(op)) = <<"invalidate", "resetToken">>
    BY <2>1
  <2> QED BY <1>4, <2>2
<1>5. CASE op = "invite"
  <2>1. Steps(op) = <<"findByEmail", "invitation">>
    BY <1>5 DEF Steps, SessionSteps, SignupSteps, PasswordSteps, ResetSteps, InviteSteps, UserSteps
  <2>2. Tail(Steps(op)) = <<"invitation">>
    BY <2>1
  <2> QED BY <1>5, <2>2
<1> QED BY <1>1, <1>2, <1>3, <1>4, <1>5 DEF Finders

LEMMA FindsByEmail ==
    ASSUME Typed, NEW w \in Workers, FindByEmail(w)
    PROVE  LET r == req[w] q == req'[w]
           IN  /\ Busy(w) /\ Follow(w) /\ \A v \in Workers \ {w} : req'[v] = req[v]
               /\ UNCHANGED <<accounts, tenants, tokens, cache, runs, load>>
               /\ r.op \in Finders /\ r.t = 0 /\ r.todo = Steps(r.op)
               /\ muddled' = IF /\ r.op = "signup" /\ Stored = {}
                                /\ \E v \in Others(w) : Contains(req[v].todo, "createUser") /\ ~At(v, "findByEmail")
                             THEN muddled \cup {<<"email">>} ELSE muddled
               /\ \/ q = Idle
                  \/ /\ Proper(q, Len(accounts), tokens) /\ Alike(q, r)
                     /\ q.todo \in Issuing => q.acc \in DOMAIN accounts /\ q.era = accounts[q.acc].era
                     /\ q.todo \in Signing => Stored = {}
<1> DEFINE r == req[w] q == req'[w]
           with(i) == [r EXCEPT !.acc = i, !.era = accounts[i].era]
           found == {i \in Stored : r.op = "invite" => accounts[i].tenant = 1}
<1>1. /\ At(w, "findByEmail") /\ UNCHANGED <<accounts, tenants, tokens, cache, runs, load>>
      /\ muddled' = IF /\ r.op = "signup" /\ Stored = {}
                       /\ \E v \in Others(w) : Contains(req[v].todo, "createUser") /\ ~At(v, "findByEmail")
                    THEN muddled \cup {<<"email">>} ELSE muddled
  BY DEF FindByEmail
<1>2. /\ Busy(w) /\ r.todo # <<>> /\ Proper(r, Len(accounts), tokens) /\ Request(r) /\ Alike(r, r)
      /\ r.op \in Ops /\ r.acc \in 0..Len(accounts) /\ Len(accounts) \in Nat
  BY <1>1, AtCalls
<1>3. r.op \in Finders /\ r.todo = Steps(r.op)
  BY <1>1, AtCalls, CallsLeft DEF Finders
<1>4. r.t = 0 /\ r.op \notin Redeemers /\ r.op # "reset"
  BY <1>2, <1>3 DEF Proper, Redeemers, Finders
<1>5. ASSUME Request(q), Alike(q, r), q.acc \in 0..Len(accounts), Known(q) => q.acc # 0, q.todo \notin Storing
      PROVE  Proper(q, Len(accounts), tokens)
  BY <1>4, <1>5 DEF Proper, Alike
<1>6. ASSUME NEW i \in Stored
      PROVE  /\ Request(with(i)) /\ Alike(with(i), r) /\ with(i).acc = i /\ with(i).era = accounts[i].era
             /\ i \in DOMAIN accounts /\ i # 0 /\ i \in 0..Len(accounts)
  <2>1. i \in DOMAIN accounts /\ accounts[i].era \in Nat /\ i \in Nat /\ i # 0 /\ i \in 0..Len(accounts)
    <3>1. accounts \in Seq(User) /\ i \in DOMAIN accounts
      BY <1>6 DEF Stored, Typed
    <3>2. accounts[i] \in User /\ i \in Nat /\ i # 0 /\ i \in 0..Len(accounts)
      BY <3>1
    <3> QED BY <3>1, <3>2 DEF User
  <2> QED BY <1>2, <2>1 DEF Request, Alike
<1>7. CASE Refuse(w)
  BY <1>1, <1>2, <1>3, <1>4, <1>7, Ends
<1>8. <<>> \in Todos(r.op) /\ <<"verification">> \in Todos("signup")
  BY <1>2, StepsLeft DEF Todos, Edits
<1>9. CASE Succeed(w)
  <2>1. req' = [req EXCEPT ![w] = [r EXCEPT !.todo = <<>>]]
    BY <1>9 DEF Succeed
  <2>2. /\ Follow(w) /\ Request(q) /\ q.todo = <<>> /\ Alike(q, r) /\ q.acc = r.acc
        /\ \A v \in Workers \ {w} : req'[v] = req[v]
    BY <1>2, <1>8, <2>1, CutShort
  <2>3. ~Known(q)
    BY <1>4, <2>2 DEF Known, Alike
  <2>4. Proper(q, Len(accounts), tokens)
    BY <1>2, <1>5, <2>2, <2>3 DEF Storing
  <2> QED BY <1>1, <1>2, <1>3, <1>4, <2>2, <2>4 DEF Issuing, Signing
<1> HIDE DEF with
<1>10. ASSUME NEW i \in Stored, r.op = "signup",
              req' = [req EXCEPT ![w] = [with(i) EXCEPT !.todo = <<"verification">>]]
       PROVE  /\ Follow(w) /\ Alike(q, r) /\ \A v \in Workers \ {w} : req'[v] = req[v]
              /\ Proper(q, Len(accounts), tokens) /\ q.todo \notin Issuing \cup Signing
  <2>1. /\ Follow(w) /\ Request(q) /\ q.todo = <<"verification">> /\ Alike(q, with(i))
        /\ q.acc = with(i).acc /\ \A v \in Workers \ {w} : req'[v] = req[v]
    <3>1. <<"verification">> \in Todos(with(i).op) /\ with(i).op = r.op
      BY <1>6, <1>8, <1>10 DEF Alike
    <3> QED BY <1>2, <1>6, <1>10, <3>1, CutShort
  <2>2. Alike(q, r)
    BY <1>6, <2>1 DEF Alike
  <2>3. Proper(q, Len(accounts), tokens)
    BY <1>5, <1>6, <2>1, <2>2 DEF Storing
  <2> QED BY <2>1, <2>2, <2>3 DEF Issuing, Signing
<1>11. ASSUME r.op \in {"signup", "invite"}, found = {}, Proceed(w, r)
       PROVE  /\ Follow(w) /\ Alike(q, r) /\ \A v \in Workers \ {w} : req'[v] = req[v]
              /\ Proper(q, Len(accounts), tokens) /\ q.todo \notin Issuing
              /\ q.todo \in Signing => Stored = {}
  <2>1. /\ Follow(w) /\ Request(q) /\ q.todo = Tail(r.todo) /\ Alike(q, r) /\ q.acc = r.acc
        /\ \A v \in Workers \ {w} : req'[v] = req[v]
    BY <1>2, <1>11, Proceeds
  <2>2. \/ r.op = "signup" /\ q.todo = <<"createTenant", "createUser", "verification">>
        \/ r.op = "invite" /\ q.todo = <<"invitation">>
    BY <1>3, <1>11, <2>1, SearchCalls
  <2>3. ~Known(q)
    <3>1. q.op \in {"signup", "invite"}
      BY <1>11, <2>1 DEF Alike
    <3>2. q.todo # <<"verification">>
      BY <2>2
    <3> QED BY <3>1, <3>2 DEF Known, Redeemers
  <2>4. q.todo \notin Storing \cup Issuing
    BY <2>2 DEF Storing, Issuing
  <2>5. Proper(q, Len(accounts), tokens)
    BY <1>2, <1>5, <2>1, <2>3, <2>4
  <2>6. q.todo \in Signing => r.op = "signup"
    BY <2>2 DEF Signing
  <2> QED BY <1>11, <2>1, <2>4, <2>5, <2>6
<1>12. ASSUME NEW i \in Stored, r.op \in {"login", "resend", "forgot"}, Proceed(w, with(i))
       PROVE  /\ Follow(w) /\ Alike(q, r) /\ \A v \in Workers \ {w} : req'[v] = req[v]
              /\ Proper(q, Len(accounts), tokens) /\ q.todo \notin Signing
              /\ q.acc \in DOMAIN accounts /\ q.era = accounts[q.acc].era
  <2>1. /\ Follow(w) /\ Request(q) /\ q.todo = Tail(r.todo) /\ Alike(q, with(i)) /\ q.acc = with(i).acc
        /\ q.era = with(i).era /\ \A v \in Workers \ {w} : req'[v] = req[v]
    <3>1. with(i).op = r.op
      BY <1>6 DEF Alike
    <3> QED BY <1>2, <1>6, <1>12, <3>1, Proceeds
  <2>2. Alike(q, r)
    BY <1>6, <2>1 DEF Alike
  <2>3. q.todo \in {<<"issue">>, <<"invalidate", "verification">>, <<"invalidate", "resetToken">>}
    BY <1>3, <1>12, <2>1, SearchCalls
  <2>4. q.todo \notin Storing \cup Signing
    BY <2>3 DEF Storing, Signing
  <2>5. Proper(q, Len(accounts), tokens)
    BY <1>5, <1>6, <2>1, <2>2, <2>4
  <2> QED BY <1>6, <2>1, <2>2, <2>4, <2>5
<1>13. \/ Refuse(w) \/ Succeed(w)
       \/ r.op \in {"signup", "invite"} /\ found = {} /\ Proceed(w, r)
       \/ \E i \in Stored : r.op = "signup" /\ req' = [req EXCEPT ![w] = [with(i) EXCEPT !.todo = <<"verification">>]]
       \/ \E i \in Stored : r.op \in {"login", "resend", "forgot"} /\ Proceed(w, with(i))
  BY <1>3 DEF FindByEmail, with, Finders
<1> QED BY <1>1, <1>2, <1>3, <1>4, <1>7, <1>9, <1>10, <1>11, <1>12, <1>13

LEMMA CreatesTenant ==
    ASSUME Typed, NEW w \in Workers, CreateTenant(w)
    PROVE  /\ Busy(w) /\ Follow(w) /\ \A v \in Workers \ {w} : req'[v] = req[v]
           /\ UNCHANGED <<accounts, tokens, cache, runs, muddled, load>> /\ tenants' \in Nat
           /\ Proper(req'[w], Len(accounts'), tokens') /\ Alike(req'[w], req[w])
           /\ req[w].op = "signup" /\ req[w].t = 0
           /\ req[w].todo = <<"createTenant", "createUser", "verification">>
           /\ req'[w].todo = <<"createUser", "verification">>
<1> DEFINE r == [req[w] EXCEPT !.tenant = tenants + 1]
<1>1. /\ At(w, "createTenant") /\ Proceed(w, r) /\ tenants' = tenants + 1
      /\ UNCHANGED <<accounts, tokens, cache, runs, muddled, load>>
  BY DEF CreateTenant
<1>2. req[w].op = "signup" /\ req[w].todo = <<"createTenant", "createUser", "verification">>
  BY <1>1, AtCalls, CallsLeft
<1>3. /\ Busy(w) /\ req[w].todo # <<>> /\ Proper(req[w], Len(accounts), tokens) /\ Request(req[w])
      /\ req[w].acc \in 0..Len(accounts) /\ tenants \in Nat /\ req[w].t = 0
  BY <1>1, <1>2, AtCalls DEF Typed, Proper, Redeemers
<1>4. Request(r) /\ Alike(r, req[w]) /\ r.acc = req[w].acc /\ r.op = "signup"
  BY <1>2, <1>3 DEF Request, Alike
<1> HIDE DEF r
<1>5. Tail(req[w].todo) = <<"createUser", "verification">>
  BY <1>2
<1>6. Grow
  BY <1>1, TokensSame, OlderSame DEF Typed
<1>7. /\ Tail(req[w].todo) \notin Storing /\ ~Known(req'[w])
  <2>1. req'[w].op = "signup" /\ req'[w].todo = <<"createUser", "verification">>
    BY <1>1, <1>2, <1>3, <1>4, <1>5, Proceeds DEF Alike
  <2>2. req'[w].todo # <<"verification">>
    BY <2>1
  <2> QED BY <1>5, <2>1, <2>2 DEF Storing, Known, Redeemers
<1>8. r.acc \in 0..Len(accounts')
  BY <1>1, <1>3, <1>4
<1>9. /\ Follow(w) /\ Proper(req'[w], Len(accounts'), tokens') /\ Alike(req'[w], req[w])
      /\ req'[w].todo = Tail(req[w].todo) /\ \A v \in Workers \ {w} : req'[v] = req[v]
  BY <1>1, <1>3, <1>4, <1>6, <1>7, <1>8, GoesOn
<1> QED BY <1>1, <1>2, <1>3, <1>5, <1>9

\* A user is added to a tenant that has none of the email.
LEMMA CreatesUser ==
    ASSUME Typed, NEW w \in Workers, CreateUser(w)
    PROVE  /\ Busy(w) /\ Follow(w) /\ \A v \in Workers \ {w} : req'[v] = req[v]
           /\ UNCHANGED <<tenants, cache, runs, muddled, load>>
           /\ \/ req[w].op = "signup" /\ req[w].todo = <<"createUser", "verification">>
              \/ req[w].op = "accept" /\ req[w].todo = <<"createUser", "mark">>
              \/ req[w].op = "create" /\ req[w].todo = <<"createUser">>
           /\ \/ req'[w] = Idle /\ accounts' = accounts /\ tokens' = tokens
              \/ /\ Proper(req'[w], Len(accounts'), tokens') /\ Alike(req'[w], req[w])
                 /\ req'[w].todo = Tail(req[w].todo) /\ req'[w].did
                 /\ accounts' \in Seq(User) /\ Len(accounts') = Len(accounts) + 1
                 /\ DOMAIN accounts' = DOMAIN accounts \cup {Len(accounts) + 1}
                 /\ Len(accounts) + 1 \notin DOMAIN accounts
                 /\ \A i \in DOMAIN accounts : accounts'[i] = accounts[i]
                 /\ accounts'[Len(accounts) + 1].by = req[w].op
                 /\ \A i \in Stored : accounts[i].tenant # accounts'[Len(accounts) + 1].tenant
                 /\ Older(0) /\ Uses(req[w].t) /\ DOMAIN tokens' = DOMAIN tokens
                 /\ \A t \in DOMAIN tokens : tokens'[t].spent = tokens[t].spent
<1> DEFINE r == [req[w] EXCEPT !.acc = Len(accounts) + 1, !.did = TRUE]
<1>1. At(w, "createUser") /\ UNCHANGED <<tenants, cache, runs, muddled, load>>
  BY DEF CreateUser
<1>2. \/ req[w].op = "signup" /\ req[w].todo = <<"createUser", "verification">>
      \/ req[w].op = "accept" /\ req[w].todo = <<"createUser", "mark">>
      \/ req[w].op = "create" /\ req[w].todo = <<"createUser">>
  BY <1>1, AtCalls, CallsLeft
<1>3. /\ Busy(w) /\ req[w].todo # <<>> /\ Proper(req[w], Len(accounts), tokens) /\ Request(req[w])
      /\ req[w].t \in 0..Len(tokens) /\ Len(accounts) \in Nat
  BY <1>1, AtCalls
<1>4. CASE \E i \in Stored : accounts[i].tenant = NewAccount(w).tenant
  <2>1. Refuse(w) /\ UNCHANGED <<accounts, tokens>>
    BY <1>4 DEF CreateUser
  <2> QED BY <1>1, <1>2, <1>3, <2>1, Ends
<1>5. CASE ~\E i \in Stored : accounts[i].tenant = NewAccount(w).tenant
  <2>1. accounts' = Append(accounts, NewAccount(w)) /\ tokens' = Used(req[w].t) /\ Proceed(w, r)
    BY <1>5 DEF CreateUser
  <2>2. Request(r) /\ Alike(r, req[w]) /\ r.acc = Len(accounts) + 1 /\ r.op = req[w].op /\ r.did
    <3> DEFINE n == Len(accounts) + 1
    <3>1. n \in Nat
      BY <1>3
    <3> HIDE DEF n
    <3>2. LET q == [req[w] EXCEPT !.acc = n, !.did = TRUE]
          IN  Request(q) /\ Alike(q, req[w]) /\ q.acc = n /\ q.op = req[w].op /\ q.did
      BY <1>3, <3>1 DEF Request, Alike
    <3> QED BY <3>2 DEF n
  <2> HIDE DEF r
  <2>3. NewAccount(w) \in User /\ NewAccount(w).by = req[w].op
    <3>1. req[w].tenant \in Nat /\ req[w].pw \in Passwords /\ req[w].new \in Passwords
      BY <1>3 DEF Request
    <3>2. CASE req[w].op = "signup"
      BY <3>1, <3>2 DEF NewAccount, Account, User, Statuses
    <3>3. CASE req[w].op \in {"accept", "create"}
      BY <3>1, <3>3 DEF NewAccount, Account, User, Statuses
    <3> QED BY <1>2, <3>2, <3>3
  <2>4. accounts \in Seq(User) /\ tokens \in Seq(TokenDoc)
    BY DEF Typed
  <2>5. /\ accounts' \in Seq(User) /\ Len(accounts') = Len(accounts) + 1
        /\ DOMAIN accounts' = DOMAIN accounts \cup {Len(accounts) + 1}
        /\ Len(accounts) + 1 \notin DOMAIN accounts
        /\ \A i \in DOMAIN accounts : accounts'[i] = accounts[i]
        /\ accounts'[Len(accounts) + 1] = NewAccount(w)
    BY <1>3, <2>1, <2>3, <2>4
  <2>6. /\ Older(0) /\ Uses(req[w].t) /\ DOMAIN tokens' = DOMAIN tokens
        /\ \A t \in DOMAIN tokens : tokens'[t].spent = tokens[t].spent
    BY <1>3, <2>1, <2>4, TokensUse
  <2>7. Grow
    BY <1>3, <2>5, <2>6, OlderGrows
  <2>8. Tail(req[w].todo) \notin Storing /\ req[w].op # "reset"
    <3>1. \/ Tail(req[w].todo) = <<"verification">>
          \/ Tail(req[w].todo) = <<"mark">>
          \/ Tail(req[w].todo) = <<>>
      <4>1. /\ Tail(<<"createUser", "verification">>) = <<"verification">>
            /\ Tail(<<"createUser", "mark">>) = <<"mark">> /\ Tail(<<"createUser">>) = <<>>
        OBVIOUS
      <4>2. CASE req[w].todo = <<"createUser", "verification">>
        BY <4>1, <4>2
      <4>3. CASE req[w].todo = <<"createUser", "mark">>
        BY <4>1, <4>3
      <4>4. CASE req[w].todo = <<"createUser">>
        BY <4>1, <4>4
      <4> QED BY <1>2, <4>2, <4>3, <4>4
    <3>2. req[w].op # "reset"
      BY <1>2
    <3>3. {<<"verification">>, <<"mark">>, <<>>} \cap Storing = {}
      BY DEF Storing
    <3> QED BY <3>1, <3>2, <3>3
  <2>9. r.acc \in 0..Len(accounts') /\ r.acc # 0
    BY <1>3, <2>2, <2>5
  <2>10. /\ Follow(w) /\ Proper(req'[w], Len(accounts'), tokens') /\ Alike(req'[w], req[w])
         /\ req'[w].todo = Tail(req[w].todo) /\ req'[w].did = r.did
         /\ \A v \in Workers \ {w} : req'[v] = req[v]
    BY <1>3, <2>1, <2>2, <2>7, <2>8, <2>9, GoesOn
  <2> QED BY <1>1, <1>2, <1>3, <1>5, <2>2, <2>3, <2>5, <2>6, <2>10
<1> QED BY <1>4, <1>5

\* What an account has of a document that is not deleted is loaded.
LEMMA Loads ==
    ASSUME Typed, NEW w \in Workers, Load(w)
    PROVE  LET r == req[w] q == req'[w]
           IN  /\ Busy(w) /\ Follow(w) /\ \A v \in Workers \ {w} : req'[v] = req[v]
               /\ UNCHANGED <<accounts, tenants, tokens, cache, runs, muddled, load>>
               /\ \/ r.op = "refresh" /\ r.todo = <<"load", "issue">>
                  \/ r.op = "verify" /\ r.todo = <<"load", "store", "mark">>
                  \/ r.op = "reset" /\ r.todo = <<"load", "store", "mark", "revokeAll">>
                  \/ r.op \in Edits /\ r.todo = <<"load", "store">>
               /\ \/ q = Idle
                  \/ /\ Proper(q, Len(accounts), tokens) /\ Alike(q, r)
                     /\ q.todo = Tail(r.todo) \/ (r.op = "verify" /\ q.todo = <<"mark">>)
                     /\ q.acc = r.acc /\ q.era = r.era /\ q.late = r.late /\ q.did = r.did
<1> DEFINE r == req[w] q == req'[w]
           doc == [status |-> accounts[r.acc].status, pw |-> accounts[r.acc].pw]
           next == [r EXCEPT !.doc = doc]
<1>1. /\ At(w, "load") /\ UNCHANGED <<accounts, tenants, tokens, cache, runs, muddled, load>>
      /\ \/ Refuse(w)
         \/ r.acc \in Stored /\ r.op = "verify" /\ req' = [req EXCEPT ![w] = [next EXCEPT !.todo = <<"mark">>]]
         \/ r.acc \in Stored /\ Proceed(w, next)
  BY DEF Load
<1>2. /\ Busy(w) /\ r.todo # <<>> /\ Proper(r, Len(accounts), tokens) /\ Request(r)
      /\ r.op \in Ops /\ r.acc \in 0..Len(accounts) /\ Len(accounts) \in Nat
  BY <1>1, AtCalls
<1>3. \/ r.op = "refresh" /\ r.todo = <<"load", "issue">>
      \/ r.op = "verify" /\ r.todo = <<"load", "store", "mark">>
      \/ r.op = "reset" /\ r.todo = <<"load", "store", "mark", "revokeAll">>
      \/ r.op \in Edits /\ r.todo = <<"load", "store">>
  BY <1>1, AtCalls, CallsLeft
<1>4. CASE Refuse(w)
  BY <1>1, <1>2, <1>3, <1>4, Ends
<1>5. ASSUME r.acc \in Stored
      PROVE  /\ Request(next) /\ Alike(next, r) /\ next.op = r.op /\ next.acc = r.acc /\ next.era = r.era
             /\ next.late = r.late /\ next.did = r.did /\ next.doc.status \in Statuses \ {"deleted"}
             /\ r.acc # 0
  <2>1. accounts \in Seq(User) /\ r.acc \in DOMAIN accounts /\ accounts[r.acc].status # "deleted"
    BY <1>5 DEF Stored, Typed
  <2>2. accounts[r.acc] \in User /\ r.acc # 0
    BY <2>1
  <2>3. doc \in DocType /\ doc.status = accounts[r.acc].status /\ doc.status \in Statuses \ {"deleted"}
    BY <2>1, <2>2 DEF User, DocType
  <2> HIDE DEF doc
  <2> QED BY <1>2, <2>2, <2>3 DEF Request, Alike
<1> HIDE DEF next
<1>6. r.op = "reset" => r.did = FALSE /\ Tail(r.todo) \notin Done
  <2>1. ASSUME r.op = "reset"
        PROVE  r.todo = <<"load", "store", "mark", "revokeAll">> /\ (r.did <=> r.todo \in Done)
    BY <1>2, <1>3, <2>1 DEF Proper, Edits
  <2>2. /\ <<"load", "store", "mark", "revokeAll">> \notin Done
        /\ Tail(<<"load", "store", "mark", "revokeAll">>) = <<"store", "mark", "revokeAll">>
        /\ <<"store", "mark", "revokeAll">> \notin Done
    BY DEF Done
  <2>3. r.did \in BOOLEAN
    BY <1>2 DEF Request
  <2> QED BY <2>1, <2>2, <2>3
<1>7. CASE r.acc \in Stored /\ r.op = "verify" /\ req' = [req EXCEPT ![w] = [next EXCEPT !.todo = <<"mark">>]]
  <2>1. <<"mark">> \in Todos(next.op)
    BY <1>5, <1>7 DEF Todos, Edits
  <2>2. /\ Follow(w) /\ Request(q) /\ q.todo = <<"mark">> /\ Alike(q, next)
        /\ q.acc = next.acc /\ q.era = next.era /\ q.late = next.late /\ q.did = next.did
        /\ \A v \in Workers \ {w} : req'[v] = req[v]
    BY <1>2, <1>5, <1>7, <2>1, CutShort
  <2>3. Alike(q, r) /\ q.op = "verify" /\ q.todo \notin Storing
    <3>1. <<"mark">> \notin Storing
      BY DEF Storing
    <3> QED BY <1>5, <1>7, <2>2, <3>1 DEF Alike
  <2>4. Proper(q, Len(accounts), tokens)
    BY <1>2, <1>5, <1>7, <2>2, <2>3 DEF Proper, Alike
  <2> QED BY <1>1, <1>2, <1>3, <1>5, <1>7, <2>2, <2>3, <2>4
<1>8. CASE r.acc \in Stored /\ Proceed(w, next)
  <2>1. Grow
    BY <1>1, TokensSame, OlderSame DEF Typed
  <2>2. next.acc \in 0..Len(accounts') /\ next.acc # 0
    BY <1>1, <1>2, <1>5, <1>8
  <2>3. next.op = "reset" => (next.did <=> Tail(r.todo) \in Done)
    BY <1>5, <1>6, <1>8
  <2>4. /\ Follow(w) /\ Proper(q, Len(accounts'), tokens') /\ Alike(q, r)
        /\ q.todo = Tail(r.todo) /\ q.acc = next.acc /\ q.era = next.era
        /\ q.late = next.late /\ q.did = next.did /\ \A v \in Workers \ {w} : req'[v] = req[v]
    BY <1>2, <1>5, <1>8, <2>1, <2>2, <2>3, GoesOn
  <2> QED BY <1>1, <1>2, <1>3, <1>5, <1>8, <2>4
<1> QED BY <1>1, <1>4, <1>7, <1>8

\* What is written back is a document of the collection, and none is deleted by it.
LEMMA EditedDocs ==
    ASSUME NEW r, Request(r), r.doc.status \in Statuses \ {"deleted"}
    PROVE  Edited(r).status \in Statuses \ {"deleted"} /\ Edited(r).pw \in Passwords
<1>1. r.doc \in DocType /\ r.doc.pw \in Passwords /\ r.new \in Passwords
  BY DEF Request, DocType
<1>2. CASE r.op \in {"verify", "reset"}
  <2>1. /\ Edited(r).status = IF r.doc.status = "pending" THEN "active" ELSE r.doc.status
        /\ Edited(r).pw = IF r.op = "reset" THEN r.new ELSE r.doc.pw
    BY <1>2 DEF Edited
  <2> QED BY <1>1, <2>1 DEF Statuses
<1>3. CASE r.op = "changePassword"
  BY <1>1, <1>3 DEF Edited, DocType
<1>4. CASE r.op = "enable"
  BY <1>1, <1>4 DEF Edited, DocType, Statuses
<1>5. CASE r.op = "disable"
  BY <1>1, <1>5 DEF Edited, DocType, Statuses
<1>6. CASE r.op \notin {"verify", "reset", "changePassword", "enable", "disable"}
  BY <1>1, <1>6 DEF Edited, DocType
<1> QED BY <1>2, <1>3, <1>4, <1>5, <1>6

\* The era of an account ends with a reset and with nothing else.
Reset(r) ==
    /\ Kept
    /\ \A i \in DOMAIN accounts :
          /\ accounts'[i].unrevoked = accounts[i].unrevoked
          /\ accounts'[i].era = IF r.op = "reset" /\ i = r.acc THEN accounts[i].era + 1 ELSE accounts[i].era

LEMMA Stores ==
    ASSUME Typed, NEW w \in Workers, Store(w)
    PROVE  LET r == req[w] q == req'[w]
           IN  /\ Busy(w) /\ Follow(w) /\ \A v \in Workers \ {w} : req'[v] = req[v]
               /\ UNCHANGED <<tenants, cache, runs, muddled, load>>
               /\ \/ r.op = "verify" /\ r.todo = <<"store", "mark">>
                  \/ r.op = "reset" /\ r.todo = <<"store", "mark", "revokeAll">>
                  \/ r.op \in Edits /\ r.todo = <<"store">>
               /\ \/ q = Idle /\ accounts' = accounts /\ tokens' = tokens
                  \/ /\ Proper(q, Len(accounts'), tokens') /\ Alike(q, r)
                     /\ q.todo = Tail(r.todo) /\ q.acc = r.acc /\ q.did
                     /\ r.acc \in DOMAIN accounts /\ Reset(r)
                     /\ Older(0) /\ Uses(r.t) /\ DOMAIN tokens' = DOMAIN tokens
                     /\ \A t \in DOMAIN tokens : tokens'[t].spent = tokens[t].spent
<1> DEFINE r == req[w] q == req'[w] a == accounts[r.acc]
           b == [a EXCEPT !.status = Edited(r).status, !.pw = Edited(r).pw,
                          !.era = IF r.op = "reset" THEN a.era + 1 ELSE a.era]
           n == [r EXCEPT !.did = TRUE]
<1>1. /\ At(w, "store") /\ UNCHANGED <<tenants, cache, runs, muddled, load>>
      /\ \/ Refuse(w) /\ accounts' = accounts /\ tokens' = tokens
         \/ /\ r.acc \in Stored /\ accounts' = [accounts EXCEPT ![r.acc] = b]
            /\ tokens' = Used(r.t) /\ Proceed(w, n)
  BY DEF Store
<1>2. /\ Busy(w) /\ r.todo # <<>> /\ Proper(r, Len(accounts), tokens) /\ Request(r)
      /\ r.op \in Ops /\ r.acc \in 0..Len(accounts) /\ Len(accounts) \in Nat /\ r.t \in 0..Len(tokens)
  BY <1>1, AtCalls
<1>3. \/ r.op = "verify" /\ r.todo = <<"store", "mark">>
      \/ r.op = "reset" /\ r.todo = <<"store", "mark", "revokeAll">>
      \/ r.op \in Edits /\ r.todo = <<"store">>
  BY <1>1, AtCalls, CallsLeft
<1>4. CASE Refuse(w) /\ accounts' = accounts /\ tokens' = tokens
  BY <1>1, <1>2, <1>3, <1>4, Ends
<1>5. CASE /\ r.acc \in Stored /\ accounts' = [accounts EXCEPT ![r.acc] = b]
           /\ tokens' = Used(r.t) /\ Proceed(w, n)
  <2>1. Edited(r).status \in Statuses \ {"deleted"} /\ Edited(r).pw \in Passwords
    <3>1. r.todo \in Storing
      BY <1>3 DEF Storing
    <3> QED BY <1>2, <3>1, EditedDocs DEF Proper
  <2>2. accounts \in Seq(User) /\ tokens \in Seq(TokenDoc) /\ r.acc \in DOMAIN accounts /\ a.status # "deleted"
    BY <1>5 DEF Stored, Typed
  <2>3. a \in User /\ r.acc # 0
    BY <2>2
  <2> DEFINE e == IF r.op = "reset" THEN a.era + 1 ELSE a.era
  <2>4. e \in Nat
    BY <2>3 DEF User
  <2> HIDE DEF e
  <2>5. b \in User /\ b.tenant = a.tenant /\ b.by = a.by /\ b.era = e /\ b.unrevoked = a.unrevoked
    <3>1. b = [a EXCEPT !.status = Edited(r).status, !.pw = Edited(r).pw, !.era = e]
      BY DEF e
    <3> HIDE DEF b
    <3> QED BY <2>1, <2>3, <2>4, <3>1 DEF User
  <2> HIDE DEF b
  <2>6. Kept /\ accounts'[r.acc] = b /\ \A i \in DOMAIN accounts \ {r.acc} : accounts'[i] = accounts[i]
    BY <1>5, <2>2, <2>5, AccountsEdited
  <2>7. Reset(r)
    BY <2>2, <2>5, <2>6 DEF Reset, e
  <2>8. /\ Older(0) /\ Uses(r.t) /\ DOMAIN tokens' = DOMAIN tokens
        /\ \A t \in DOMAIN tokens : tokens'[t].spent = tokens[t].spent
    BY <1>2, <1>5, <2>2, TokensUse
  <2>9. accounts' \in Seq(User) /\ Len(accounts') = Len(accounts)
    BY <2>6 DEF Kept
  <2>10. Grow
    BY <1>2, <2>8, <2>9, OlderGrows
  <2>11. Request(n) /\ Alike(n, r) /\ n.acc = r.acc /\ n.op = r.op /\ n.did
    BY <1>2 DEF Request, Alike
  <2> HIDE DEF n
  <2>12. Tail(r.todo) \notin Storing /\ (r.op = "reset" => Tail(r.todo) \in Done)
    <3>1. /\ Tail(<<"store", "mark">>) = <<"mark">> /\ Tail(<<"store">>) = <<>>
          /\ Tail(<<"store", "mark", "revokeAll">>) = <<"mark", "revokeAll">>
      OBVIOUS
    <3>2. {<<"mark">>, <<"mark", "revokeAll">>, <<>>} \cap Storing = {} /\ <<"mark", "revokeAll">> \in Done
      BY DEF Storing, Done
    <3>3. CASE r.op = "verify" /\ r.todo = <<"store", "mark">>
      BY <3>1, <3>2, <3>3
    <3>4. CASE r.op = "reset" /\ r.todo = <<"store", "mark", "revokeAll">>
      BY <3>1, <3>2, <3>4
    <3>5. CASE r.op \in Edits /\ r.todo = <<"store">>
      BY <3>1, <3>2, <3>5 DEF Edits
    <3> QED BY <1>3, <3>3, <3>4, <3>5
  <2>13. n.acc \in 0..Len(accounts') /\ n.acc # 0
    BY <1>2, <2>3, <2>9, <2>11
  <2>14. /\ Follow(w) /\ Proper(q, Len(accounts'), tokens') /\ Alike(q, r)
         /\ q.todo = Tail(r.todo) /\ q.acc = n.acc /\ q.did = n.did /\ \A v \in Workers \ {w} : req'[v] = req[v]
    BY <1>2, <1>5, <2>10, <2>11, <2>12, <2>13, GoesOn
  <2> QED BY <1>1, <1>2, <1>3, <2>2, <2>7, <2>8, <2>11, <2>14
<1> QED BY <1>1, <1>4, <1>5

LEMMA Deletes ==
    ASSUME Typed, NEW w \in Workers, Delete(w)
    PROVE  /\ Busy(w) /\ Follow(w) /\ \A v \in Workers \ {w} : req'[v] = req[v]
           /\ UNCHANGED <<tenants, tokens, cache, runs, muddled, load>>
           /\ req[w].op = "delete" /\ req[w].todo = <<"delete">>
           /\ \/ req'[w] = Idle /\ accounts' = accounts
              \/ /\ Proper(req'[w], Len(accounts'), tokens') /\ Alike(req'[w], req[w])
                 /\ req'[w].todo = <<>> /\ Steady
<1> DEFINE r == req[w] a == accounts[r.acc] b == [a EXCEPT !.status = "deleted"]
           n == [r EXCEPT !.did = TRUE]
<1>1. /\ At(w, "delete") /\ UNCHANGED <<tenants, tokens, cache, runs, muddled, load>>
      /\ \/ Refuse(w) /\ accounts' = accounts
         \/ r.acc \in Stored /\ accounts' = [accounts EXCEPT ![r.acc] = b] /\ Proceed(w, n)
  BY DEF Delete
<1>2. /\ Busy(w) /\ r.todo # <<>> /\ Proper(r, Len(accounts), tokens) /\ Request(r)
      /\ r.op \in Ops /\ r.acc \in 0..Len(accounts) /\ Len(accounts) \in Nat
  BY <1>1, AtCalls
<1>3. r.op = "delete" /\ r.todo = <<"delete">>
  BY <1>1, AtCalls, CallsLeft
<1>4. CASE Refuse(w) /\ accounts' = accounts
  BY <1>1, <1>2, <1>3, <1>4, Ends
<1>5. CASE r.acc \in Stored /\ accounts' = [accounts EXCEPT ![r.acc] = b] /\ Proceed(w, n)
  <2>1. accounts \in Seq(User) /\ tokens \in Seq(TokenDoc) /\ r.acc \in DOMAIN accounts
    BY <1>5 DEF Stored, Typed
  <2>2. a \in User /\ r.acc # 0
    BY <2>1
  <2>3. /\ b \in User /\ b.tenant = a.tenant /\ b.by = a.by /\ b.era = a.era /\ b.unrevoked = a.unrevoked
        /\ b.status = "deleted"
    BY <2>2 DEF User, Statuses
  <2> HIDE DEF b
  <2>4. Kept /\ accounts'[r.acc] = b /\ \A i \in DOMAIN accounts \ {r.acc} : accounts'[i] = accounts[i]
    BY <1>5, <2>1, <2>3, AccountsEdited
  <2>5. Steady
    BY <2>1, <2>3, <2>4 DEF Steady
  <2>6. accounts' \in Seq(User) /\ Len(accounts') = Len(accounts)
    BY <2>4 DEF Kept
  <2>7. Grow
    BY <1>1, <1>2, <2>1, <2>6, TokensSame, OlderGrows
  <2>8. Request(n) /\ Alike(n, r) /\ n.acc = r.acc /\ n.op = r.op
    BY <1>2 DEF Request, Alike
  <2> HIDE DEF n
  <2>9. Tail(r.todo) = <<>> /\ <<>> \notin Storing
    BY <1>3 DEF Storing
  <2>10. n.acc \in 0..Len(accounts') /\ n.acc # 0
    BY <1>2, <2>2, <2>6, <2>8
  <2>11. /\ Follow(w) /\ Proper(req'[w], Len(accounts'), tokens') /\ Alike(req'[w], r)
         /\ req'[w].todo = Tail(r.todo) /\ \A v \in Workers \ {w} : req'[v] = req[v]
    BY <1>2, <1>3, <1>5, <2>7, <2>8, <2>9, <2>10, GoesOn
  <2> QED BY <1>1, <1>2, <1>3, <2>5, <2>9, <2>11
<1> QED BY <1>1, <1>4, <1>5

-----------------------------------------------------------------------------
(* Type correctness.                                                       *)

LEMMA TypedTokens ==
    ASSUME Typed, NEW n \in Nat, Older(n), Kept, NEW w \in Workers, Follow(w),
           req'[w] = Idle \/ Proper(req'[w], Len(accounts'), tokens'),
           load' \in LoadType, tenants' \in Nat,
           \A t \in DOMAIN tokens' \ DOMAIN tokens : Refers(tokens'[t], Len(accounts')),
           cache' = [k \in Keys |-> cache'[k]], runs' \in [Keys -> Nat]
    PROVE  Typed'
<1>1. accounts' \in Seq(User) /\ Len(accounts) <= Len(accounts')
  BY DEF Kept, Typed
<1>2. Grow /\ \A t \in DOMAIN tokens : Refers(tokens'[t], Len(accounts'))
  BY <1>1, OlderGrows
<1>3. \A i, j \in Stored' : accounts'[i].tenant = accounts'[j].tenant => i = j
  <2>1. \A i \in Stored' : i \in Stored /\ i \in DOMAIN accounts
    BY DEF Kept, Stored
  <2> QED BY <2>1 DEF Kept, Typed
<1> QED BY <1>2, <1>3, TypedStep

LEMMA TypedKept ==
    ASSUME Typed, Older(0), DOMAIN tokens' = DOMAIN tokens, Kept, NEW w \in Workers, Follow(w),
           req'[w] = Idle \/ Proper(req'[w], Len(accounts'), tokens'),
           UNCHANGED <<tenants, cache, runs, load>>
    PROVE  Typed'
<1>1. /\ load' \in LoadType /\ tenants' \in Nat
      /\ cache' = [k \in Keys |-> cache'[k]] /\ runs' \in [Keys -> Nat]
  BY DEF Typed
<1> QED BY <1>1, TypedTokens

LEMMA TypedSame ==
    ASSUME Typed
    PROVE  /\ accounts' = accounts => Kept
           /\ tokens' = tokens => Older(0) /\ Idly /\ DOMAIN tokens' = DOMAIN tokens
           /\ tenants \in Nat /\ load \in LoadType
           /\ cache = [k \in Keys |-> cache[k]] /\ runs \in [Keys -> Nat]
BY AccountsSame, TokensSame DEF Typed

LEMMA TypedSteps == Typed /\ [Next]_vars => Typed'
<1> SUFFICES ASSUME Typed, [Next]_vars PROVE Typed'
  OBVIOUS
<1>1. ASSUME NEW w \in Workers, Receive(w) PROVE Typed'
  <2>1. req'[w] = Idle \/ Proper(req'[w], Len(accounts'), tokens')
    BY <1>1, Receives, BusyRequests
  <2>2. Kept /\ Older(0) /\ DOMAIN tokens' = DOMAIN tokens
    BY <1>1, Receives, TypedSame
  <2>3. Follow(w) /\ load' \in LoadType /\ tenants' \in Nat
        /\ cache' = [k \in Keys |-> cache'[k]] /\ runs' \in [Keys -> Nat]
    BY <1>1, Receives, TypedSame
  <2> QED BY <2>1, <2>2, <2>3, TypedTokens
<1>2. ASSUME NEW w \in Workers, Answer(w) PROVE Typed'
  <2>1. Kept /\ Older(0) /\ DOMAIN tokens' = DOMAIN tokens
    BY <1>2, Answers, TypedSame
  <2>2. Follow(w) /\ req'[w] = Idle /\ load' \in LoadType /\ tenants' \in Nat
        /\ cache' = [k \in Keys |-> cache'[k]] /\ runs' \in [Keys -> Nat]
    BY <1>2, Answers, TypedSame
  <2> QED BY <2>1, <2>2, TypedTokens
<1>3. ASSUME NEW w \in Workers, BreakOff(w) PROVE Typed'
  <2>1. Kept /\ Older(0) /\ DOMAIN tokens' = DOMAIN tokens
    BY <1>3, BreaksOff, TypedSame DEF Steady
  <2>2. Follow(w) /\ req'[w] = Idle /\ load' \in LoadType /\ tenants' \in Nat
        /\ cache' = [k \in Keys |-> cache'[k]] /\ runs' \in [Keys -> Nat]
    BY <1>3, BreaksOff, TypedSame
  <2> QED BY <2>1, <2>2, TypedTokens
<1>4. ASSUME NEW w \in Workers, FindToken(w) PROVE Typed'
  <2>1. /\ Kept /\ Older(0) /\ DOMAIN tokens' = DOMAIN tokens /\ UNCHANGED <<tenants, cache, runs, load>>
    BY <1>4, FindsToken, TypedSame
  <2>2. Follow(w) /\ (req'[w] = Idle \/ Proper(req'[w], Len(accounts'), tokens'))
    BY <1>4, FindsToken
  <2> QED BY <2>1, <2>2, TypedKept
<1>5. ASSUME NEW w \in Workers, Mark(w) PROVE Typed'
  BY <1>5, Marks, TypedSame, TypedKept
<1>6. ASSUME NEW w \in Workers, Invalidate(w) PROVE Typed'
  BY <1>6, Invalidates, TypedSame, TypedKept
<1>7. ASSUME NEW w \in Workers, Email(w) PROVE Typed'
  <2>1. \A t \in DOMAIN tokens' \ DOMAIN tokens : Refers(tokens'[t], Len(accounts'))
    BY <1>7, Emails
  <2>2. /\ Kept /\ Older(1) /\ Follow(w) /\ Proper(req'[w], Len(accounts'), tokens')
        /\ load' \in LoadType /\ tenants' \in Nat
        /\ cache' = [k \in Keys |-> cache'[k]] /\ runs' \in [Keys -> Nat]
    BY <1>7, Emails, TypedSame
  <2> QED BY <2>1, <2>2, TypedTokens
<1>8. ASSUME NEW w \in Workers, Issue(w) PROVE Typed'
  <2>1. \A t \in DOMAIN tokens' \ DOMAIN tokens : Refers(tokens'[t], Len(accounts'))
    BY <1>8, Issues
  <2>2. /\ Kept /\ Older(1) /\ Follow(w) /\ Proper(req'[w], Len(accounts'), tokens')
        /\ load' \in LoadType /\ tenants' \in Nat
        /\ cache' = [k \in Keys |-> cache'[k]] /\ runs' \in [Keys -> Nat]
    BY <1>8, Issues, TypedSame
  <2> QED BY <2>1, <2>2, TypedTokens
<1>9. ASSUME NEW w \in Workers, RevokeAll(w) PROVE Typed'
  BY <1>9, RevokesAll, TypedSame, TypedKept
<1>10. ASSUME NEW w \in Workers, FindByEmail(w) PROVE Typed'
  <2>1. /\ Kept /\ Older(0) /\ DOMAIN tokens' = DOMAIN tokens /\ UNCHANGED <<tenants, cache, runs, load>>
    BY <1>10, FindsByEmail, TypedSame
  <2>2. Follow(w) /\ (req'[w] = Idle \/ Proper(req'[w], Len(accounts'), tokens'))
    BY <1>10, FindsByEmail
  <2> QED BY <2>1, <2>2, TypedKept
<1>11. ASSUME NEW w \in Workers, CreateTenant(w) PROVE Typed'
  <2>1. Kept /\ Older(0) /\ DOMAIN tokens' = DOMAIN tokens
    BY <1>11, CreatesTenant, TypedSame
  <2>2. Follow(w) /\ Proper(req'[w], Len(accounts'), tokens') /\ load' \in LoadType /\ tenants' \in Nat
        /\ cache' = [k \in Keys |-> cache'[k]] /\ runs' \in [Keys -> Nat]
    BY <1>11, CreatesTenant, TypedSame
  <2> QED BY <2>1, <2>2, TypedTokens
<1>12. ASSUME NEW w \in Workers, CreateUser(w) PROVE Typed'
  <2>1. Follow(w) /\ UNCHANGED <<tenants, cache, runs, muddled, load>>
    BY <1>12, CreatesUser
  <2>2. CASE req'[w] = Idle /\ accounts' = accounts /\ tokens' = tokens
    BY <2>1, <2>2, TypedSame, TypedKept
  <2>3. CASE ~(req'[w] = Idle /\ accounts' = accounts /\ tokens' = tokens)
    <3>1. /\ Proper(req'[w], Len(accounts'), tokens')
          /\ accounts' \in Seq(User) /\ Len(accounts') = Len(accounts) + 1
          /\ DOMAIN accounts' = DOMAIN accounts \cup {Len(accounts) + 1}
          /\ Len(accounts) + 1 \notin DOMAIN accounts
          /\ \A i \in DOMAIN accounts : accounts'[i] = accounts[i]
          /\ \A i \in Stored : accounts[i].tenant # accounts'[Len(accounts) + 1].tenant
          /\ Older(0) /\ DOMAIN tokens' = DOMAIN tokens
      BY <1>12, <2>3, CreatesUser
    <3>2. Len(accounts) \in Nat /\ Len(accounts) <= Len(accounts')
      BY <3>1 DEF Typed
    <3>3. Grow /\ \A t \in DOMAIN tokens' : Refers(tokens'[t], Len(accounts'))
      BY <3>1, <3>2, OlderGrows
    <3>4. \A i, j \in Stored' : accounts'[i].tenant = accounts'[j].tenant => i = j
      <4>1. \A i \in Stored' : i = Len(accounts) + 1 \/ (i \in Stored /\ accounts'[i] = accounts[i])
        BY <3>1 DEF Stored
      <4>2. \A i, j \in Stored : accounts[i].tenant = accounts[j].tenant => i = j
        BY DEF Typed
      <4> QED BY <3>1, <4>1, <4>2
    <3>5. /\ load' \in LoadType /\ tenants' \in Nat
          /\ cache' = [k \in Keys |-> cache'[k]] /\ runs' \in [Keys -> Nat]
      BY <2>1, TypedSame
    <3> QED BY <2>1, <3>1, <3>3, <3>4, <3>5, TypedStep
  <2> QED BY <2>2, <2>3
<1>13. ASSUME NEW w \in Workers, Load(w) PROVE Typed'
  <2>1. /\ Kept /\ Older(0) /\ DOMAIN tokens' = DOMAIN tokens /\ UNCHANGED <<tenants, cache, runs, load>>
    BY <1>13, Loads, TypedSame
  <2>2. Follow(w) /\ (req'[w] = Idle \/ Proper(req'[w], Len(accounts'), tokens'))
    BY <1>13, Loads
  <2> QED BY <2>1, <2>2, TypedKept
<1>14. ASSUME NEW w \in Workers, Store(w) PROVE Typed'
  <2>1. /\ Kept /\ Older(0) /\ DOMAIN tokens' = DOMAIN tokens /\ UNCHANGED <<tenants, cache, runs, load>>
    BY <1>14, Stores, TypedSame DEF Reset
  <2>2. Follow(w) /\ (req'[w] = Idle \/ Proper(req'[w], Len(accounts'), tokens'))
    BY <1>14, Stores
  <2> QED BY <2>1, <2>2, TypedKept
<1>15. ASSUME NEW w \in Workers, Delete(w) PROVE Typed'
  <2>1. /\ Kept /\ Older(0) /\ DOMAIN tokens' = DOMAIN tokens /\ UNCHANGED <<tenants, cache, runs, load>>
    BY <1>15, Deletes, TypedSame DEF Steady
  <2>2. Follow(w) /\ (req'[w] = Idle \/ Proper(req'[w], Len(accounts'), tokens'))
    BY <1>15, Deletes
  <2> QED BY <2>1, <2>2, TypedKept
<1>18. ASSUME NEW w \in Workers, Ignore(w) PROVE Typed'
  <2>1. Kept /\ Older(0) /\ DOMAIN tokens' = DOMAIN tokens
    BY <1>18, Ignores, TypedSame DEF Steady
  <2>2. Follow(w) /\ Proper(req'[w], Len(accounts'), tokens') /\ load' \in LoadType /\ tenants' \in Nat
        /\ cache' = [k \in Keys |-> cache'[k]] /\ runs' \in [Keys -> Nat]
    BY <1>18, Ignores, TypedSame
  <2> QED BY <2>1, <2>2, TypedTokens
<1>19. CASE Forget
  <2>1. /\ UNCHANGED <<accounts, tenants, tokens, req, muddled>> /\ load' \in LoadType
        /\ cache' = [k \in Keys |-> cache'[k]] /\ runs' \in [Keys -> Nat]
    BY <1>19, Forgets
  <2>2. Stored' = Stored
    BY <2>1 DEF Stored
  <2> QED BY <2>1, <2>2 DEF Typed
<1>16. CASE Expire
  <2>1. /\ UNCHANGED <<accounts, tenants, cache, req, runs, muddled>> /\ load' \in LoadType
        /\ Older(0) /\ DOMAIN tokens' = DOMAIN tokens
    BY <1>16, Expires
  <2>2. Grow /\ \A t \in DOMAIN tokens' : Refers(tokens'[t], Len(accounts'))
    BY <2>1, OlderSame
  <2>3. ASSUME NEW v \in Workers PROVE req'[v] = Idle \/ Proper(req'[v], Len(accounts'), tokens')
    <3>1. Len(accounts) \in Nat /\ Len(accounts') = Len(accounts) /\ req'[v] = req[v]
      BY <2>1 DEF Typed
    <3>2. CASE Proper(req[v], Len(accounts), tokens)
      BY <2>2, <3>1, <3>2 DEF Proper, Grow
    <3> QED BY <3>1, <3>2 DEF Typed
  <2>4. Stored' = Stored
    BY <2>1 DEF Stored
  <2> QED BY <2>1, <2>2, <2>3, <2>4 DEF Typed, Grow
<1>17. CASE UNCHANGED vars
  <2>1. Stored' = Stored
    BY <1>17 DEF Stored, vars
  <2> QED BY <1>17, <2>1 DEF Typed, vars
<1> QED BY <1>1, <1>2, <1>3, <1>4, <1>5, <1>6, <1>7, <1>8, <1>9, <1>10, <1>11, <1>12, <1>13,
           <1>14, <1>15, <1>16, <1>17, <1>18, <1>19 DEF Next

LEMMA TypedAlways == Spec => []Typed
BY TypedInit, TypedSteps, PTL DEF Spec

\* TypeOK of Accounts: documents refer to documents, no tenant has two users of
\* one email, and what a request holds on to is there (user_service.go,
\* account_service.go).
THEOREM TypeCorrect == Spec => []TypeOK
<1>1. Typed => TypeOK
  <2> SUFFICES ASSUME Typed PROVE TypeOK
    OBVIOUS
  <2>1. \A i \in DOMAIN accounts : accounts[i].status \in Statuses
    <3>1. \A i \in DOMAIN accounts : accounts[i] \in User
      BY DEF Typed
    <3> QED BY <3>1 DEF User
  <2>2. ASSUME NEW t \in DOMAIN tokens
        PROVE  tokens[t].kind \in Kinds /\ (tokens[t].kind # "invite" => tokens[t].acc \in DOMAIN accounts)
    <3>1. tokens[t] \in TokenDoc /\ Refers(tokens[t], Len(accounts)) /\ DOMAIN accounts = 1..Len(accounts)
          /\ Len(accounts) \in Nat
      BY DEF Typed
    <3> QED BY <3>1 DEF TokenDoc, Refers
  <2>3. ASSUME NEW w \in Workers, Busy(w)
        PROVE  req[w].acc \in 0..Len(accounts) /\ req[w].t \in 0..Len(tokens)
    <3>1. Proper(req[w], Len(accounts), tokens)
      BY <2>3, BusyRequests
    <3> QED BY <3>1 DEF Proper, Typed
  <2> QED BY <2>1, <2>2, <2>3 DEF TypeOK, Typed
<1> QED BY <1>1, TypedAlways, PTL

-----------------------------------------------------------------------------
(* What is to happen once happens once.                                    *)

\* A call of the handler of w.
Call(w) ==
    \/ Ignore(w)
    \/ FindToken(w) \/ Mark(w) \/ Invalidate(w) \/ Email(w) \/ Issue(w) \/ RevokeAll(w)
    \/ FindByEmail(w) \/ CreateTenant(w) \/ CreateUser(w) \/ Load(w) \/ Store(w) \/ Delete(w)

LEMMA NextCases ==
    ASSUME [Next]_vars
    PROVE  \/ \E w \in Workers : Receive(w) \/ Answer(w) \/ BreakOff(w) \/ Call(w)
           \/ Expire \/ Forget \/ UNCHANGED vars
BY DEF Next, Call

\* The others keep what they have; a session to come may become late.
LEMMA Bystanders ==
    ASSUME Typed, NEW w \in Workers, Follow(w), NEW v \in Workers \ {w}
    PROVE  /\ Busy(v)' <=> Busy(v)
           /\ Busy(v) => /\ Alike(req'[v], req[v]) /\ req'[v].todo = req[v].todo
                         /\ req'[v].acc = req[v].acc /\ req'[v].era = req[v].era
                         /\ req'[v].did = req[v].did /\ req'[v].late \in {req[v].late, TRUE}
<1>1. CASE req'[v] = req[v]
  BY <1>1 DEF Busy, Alike
<1>2. CASE Busy(v) /\ req'[v] = [req[v] EXCEPT !.late = TRUE]
  <2>1. Request(req[v])
    BY <1>2, BusyRequests
  <2> QED BY <1>2, <2>1 DEF Request, Busy, Alike
<1> QED BY <1>1, <1>2 DEF Follow

LEMMA IdleIsNotBusy ==
    ASSUME NEW w
    PROVE  /\ req[w] = Idle => ~Busy(w)
           /\ req'[w] = Idle => ~Busy(w)'
BY DEF Busy, Idle

\* A call leaves the request of w over, if any, and the keys alone.
LEMMA CallsGoOn ==
    ASSUME Typed, NEW w \in Workers, Call(w) \/ BreakOff(w)
    PROVE  /\ Follow(w) /\ Busy(w) /\ (req'[w] = Idle \/ Alike(req'[w], req[w]))
           /\ cache' = cache /\ runs' = runs /\ muddled \subseteq muddled'
<1>1. CASE BreakOff(w)
  BY <1>1, BreaksOff
<1>2. CASE FindToken(w)
  BY <1>2, FindsToken
<1>3. CASE Mark(w)
  BY <1>3, Marks
<1>4. CASE Invalidate(w)
  BY <1>4, Invalidates
<1>5. CASE Email(w)
  BY <1>5, Emails
<1>6. CASE Issue(w)
  BY <1>6, Issues
<1>7. CASE RevokeAll(w)
  BY <1>7, RevokesAll
<1>8. CASE FindByEmail(w)
  BY <1>8, FindsByEmail
<1>9. CASE CreateTenant(w)
  BY <1>9, CreatesTenant
<1>10. CASE CreateUser(w)
  BY <1>10, CreatesUser
<1>11. CASE Load(w)
  BY <1>11, Loads
<1>12. CASE Store(w)
  BY <1>12, Stores
<1>13. CASE Delete(w)
  BY <1>13, Deletes
<1>14. CASE Ignore(w)
  BY <1>14, Ignores
<1> QED BY <1>1, <1>2, <1>3, <1>4, <1>5, <1>6, <1>7, <1>8, <1>9, <1>10, <1>11, <1>12, <1>13,
           <1>14 DEF Call

\* A key that no two requests used at once: one request under way, or an answer.
KeyOnce(k) ==
    /\ \A v, w \in Workers : Busy(v) /\ Busy(w) /\ req[v].key = k /\ req[w].key = k => v = w
    /\ runs[k] <= 1
    /\ runs[k] # 0 => cache[k] # <<>>
    /\ cache[k] # <<>> => \A w \in Workers : Busy(w) => req[w].key # k

KeysOnce == \A k \in Keys : <<"key", k>> \notin muddled => KeyOnce(k)

LEMMA KeysOnceSteps == Typed /\ KeysOnce /\ [Next]_vars => KeysOnce'
<1> SUFFICES ASSUME Typed, KeysOnce, [Next]_vars, NEW k \in Keys, <<"key", k>> \notin muddled'
             PROVE  KeyOnce(k)'
  BY DEF KeysOnce
<1>0. k # NoKey
  BY AccountsAssumption
<1>1. ASSUME NEW w \in Workers, Receive(w) PROVE KeyOnce(k)'
  <2>1. ~Busy(w) /\ Follow(w) /\ cache' = cache /\ runs' = runs /\ muddled \subseteq muddled'
    BY <1>1, Receives
  <2>2. KeyOnce(k)
    BY <2>1 DEF KeysOnce
  <2>3. ASSUME NEW v \in Workers \ {w}
        PROVE  (Busy(v)' <=> Busy(v)) /\ (Busy(v) => req'[v].key = req[v].key)
    BY <2>1, Bystanders DEF Alike
  <2>4. CASE req' = req
    BY <2>1, <2>2, <2>4 DEF KeyOnce, Busy
  <2>5. CASE req' # req
    <3>1. \/ req'[w].key \in Keys /\ muddled' = muddled \cup {<<"key", req'[w].key>>}
          \/ /\ req'[w].key \in Keys => cache[req'[w].key] = <<>>
             /\ muddled' = IF req'[w].key # NoKey /\ \E v \in Others(w) : req[v].key = req'[w].key
                           THEN muddled \cup {<<"key", req'[w].key>>} ELSE muddled
      BY <1>1, <2>5, Receives
    <3>2. req'[w].key = k => cache[k] = <<>> /\ \A v \in Workers \ {w} : Busy(v) => req[v].key # k
      BY <1>0, <3>1 DEF Others
    <3> QED BY <2>1, <2>2, <2>3, <3>2 DEF KeyOnce
  <2> QED BY <2>4, <2>5
<1>2. ASSUME NEW w \in Workers, Answer(w) PROVE KeyOnce(k)'
  <2>1. /\ Busy(w) /\ Follow(w) /\ req'[w] = Idle /\ ~Busy(w)' /\ muddled \subseteq muddled'
    BY <1>2, Answers, IdleIsNotBusy
  <2>2. KeyOnce(k) /\ cache = [i \in Keys |-> cache[i]] /\ runs \in [Keys -> Nat]
    BY <2>1 DEF KeysOnce, Typed
  <2>3. ASSUME NEW v \in Workers
        PROVE  Busy(v)' => v # w /\ Busy(v) /\ req'[v].key = req[v].key
    BY <2>1, Bystanders DEF Alike
  <2>4. CASE req[w].key = k
    <3>1. runs' = [runs EXCEPT ![k] = runs[k] + 1] /\ cache' = [cache EXCEPT ![k] = Body(req[w])]
      BY <1>0, <1>2, <2>4 DEF Answer
    <3>2. runs[k] = 0
      BY <2>1, <2>2, <2>4 DEF KeyOnce
    <3>3. runs'[k] = 1 /\ cache'[k] # <<>>
      BY <2>2, <3>1, <3>2 DEF Body
    <3> QED BY <2>1, <2>2, <2>3, <2>4, <3>3 DEF KeyOnce
  <2>5. CASE req[w].key # k
    <3>1. runs'[k] = runs[k] /\ cache'[k] = cache[k]
      BY <1>2, <2>2, <2>5 DEF Answer
    <3> QED BY <2>2, <2>3, <3>1 DEF KeyOnce
  <2> QED BY <2>4, <2>5
<1>3. ASSUME NEW w \in Workers, Call(w) \/ BreakOff(w) PROVE KeyOnce(k)'
  <2>1. /\ Follow(w) /\ Busy(w) /\ (req'[w] = Idle \/ Alike(req'[w], req[w]))
        /\ cache' = cache /\ runs' = runs /\ muddled \subseteq muddled'
    BY <1>3, CallsGoOn
  <2>2. KeyOnce(k)
    BY <2>1 DEF KeysOnce
  <2>3. ASSUME NEW v \in Workers
        PROVE  Busy(v)' => Busy(v) /\ req'[v].key = req[v].key
    BY <2>1, Bystanders, IdleIsNotBusy DEF Alike
  <2> QED BY <2>1, <2>2, <2>3 DEF KeyOnce
<1>4. CASE Expire \/ UNCHANGED vars
  BY <1>4 DEF KeysOnce, KeyOnce, Busy, Expire, vars
<1>5. CASE Forget
  <2>1. /\ req' = req /\ muddled' = muddled
        /\ \/ cache'[k] = cache[k] /\ runs'[k] = runs[k]
           \/ cache[k] # <<>> /\ cache'[k] = <<>> /\ runs'[k] = 0
    BY <1>5, Forgets
  <2>2. KeyOnce(k)
    BY <2>1 DEF KeysOnce
  <2> QED BY <2>1, <2>2 DEF KeyOnce, Busy
<1> QED BY <1>1, <1>2, <1>3, <1>4, <1>5, NextCases

Signs(w) == Busy(w) /\ req[w].todo \in Signing

\* One signup goes on from finding no user, and none when one has signed up.
SignedOnce ==
    /\ \A v, w \in Workers : Signs(v) /\ Signs(w) => v = w
    /\ \A w \in Workers : Signs(w) => ~\E i \in Stored : accounts[i].by = "signup"
    /\ \A i, j \in Stored : accounts[i].by = "signup" /\ accounts[j].by = "signup" => i = j

EmailOnce == <<"email">> \notin muddled => SignedOnce

LEMMA OthersSign ==
    ASSUME Typed, NEW w \in Workers, Follow(w), NEW v \in Workers \ {w}
    PROVE  Signs(v)' <=> Signs(v)
BY Bystanders DEF Signs

\* Only a signup signs.
LEMMA SignupsSign ==
    ASSUME Typed, NEW w \in Workers, Signs(w)
    PROVE  req[w].op = "signup"
<1>1. Request(req[w]) /\ req[w].todo \in Signing
  BY BusyRequests DEF Signs
<1> QED BY <1>1, ContainsLeft DEF Request

LEMMA ProperSigns ==
    ASSUME NEW w \in Workers, Proper(req'[w], Len(accounts'), tokens'), req'[w].todo \in Signing
    PROVE  req'[w].op = "signup"
BY ContainsLeft DEF Proper, Request

\* No step but a search makes a request one that signs.
LEMMA SignsOn ==
    ASSUME Typed, NEW w \in Workers, Receive(w) \/ Answer(w) \/ BreakOff(w) \/ Call(w),
           ~FindByEmail(w), Signs(w)'
    PROVE  Signs(w) /\ ~CreateUser(w)
<1>1. Busy(w)' /\ req'[w].todo \in Signing /\ req'[w] # Idle
  BY IdleIsNotBusy DEF Signs
<1>2. Typed' /\ req'[w].op = "signup"
  <2>1. Typed'
    <3>1. [Next]_vars
      BY DEF Call, Next
    <3> QED BY <3>1, TypedSteps
  <2>2. Proper(req'[w], Len(accounts'), tokens')
    BY <1>1, <2>1 DEF Typed
  <2> QED BY <1>1, <2>1, <2>2, ProperSigns
<1>3. ASSUME Receive(w) PROVE FALSE
  <2>1. CASE req' = req
    BY <1>1, <1>3, <2>1, Receives DEF Busy
  <2>2. CASE req' # req
    <3>1. Request(req'[w]) /\ req'[w].todo = Steps(req'[w].op)
      BY <1>3, <2>2, Receives DEF Proper
    <3> QED BY <1>1, <3>1, StepsLeft DEF Request
  <2> QED BY <2>1, <2>2
<1>4. ~Answer(w) /\ ~BreakOff(w)
  BY <1>1, Answers, BreaksOff
<1>5. Call(w) /\ Busy(w) /\ Alike(req'[w], req[w]) /\ req[w].op = "signup"
  <2>1. Call(w)
    BY <1>3, <1>4
  <2> QED BY <1>1, <1>2, <2>1, CallsGoOn DEF Alike
<1>6. ~FindToken(w) /\ ~Mark(w) /\ ~Invalidate(w) /\ ~Issue(w) /\ ~RevokeAll(w) /\ ~Delete(w)
  BY <1>5, FindsToken, Marks, Invalidates, Issues, RevokesAll, Deletes DEF Redeemers
<1>7. ~Load(w) /\ ~Store(w)
  BY <1>5, Loads, Stores DEF Edits
<1>8. ~Email(w) /\ ~Ignore(w)
  <2>1. <<>> \notin Signing
    BY DEF Signing
  <2>2. ~Email(w)
    BY <1>1, <2>1, Emails
  <2>3. ~Ignore(w)
    BY <1>1, <1>5, <2>1, Ignores
  <2> QED BY <2>2, <2>3
<1>9. ~CreateUser(w)
  <2>1. ASSUME CreateUser(w) PROVE req'[w].todo = <<"verification">>
    <3>1. req[w].todo = <<"createUser", "verification">> /\ req'[w].todo = Tail(req[w].todo)
      BY <1>1, <1>5, <2>1, CreatesUser
    <3> QED BY <3>1
  <2> QED BY <1>1, <2>1 DEF Signing
<1>10. CreateTenant(w)
  BY <1>5, <1>6, <1>7, <1>8, <1>9 DEF Call
<1>11. req[w].todo \in Signing
  BY <1>10, CreatesTenant DEF Signing
<1> QED BY <1>5, <1>9, <1>11 DEF Signs

\* What becomes of the accounts, but for a new one.
LEMMA AccountsKept ==
    ASSUME Typed, NEW w \in Workers, Receive(w) \/ Answer(w) \/ BreakOff(w) \/ Call(w), ~CreateUser(w)
    PROVE  Kept /\ muddled \subseteq muddled' /\ Follow(w)
<1>1. CASE Receive(w)
  BY <1>1, Receives, TypedSame
<1>2. CASE Answer(w)
  BY <1>2, Answers, TypedSame
<1>3. CASE BreakOff(w)
  BY <1>3, BreaksOff DEF Steady
<1>4. CASE Call(w)
  <2>1. Follow(w) /\ muddled \subseteq muddled'
    BY <1>4, CallsGoOn
  <2>2. CASE Store(w)
    BY <2>1, <2>2, Stores, TypedSame DEF Reset
  <2>3. CASE Delete(w)
    BY <2>1, <2>3, Deletes, TypedSame DEF Steady
  <2>4. CASE FindToken(w) \/ Mark(w) \/ Invalidate(w) \/ Email(w)
    BY <2>1, <2>4, FindsToken, Marks, Invalidates, Emails, TypedSame
  <2>5. CASE Issue(w) \/ RevokeAll(w) \/ FindByEmail(w) \/ CreateTenant(w) \/ Load(w)
    BY <2>1, <2>5, Issues, RevokesAll, FindsByEmail, CreatesTenant, Loads, TypedSame
  <2>6. CASE Ignore(w)
    BY <2>1, <2>6, Ignores DEF Steady
  <2> QED BY <1>4, <2>2, <2>3, <2>4, <2>5, <2>6 DEF Call
<1> QED BY <1>1, <1>2, <1>3, <1>4

LEMMA SignedKept ==
    ASSUME Kept, NEW i \in Stored'
    PROVE  i \in Stored /\ accounts'[i].by = accounts[i].by
BY DEF Kept, Stored

LEMMA EmailOnceSteps == Typed /\ EmailOnce /\ [Next]_vars => EmailOnce'
<1> SUFFICES ASSUME Typed, EmailOnce, [Next]_vars, <<"email">> \notin muddled'
             PROVE  SignedOnce'
  BY DEF EmailOnce
<1>1. ASSUME NEW w \in Workers, FindByEmail(w) PROVE SignedOnce'
  <2>1. /\ Follow(w) /\ Kept /\ muddled \subseteq muddled' /\ SignedOnce
    <3>1. ~CreateUser(w)
      BY <1>1 DEF CreateUser, FindByEmail, At
    <3>2. Call(w)
      BY <1>1 DEF Call
    <3>3. Follow(w) /\ Kept /\ muddled \subseteq muddled'
      BY <3>1, <3>2, AccountsKept
    <3> QED BY <3>3 DEF EmailOnce
  <2>2. /\ muddled' = IF /\ req[w].op = "signup" /\ Stored = {}
                         /\ \E v \in Others(w) : Contains(req[v].todo, "createUser") /\ ~At(v, "findByEmail")
                      THEN muddled \cup {<<"email">>} ELSE muddled
        /\ accounts' = accounts
    BY <1>1, FindsByEmail
  <2>3. ASSUME Signs(w)' PROVE Stored = {} /\ \A v \in Workers \ {w} : ~Signs(v)
    <3>1. /\ Proper(req'[w], Len(accounts), tokens) /\ Alike(req'[w], req[w]) /\ Stored = {}
          /\ req'[w].todo \in Signing
      BY <1>1, <2>3, FindsByEmail, IdleIsNotBusy DEF Signs
    <3>2. req'[w].op \in Ops /\ req'[w].todo \in Todos(req'[w].op)
      BY <3>1 DEF Proper, Request
    <3>3. req'[w].op = "signup" /\ req[w].op = "signup"
      BY <3>1, <3>2, ContainsLeft DEF Alike
    <3>4. ASSUME NEW v \in Workers \ {w}, Signs(v) PROVE FALSE
      <4>1. Busy(v) /\ req[v].op \in Ops /\ req[v].todo \in Todos(req[v].op) /\ req[v].todo \in Signing
        BY <3>4, BusyRequests DEF Signs, Request
      <4>2. Contains(req[v].todo, "createUser") /\ Head(req[v].todo) # "findByEmail"
        BY <4>1, ContainsLeft
      <4> QED BY <2>2, <3>1, <3>3, <4>1, <4>2 DEF At, Others
    <3> QED BY <3>1, <3>4
  <2>4. ASSUME NEW v \in Workers, v # w PROVE Signs(v)' <=> Signs(v)
    BY <2>1, <2>4, OthersSign
  <2>5. \A i \in Stored' : i \in Stored /\ accounts'[i].by = accounts[i].by
    BY <2>1, SignedKept
  <2> QED BY <2>1, <2>3, <2>4, <2>5 DEF SignedOnce
<1>2. ASSUME NEW w \in Workers, CreateUser(w) PROVE SignedOnce'
  <2>1. Follow(w) /\ SignedOnce /\ ~FindByEmail(w) /\ Call(w)
    <3>1. ~FindByEmail(w)
      BY <1>2 DEF CreateUser, FindByEmail, At
    <3> QED BY <1>2, <3>1, CreatesUser DEF Call, EmailOnce
  <2>2. ~Signs(w)'
    BY <1>2, <2>1, SignsOn
  <2>3. ASSUME NEW v \in Workers, v # w PROVE Signs(v)' <=> Signs(v)
    BY <2>1, <2>3, OthersSign
  <2>4. CASE accounts' = accounts
    BY <2>1, <2>2, <2>3, <2>4 DEF SignedOnce, Stored
  <2>5. CASE accounts' # accounts
    <3>1. /\ DOMAIN accounts' = DOMAIN accounts \cup {Len(accounts) + 1}
          /\ \A i \in DOMAIN accounts : accounts'[i] = accounts[i]
          /\ accounts'[Len(accounts) + 1].by = req[w].op
      BY <1>2, <2>5, CreatesUser
    <3>2. \A i \in Stored' : i = Len(accounts) + 1 \/ (i \in Stored /\ accounts'[i] = accounts[i])
      BY <3>1 DEF Stored
    <3>3. CASE req[w].op = "signup"
      <4>1. Signs(w)
        <5>1. Busy(w) /\ req[w].todo = <<"createUser", "verification">>
          BY <1>2, <3>3, CreatesUser
        <5> QED BY <5>1 DEF Signs, Signing
      <4> QED BY <2>1, <2>2, <2>3, <3>2, <4>1 DEF SignedOnce
    <3>4. CASE req[w].op # "signup"
      BY <2>1, <2>2, <2>3, <3>1, <3>2, <3>4 DEF SignedOnce
    <3> QED BY <3>3, <3>4
  <2> QED BY <2>4, <2>5
<1>3. ASSUME NEW w \in Workers, Receive(w) \/ Answer(w) \/ BreakOff(w) \/ Call(w),
             ~FindByEmail(w), ~CreateUser(w)
      PROVE  SignedOnce'
  <2>1. Follow(w) /\ Kept /\ SignedOnce
    BY <1>3, AccountsKept DEF EmailOnce
  <2>2. ASSUME NEW v \in Workers PROVE Signs(v)' => Signs(v)
    BY <1>3, <2>1, OthersSign, SignsOn
  <2>3. \A i \in Stored' : i \in Stored /\ accounts'[i].by = accounts[i].by
    BY <2>1, SignedKept
  <2> QED BY <2>1, <2>2, <2>3 DEF SignedOnce
<1>4. CASE Expire \/ Forget \/ UNCHANGED vars
  <2>1. req' = req /\ accounts' = accounts /\ muddled' = muddled
    BY <1>4 DEF Expire, Forget, vars
  <2> QED BY <2>1 DEF EmailOnce, SignedOnce, Signs, Busy, Stored
<1> QED BY <1>1, <1>2, <1>3, <1>4, NextCases

\* The request r redeems t and has S left.
Holds(r, t, S) == r.op # "none" /\ r.t = t /\ r.todo \in S

\* A token that no two requests used at once: one request goes on with it; it
\* was not used while one has yet to use it, and is marked, or about to be, once
\* it was.
TokenOnce(t) ==
    /\ \A v, w \in Workers : Holds(req[v], t, Marking) /\ Holds(req[w], t, Marking) => v = w
    /\ \A v, w \in Workers : Holds(req[v], t, Using) /\ Holds(req[w], t, Using) => v = w
    /\ \A w \in Workers : Holds(req[w], t, Using) =>
          tokens[t].uses = 0 /\ (req[w].todo \in Marking \/ tokens[t].spent)
    /\ tokens[t].uses <= 1
    /\ tokens[t].uses # 0 =>
          tokens[t].spent \/ \E w \in Workers : Holds(req[w], t, Closing) /\ req[w].did

TokensOnce == \A t \in DOMAIN tokens : <<"token", t>> \notin muddled => TokenOnce(t)

LEMMA OthersHold ==
    ASSUME Typed, NEW w \in Workers, Follow(w), NEW v \in Workers \ {w}, NEW t, NEW S
    PROVE  /\ Holds(req'[v], t, S) <=> Holds(req[v], t, S)
           /\ Holds(req[v], t, S) => req'[v].todo = req[v].todo /\ req'[v].did = req[v].did
BY Bystanders DEF Holds, Busy, Alike

LEMMA TokenTypes ==
    ASSUME Typed, NEW t \in DOMAIN tokens
    PROVE  t \in Nat /\ t # 0 /\ tokens[t].uses \in Nat /\ tokens[t].spent \in BOOLEAN
<1>1. tokens[t] \in TokenDoc /\ t \in Nat /\ t # 0
  BY DEF Typed
<1> QED BY <1>1 DEF TokenDoc

\* A step that does not use t.
LEMMA TokenKeeps ==
    ASSUME Typed, NEW t \in DOMAIN tokens, TokenOnce(t), NEW w \in Workers, Follow(w),
           tokens[t].spent => tokens'[t].spent, tokens'[t].uses = tokens[t].uses,
           Holds(req'[w], t, Marking) => Holds(req[w], t, Marking),
           Holds(req'[w], t, Using) =>
              /\ Holds(req[w], t, Using)
              /\ req[w].todo \in Marking => req'[w].todo \in Marking \/ tokens'[t].spent,
           Holds(req[w], t, Closing) /\ req[w].did =>
              tokens'[t].spent \/ (Holds(req'[w], t, Closing) /\ req'[w].did)
    PROVE  TokenOnce(t)'
<1>1. ASSUME NEW v \in Workers PROVE Holds(req'[v], t, Marking) => Holds(req[v], t, Marking)
  BY <1>1, OthersHold
<1>2. ASSUME NEW v \in Workers
      PROVE  Holds(req'[v], t, Using) =>
                Holds(req[v], t, Using) /\ (req'[v].todo \in Marking \/ tokens'[t].spent)
  <2>1. CASE v = w
    BY <2>1 DEF TokenOnce
  <2>2. CASE v # w
    BY <2>2, OthersHold DEF TokenOnce
  <2> QED BY <2>1, <2>2
<1>3. tokens[t].uses # 0 =>
         tokens'[t].spent \/ \E v \in Workers : Holds(req'[v], t, Closing) /\ req'[v].did
  <2>1. ASSUME NEW v \in Workers, Holds(req[v], t, Closing), req[v].did
        PROVE  tokens'[t].spent \/ (Holds(req'[v], t, Closing) /\ req'[v].did)
    <3>1. CASE v = w
      BY <2>1, <3>1
    <3>2. CASE v # w
      BY <2>1, <3>2, OthersHold
    <3> QED BY <3>1, <3>2
  <2> QED BY <2>1 DEF TokenOnce
<1> QED BY <1>1, <1>2, <1>3 DEF TokenOnce

\* The step that does.
LEMMA TokenUsedUp ==
    ASSUME Typed, NEW t \in DOMAIN tokens, TokenOnce(t), NEW w \in Workers, Follow(w),
           Holds(req[w], t, Using), ~Holds(req'[w], t, Using),
           tokens'[t].uses = tokens[t].uses + 1, tokens'[t].spent = tokens[t].spent,
           Holds(req'[w], t, Marking) => Holds(req[w], t, Marking),
           \/ req[w].todo \notin Marking
           \/ Holds(req'[w], t, Closing) /\ req'[w].did
    PROVE  TokenOnce(t)'
<1>1. tokens[t].uses = 0 /\ tokens'[t].uses = 1
  BY TokenTypes DEF TokenOnce
<1>2. ASSUME NEW v \in Workers PROVE Holds(req'[v], t, Marking) => Holds(req[v], t, Marking)
  BY <1>2, OthersHold
<1>3. ASSUME NEW v \in Workers PROVE ~Holds(req'[v], t, Using)
  BY OthersHold DEF TokenOnce
<1>4. tokens'[t].spent \/ \E v \in Workers : Holds(req'[v], t, Closing) /\ req'[v].did
  BY DEF TokenOnce
<1> QED BY <1>1, <1>2, <1>3, <1>4 DEF TokenOnce

\* The calls of requests that redeem a token, as the sets have them.
LEMMA RedeemingCalls ==
    /\ Closing \subseteq Marking
    /\ <<>> \notin Marking \cup Using \cup Closing
    /\ <<"revokeAll">> \notin Marking \cup Using \cup Closing
    /\ <<"store">> \notin Marking \cup Using \cup Closing
    /\ <<"load", "store">> \notin Marking \cup Using \cup Closing
    /\ <<"load", "issue">> \in Using /\ <<"load", "issue">> \notin Marking \cup Closing
    /\ <<"issue">> \in Using /\ <<"issue">> \notin Marking \cup Closing
    /\ <<"mark", "load", "issue">> \in Using /\ <<"mark", "load", "issue">> \in Marking
    /\ <<"load", "store", "mark">> \in Using /\ <<"load", "store", "mark">> \in Marking
    /\ <<"store", "mark">> \in Using /\ <<"store", "mark">> \in Marking
    /\ <<"load", "store", "mark", "revokeAll">> \in Using /\ <<"load", "store", "mark", "revokeAll">> \in Marking
    /\ <<"store", "mark", "revokeAll">> \in Using /\ <<"store", "mark", "revokeAll">> \in Marking
    /\ <<"createUser", "mark">> \in Using /\ <<"createUser", "mark">> \in Marking
    /\ <<"mark">> \in Closing /\ <<"mark">> \in Marking /\ <<"mark">> \notin Using
    /\ <<"mark", "revokeAll">> \in Closing /\ <<"mark", "revokeAll">> \in Marking
    /\ <<"mark", "revokeAll">> \notin Using
    /\ {<<"load", "issue">>, <<"load", "store", "mark">>, <<"load", "store", "mark", "revokeAll">>,
        <<"createUser", "mark">>, <<"store", "mark">>, <<"store", "mark", "revokeAll">>} \cap Closing = {}
BY DEF Marking, Using, Closing

LEMMA TailsOfCalls ==
    /\ Tail(<<"mark", "load", "issue">>) = <<"load", "issue">> /\ Tail(<<"mark">>) = <<>>
    /\ Tail(<<"mark", "revokeAll">>) = <<"revokeAll">> /\ Tail(<<"load", "issue">>) = <<"issue">>
    /\ Tail(<<"load", "store", "mark">>) = <<"store", "mark">>
    /\ Tail(<<"load", "store", "mark", "revokeAll">>) = <<"store", "mark", "revokeAll">>
    /\ Tail(<<"load", "store">>) = <<"store">> /\ Tail(<<"store", "mark">>) = <<"mark">>
    /\ Tail(<<"store", "mark", "revokeAll">>) = <<"mark", "revokeAll">>
    /\ Tail(<<"createUser", "mark">>) = <<"mark">>
OBVIOUS

\* A step of a request that does not redeem t.
LEMMA TokenElsewhere ==
    ASSUME Typed, NEW t \in DOMAIN tokens, TokenOnce(t), NEW w \in Workers, Follow(w),
           tokens[t].spent => tokens'[t].spent, tokens'[t].uses = tokens[t].uses,
           ~Busy(w) \/ req[w].t # t, req'[w] = Idle \/ req'[w].t # t
    PROVE  TokenOnce(t)'
<1>1. \A S : ~Holds(req[w], t, S) /\ ~Holds(req'[w], t, S)
  BY IdleIsNotBusy DEF Holds, Busy
<1> QED BY <1>1, TokenKeeps

LEMMA OlderTokens ==
    ASSUME NEW n, Older(n), NEW t \in DOMAIN tokens
    PROVE  /\ tokens[t].spent => tokens'[t].spent
           /\ Idly => tokens'[t].uses = tokens[t].uses
           /\ \A m : Uses(m) => tokens'[t].uses = IF t = m THEN tokens[t].uses + 1 ELSE tokens[t].uses
BY DEF Older, Ages, Idly, Uses

LEMMA RedeemedTokens ==
    ASSUME Typed, NEW w \in Workers, Busy(w), req[w].op \notin Redeemers
    PROVE  req[w].t = 0
BY BusyRequests DEF Proper

LEMMA TokensOnceFind ==
    ASSUME Typed, NEW t \in DOMAIN tokens, TokenOnce(t), NEW w \in Workers, FindToken(w),
           <<"token", t>> \notin muddled'
    PROVE  TokenOnce(t)'
<1>1. /\ Busy(w) /\ Follow(w) /\ tokens' = tokens /\ req[w].op \in Redeemers /\ req[w].todo = Steps(req[w].op)
  BY FindsToken
<1>2. CASE req'[w] = Idle \/ req[w].t # t
  <2>1. req[w].op \in Ops
    BY <1>1, BusyRequests
  <2>2. Steps(req[w].op) \notin Closing
    BY <2>1, StepsLeft, RedeemingCalls
  <2>3. req[w].t # t => req'[w] = Idle \/ req'[w].t # t
    BY FindsToken DEF Alike
  <2>4. CASE req[w].t # t
    BY <1>1, <2>3, <2>4, TokenElsewhere
  <2>5. CASE req'[w] = Idle
    <3>1. \A S : ~Holds(req'[w], t, S)
      BY <2>5 DEF Holds, Idle
    <3>2. ~Holds(req[w], t, Closing)
      BY <1>1, <2>2 DEF Holds
    <3> QED BY <1>1, <3>1, <3>2, TokenKeeps
  <2> QED BY <1>2, <2>4, <2>5
<1>3. CASE req'[w] # Idle /\ req[w].t = t
  <2>1. /\ Alike(req'[w], req[w]) /\ req'[w].todo = Tail(req[w].todo)
        /\ req[w].op # "logout" => ~tokens[t].spent /\ ~Contested(w, t)
        /\ ~Contested(w, t)
    BY <1>3, FindsToken
  <2>2. ASSUME NEW v \in Workers \ {w} PROVE ~Holds(req[v], t, Marking)
    <3>1. SUFFICES ASSUME Holds(req[v], t, Marking) PROVE FALSE
      OBVIOUS
    <3>2. Busy(v) /\ req[v].t = t /\ req[v].todo \in Marking
      BY <3>1 DEF Holds, Busy
    <3>3. req[v].op \in Ops /\ req[v].todo \in Todos(req[v].op)
      BY <3>2, BusyRequests DEF Request
    <3>4. Contains(req[v].todo, "mark") /\ Head(req[v].todo) # "findToken"
      BY <3>2, <3>3, ContainsLeft
    <3> QED BY <2>1, <3>2, <3>4 DEF Contested, Others, At
  <2>3. ASSUME NEW v \in Workers \ {w} PROVE ~Holds(req'[v], t, Marking)
    BY <1>1, <2>2, OthersHold
  <2>4. req[w].todo \notin Closing
    <3>1. req[w].op \in Ops
      BY <1>1, BusyRequests
    <3> QED BY <1>1, <3>1, StepsLeft, RedeemingCalls
  <2>5. ASSUME tokens[t].uses # 0 PROVE tokens[t].spent
    <3>1. ASSUME NEW v \in Workers, Holds(req[v], t, Closing) PROVE FALSE
      <4>1. Holds(req[v], t, Marking)
        BY <3>1, RedeemingCalls DEF Holds
      <4> QED BY <2>2, <2>4, <3>1, <4>1 DEF Holds
    <3> QED BY <2>5, <3>1 DEF TokenOnce
  <2>6. CASE req[w].op = "logout"
    <3>1. ~Holds(req'[w], t, Using)
      BY <1>1, <2>1, <2>6, SecondCalls DEF Holds
    <3>2. ASSUME NEW v \in Workers
          PROVE  Holds(req'[v], t, Using) =>
                    Holds(req[v], t, Using) /\ v # w /\ req'[v].todo = req[v].todo
      BY <1>1, <3>1, OthersHold
    <3>3. ASSUME NEW v, NEW u \in Workers, v \in Workers, Holds(req'[v], t, Marking), Holds(req'[u], t, Marking)
          PROVE  u = v
      BY <2>3, <3>3
    <3> QED BY <1>1, <2>5, <3>2, <3>3 DEF TokenOnce
  <2>7. CASE req[w].op # "logout"
    <3>1. ~tokens[t].spent /\ tokens[t].uses = 0
      BY <2>1, <2>5, <2>7
    <3>2. ASSUME NEW v \in Workers \ {w} PROVE ~Holds(req'[v], t, Using)
      <4>1. ~Holds(req[v], t, Using)
        BY <2>2, <3>1 DEF TokenOnce, Holds
      <4> QED BY <1>1, <4>1, OthersHold
    <3>3. req'[w].todo \in Marking
      BY <1>1, <2>1, SecondCalls
    <3> QED BY <1>1, <2>3, <3>1, <3>2, <3>3 DEF TokenOnce
  <2> QED BY <2>6, <2>7
<1> QED BY <1>2, <1>3

LEMMA TokensOnceMark ==
    ASSUME Typed, NEW t \in DOMAIN tokens, TokenOnce(t), NEW w \in Workers, Mark(w)
    PROVE  TokenOnce(t)'
<1>1. /\ Busy(w) /\ Follow(w) /\ Alike(req'[w], req[w]) /\ req'[w].todo = Tail(req[w].todo)
      /\ Older(0) /\ Idly /\ (tokens'[t].spent <=> tokens[t].spent \/ t = req[w].t)
  BY Marks
<1>2. tokens'[t].uses = tokens[t].uses /\ (tokens[t].spent => tokens'[t].spent)
  BY <1>1, OlderTokens
<1>3. \/ req[w].todo = <<"mark", "load", "issue">> /\ req'[w].todo = <<"load", "issue">>
      \/ req[w].todo = <<"mark">> /\ req'[w].todo = <<>>
      \/ req[w].todo = <<"mark", "revokeAll">> /\ req'[w].todo = <<"revokeAll">>
  BY <1>1, Marks, TailsOfCalls
<1>4. /\ req'[w].todo \notin Marking
      /\ req'[w].todo \in Using => req[w].todo \in Using
  <2>1. CASE req[w].todo = <<"mark", "load", "issue">> /\ req'[w].todo = <<"load", "issue">>
    BY <2>1, RedeemingCalls
  <2>2. CASE req'[w].todo = <<>> \/ req'[w].todo = <<"revokeAll">>
    BY <2>2, RedeemingCalls
  <2> QED BY <1>3, <2>1, <2>2
<1>5. CASE req[w].t # t
  BY <1>1, <1>2, <1>5, TokenElsewhere DEF Alike
<1>6. CASE req[w].t = t
  BY <1>1, <1>2, <1>4, <1>6, TokenKeeps DEF Holds, Alike
<1> QED BY <1>5, <1>6

LEMMA TokensOnceLoad ==
    ASSUME Typed, NEW t \in DOMAIN tokens, TokenOnce(t), NEW w \in Workers, Load(w)
    PROVE  TokenOnce(t)'
<1>1. Busy(w) /\ Follow(w) /\ tokens' = tokens
  BY Loads
<1>2. req[w].todo \notin Closing
  <2>1. req[w].todo \in {<<"load", "issue">>, <<"load", "store", "mark">>,
                         <<"load", "store", "mark", "revokeAll">>, <<"load", "store">>}
    BY Loads
  <2> QED BY <2>1, RedeemingCalls
<1>3. CASE req'[w] = Idle
  BY <1>1, <1>2, <1>3, TokenKeeps DEF Holds, Idle
<1>4. CASE req'[w] # Idle
  <2>1. Alike(req'[w], req[w])
    BY <1>4, Loads
  <2>2. \/ req[w].todo = <<"load", "issue">> /\ req'[w].todo = <<"issue">>
        \/ req[w].todo = <<"load", "store", "mark">> /\ req'[w].todo = <<"store", "mark">>
        \/ req[w].todo = <<"load", "store", "mark">> /\ req'[w].todo = <<"mark">>
        \/ req[w].todo = <<"load", "store", "mark", "revokeAll">> /\ req'[w].todo = <<"store", "mark", "revokeAll">>
        \/ req[w].todo = <<"load", "store">> /\ req'[w].todo = <<"store">>
    <3>1. /\ \/ req[w].todo = <<"load", "issue">>
             \/ req[w].op = "verify" /\ req[w].todo = <<"load", "store", "mark">>
             \/ req[w].op = "reset" /\ req[w].todo = <<"load", "store", "mark", "revokeAll">>
             \/ req[w].op \in Edits /\ req[w].todo = <<"load", "store">>
          /\ req'[w].todo = Tail(req[w].todo) \/ (req[w].op = "verify" /\ req'[w].todo = <<"mark">>)
          /\ req[w].op = "verify" => req[w].todo = <<"load", "store", "mark">>
      BY <1>4, Loads DEF Edits
    <3> QED BY <3>1, TailsOfCalls
  <2>3. /\ req'[w].todo \in Marking => req[w].todo \in Marking
        /\ req'[w].todo \in Using => req[w].todo \in Using /\ (req[w].todo \in Marking => req'[w].todo \in Marking)
    <3>1. CASE req[w].todo = <<"load", "issue">> /\ req'[w].todo = <<"issue">>
      BY <3>1, RedeemingCalls
    <3>2. CASE req[w].todo = <<"load", "store", "mark">> /\ req'[w].todo \in {<<"store", "mark">>, <<"mark">>}
      BY <3>2, RedeemingCalls
    <3>3. CASE req[w].todo = <<"load", "store", "mark", "revokeAll">> /\ req'[w].todo = <<"store", "mark", "revokeAll">>
      BY <3>3, RedeemingCalls
    <3>4. CASE req'[w].todo = <<"store">>
      BY <3>4, RedeemingCalls
    <3> QED BY <2>2, <3>1, <3>2, <3>3, <3>4
  <2>4. Holds(req[w], t, Closing) => FALSE
    BY <1>2 DEF Holds
  <2>5. /\ Holds(req'[w], t, Marking) => Holds(req[w], t, Marking)
        /\ Holds(req'[w], t, Using) => /\ Holds(req[w], t, Using)
                                       /\ req[w].todo \in Marking => req'[w].todo \in Marking
    BY <2>1, <2>3 DEF Holds, Alike
  <2> QED BY <1>1, <2>4, <2>5, TokenKeeps
<1> QED BY <1>3, <1>4

\* The three steps that are a use of the token a request redeems.
LEMMA TokensOnceStore ==
    ASSUME Typed, NEW t \in DOMAIN tokens, TokenOnce(t), NEW w \in Workers, Store(w)
    PROVE  TokenOnce(t)'
<1>1. Busy(w) /\ Follow(w)
  BY Stores
<1>2. req[w].todo \notin Closing
  <2>1. req[w].todo \in {<<"store", "mark">>, <<"store", "mark", "revokeAll">>, <<"store">>}
    BY Stores
  <2> QED BY <2>1, RedeemingCalls
<1>3. CASE req'[w] = Idle /\ tokens' = tokens
  BY <1>1, <1>2, <1>3, TokenKeeps DEF Holds, Idle
<1>4. CASE ~(req'[w] = Idle /\ tokens' = tokens)
  <2>1. /\ Alike(req'[w], req[w]) /\ req'[w].todo = Tail(req[w].todo) /\ req'[w].did
        /\ Older(0) /\ Uses(req[w].t) /\ tokens'[t].spent = tokens[t].spent
    BY <1>4, Stores
  <2>2. tokens'[t].uses = IF t = req[w].t THEN tokens[t].uses + 1 ELSE tokens[t].uses
    BY <2>1, OlderTokens
  <2>3. CASE req[w].t # t
    BY <1>1, <2>1, <2>2, <2>3, TokenElsewhere DEF Alike
  <2>4. CASE req[w].t = t
    <3>1. req[w].op \notin Edits
      BY <1>1, <2>4, RedeemedTokens, TokenTypes DEF Edits, Redeemers
    <3>2. \/ req[w].todo = <<"store", "mark">> /\ req'[w].todo = <<"mark">>
          \/ req[w].todo = <<"store", "mark", "revokeAll">> /\ req'[w].todo = <<"mark", "revokeAll">>
      BY <2>1, <3>1, Stores, TailsOfCalls
    <3>3. /\ req[w].todo \in Using /\ req[w].todo \in Marking
          /\ req'[w].todo \in Closing /\ req'[w].todo \notin Using
      <4>1. CASE req[w].todo = <<"store", "mark">> /\ req'[w].todo = <<"mark">>
        BY <4>1, RedeemingCalls
      <4>2. CASE req[w].todo = <<"store", "mark", "revokeAll">> /\ req'[w].todo = <<"mark", "revokeAll">>
        BY <4>2, RedeemingCalls
      <4> QED BY <3>2, <4>1, <4>2
    <3>4. /\ Holds(req[w], t, Using) /\ ~Holds(req'[w], t, Using) /\ Holds(req[w], t, Marking)
          /\ Holds(req'[w], t, Closing)
      BY <1>1, <2>1, <2>4, <3>3 DEF Holds, Alike, Busy
    <3> QED BY <1>1, <2>1, <2>2, <2>4, <3>4, TokenUsedUp
  <2> QED BY <2>3, <2>4
<1> QED BY <1>3, <1>4

LEMMA TokensOnceCreate ==
    ASSUME Typed, NEW t \in DOMAIN tokens, TokenOnce(t), NEW w \in Workers, CreateUser(w)
    PROVE  TokenOnce(t)'
<1>1. Busy(w) /\ Follow(w)
  BY CreatesUser
<1>2. CASE req[w].op # "accept"
  <2>1. req[w].op \notin Redeemers
    BY <1>2, CreatesUser DEF Redeemers
  <2>2. req[w].t = 0 /\ t # 0
    BY <1>1, <2>1, RedeemedTokens, TokenTypes
  <2>3. req'[w] = Idle \/ req'[w].t # t
    BY <2>2, CreatesUser DEF Alike
  <2>4. (tokens[t].spent => tokens'[t].spent) /\ tokens'[t].uses = tokens[t].uses
    <3>1. CASE tokens' = tokens
      BY <3>1
    <3>2. CASE Older(0) /\ Uses(req[w].t)
      BY <2>2, <3>2, OlderTokens
    <3> QED BY <3>1, <3>2, CreatesUser
  <2> QED BY <1>1, <2>2, <2>3, <2>4, TokenElsewhere
<1>3. CASE req[w].op = "accept"
  <2>1. req[w].todo = <<"createUser", "mark">>
    BY <1>3, CreatesUser
  <2>2. req[w].todo \in Using /\ req[w].todo \in Marking /\ req[w].todo \notin Closing
    BY <2>1, RedeemingCalls
  <2>3. CASE req'[w] = Idle /\ tokens' = tokens
    BY <1>1, <2>2, <2>3, TokenKeeps DEF Holds, Idle
  <2>4. CASE ~(req'[w] = Idle /\ tokens' = tokens)
    <3>1. /\ Alike(req'[w], req[w]) /\ req'[w].todo = Tail(req[w].todo) /\ req'[w].did
          /\ Older(0) /\ Uses(req[w].t) /\ tokens'[t].spent = tokens[t].spent
      BY <2>4, CreatesUser
    <3>2. tokens'[t].uses = IF t = req[w].t THEN tokens[t].uses + 1 ELSE tokens[t].uses
      BY <3>1, OlderTokens
    <3>3. req'[w].todo \in Closing /\ req'[w].todo \notin Using
      BY <2>1, <3>1, TailsOfCalls, RedeemingCalls
    <3>4. CASE req[w].t # t
      BY <1>1, <3>1, <3>2, <3>4, TokenElsewhere DEF Alike
    <3>5. CASE req[w].t = t
      <4>1. /\ Holds(req[w], t, Using) /\ ~Holds(req'[w], t, Using) /\ Holds(req[w], t, Marking)
            /\ Holds(req'[w], t, Closing)
        BY <1>1, <2>2, <3>1, <3>3, <3>5 DEF Holds, Alike, Busy
      <4> QED BY <1>1, <3>1, <3>2, <3>5, <4>1, TokenUsedUp
    <3> QED BY <3>4, <3>5
  <2> QED BY <2>3, <2>4
<1> QED BY <1>2, <1>3

LEMMA TokensOnceIssue ==
    ASSUME Typed, NEW t \in DOMAIN tokens, TokenOnce(t), NEW w \in Workers, Issue(w)
    PROVE  TokenOnce(t)'
<1>1. /\ Busy(w) /\ Follow(w) /\ Alike(req'[w], req[w]) /\ req'[w].todo = <<>> /\ req[w].todo = <<"issue">>
      /\ Older(1) /\ Uses(req[w].t) /\ tokens'[t].spent = tokens[t].spent
  BY Issues
<1>2. tokens'[t].uses = IF t = req[w].t THEN tokens[t].uses + 1 ELSE tokens[t].uses
  BY <1>1, OlderTokens
<1>3. CASE req[w].t # t
  BY <1>1, <1>2, <1>3, TokenElsewhere DEF Alike
<1>4. CASE req[w].t = t
  <2>1. /\ req[w].todo \in Using /\ req[w].todo \notin Marking
        /\ req'[w].todo \notin Using /\ req'[w].todo \notin Marking
    BY <1>1, RedeemingCalls
  <2>2. Holds(req[w], t, Using) /\ ~Holds(req'[w], t, Using) /\ ~Holds(req'[w], t, Marking)
    BY <1>1, <1>4, <2>1 DEF Holds, Busy
  <2> QED BY <1>1, <1>2, <1>4, <2>1, <2>2, TokenUsedUp
<1> QED BY <1>3, <1>4

LEMMA TokensOnceSteps == Typed /\ TokensOnce /\ [Next]_vars => TokensOnce'
<1> SUFFICES ASSUME Typed, TokensOnce, [Next]_vars,
                    NEW t \in DOMAIN tokens', <<"token", t>> \notin muddled'
             PROVE  TokenOnce(t)'
  BY DEF TokensOnce
<1>1. CASE t \notin DOMAIN tokens
  <2>1. ASSUME NEW w \in Workers, Email(w) \/ Issue(w) PROVE TokenOnce(t)'
    <3>1. t = Len(tokens) + 1 /\ tokens'[t].uses = 0 /\ Follow(w) /\ Busy(w) /\ Alike(req'[w], req[w])
      BY <1>1, <2>1, Emails, Issues
    <3>2. ASSUME NEW v \in Workers, Busy(v) PROVE req[v].t # t
      <4>1. Proper(req[v], Len(accounts), tokens) /\ Len(tokens) \in Nat
        BY <3>2, BusyRequests DEF Typed
      <4>2. req[v].t \in DOMAIN tokens \/ req[v].t = 0
        BY <4>1 DEF Proper
      <4> QED BY <1>1, <3>1, <4>1, <4>2
    <3>3. ASSUME NEW v \in Workers, NEW S PROVE ~Holds(req'[v], t, S)
      <4>1. CASE v = w
        BY <3>1, <3>2, <4>1 DEF Holds, Alike
      <4>2. CASE v # w
        BY <3>1, <3>2, <4>2, OthersHold DEF Holds, Busy
      <4> QED BY <4>1, <4>2
    <3>4. \A v \in Workers : ~Holds(req'[v], t, Marking) /\ ~Holds(req'[v], t, Using)
      BY <3>3
    <3> QED BY <3>1, <3>4 DEF TokenOnce
  <2>2. ASSUME NEW w \in Workers, Receive(w) \/ Answer(w) \/ BreakOff(w) \/ Call(w),
               ~Email(w), ~Issue(w)
        PROVE  DOMAIN tokens' = DOMAIN tokens
    <3>1. CASE Receive(w) \/ Answer(w) \/ BreakOff(w)
      BY <3>1, Receives, Answers, BreaksOff
    <3>2. CASE FindToken(w) \/ Mark(w) \/ Invalidate(w) \/ RevokeAll(w) \/ FindByEmail(w)
      BY <3>2, FindsToken, Marks, Invalidates, RevokesAll, FindsByEmail
    <3>3. CASE CreateTenant(w) \/ Load(w) \/ Delete(w)
      BY <3>3, CreatesTenant, Loads, Deletes
    <3>4. CASE CreateUser(w) \/ Store(w)
      BY <3>4, CreatesUser, Stores
    <3>5. CASE Ignore(w)
      BY <3>5, Ignores
    <3> QED BY <2>2, <3>1, <3>2, <3>3, <3>4, <3>5 DEF Call
  <2>3. CASE Expire \/ Forget \/ UNCHANGED vars
    <3>1. DOMAIN tokens' = DOMAIN tokens
      BY <2>3, Expires, Forgets DEF vars
    <3> QED BY <1>1, <3>1
  <2> QED BY <1>1, <2>1, <2>2, <2>3, NextCases
<1>2. CASE t \in DOMAIN tokens
  <2>0. ASSUME muddled \subseteq muddled' PROVE TokenOnce(t)
    BY <1>2, <2>0 DEF TokensOnce
  <2>1. ASSUME NEW w \in Workers, Receive(w) PROVE TokenOnce(t)'
    <3>1. ~Busy(w) /\ Follow(w) /\ tokens' = tokens /\ TokenOnce(t)
      BY <2>0, <2>1, Receives
    <3>2. \A S : ~Holds(req[w], t, S)
      BY <3>1 DEF Holds, Busy
    <3>3. ~Holds(req'[w], t, Marking) /\ ~Holds(req'[w], t, Using)
      <4>1. CASE req' = req
        BY <3>2, <4>1
      <4>2. CASE req' # req
        <5>1. Proper(req'[w], Len(accounts), tokens) /\ req'[w].todo = Steps(req'[w].op)
              /\ req'[w].op \in Ops
          BY <2>1, <4>2, Receives DEF Proper, Request
        <5>2. CASE req'[w].op \in Redeemers
          BY <5>1, <5>2, StepsLeft DEF Holds
        <5>3. CASE req'[w].op \notin Redeemers
          BY <1>2, <5>1, <5>3, TokenTypes DEF Holds, Proper
        <5> QED BY <5>2, <5>3
      <4> QED BY <4>1, <4>2
    <3> QED BY <1>2, <3>1, <3>2, <3>3, TokenKeeps
  <2>2. ASSUME NEW w \in Workers, Answer(w) PROVE TokenOnce(t)'
    <3>1. Follow(w) /\ tokens' = tokens /\ TokenOnce(t) /\ req'[w] = Idle /\ req[w].todo = <<>>
      BY <2>0, <2>2, Answers
    <3>2. ~Holds(req[w], t, Closing)
      BY <3>1, RedeemingCalls DEF Holds
    <3>3. \A S : ~Holds(req'[w], t, S)
      BY <3>1 DEF Holds, Idle
    <3> QED BY <1>2, <3>1, <3>2, <3>3, TokenKeeps
  <2>3. ASSUME NEW w \in Workers, BreakOff(w) PROVE TokenOnce(t)'
    <3>1. Follow(w) /\ tokens' = tokens /\ TokenOnce(t) /\ req'[w] = Idle
      BY <2>0, <2>3, BreaksOff
    <3>2. ~(Holds(req[w], t, Closing) /\ req[w].did)
      BY <2>3, BreaksOff DEF Holds
    <3>3. \A S : ~Holds(req'[w], t, S)
      BY <3>1 DEF Holds, Idle
    <3> QED BY <1>2, <3>1, <3>2, <3>3, TokenKeeps
  <2>4. ASSUME NEW w \in Workers, FindToken(w) PROVE TokenOnce(t)'
    BY <1>2, <2>0, <2>4, CallsGoOn, TokensOnceFind DEF Call
  <2>5. ASSUME NEW w \in Workers, Mark(w) PROVE TokenOnce(t)'
    BY <1>2, <2>0, <2>5, CallsGoOn, TokensOnceMark DEF Call
  <2>6. ASSUME NEW w \in Workers, Load(w) PROVE TokenOnce(t)'
    BY <1>2, <2>0, <2>6, CallsGoOn, TokensOnceLoad DEF Call
  <2>7. ASSUME NEW w \in Workers, Store(w) PROVE TokenOnce(t)'
    BY <1>2, <2>0, <2>7, CallsGoOn, TokensOnceStore DEF Call
  <2>8. ASSUME NEW w \in Workers, CreateUser(w) PROVE TokenOnce(t)'
    BY <1>2, <2>0, <2>8, CallsGoOn, TokensOnceCreate DEF Call
  <2>9. ASSUME NEW w \in Workers, Issue(w) PROVE TokenOnce(t)'
    BY <1>2, <2>0, <2>9, CallsGoOn, TokensOnceIssue DEF Call
  <2>10. ASSUME NEW w \in Workers, RevokeAll(w) PROVE TokenOnce(t)'
    <3>1. /\ Follow(w) /\ TokenOnce(t) /\ req'[w].todo = <<>> /\ req[w].todo = <<"revokeAll">>
          /\ Older(0) /\ Idly
      BY <2>0, <2>10, RevokesAll
    <3>2. ~Holds(req[w], t, Closing) /\ ~Holds(req'[w], t, Marking) /\ ~Holds(req'[w], t, Using)
      BY <3>1, RedeemingCalls DEF Holds
    <3>3. (tokens[t].spent => tokens'[t].spent) /\ tokens'[t].uses = tokens[t].uses
      BY <1>2, <3>1, OlderTokens
    <3> QED BY <1>2, <3>1, <3>2, <3>3, TokenKeeps
  <2>13. ASSUME NEW w \in Workers, Ignore(w) PROVE TokenOnce(t)'
    <3>1. /\ Follow(w) /\ Busy(w) /\ Alike(req'[w], req[w]) /\ tokens' = tokens /\ TokenOnce(t)
      BY <2>0, <2>13, Ignores
    <3>2. CASE req[w].op \notin Redeemers
      <4>1. req[w].t = 0 /\ t # 0
        BY <1>2, <3>1, <3>2, RedeemedTokens, TokenTypes
      <4> QED BY <1>2, <3>1, <4>1, TokenElsewhere DEF Alike
    <3>3. CASE req[w].op \in Redeemers
      <4>1. req[w].todo = <<"revokeAll">> /\ req'[w].todo = <<>>
        BY <2>13, <3>3, Ignores DEF Redeemers
      <4>2. ~Holds(req[w], t, Closing) /\ ~Holds(req'[w], t, Marking) /\ ~Holds(req'[w], t, Using)
        BY <4>1, RedeemingCalls DEF Holds
      <4> QED BY <1>2, <3>1, <4>2, TokenKeeps
    <3> QED BY <3>2, <3>3
  <2>11. ASSUME NEW w \in Workers, Invalidate(w) \/ Email(w) \/ FindByEmail(w) \/ CreateTenant(w) \/ Delete(w)
         PROVE  TokenOnce(t)'
    <3>1. /\ Follow(w) /\ Busy(w) /\ (req'[w] = Idle \/ Alike(req'[w], req[w])) /\ TokenOnce(t)
      BY <2>0, <2>11, CallsGoOn DEF Call
    <3>2. req[w].op \notin Redeemers
      BY <2>11, Invalidates, Emails, FindsByEmail, CreatesTenant, Deletes DEF Redeemers, Finders
    <3>3. req[w].t = 0 /\ t # 0
      BY <1>2, <3>1, <3>2, RedeemedTokens, TokenTypes
    <3>4. \E n : Older(n) /\ Idly
      <4>1. CASE Invalidate(w)
        BY <4>1, Invalidates
      <4>2. CASE Email(w)
        BY <4>2, Emails
      <4>3. CASE tokens' = tokens
        BY <4>3, TypedSame
      <4> QED BY <2>11, <4>1, <4>2, <4>3, FindsByEmail, CreatesTenant, Deletes
    <3>5. (tokens[t].spent => tokens'[t].spent) /\ tokens'[t].uses = tokens[t].uses
      BY <1>2, <3>4, OlderTokens
    <3> QED BY <1>2, <3>1, <3>3, <3>5, TokenElsewhere DEF Alike
  <2>12. CASE Expire \/ Forget \/ UNCHANGED vars
    <3>1. req' = req /\ muddled' = muddled /\ TokenOnce(t)
      BY <2>0, <2>12 DEF Expire, Forget, vars
    <3>2. (tokens[t].spent => tokens'[t].spent) /\ tokens'[t].uses = tokens[t].uses
      <4>1. CASE Expire
        BY <1>2, <4>1, Expires, OlderTokens
      <4>2. CASE Forget \/ UNCHANGED vars
        BY <4>2, Forgets DEF vars
      <4> QED BY <2>12, <4>1, <4>2
    <3> QED BY <3>1, <3>2 DEF TokenOnce
  <2> QED BY <2>1, <2>2, <2>3, <2>4, <2>5, <2>6, <2>7, <2>8, <2>9, <2>10, <2>11, <2>12,
             <2>13, NextCases DEF Call
<1> QED BY <1>1, <1>2

\* DoneOnce of Accounts: single-use links, invitations and refresh tokens bring
\* about one change, a request repeated under its key runs once until its answer
\* runs out, and one signup of an email has an account (account_service.go,
\* auth_service.go, idempotency.go), for any number of requests at once; but for
\* keys, tokens and the email that two requests were at together, that one left
\* half way, or whose answer was not stored or not read.
THEOREM OnceOnly == Spec => []DoneOnce
<1> DEFINE Once == KeysOnce /\ EmailOnce /\ TokensOnce
<1>1. Init => Once
  <2> SUFFICES ASSUME Init PROVE Once
    OBVIOUS
  <2>1. Typed /\ \A w \in Workers : ~Busy(w) /\ req[w] = Idle
    BY TypedInit, IdleIsNotBusy DEF Init
  <2>2. KeysOnce
    BY <2>1 DEF KeysOnce, KeyOnce, Init
  <2>3. EmailOnce
    <3>1. \A i, j \in Stored : accounts[i].by = "signup" /\ accounts[j].by = "signup" => i = j
      BY WorkloadAssumption DEF Init, Stored
    <3> QED BY <2>1, <3>1 DEF EmailOnce, SignedOnce, Signs
  <2>4. TokensOnce
    <3>1. \A t \in DOMAIN tokens : tokens[t].uses = 0
      BY WorkloadAssumption DEF Init
    <3> QED BY <2>1, <3>1 DEF TokensOnce, TokenOnce, Holds, Idle
  <2> QED BY <2>2, <2>3, <2>4
<1>2. Typed /\ Once /\ [Next]_vars => Once'
  BY KeysOnceSteps, EmailOnceSteps, TokensOnceSteps
<1>3. Once => DoneOnce
  BY DEF DoneOnce, KeysOnce, KeyOnce, EmailOnce, SignedOnce, TokensOnce, TokenOnce
<1> QED BY <1>1, <1>2, <1>3, TypedAlways, PTL DEF Spec

-----------------------------------------------------------------------------
(* A reset ends the sessions from before it.                               *)

\* A session of a, and a request that will issue one, neither of them late.
Session(s, a) == s.kind = "refresh" /\ s.acc = a /\ ~s.spent /\ ~s.late
Coming(r, a) == r.op # "none" /\ r.acc = a /\ r.todo \in Issuing /\ ~r.late

\* No reset of a is under way or broke off.
Settled(a) == ~Resetting(a) /\ ~accounts[a].unrevoked

\* The sessions of a, and those to come, are of its era.
Current(a) ==
    /\ \A t \in DOMAIN tokens : Session(tokens[t], a) => tokens[t].era = accounts[a].era
    /\ \A w \in Workers : Coming(req[w], a) => req[w].era = accounts[a].era

Eras == \A a \in DOMAIN accounts : Settled(a) => Current(a)

\* A step of w, and what comes with it.
Step(w) == Receive(w) \/ Answer(w) \/ BreakOff(w) \/ Call(w)

LEMMA StepsFollow ==
    ASSUME Typed, NEW w \in Workers, Step(w)
    PROVE  Follow(w) /\ Typed'
<1>1. Follow(w)
  BY Receives, Answers, CallsGoOn DEF Step
<1>2. [Next]_vars
  BY DEF Step, Call, Next
<1> QED BY <1>1, <1>2, TypedSteps

LEMMA IssuingCalls ==
    /\ <<"mark", "load", "issue">> \in Issuing /\ <<"load", "issue">> \in Issuing
    /\ <<"issue">> \in Issuing
    /\ {<<>>, <<"store">>, <<"mark">>, <<"store", "mark">>, <<"store", "mark", "revokeAll">>} \cap Issuing = {}
BY DEF Issuing

LEMMA IssuingOps ==
    ASSUME NEW op \in Ops, NEW todo \in Todos(op), todo \in Issuing
    PROVE  op \in {"login", "refresh"}
<1>1. todo # <<>> /\ Head(todo) \in {"mark", "load", "issue"}
  BY DEF Issuing
<1>2. CASE Head(todo) = "mark"
  <2>1. todo # <<"mark">> /\ todo # <<"mark", "revokeAll">>
    BY DEF Issuing
  <2> QED BY <1>1, <1>2, <2>1, CallsLeft
<1>3. CASE Head(todo) = "load"
  <2>1. /\ todo # <<"load", "store", "mark">> /\ todo # <<"load", "store", "mark", "revokeAll">>
        /\ todo # <<"load", "store">>
    BY DEF Issuing
  <2> QED BY <1>1, <1>3, <2>1, CallsLeft
<1>4. CASE Head(todo) = "issue"
  BY <1>1, <1>4, CallsLeft
<1> QED BY <1>1, <1>2, <1>3, <1>4

\* Where a session to come comes from.
LEMMA ComesFrom ==
    ASSUME Typed, NEW w \in Workers, Step(w), NEW a, Coming(req'[w], a)
    PROVE  \/ Coming(req[w], a) /\ req'[w].era = req[w].era
           \/ \E t \in DOMAIN tokens : Session(tokens[t], a) /\ req'[w].era = tokens[t].era
           \/ req'[w].era = accounts[a].era /\ accounts' = accounts
<1>1. /\ req'[w].op # "none" /\ req'[w] # Idle /\ req'[w].acc = a /\ req'[w].todo \in Issuing /\ ~req'[w].late
  BY DEF Coming, Idle
<1>2. req'[w].op \in {"login", "refresh"}
  <2>1. Proper(req'[w], Len(accounts'), tokens')
    BY <1>1, StepsFollow DEF Typed
  <2> QED BY <1>1, <2>1, IssuingOps DEF Proper, Request
<1>3. CASE Receive(w)
  <2>1. CASE req' = req
    BY <1>1, <1>3, <2>1, Receives DEF Busy
  <2>2. CASE req' # req
    <3>1. Request(req'[w]) /\ req'[w].todo = Steps(req'[w].op)
      BY <1>3, <2>2, Receives DEF Proper
    <3> QED BY <1>1, <3>1, StepsLeft DEF Request
  <2> QED BY <2>1, <2>2
<1>4. CASE Answer(w) \/ BreakOff(w)
  BY <1>1, <1>4, Answers, BreaksOff
<1>5. CASE Call(w)
  <2>1. Busy(w) /\ Alike(req'[w], req[w]) /\ req[w].op \in {"login", "refresh"}
    BY <1>1, <1>2, <1>5, CallsGoOn DEF Alike
  <2>2. ~Invalidate(w) /\ ~Email(w) /\ ~RevokeAll(w) /\ ~CreateTenant(w) /\ ~Delete(w) /\ ~Ignore(w)
    BY <2>1, Invalidates, Emails, RevokesAll, CreatesTenant, Deletes, Ignores
  <2>3. ~CreateUser(w) /\ ~Store(w)
    BY <2>1, CreatesUser, Stores DEF Edits
  <2>4. ~Issue(w)
    BY <1>1, Issues, IssuingCalls
  <2>5. CASE FindToken(w)
    <3>1. /\ req[w].op \in Redeemers /\ req[w].t \in DOMAIN tokens
          /\ tokens[req[w].t].kind = Redeems(req[w].op)
          /\ req'[w].acc = tokens[req[w].t].acc /\ req'[w].era = tokens[req[w].t].era
          /\ req'[w].late = tokens[req[w].t].late /\ (req[w].op # "logout" => ~tokens[req[w].t].spent)
      BY <1>1, <2>5, FindsToken
    <3>2. req[w].op = "refresh" /\ Redeems(req[w].op) = "refresh"
      BY <2>1, <3>1 DEF Redeemers, Redeems
    <3> QED BY <1>1, <3>1, <3>2 DEF Session
  <2>6. CASE Mark(w)
    <3>1. /\ req'[w].todo = Tail(req[w].todo) /\ req'[w].acc = req[w].acc /\ req'[w].era = req[w].era
          /\ req'[w].late = req[w].late /\ req[w].todo = <<"mark", "load", "issue">>
      BY <2>1, <2>6, Marks
    <3> QED BY <1>1, <2>1, <3>1, IssuingCalls DEF Coming, Busy
  <2>7. CASE Load(w)
    <3>1. /\ req'[w].acc = req[w].acc /\ req'[w].era = req[w].era
          /\ req'[w].late = req[w].late /\ req[w].todo = <<"load", "issue">>
      BY <1>1, <2>1, <2>7, Loads DEF Edits
    <3> QED BY <1>1, <2>1, <3>1, IssuingCalls DEF Coming, Busy
  <2>8. CASE FindByEmail(w)
    BY <1>1, <2>8, FindsByEmail
  <2> QED BY <1>5, <2>2, <2>3, <2>4, <2>5, <2>6, <2>7, <2>8 DEF Call
<1> QED BY <1>3, <1>4, <1>5 DEF Step

LEMMA OlderSessions ==
    ASSUME NEW n, Older(n), NEW t \in DOMAIN tokens, NEW a, Session(tokens'[t], a)
    PROVE  Session(tokens[t], a) /\ tokens'[t].era = tokens[t].era
BY DEF Older, Ages, Session

\* Where a session comes from.
LEMMA IssuedFrom ==
    ASSUME Typed, NEW w \in Workers, Step(w), NEW a, NEW t \in DOMAIN tokens', Session(tokens'[t], a)
    PROVE  \/ t \in DOMAIN tokens /\ Session(tokens[t], a) /\ tokens'[t].era = tokens[t].era
           \/ Coming(req[w], a) /\ tokens'[t].era = req[w].era
<1>1. CASE tokens' = tokens
  BY <1>1
<1>2. CASE Older(0) /\ DOMAIN tokens' = DOMAIN tokens
  BY <1>2, OlderSessions
<1>3. CASE Email(w)
  <2>1. /\ Older(1) /\ DOMAIN tokens' = DOMAIN tokens \cup {Len(tokens) + 1}
        /\ tokens'[Len(tokens) + 1].kind # "refresh"
    BY <1>3, Emails
  <2>2. t \in DOMAIN tokens
    BY <2>1 DEF Session
  <2> QED BY <2>1, <2>2, OlderSessions
<1>4. CASE Issue(w)
  <2>1. /\ Older(1) /\ DOMAIN tokens' = DOMAIN tokens \cup {Len(tokens) + 1} /\ Busy(w)
        /\ tokens'[Len(tokens) + 1].acc = req[w].acc /\ tokens'[Len(tokens) + 1].era = req[w].era
        /\ tokens'[Len(tokens) + 1].late = req[w].late /\ req[w].todo = <<"issue">>
    BY <1>4, Issues
  <2>2. CASE t \in DOMAIN tokens
    BY <2>1, <2>2, OlderSessions
  <2>3. CASE t = Len(tokens) + 1
    BY <2>1, <2>3, IssuingCalls DEF Session, Coming, Busy
  <2> QED BY <2>1, <2>2, <2>3
<1>5. CASE Receive(w) \/ Answer(w) \/ BreakOff(w) \/ Ignore(w)
  BY <1>1, <1>5, Receives, Answers, BreaksOff, Ignores
<1>6. CASE FindToken(w) \/ FindByEmail(w) \/ CreateTenant(w) \/ Load(w) \/ Delete(w)
  BY <1>1, <1>6, FindsToken, FindsByEmail, CreatesTenant, Loads, Deletes
<1>7. CASE Mark(w) \/ Invalidate(w) \/ RevokeAll(w)
  BY <1>2, <1>7, Marks, Invalidates, RevokesAll
<1>8. CASE CreateUser(w) \/ Store(w)
  BY <1>1, <1>2, <1>8, CreatesUser, Stores
<1> QED BY <1>3, <1>4, <1>5, <1>6, <1>7, <1>8 DEF Step, Call

\* Only a reset ends an era, and then it is under way.
LEMMA ErasGrow ==
    ASSUME Typed, NEW w \in Workers, Step(w), NEW a \in DOMAIN accounts
    PROVE  /\ accounts[a].unrevoked => accounts'[a].unrevoked \/ (RevokeAll(w) /\ req[w].acc = a)
           /\ accounts'[a].era = accounts[a].era \/ Resetting(a)'
<1>1. CASE accounts' = accounts
  BY <1>1
<1>2. CASE BreakOff(w) \/ Ignore(w) \/ Delete(w)
  <2>1. accounts' = accounts \/ Steady
    BY <1>2, BreaksOff, Ignores, Deletes
  <2> QED BY <1>1, <2>1 DEF Steady
<1>3. CASE CreateUser(w)
  BY <1>1, <1>3, CreatesUser
<1>4. CASE Store(w) /\ accounts' # accounts
  <2>1. /\ Proper(req'[w], Len(accounts'), tokens') /\ Alike(req'[w], req[w])
        /\ req'[w].todo = Tail(req[w].todo) /\ req'[w].acc = req[w].acc /\ req'[w].did /\ Reset(req[w])
        /\ req[w].op = "reset" => req[w].todo = <<"store", "mark", "revokeAll">>
    BY <1>4, Stores DEF Edits
  <2>2. ASSUME req[w].op = "reset", a = req[w].acc PROVE Resetting(a)'
    <3>1. req'[w].op = "reset" /\ req'[w].acc = a /\ req'[w].todo = <<"mark", "revokeAll">>
      BY <2>1, <2>2, TailsOfCalls DEF Alike
    <3>2. Busy(w)' /\ req'[w].todo # <<>>
      BY <3>1 DEF Busy
    <3> QED BY <2>1, <3>1, <3>2 DEF Resetting
  <2> QED BY <2>1, <2>2 DEF Reset
<1>5. CASE Receive(w) \/ Answer(w) \/ FindToken(w) \/ Mark(w) \/ Invalidate(w) \/ Email(w)
  BY <1>1, <1>5, Receives, Answers, FindsToken, Marks, Invalidates, Emails
<1>6. CASE Issue(w) \/ FindByEmail(w) \/ CreateTenant(w) \/ Load(w)
  BY <1>1, <1>6, Issues, FindsByEmail, CreatesTenant, Loads
<1>7. CASE RevokeAll(w)
  BY <1>7, RevokesAll
<1> QED BY <1>1, <1>2, <1>3, <1>4, <1>5, <1>6, <1>7 DEF Step, Call

\* A reset that is under way stays so until it has revoked the sessions.
LEMMA ResetsGoOn ==
    ASSUME Typed, NEW w \in Workers, Step(w), NEW a \in DOMAIN accounts, Resetting(a),
           ~(RevokeAll(w) /\ req[w].acc = a)
    PROVE  Resetting(a)' \/ accounts'[a].unrevoked
<1>1. PICK v \in Workers : /\ Busy(v) /\ req[v].op = "reset" /\ req[v].acc = a /\ req[v].did
                           /\ req[v].todo # <<>>
  BY DEF Resetting
<1>2. CASE v # w
  <2>1. /\ Busy(v)' /\ Alike(req'[v], req[v]) /\ req'[v].todo = req[v].todo
        /\ req'[v].acc = req[v].acc /\ req'[v].did = req[v].did
    BY <1>1, <1>2, StepsFollow, Bystanders
  <2> QED BY <1>1, <2>1 DEF Resetting, Alike
<1>3. CASE v = w
  <2>1. Head(req[w].todo) \in {"mark", "revokeAll"}
    <3>1. req[w].todo \in Done
      BY <1>1, <1>3, BusyRequests DEF Proper
    <3> QED BY <1>1, <1>3, <3>1 DEF Done
  <2>2. CASE BreakOff(w)
    BY <1>1, <1>3, <2>2, BreaksOff
  <2>3. CASE Mark(w)
    <3>1. /\ Alike(req'[w], req[w]) /\ req'[w].acc = a /\ req'[w].did /\ req[w].todo = <<"mark", "revokeAll">>
          /\ req'[w].todo = Tail(req[w].todo)
      BY <1>1, <1>3, <2>3, Marks
    <3>2. req'[w].todo = <<"revokeAll">>
      BY <3>1, TailsOfCalls
    <3>3. Busy(w)' /\ req'[w].op = "reset" /\ req'[w].todo # <<>>
      BY <1>1, <1>3, <3>1, <3>2 DEF Alike, Busy
    <3> QED BY <3>1, <3>3 DEF Resetting
  <2>8. CASE Ignore(w)
    BY <1>1, <1>3, <2>8, Ignores
  <2>4. ~Receive(w) /\ ~Answer(w)
    BY <1>1, <1>3, Receives, Answers
  <2>5. ~FindToken(w) /\ ~Invalidate(w) /\ ~Issue(w) /\ ~FindByEmail(w)
    BY <2>1 DEF FindToken, Invalidate, Issue, FindByEmail, At
  <2>6. ~Email(w) /\ ~CreateTenant(w) /\ ~CreateUser(w) /\ ~Load(w) /\ ~Store(w) /\ ~Delete(w)
    BY <2>1 DEF Email, CreateTenant, CreateUser, Load, Store, Delete, At
  <2>7. ~RevokeAll(w)
    BY <1>1, <1>3
  <2> QED BY <2>2, <2>3, <2>4, <2>5, <2>6, <2>7, <2>8 DEF Step, Call
<1> QED BY <1>2, <1>3

LEMMA ErasSteps == Typed /\ Eras /\ [Next]_vars => Eras'
<1> SUFFICES ASSUME Typed, Eras, [Next]_vars, NEW a \in DOMAIN accounts', Settled(a)'
             PROVE  Current(a)'
  BY DEF Eras
<1>1. ASSUME NEW w \in Workers, Step(w) PROVE Current(a)'
  <2>0. Follow(w)
    BY <1>1, StepsFollow
  <2>1. CASE a \notin DOMAIN accounts
    <3>1. CreateUser(w)
      <4>1. SUFFICES ASSUME ~CreateUser(w) PROVE FALSE
        OBVIOUS
      <4> QED BY <1>1, <2>1, <4>1, AccountsKept DEF Step, Kept
    <3>2. /\ a = Len(accounts) + 1 /\ Len(accounts) \in Nat /\ DOMAIN accounts = 1..Len(accounts)
      BY <2>1, <3>1, CreatesUser DEF Typed
    <3>3. ASSUME NEW t \in DOMAIN tokens PROVE ~Session(tokens[t], a)
      <4>1. Refers(tokens[t], Len(accounts))
        BY <3>3 DEF Typed
      <4> QED BY <3>2, <4>1 DEF Session, Refers
    <3>4. ASSUME NEW v \in Workers PROVE ~Coming(req[v], a)
      <4>1. CASE Busy(v)
        <5>1. req[v].acc \in 0..Len(accounts)
          BY <4>1, BusyRequests DEF Proper
        <5> QED BY <3>2, <5>1 DEF Coming
      <4>2. CASE ~Busy(v)
        BY <4>2 DEF Coming, Busy
      <4> QED BY <4>1, <4>2
    <3>5. ASSUME NEW t \in DOMAIN tokens' PROVE ~Session(tokens'[t], a)
      BY <1>1, <3>3, <3>4, IssuedFrom
    <3>6. ~Coming(req'[w], a)
      <4>1. accounts' # accounts
        BY <2>1
      <4> QED BY <1>1, <3>3, <3>4, <4>1, ComesFrom
    <3>7. ASSUME NEW v \in Workers PROVE ~Coming(req'[v], a)
      <4>1. CASE v = w
        BY <3>6, <4>1
      <4>2. CASE v # w
        BY <2>0, <3>1, <3>4, <4>2, CreatesUser
      <4> QED BY <4>1, <4>2
    <3> QED BY <3>5, <3>7 DEF Current
  <2>2. CASE a \in DOMAIN accounts /\ RevokeAll(w) /\ req[w].acc = a
    <3>1. /\ \A v \in Workers \ {w} :
                Busy(v) /\ req[v].acc = req[w].acc /\ req[v].todo \in Issuing => req'[v].late
          /\ Older(0) /\ DOMAIN tokens' = DOMAIN tokens /\ req'[w].todo = <<>>
          /\ \A t \in DOMAIN tokens : tokens'[t].spent <=>
                tokens[t].spent \/ (tokens[t].kind = "refresh" /\ tokens[t].acc = req[w].acc)
      BY <2>2, RevokesAll
    <3>2. ASSUME NEW t \in DOMAIN tokens' PROVE ~Session(tokens'[t], a)
      <4>1. t \in DOMAIN tokens
        BY <3>1
      <4>2. tokens'[t].kind = tokens[t].kind /\ tokens'[t].acc = tokens[t].acc
        BY <3>1, <4>1 DEF Older, Ages
      <4> QED BY <2>2, <3>1, <4>1, <4>2 DEF Session
    <3>3. ASSUME NEW v \in Workers PROVE ~Coming(req'[v], a)
      <4>1. CASE v = w
        BY <3>1, <4>1, IssuingCalls DEF Coming
      <4>2. CASE v # w
        BY <2>0, <2>2, <3>1, <4>2, Bystanders DEF Coming, Busy
      <4> QED BY <4>1, <4>2
    <3> QED BY <3>2, <3>3 DEF Current
  <2>3. CASE a \in DOMAIN accounts /\ ~(RevokeAll(w) /\ req[w].acc = a)
    <3>1. Current(a) /\ accounts'[a].era = accounts[a].era
      <4>1. ~Resetting(a)' /\ ~accounts'[a].unrevoked
        BY DEF Settled
      <4>2. accounts'[a].era = accounts[a].era /\ ~accounts[a].unrevoked
        BY <1>1, <2>3, <4>1, ErasGrow
      <4>3. ~Resetting(a)
        BY <1>1, <2>3, <4>1, ResetsGoOn
      <4> QED BY <2>3, <4>2, <4>3 DEF Eras, Settled
    <3>2. ASSUME NEW t \in DOMAIN tokens', Session(tokens'[t], a) PROVE tokens'[t].era = accounts[a].era
      BY <1>1, <3>1, <3>2, IssuedFrom DEF Current
    <3>3. ASSUME NEW v \in Workers, Coming(req'[v], a) PROVE req'[v].era = accounts[a].era
      <4>1. CASE v = w
        BY <1>1, <3>1, <3>3, <4>1, ComesFrom DEF Current
      <4>2. CASE v # w
        <5>1. /\ Busy(v) /\ Alike(req'[v], req[v]) /\ req'[v].todo = req[v].todo
              /\ req'[v].acc = req[v].acc /\ req'[v].era = req[v].era
              /\ req'[v].late \in {req[v].late, TRUE}
          BY <2>0, <3>3, <4>2, Bystanders DEF Coming, Busy
        <5>2. Coming(req[v], a)
          BY <3>3, <5>1 DEF Coming, Busy
        <5> QED BY <3>1, <5>1, <5>2 DEF Current
      <4> QED BY <4>1, <4>2
    <3> QED BY <3>1, <3>2, <3>3 DEF Current
  <2> QED BY <2>1, <2>2, <2>3
<1>2. CASE Expire \/ Forget \/ UNCHANGED vars
  <2>1. req' = req /\ accounts' = accounts
    BY <1>2 DEF Expire, Forget, vars
  <2>2. Current(a)
    BY <2>1 DEF Eras, Settled, Resetting, Busy
  <2>3. Older(0) /\ DOMAIN tokens' = DOMAIN tokens
    BY <1>2, Expires, Forgets, TypedSame DEF vars
  <2>4. ASSUME NEW t \in DOMAIN tokens', Session(tokens'[t], a) PROVE tokens'[t].era = accounts[a].era
    BY <2>2, <2>3, <2>4, OlderSessions DEF Current
  <2> QED BY <2>1, <2>2, <2>4 DEF Current
<1> QED BY <1>1, <1>2, NextCases DEF Step

\* SessionsEnd of Accounts: once a reset is through, no session goes back to a
\* login from before it, except by a login or refresh that was under way, and
\* unless the last revocation failed or was never reached, which a reset may
\* survive (ResetPassword in account_service.go, Login and Refresh in
\* auth_service.go).
THEOREM ResetsEndSessions == Spec => []SessionsEnd
<1>1. Init => Eras
  <2> SUFFICES ASSUME Init PROVE Eras
    OBVIOUS
  <2>1. \A i \in DOMAIN accounts : accounts[i].era = 0
    BY WorkloadAssumption DEF Init
  <2>2. \A t \in DOMAIN tokens : tokens[t].era = 0
    BY WorkloadAssumption DEF Init
  <2>3. \A w \in Workers : req[w] = Idle
    BY DEF Init
  <2> QED BY <2>1, <2>2, <2>3 DEF Eras, Current, Coming, Idle
<1>2. Typed /\ Eras => SessionsEnd
  <2> SUFFICES ASSUME Typed, Eras, NEW t \in DOMAIN tokens, Session(tokens[t], tokens[t].acc),
                      Settled(tokens[t].acc)
               PROVE  tokens[t].era = accounts[tokens[t].acc].era
    BY DEF SessionsEnd, Session, Settled
  <2>1. tokens[t].acc \in DOMAIN accounts
    <3>1. Refers(tokens[t], Len(accounts)) /\ accounts \in Seq(User)
      BY DEF Typed
    <3>2. tokens[t].kind # "invite"
      BY DEF Session
    <3>3. tokens[t].acc \in 0..Len(accounts) /\ tokens[t].acc # 0
      BY <3>1, <3>2 DEF Refers
    <3> QED BY <3>1, <3>3
  <2> QED BY <2>1 DEF Eras, Current
<1> QED BY <1>1, <1>2, ErasSteps, TypedAlways, PTL DEF Spec
=============================================================================
