------------------------------- MODULE Locker -------------------------------
(***************************************************************************)
(* The distributed lock of infra/redis/lock.go: one Redis key per resource, *)
(* taken with SET key token NX PX ttl and given back by a script that       *)
(* deletes the key only while it still holds the caller's token.  A lock    *)
(* table maps every key to the token stored under it, or to Free.           *)
(*                                                                          *)
(* The code draws a fresh random token for every Acquire.  The modules that *)
(* use this one take the caller's identity as its token: a caller has one   *)
(* Acquire outstanding at a time and acquires a key only when the key does  *)
(* not exist, so a token of an earlier Acquire is gone before the next one. *)
(***************************************************************************)
CONSTANT Free

\* SetNX succeeds exactly when the key does not exist.
CanAcquire(lock, key) == lock[key] = Free

\* The key after a successful SET NX by a caller holding `token'.
Acquired(lock, key, token) == [lock EXCEPT ![key] = token]

\* A release that forgets to compare the token (mutation of Released).
ReleasedUnchecked(lock, key, token) == [lock EXCEPT ![key] = Free]

\* unlockScript: delete the key only if it still holds the caller's token.
Released(lock, key, token) ==
    IF lock[key] = token THEN [lock EXCEPT ![key] = Free] ELSE lock

\* Redis drops the key when its TTL has run out.
Expired(lock, key) == [lock EXCEPT ![key] = Free]
=============================================================================
