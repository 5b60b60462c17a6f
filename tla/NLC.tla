-------------------------------- MODULE NLC --------------------------------
(***************************************************************************)
(* One `nlc` bin of the name locker (core/namelocker.go): a map from       *)
(* unames to lockInfo, guarded by nlc.mu.  Each operator is what one       *)
(* mutex-protected method computes on the map; the modules that use locks  *)
(* (objects on a target, buckets on proxies and targets) keep the map in a *)
(* variable of their own and apply these operators to it.                  *)
(*                                                                         *)
(* A map is a function whose DOMAIN is the set of unames it holds.         *)
(***************************************************************************)
EXTENDS Naturals

LockInfo == [rc : Nat, exclusive : BOOLEAN]

\* newNameLocker, nlc.init: no name is locked
EmptyMap == [u \in {} |-> [rc |-> 0, exclusive |-> FALSE]]

\* m[u] = li, adding or overwriting the entry
SetEntry(m, u, li) == [v \in DOMAIN m \cup {u} |-> IF v = u THEN li ELSE m[v]]

\* delete(m, u)
DelEntry(m, u) == [v \in DOMAIN m \ {u} |-> m[v]]

\* nlc.try succeeds: a writer needs the name absent, a reader needs no writer
TryOK(m, u, exclusive) ==
    u \in DOMAIN m => ~exclusive /\ ~m[u].exclusive

\* nlc.try: the map after a successful attempt
TryLock(m, u, exclusive) ==
    SetEntry(m, u,
        IF u \in DOMAIN m THEN [rc |-> m[u].rc + 1, exclusive |-> FALSE]
                          ELSE [rc |-> IF exclusive THEN 0 ELSE 1, exclusive |-> exclusive])

\* nlc.UpgradeLock succeeds only for the lone reader
UpgradeOK(m, u) == m[u].rc = 1

UpgradeLock(m, u) == SetEntry(m, u, [rc |-> 0, exclusive |-> TRUE])

\* nlc.DowngradeLock: the writer becomes a reader without letting go
DowngradeLock(m, u) == SetEntry(m, u, [rc |-> m[u].rc + 1, exclusive |-> FALSE])

\* nlc.Unlock: a writer deletes the entry, the last reader deletes it too
Unlock(m, u, exclusive) ==
    IF exclusive \/ m[u].rc = 1
    THEN DelEntry(m, u)
    ELSE SetEntry(m, u, [m[u] EXCEPT !.rc = @ - 1])
=============================================================================
