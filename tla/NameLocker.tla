----------------------------- MODULE NameLocker -----------------------------
(***************************************************************************)
(* The name locker and its callers (core/namelocker.go).  A client is a    *)
(* goroutine; it may hold several names, each at most once (a NLP has no   *)
(* reference count).  Lock() polls for as long as it takes, the NLP calls  *)
(* TryLock and TryRLock poll a bounded number of times, and between two    *)
(* polls every other client may run: nlc.mu is held per attempt only.      *)
(***************************************************************************)
EXTENDS NLC, FiniteSets

CONSTANTS
    Clients,        \* the goroutines that use the locker
    Names,          \* unames (of objects, or of buckets via NewNLP)
    NumTries        \* attempts of nlp.withRetry before it gives up

ASSUME NLAssumption == IsFiniteSet(Clients) /\ NumTries \in Nat \ {0}

VARIABLES
    m,              \* nlc.m
    held,           \* held[c][u]: the mode in which c holds u
    call            \* call[c]: the polling call c is blocked in, or Idle

vars == <<m, held, call>>

Modes == {"none", "read", "write"}

Idle == [op |-> "idle"]

\* Lock(u, exclusive), or an NLP try with `left` attempts to go
Calls == [op : {"lock"}, u : Names, exclusive : BOOLEAN]
           \cup [op : {"try"}, u : Names, exclusive : BOOLEAN, left : 1..NumTries]

ModeOf(exclusive) == IF exclusive THEN "write" ELSE "read"

Init ==
    /\ m = EmptyMap
    /\ held = [c \in Clients |-> [u \in Names |-> "none"]]
    /\ call = [c \in Clients |-> Idle]

CallLock(c, u, exclusive) ==
    /\ call[c] = Idle
    /\ held[c][u] = "none"
    /\ call' = [call EXCEPT ![c] = [op |-> "lock", u |-> u, exclusive |-> exclusive]]
    /\ UNCHANGED <<m, held>>

CallTry(c, u, exclusive) ==
    /\ call[c] = Idle
    /\ held[c][u] = "none"
    /\ call' = [call EXCEPT ![c] =
                  [op |-> "try", u |-> u, exclusive |-> exclusive, left |-> NumTries]]
    /\ UNCHANGED <<m, held>>

\* one attempt of a polling call that acquires the lock
Acquire(c) ==
    /\ call[c] # Idle
    /\ TryOK(m, call[c].u, call[c].exclusive)
    /\ m' = TryLock(m, call[c].u, call[c].exclusive)
    /\ held' = [held EXCEPT ![c][call[c].u] = ModeOf(call[c].exclusive)]
    /\ call' = [call EXCEPT ![c] = Idle]

\* one failed attempt of nlp.withRetry; the last one returns false
TryAgain(c) ==
    /\ call[c] # Idle
    /\ call[c].op = "try"
    /\ ~TryOK(m, call[c].u, call[c].exclusive)
    /\ call' = [call EXCEPT ![c] = IF call[c].left = 1 THEN Idle
                                   ELSE [call[c] EXCEPT !.left = call[c].left - 1]]
    /\ UNCHANGED <<m, held>>

\* UpgradeLock; the caller that is not alone keeps its read lock
Upgrade(c, u) ==
    /\ call[c] = Idle
    /\ held[c][u] = "read"
    /\ UpgradeOK(m, u)
    /\ m' = UpgradeLock(m, u)
    /\ held' = [held EXCEPT ![c][u] = "write"]
    /\ UNCHANGED call

Downgrade(c, u) ==
    /\ call[c] = Idle
    /\ held[c][u] = "write"
    /\ m' = DowngradeLock(m, u)
    /\ held' = [held EXCEPT ![c][u] = "read"]
    /\ UNCHANGED call

Release(c, u) ==
    /\ call[c] = Idle
    /\ held[c][u] # "none"
    /\ m' = Unlock(m, u, held[c][u] = "write")
    /\ held' = [held EXCEPT ![c][u] = "none"]
    /\ UNCHANGED call

Next ==
    \E c \in Clients :
        \/ Acquire(c)
        \/ TryAgain(c)
        \/ \E u \in Names :
              \/ \E exclusive \in BOOLEAN :
                    CallLock(c, u, exclusive) \/ CallTry(c, u, exclusive)
              \/ Upgrade(c, u)
              \/ Downgrade(c, u)
              \/ Release(c, u)

Spec == Init /\ [][Next]_vars

-----------------------------------------------------------------------------
Holders(u) == {c \in Clients : held[c][u] # "none"}
Readers(u) == {c \in Clients : held[c][u] = "read"}

\* the types of the locker's map, of what clients hold and of their calls
TypeOK ==
    /\ DOMAIN m \subseteq Names
    /\ m \in [DOMAIN m -> LockInfo]
    /\ held \in [Clients -> [Names -> Modes]]
    /\ call \in [Clients -> {Idle} \cup Calls]

\* nlc.try, UpgradeLock, DowngradeLock, Unlock together: whoever holds a name
\* exclusively is its only holder, whatever mix of upgrades and downgrades led there
Exclusion ==
    \A u \in Names : \A c, d \in Clients :
        held[c][u] = "write" /\ held[d][u] # "none" => c = d

\* the map tells the truth: it has an entry for exactly the held names (nothing
\* leaks, nothing is deleted under a holder), `exclusive` means there is a writer,
\* and rc counts the readers
MapMatchesHolders ==
    /\ DOMAIN m = {u \in Names : Holders(u) # {}}
    /\ \A u \in DOMAIN m :
          IF m[u].exclusive
          THEN m[u].rc = 0 /\ \E c \in Clients : held[c][u] = "write"
          ELSE m[u].rc = Cardinality(Readers(u)) /\ Readers(u) = Holders(u)
=============================================================================
