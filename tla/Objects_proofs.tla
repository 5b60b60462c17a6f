---------------------------- MODULE Objects_proofs ----------------------------
(***************************************************************************)
(* The name locker, for any finite set of clients and any set of names,    *)
(* and the requests for one object, for any number of requests of any      *)
(* kinds, any number of retries, faults and crashes.                       *)
(*                                                                         *)
(* The argument comes in layers, each an invariant that the next one uses: *)
(*   Locks      every request holds the lock its place in the code needs,  *)
(*              so that each unlock passes the mode that is held;          *)
(*   Vacancy    a GET that is about to write found no object, or a newer   *)
(*              one in the backend, and that stays so under its lock;      *)
(*   Sources    what is about to be written, the backend has accepted;     *)
(*   Kept       nothing but a DELETE takes an acknowledged object away;    *)
(*   Coherence  cached, loaded and transmitted metadata is that of the     *)
(*              file, except while the holder of the write lock works.     *)
(* HoldsStep names the ways a request can move (Turn), Rely what a step of *)
(* one request can do to another that holds the lock; a layer is shown for *)
(* the request that moves way by way, and for the others by Rely.          *)
(***************************************************************************)
EXTENDS Objects, FiniteSetTheorems, TLAPS

\* leaves are for Zenon, those with arithmetic or records for SMT
USE ZenonT(30)

-----------------------------------------------------------------------------
(* The locker, whoever uses it.  Neither Exclusion nor MapMatchesHolders is *)
(* inductive alone: an attempt looks only at the map, and Unlock of a       *)
(* writer deletes the entry, which is right only if nobody else holds the   *)
(* name.  IInv is their conjunction, taken name by name: a step touches one *)
(* name, and the others are framed.  Of the assumptions about objects this  *)
(* section uses none.                                                       *)

\* what Exclusion and MapMatchesHolders say of one name
Writers(u) == {c \in Clients : held[c][u] = "write"}

NameOK(u) ==
    \/ u \notin DOMAIN m /\ Readers(u) = {} /\ Writers(u) = {}
    \/ /\ u \in DOMAIN m
       /\ m[u].exclusive = TRUE /\ m[u].rc = 0
       /\ Readers(u) = {} /\ \E c \in Clients : Writers(u) = {c}
    \/ /\ u \in DOMAIN m
       /\ m[u].exclusive = FALSE /\ m[u].rc = Cardinality(Readers(u))
       /\ Readers(u) # {} /\ Writers(u) = {}

\* a client blocked in a call does not yet hold the name it asks for
CallersWait == \A c \in Clients : call[c] # Idle => held[c][call[c].u] = "none"

IInv == TypeOK /\ CallersWait /\ \A u \in Names : NameOK(u)

\* sets of clients are finite, and cardinality follows one element in or out
LEMMA ClientSets ==
    ASSUME NEW S \in SUBSET Clients
    PROVE  /\ IsFiniteSet(S) /\ Cardinality(S) \in Nat
           /\ S # {} => Cardinality(S) > 0
           /\ Cardinality(S) = 1 => \E x : S = {x}
           /\ \A x \in Clients : x \notin S => Cardinality(S \cup {x}) = Cardinality(S) + 1
           /\ \A x \in S : Cardinality(S \ {x}) = Cardinality(S) - 1
           /\ \A x : Cardinality({x}) = 1
<1>1. IsFiniteSet(S)
  BY NLAssumption, FS_Subset
<1>2. Cardinality(S) \in Nat
  BY <1>1, FS_CardinalityType
<1>3. S # {} => Cardinality(S) > 0
  BY <1>1, <1>2, FS_EmptySet, SMTT(30)
<1>4. Cardinality(S) = 1 => \E x : S = {x}
  BY <1>1, FS_Singleton
<1>5. \A x \in Clients : x \notin S => Cardinality(S \cup {x}) = Cardinality(S) + 1
  BY <1>1, FS_AddElement
<1>6. \A x \in S : Cardinality(S \ {x}) = Cardinality(S) - 1
  BY <1>1, FS_RemoveElement
<1>7. \A x : Cardinality({x}) = 1
  BY FS_Singleton
<1> QED
  BY <1>1, <1>2, <1>3, <1>4, <1>5, <1>6, <1>7

\* a name whose map entry and holders a step leaves alone stays right
LEMMA Frame ==
    ASSUME NEW u \in Names, NameOK(u),
           u \in DOMAIN m' <=> u \in DOMAIN m,
           u \in DOMAIN m => m'[u] = m[u],
           \A c \in Clients : held'[c][u] = held[c][u]
    PROVE  NameOK(u)'
<1>1. Readers(u)' = Readers(u) /\ Writers(u)' = Writers(u)
  BY DEF Readers, Writers
<1> QED
  BY <1>1 DEF NameOK

\* a held name has an entry, exclusive exactly when the holder is a writer
LEMMA HolderEntry ==
    ASSUME TypeOK, NEW u \in Names, NameOK(u), NEW c \in Clients, held[c][u] # "none"
    PROVE  /\ u \in DOMAIN m
           /\ held[c][u] = "write" => m[u].exclusive = TRUE /\ m[u].rc = 0
                                      /\ Readers(u) = {} /\ Writers(u) = {c}
           /\ held[c][u] = "read" => m[u].exclusive = FALSE /\ m[u].rc = Cardinality(Readers(u))
                                     /\ c \in Readers(u) /\ Writers(u) = {} /\ m[u].rc > 0
<1>1. held[c][u] = "write" \/ held[c][u] = "read"
  BY DEF TypeOK, Modes
<1>2. held[c][u] = "write" => c \in Writers(u)
  BY DEF Writers
<1>3. held[c][u] = "read" => c \in Readers(u)
  BY DEF Readers
<1>4. Readers(u) \in SUBSET Clients
  BY DEF Readers
<1>5. Readers(u) # {} => Cardinality(Readers(u)) > 0
  BY <1>4, ClientSets
<1> QED
  BY <1>1, <1>2, <1>3, <1>5 DEF NameOK

\* an empty map, nothing held and no call
LEMMA InitIInv == Init => IInv
<1> SUFFICES ASSUME Init PROVE IInv
  OBVIOUS
<1>1. TypeOK
  BY DEF Init, TypeOK, EmptyMap, Modes
<1>2. ASSUME NEW u \in Names PROVE NameOK(u)
  BY DEF Init, NameOK, EmptyMap, Readers, Writers
<1>3. CallersWait
  BY DEF Init, CallersWait
<1> QED
  BY <1>1, <1>2, <1>3 DEF IInv

\* every locker step keeps the types of the map, of what is held and of the calls
LEMMA TypeStep == TypeOK /\ (\A u \in Names : NameOK(u)) /\ [Next]_vars => TypeOK'
<1> SUFFICES ASSUME TypeOK, \A u \in Names : NameOK(u), [Next]_vars PROVE TypeOK'
  OBVIOUS
<1> USE DEF TypeOK, LockInfo, Modes, Calls, Idle, ModeOf
<1>1. ASSUME NEW c \in Clients, Acquire(c) PROVE TypeOK'
  BY <1>1, SMTT(30) DEF Acquire, TryLock, TryOK, SetEntry
<1>2. ASSUME NEW c \in Clients, TryAgain(c) PROVE TypeOK'
  <2>1. call[c] \in Calls /\ call[c].op = "try" /\ call[c].left \in 1..NumTries
    BY <1>2 DEF TryAgain
  <2>2. call[c].left # 1 => [call[c] EXCEPT !.left = @ - 1] \in Calls
    BY <2>1, NLAssumption, SMTT(30)
  <2> QED
    BY <1>2, <2>1, <2>2 DEF TryAgain
<1>3. ASSUME NEW c \in Clients, NEW u \in Names, NEW exclusive \in BOOLEAN,
             CallLock(c, u, exclusive) \/ CallTry(c, u, exclusive)
      PROVE  TypeOK'
  BY <1>3, NLAssumption, SMTT(30) DEF CallLock, CallTry
<1>4. ASSUME NEW c \in Clients, NEW u \in Names, Upgrade(c, u) PROVE TypeOK'
  BY <1>4 DEF Upgrade, UpgradeLock, SetEntry
<1>5. ASSUME NEW c \in Clients, NEW u \in Names, Downgrade(c, u) PROVE TypeOK'
  <2>1. u \in DOMAIN m
    BY <1>5, HolderEntry DEF Downgrade
  <2> QED
    BY <1>5, <2>1, SMTT(30) DEF Downgrade, DowngradeLock, SetEntry
<1>6. ASSUME NEW c \in Clients, NEW u \in Names, Release(c, u) PROVE TypeOK'
  <2>1. u \in DOMAIN m
    BY <1>6, HolderEntry DEF Release
  <2>2. CASE held[c][u] = "write" \/ m[u].rc = 1
    BY <1>6, <2>1, <2>2 DEF Release, Unlock, DelEntry
  <2>3. CASE ~(held[c][u] = "write" \/ m[u].rc = 1)
    <3>1. held[c][u] = "read"
      BY <1>6, <2>3, SMTT(30) DEF Release
    <3>2. m[u].rc > 0
      BY <3>1, HolderEntry
    <3>3. [m[u] EXCEPT !.rc = @ - 1] \in LockInfo
      BY <2>1, <3>2, SMTT(30)
    <3> QED
      BY <1>6, <2>1, <2>3, <3>3 DEF Release, Unlock, SetEntry
  <2> QED
    BY <2>2, <2>3
<1>7. CASE UNCHANGED vars
  BY <1>7 DEF vars
<1> QED
  BY <1>1, <1>2, <1>3, <1>4, <1>5, <1>6, <1>7, SMTT(30) DEF Next

\* what each locker step does to the one name it works on: its entry in nlc.m
\* stays in agreement with its holders
LEMMA NamesStep == IInv /\ [Next]_vars => \A u \in Names : NameOK(u)'
<1> SUFFICES ASSUME IInv, [Next]_vars, NEW u \in Names PROVE NameOK(u)'
  OBVIOUS
<1>0. TypeOK /\ NameOK(u) /\ Readers(u) \in SUBSET Clients
  BY DEF IInv, Readers
<1>1. CASE UNCHANGED <<m, held>>
  BY <1>0, <1>1, Frame
<1>2. ASSUME NEW c \in Clients, Acquire(c) PROVE NameOK(u)'
  <2> DEFINE x == call[c].exclusive
  <2>0. call[c].u \in Names /\ x \in BOOLEAN
    BY <1>0, <1>2 DEF Acquire, TypeOK, Calls
  <2>1. CASE call[c].u # u
    BY <1>0, <1>2, <2>0, <2>1, Frame DEF Acquire, TryLock, SetEntry, TypeOK
  <2>2. CASE call[c].u = u /\ x
    <3>1. u \notin DOMAIN m /\ Readers(u) = {} /\ Writers(u) = {}
      BY <1>0, <1>2, <2>2 DEF Acquire, TryOK, NameOK
    <3>2. Readers(u)' = {} /\ Writers(u)' = {c}
      BY <1>0, <1>2, <2>2, <3>1 DEF Acquire, Readers, Writers, TypeOK, ModeOf
    <3>3. u \in DOMAIN m' /\ m'[u] = [rc |-> 0, exclusive |-> TRUE]
      BY <1>2, <2>2, <3>1 DEF Acquire, TryLock, SetEntry
    <3> QED
      BY <3>2, <3>3, SMTT(30) DEF NameOK
  <2>3. CASE call[c].u = u /\ ~x
    <3>1. Writers(u) = {} /\ held[c][u] = "none"
      BY <1>0, <1>2, <2>3 DEF Acquire, TryOK, NameOK, IInv, CallersWait
    <3>2. Readers(u)' = Readers(u) \cup {c} /\ Writers(u)' = {} /\ c \notin Readers(u)
      BY <1>0, <1>2, <2>3, <3>1 DEF Acquire, Readers, Writers, TypeOK, ModeOf
    <3>3. Cardinality(Readers(u)') = Cardinality(Readers(u)) + 1
      BY <1>0, <3>2, ClientSets
    <3>4. CASE u \in DOMAIN m
      <4>1. m'[u] = [rc |-> m[u].rc + 1, exclusive |-> FALSE] /\ u \in DOMAIN m'
        BY <1>2, <2>3, <3>4 DEF Acquire, TryLock, SetEntry
      <4>2. m[u].rc = Cardinality(Readers(u))
        BY <1>0, <3>1, <3>4 DEF NameOK
      <4> QED
        BY <3>2, <3>3, <4>1, <4>2, SMTT(30) DEF NameOK
    <3>5. CASE u \notin DOMAIN m
      <4>0. call[c].exclusive = FALSE
        BY <2>0, <2>3
      <4>1. m'[u] = [rc |-> 1, exclusive |-> FALSE] /\ u \in DOMAIN m'
        BY <1>2, <2>3, <3>5, <4>0 DEF Acquire, TryLock, SetEntry
      <4>2. Readers(u)' = {c}
        BY <1>0, <3>2, <3>5 DEF NameOK
      <4>3. Cardinality(Readers(u)') = 1
        BY <4>2, FS_Singleton
      <4> QED
        BY <3>2, <4>1, <4>2, <4>3, SMTT(30) DEF NameOK
    <3> QED
      BY <3>4, <3>5
  <2> QED
    BY <2>0, <2>1, <2>2, <2>3
<1>3. ASSUME NEW c \in Clients, NEW v \in Names, Upgrade(c, v) PROVE NameOK(u)'
  <2>1. CASE v # u
    BY <1>0, <1>3, <2>1, Frame DEF Upgrade, UpgradeLock, SetEntry, TypeOK
  <2>2. CASE v = u
    <3>1. Cardinality(Readers(u)) = 1 /\ c \in Readers(u) /\ Writers(u) = {}
      BY <1>0, <1>3, <2>2, HolderEntry DEF Upgrade, UpgradeOK
    <3>2. Readers(u) = {c}
      BY <1>0, <3>1, ClientSets, SMTT(30)
    <3>3. Readers(u)' = {} /\ Writers(u)' = {c}
      BY <1>0, <1>3, <2>2, <3>1, <3>2 DEF Upgrade, Readers, Writers, TypeOK
    <3>4. u \in DOMAIN m' /\ m'[u] = [rc |-> 0, exclusive |-> TRUE]
      BY <1>3, <2>2 DEF Upgrade, UpgradeLock, SetEntry
    <3> QED
      BY <3>3, <3>4, SMTT(30) DEF NameOK
  <2> QED
    BY <2>1, <2>2
<1>4. ASSUME NEW c \in Clients, NEW v \in Names, Downgrade(c, v) PROVE NameOK(u)'
  <2>1. CASE v # u
    BY <1>0, <1>4, <2>1, Frame DEF Downgrade, DowngradeLock, SetEntry, TypeOK
  <2>2. CASE v = u
    <3>1. m[u].rc = 0 /\ Readers(u) = {} /\ Writers(u) = {c}
      BY <1>0, <1>4, <2>2, HolderEntry DEF Downgrade
    <3>2. Readers(u)' = {c} /\ Writers(u)' = {}
      BY <1>0, <1>4, <2>2, <3>1 DEF Downgrade, Readers, Writers, TypeOK
    <3>3. u \in DOMAIN m' /\ m'[u] = [rc |-> 1, exclusive |-> FALSE]
      BY <1>4, <2>2, <3>1, SMTT(30) DEF Downgrade, DowngradeLock, SetEntry
    <3>4. Cardinality(Readers(u)') = 1
      BY <3>2, <1>0, ClientSets
    <3> QED
      BY <3>2, <3>3, <3>4, SMTT(30) DEF NameOK
  <2> QED
    BY <2>1, <2>2
<1>5. ASSUME NEW c \in Clients, NEW v \in Names, Release(c, v) PROVE NameOK(u)'
  <2>1. CASE v # u
    BY <1>0, <1>5, <2>1, Frame DEF Release, Unlock, DelEntry, SetEntry, TypeOK
  <2>2. CASE v = u /\ held[c][u] = "write"
    <3>1. Readers(u) = {} /\ Writers(u) = {c}
      BY <1>0, <2>2, HolderEntry
    <3>2. Readers(u)' = {} /\ Writers(u)' = {}
      BY <1>0, <1>5, <2>2, <3>1 DEF Release, Readers, Writers, TypeOK
    <3>3. u \notin DOMAIN m'
      BY <1>5, <2>2 DEF Release, Unlock, DelEntry
    <3> QED
      BY <3>2, <3>3 DEF NameOK
  <2>3. CASE v = u /\ held[c][u] = "read"
    <3>1. /\ m[u].exclusive = FALSE /\ m[u].rc = Cardinality(Readers(u))
          /\ c \in Readers(u) /\ Writers(u) = {} /\ u \in DOMAIN m
      BY <1>0, <2>3, HolderEntry
    <3>2. Readers(u)' = Readers(u) \ {c} /\ Writers(u)' = {}
      BY <1>0, <1>5, <2>3, <3>1 DEF Release, Readers, Writers, TypeOK
    <3>3. Cardinality(Readers(u)') = Cardinality(Readers(u)) - 1
      BY <1>0, <3>1, <3>2, ClientSets, SMTT(30)
    <3>4. CASE m[u].rc = 1
      <4>1. u \notin DOMAIN m'
        BY <1>5, <2>3, <3>4 DEF Release, Unlock, DelEntry
      <4>2. \E x : Readers(u) = {x}
        BY <1>0, <3>1, <3>4, ClientSets
      <4>3. Readers(u)' = {}
        BY <3>1, <3>2, <4>2
      <4> QED
        BY <3>2, <4>1, <4>3 DEF NameOK
    <3>5. CASE m[u].rc # 1
      <4>1. u \in DOMAIN m' /\ m'[u].rc = m[u].rc - 1 /\ m'[u].exclusive = FALSE
        BY <1>0, <1>5, <2>3, <3>1, <3>5 DEF Release, Unlock, SetEntry, TypeOK, LockInfo
      <4>2. Readers(u) # {c}
        BY <3>1, <3>5, <1>0, ClientSets
      <4>3. Readers(u)' # {}
        BY <3>1, <3>2, <4>2
      <4> QED
        BY <3>1, <3>2, <3>3, <4>1, <4>3 DEF NameOK
    <3> QED
      BY <3>4, <3>5
  <2> QED
    BY <1>0, <1>5, <2>1, <2>2, <2>3 DEF Release, TypeOK, Modes
<1> QED
  BY <1>1, <1>2, <1>3, <1>4, <1>5 DEF Next, vars, CallLock, CallTry, TryAgain

\* a call in Lock or withRetry ends in the step that acquires the name
LEMMA CallersStep == IInv /\ [Next]_vars => CallersWait'
BY SMTT(30) DEF IInv, TypeOK, CallersWait, Next, vars, Calls, Idle, Acquire, TryAgain,
       CallLock, CallTry, Upgrade, Downgrade, Release, Modes

\* the strengthened invariant is inductive
LEMMA IInvStep == IInv /\ [Next]_vars => IInv'
BY TypeStep, NamesStep, CallersStep DEF IInv

\* and holds in every reachable state of the locker
THEOREM Invariance == Spec => []IInv
BY InitIInv, IInvStep, PTL DEF Spec

\* the map, what clients hold and their calls keep their types, for every
\* finite set of clients, every set of names and every number of attempts
THEOREM TypeCorrect == Spec => []TypeOK
<1>1. IInv => TypeOK
  BY DEF IInv
<1> QED
  BY Invariance, <1>1, PTL

\* the invariant is strong enough for both promises
LEMMA Promises == IInv => Exclusion /\ MapMatchesHolders
<1> SUFFICES ASSUME IInv PROVE Exclusion /\ MapMatchesHolders
  OBVIOUS
<1>1. ASSUME NEW u \in Names, NEW c \in Clients, NEW d \in Clients,
             held[c][u] = "write", held[d][u] # "none"
      PROVE  c = d
  <2>1. Readers(u) = {} /\ Writers(u) = {c}
    BY <1>1, HolderEntry DEF IInv
  <2>2. d \in Readers(u) \/ d \in Writers(u)
    BY <1>1, SMTT(30) DEF IInv, TypeOK, Modes, Readers, Writers
  <2> QED
    BY <2>1, <2>2
<1>2. MapMatchesHolders
  <2>1. ASSUME NEW u \in Names PROVE Holders(u) = Readers(u) \cup Writers(u)
    BY DEF Holders, Readers, Writers, IInv, TypeOK, Modes
  <2>2. DOMAIN m = {u \in Names : Holders(u) # {}}
    BY <2>1 DEF IInv, TypeOK, NameOK
  <2>3. ASSUME NEW u \in DOMAIN m, m[u].exclusive
        PROVE  m[u].rc = 0 /\ \E c \in Clients : held[c][u] = "write"
    BY <2>3 DEF IInv, TypeOK, NameOK, Writers
  <2>4. ASSUME NEW u \in DOMAIN m, ~m[u].exclusive
        PROVE  m[u].rc = Cardinality(Readers(u)) /\ Readers(u) = Holders(u)
    BY <2>1, <2>4 DEF IInv, TypeOK, NameOK
  <2> QED
    BY <2>2, <2>3, <2>4 DEF MapMatchesHolders
<1> QED
  BY <1>1, <1>2 DEF Exclusion

\* namelocker.go's promise: a name held for writing has that one holder
THEOREM MutualExclusion == Spec => []Exclusion
BY Invariance, Promises, PTL

\* nlc.m has an entry exactly for the held names, and its rc and exclusive
\* fields are those of the holders
THEOREM MapIsTruthful == Spec => []MapMatchesHolders
BY Invariance, Promises, PTL

-----------------------------------------------------------------------------
(* The requests and their locks *)

\* a request's local state; a file that is still being written has no version
Request == [kind : Kinds, pc : PCs, md : Entries, rd : Versions \cup {None, Partial},
            rev : (Versions \cup {None, Partial}) \X (Versions \cup {None}),
            vch : BOOLEAN, cold : BOOLEAN, tries : 0..UplockTries, res : Results]

Past == [accepted : SUBSET Versions, forced : BOOLEAN, torn : BOOLEAN, unclean : BOOLEAN]

Typed ==
    /\ req \in [Clients -> Request]
    /\ file \in Versions \cup {None, Partial} /\ xattr \in Versions \cup {None}
    /\ cache \in Entries /\ hkmd \in Entries
    /\ remote \in Versions \cup {None}
    /\ seen \in Past

ReadPCs == {"load", "store", "loaded", "rmforce", "cold", "open", "tx", "recache"}
WritePCs == {"rename", "persist", "stream", "copy", "persiststream", "delete", "delremote", "delmain"}
Fetchers == Gets \cup Prefetches \cup {"coldget", "trycold"}

ModeAt(r) ==
    IF r.pc \in ReadPCs THEN "read"
    ELSE IF r.pc \in WritePCs \/ (r.pc = "fetch" /\ r.kind \notin Prefetches) THEN "write"
    ELSE "none"

KindAt(r) ==
    /\ r.pc \in {"load", "store", "loaded"} => r.kind \in Gets \cup Prefetches
    /\ r.pc \in {"rmforce", "cold", "sleep", "stream", "copy", "persiststream", "open", "tx", "recache"}
          => r.kind \in Gets
    /\ r.pc = "fetch" => r.kind \in Fetchers
    /\ r.pc \in {"rename", "persist"} => r.kind \in Fetchers \cup {"put"}
    /\ r.pc \in {"putremote", "retry503"} => r.kind = "put"
    /\ r.pc = "uncache" => r.kind \in {"put"} \cup Prefetches
    /\ r.pc \in {"delete", "delremote", "delmain", "delretry"} => r.kind \in {"delete", "evict"}
    /\ r.pc \notin {"tx", "recache", "done"} => r.rd # Partial

CallAt(r, k) ==
    IF r.pc = "lock"
    THEN /\ k # Idle /\ k.u = Obj
         /\ r.kind \in Gets => ~k.exclusive
         /\ r.kind \notin Gets \cup Prefetches => k.exclusive
    ELSE k = Idle

Holds(c) == held[c][Obj] = ModeAt(req[c]) /\ KindAt(req[c]) /\ CallAt(req[c], call[c])
Locks == IInv /\ \A c \in Clients : Holds(c)


\* only request c goes on, and only its locks change
Alone(c) == req' \in [Clients -> Request] /\ \A d \in Clients \ {c} : req'[d] = req[d]
LocksAlone(c) == \A d \in Clients \ {c} : held'[d] = held[d] /\ call'[d] = call[d]

\* request c goes on at s, with these values in the fields that invariants look at
Goes(c, s, md, rd, rev, vch, res) ==
    /\ Alone(c) /\ req'[c].pc = s /\ req'[c].kind = req[c].kind /\ req'[c].md = md
    /\ req'[c].rd = rd /\ req'[c].rev = rev /\ req'[c].vch = vch /\ req'[c].res = res

\* assigning a request changes no other one
LEMMA SetIs ==
    ASSUME Typed, NEW c \in Clients, NEW r \in Request, Set(c, r)
    PROVE  Alone(c) /\ req'[c] = r
BY DEF Typed, Set, Alone

\* what each assignment of pc, and of other fields with it, does to the request
LEMMA ToIs ==
    ASSUME Typed, NEW c \in Clients, NEW s \in PCs,
           Set(c, [req[c] EXCEPT !.pc = s])
    PROVE  Goes(c, s, req[c].md, req[c].rd, req[c].rev, req[c].vch, req[c].res)
<1> DEFINE q == [req[c] EXCEPT !.pc = s]
<1>1. req[c] \in Request
  BY DEF Typed
<1>2. q \in Request /\ q.pc = s /\ q.kind = req[c].kind /\ q.md = req[c].md /\ q.rd = req[c].rd
      /\ q.rev = req[c].rev /\ q.vch = req[c].vch /\ q.res = req[c].res
  BY <1>1 DEF Request
<1> HIDE DEF q
<1>3. Alone(c) /\ req'[c] = q
  BY <1>2, SetIs DEF q
<1> QED
  BY <1>2, <1>3 DEF Goes

\* ... and a result
LEMMA ResIs ==
    ASSUME Typed, NEW c \in Clients, NEW s \in PCs, NEW x \in Results,
           Set(c, [req[c] EXCEPT !.pc = s, !.res = x])
    PROVE  Goes(c, s, req[c].md, req[c].rd, req[c].rev, req[c].vch, x)
<1> DEFINE q == [req[c] EXCEPT !.pc = s, !.res = x]
<1>1. req[c] \in Request
  BY DEF Typed
<1>2. q \in Request /\ q.pc = s /\ q.kind = req[c].kind /\ q.md = req[c].md /\ q.rd = req[c].rd
      /\ q.rev = req[c].rev /\ q.vch = req[c].vch /\ q.res = x
  BY <1>1 DEF Request
<1> HIDE DEF q
<1>3. Alone(c) /\ req'[c] = q
  BY <1>2, SetIs DEF q
<1> QED
  BY <1>2, <1>3 DEF Goes

\* ... and the metadata
LEMMA MdIs ==
    ASSUME Typed, NEW c \in Clients, NEW s \in PCs, NEW x \in Entries,
           Set(c, [req[c] EXCEPT !.pc = s, !.md = x])
    PROVE  Goes(c, s, x, req[c].rd, req[c].rev, req[c].vch, req[c].res)
<1> DEFINE q == [req[c] EXCEPT !.pc = s, !.md = x]
<1>1. req[c] \in Request
  BY DEF Typed
<1>2. q \in Request /\ q.pc = s /\ q.kind = req[c].kind /\ q.md = x /\ q.rd = req[c].rd
      /\ q.rev = req[c].rev /\ q.vch = req[c].vch /\ q.res = req[c].res
  BY <1>1 DEF Request
<1> HIDE DEF q
<1>3. Alone(c) /\ req'[c] = q
  BY <1>2, SetIs DEF q
<1> QED
  BY <1>2, <1>3 DEF Goes

\* ... and what it has read
LEMMA RdIs ==
    ASSUME Typed, NEW c \in Clients, NEW s \in PCs, NEW x \in Versions \cup {None, Partial},
           Set(c, [req[c] EXCEPT !.pc = s, !.rd = x])
    PROVE  Goes(c, s, req[c].md, x, req[c].rev, req[c].vch, req[c].res)
<1> DEFINE q == [req[c] EXCEPT !.pc = s, !.rd = x]
<1>1. req[c] \in Request
  BY DEF Typed
<1>2. q \in Request /\ q.pc = s /\ q.kind = req[c].kind /\ q.md = req[c].md /\ q.rd = x
      /\ q.rev = req[c].rev /\ q.vch = req[c].vch /\ q.res = req[c].res
  BY <1>1 DEF Request
<1> HIDE DEF q
<1>3. Alone(c) /\ req'[c] = q
  BY <1>2, SetIs DEF q
<1> QED
  BY <1>2, <1>3 DEF Goes

\* ... and that it went to the backend
LEMMA ColdIs ==
    ASSUME Typed, NEW c \in Clients, NEW s \in PCs, NEW x \in Versions \cup {None, Partial},
           Set(c, [req[c] EXCEPT !.pc = s, !.rd = x, !.cold = TRUE])
    PROVE  Goes(c, s, req[c].md, x, req[c].rev, req[c].vch, req[c].res)
<1> DEFINE q == [req[c] EXCEPT !.pc = s, !.rd = x, !.cold = TRUE]
<1>1. req[c] \in Request
  BY DEF Typed
<1>2. q \in Request /\ q.pc = s /\ q.kind = req[c].kind /\ q.md = req[c].md /\ q.rd = x
      /\ q.rev = req[c].rev /\ q.vch = req[c].vch /\ q.res = req[c].res
  BY <1>1 DEF Request
<1> HIDE DEF q
<1>3. Alone(c) /\ req'[c] = q
  BY <1>2, SetIs DEF q
<1> QED
  BY <1>2, <1>3 DEF Goes

\* ... and that the version changed
LEMMA VchIs ==
    ASSUME Typed, NEW c \in Clients, NEW s \in PCs,
           Set(c, [req[c] EXCEPT !.pc = s, !.vch = TRUE])
    PROVE  Goes(c, s, req[c].md, req[c].rd, req[c].rev, TRUE, req[c].res)
<1> DEFINE q == [req[c] EXCEPT !.pc = s, !.vch = TRUE]
<1>1. req[c] \in Request
  BY DEF Typed
<1>2. q \in Request /\ q.pc = s /\ q.kind = req[c].kind /\ q.md = req[c].md /\ q.rd = req[c].rd
      /\ q.rev = req[c].rev /\ q.vch = TRUE /\ q.res = req[c].res
  BY <1>1 DEF Request
<1> HIDE DEF q
<1>3. Alone(c) /\ req'[c] = q
  BY <1>2, SetIs DEF q
<1> QED
  BY <1>2, <1>3 DEF Goes

\* ... and one more attempt at the lock
LEMMA TriesIs ==
    ASSUME Typed, NEW c \in Clients, NEW s \in PCs, req[c].tries # UplockTries,
           Set(c, [req[c] EXCEPT !.pc = s, !.tries = @ + 1])
    PROVE  Goes(c, s, req[c].md, req[c].rd, req[c].rev, req[c].vch, req[c].res)
<1> DEFINE q == [req[c] EXCEPT !.pc = s, !.tries = @ + 1]
<1>1. req[c] \in Request
  BY DEF Typed
<1>0. req[c].tries + 1 \in 0..UplockTries
  BY <1>1, ObjAssumption, SMTT(30) DEF Request
<1>2. q \in Request /\ q.pc = s /\ q.kind = req[c].kind /\ q.md = req[c].md /\ q.rd = req[c].rd
      /\ q.rev = req[c].rev /\ q.vch = req[c].vch /\ q.res = req[c].res
  BY <1>1, <1>0 DEF Request
<1> HIDE DEF q
<1>3. Alone(c) /\ req'[c] = q
  BY <1>2, SetIs DEF q
<1> QED
  BY <1>2, <1>3 DEF Goes

\* ... and what to put back
LEMMA RevIs ==
    ASSUME Typed, NEW c \in Clients, NEW s \in PCs,
           NEW x \in (Versions \cup {None, Partial}) \X (Versions \cup {None}),
           Set(c, [req[c] EXCEPT !.pc = s, !.rev = x])
    PROVE  Goes(c, s, req[c].md, req[c].rd, x, req[c].vch, req[c].res)
<1> DEFINE q == [req[c] EXCEPT !.pc = s, !.rev = x]
<1>1. req[c] \in Request
  BY DEF Typed
<1>2. q \in Request /\ q.pc = s /\ q.kind = req[c].kind /\ q.md = req[c].md /\ q.rd = req[c].rd
      /\ q.rev = x /\ q.vch = req[c].vch /\ q.res = req[c].res
  BY <1>1 DEF Request
<1> HIDE DEF q
<1>3. Alone(c) /\ req'[c] = q
  BY <1>2, SetIs DEF q
<1> QED
  BY <1>2, <1>3 DEF Goes

\* what an unlock, a call, an attempt, an upgrade and a downgrade do to the locks:
\* each is a step of the locker
LEMMA UnlkIs ==
    ASSUME TypeOK, NEW c \in Clients, NEW x \in BOOLEAN, call[c] = Idle,
           held[c][Obj] = IF x THEN "write" ELSE "read", Unlk(c, x)
    PROVE  Next /\ LocksAlone(c) /\ held'[c][Obj] = "none" /\ call'[c] = Idle
<1>1. Obj \in Names
  BY ObjAssumption
<1>2. Release(c, Obj)
  <2>1. CASE x = TRUE
    BY <2>1 DEF Unlk, Release
  <2>2. CASE x = FALSE
    BY <2>2 DEF Unlk, Release
  <2> QED
    BY <2>1, <2>2
<1>3. held'[c][Obj] = "none" /\ LocksAlone(c)
  BY <1>1 DEF Unlk, TypeOK, LocksAlone
<1> QED
  BY <1>1, <1>2, <1>3 DEF Next, Unlk

\* a call of Lock or TryLock changes no lock
LEMMA CallIs ==
    ASSUME TypeOK, NEW c \in Clients, NEW x \in BOOLEAN,
           CallLock(c, Obj, x) \/ CallTry(c, Obj, x)
    PROVE  Next /\ LocksAlone(c) /\ held'[c] = held[c]
           /\ call'[c] # Idle /\ call'[c].u = Obj /\ call'[c].exclusive = x
<1>1. Obj \in Names
  BY ObjAssumption
<1>2. Next
  BY <1>1 DEF Next
<1>3. LocksAlone(c) /\ held'[c] = held[c]
  BY DEF CallLock, CallTry, LocksAlone, TypeOK
<1>4. call'[c] # Idle /\ call'[c].u = Obj /\ call'[c].exclusive = x
  BY SMTT(30) DEF CallLock, CallTry, TypeOK, Idle
<1> QED
  BY <1>2, <1>3, <1>4

\* a call that returns with the lock is the locker's
LEMMA AcquireIs ==
    ASSUME TypeOK, NEW c \in Clients, Acquire(c), call[c].u = Obj
    PROVE  Next /\ LocksAlone(c) /\ held'[c][Obj] = ModeOf(call[c].exclusive) /\ call'[c] = Idle
<1>1. Obj \in Names
  BY ObjAssumption
<1>2. Next
  BY DEF Next
<1> QED
  BY <1>1, <1>2 DEF Acquire, LocksAlone, TypeOK

\* a TryLock that gives up leaves the lock alone
LEMMA TryAgainIs ==
    ASSUME TypeOK, NEW c \in Clients, TryAgain(c)
    PROVE  Next /\ LocksAlone(c) /\ held'[c] = held[c] /\ call'[c] = Idle
<1>1. Next
  BY DEF Next
<1>2. call[c].left = 1
  BY ObjAssumption, SMTT(30) DEF TryAgain, TypeOK, Calls, Idle
<1> QED
  BY <1>1, <1>2 DEF TryAgain, LocksAlone, TypeOK

\* UpgradeLock and DowngradeLock are the locker's, whoever holds the object
LEMMA UpDownIs ==
    ASSUME TypeOK, NEW c \in Clients
    PROVE  /\ Upgrade(c, Obj) => Next /\ LocksAlone(c) /\ held'[c][Obj] = "write" /\ call'[c] = Idle
           /\ Downgrade(c, Obj) => Next /\ LocksAlone(c) /\ held'[c][Obj] = "read" /\ call'[c] = Idle
<1>1. Obj \in Names
  BY ObjAssumption
<1>2. Upgrade(c, Obj) \/ Downgrade(c, Obj) => Next
  BY <1>1 DEF Next
<1>3. Upgrade(c, Obj) => LocksAlone(c) /\ held'[c][Obj] = "write" /\ call'[c] = Idle
  BY <1>1 DEF Upgrade, LocksAlone, TypeOK
<1>4. Downgrade(c, Obj) => LocksAlone(c) /\ held'[c][Obj] = "read" /\ call'[c] = Idle
  BY <1>1 DEF Downgrade, LocksAlone, TypeOK
<1> QED
  BY <1>2, <1>3, <1>4

\* a step that leaves the locks alone is a stutter of the locker
LEMMA VarsIs ==
    ASSUME NEW c \in Clients, UNCHANGED vars
    PROVE  [Next]_vars /\ LocksAlone(c) /\ held'[c] = held[c] /\ call'[c] = call[c]
BY DEF vars, LocksAlone

\* metadata that Load returns has its type
LEMMA LoadedEntry == Typed => LoadedMD \in Entries /\ NoEntry \in Entries
BY DEF Typed, LoadedMD, Entries, Entry, NoEntry, Versions

\* no version is None or Partial
LEMMA Distinct ==
    /\ None \notin Versions /\ Partial \notin Versions /\ None # Partial
    /\ \A c \in Clients : c \in Versions /\ c # None /\ c # Partial
BY ObjAssumption DEF Versions

\* and so has what PersistMain caches
LEMMA PersistedEntry ==
    ASSUME Typed, NEW c \in Clients, req[c].rd # Partial, Persisted(req[c].rd)
    PROVE  cache' \in Entries /\ xattr' \in Versions \cup {None}
<1>1. req[c].rd \in Versions \cup {None}
  BY DEF Typed, Request
<1>2. ASSUME NEW d \in BOOLEAN PROVE Entry(req[c].rd, d) \in Entries
  BY <1>1 DEF Entries, Entry
<1> QED
  BY <1>1, <1>2 DEF Typed, Persisted, Recache

\* where a request needs nothing of the object's file, cache entry and versions; of
\* all the actions only Persist and PutSame acknowledge a PUT
Dull == {"load", "rmforce", "sleep", "uncache", "delete", "delremote", "delmain", "delretry", "done"}
Rests(c) ==
    /\ req'[c].pc \in Dull /\ req'[c].rd = req[c].rd /\ req'[c].rev = req[c].rev
    /\ req[c].kind = "put" /\ req'[c].res = "ok"
          => (req'[c].pc = "done" /\ (Persist(c) \/ PutSame(c))) \/ req[c].res = "ok"

\* the ways to go elsewhere
Moves(c, s) == Goes(c, s, req[c].md, req[c].rd, req[c].rev, req[c].vch, req[c].res)
Waits(c) ==
    /\ Start(c) \/ Uplock(c)
    /\ Moves(c, "lock") /\ ~Is(c, {"put"}) /\ (Is(c, Prefetches) => call'[c].exclusive = FALSE)
PutStarts(c) ==
    /\ Start(c) /\ Is(c, {"put"})
    /\ Goes(c, "putremote", req[c].md, c, req[c].rev, req[c].vch, req[c].res)
PutSent(c) == PutRemote(c) /\ Moves(c, "lock")
PutRetries(c) == PutRemoteFails(c) /\ Moves(c, "retry503")
TriesToWrite(c) ==
    /\ Fetch(c) /\ Is(c, Prefetches)
    /\ Goes(c, "lock", req[c].md, remote, req[c].rev, req[c].vch, req[c].res)
HasLock(c) ==
    /\ Locked(c) /\ ~Is(c, Gets)
    /\ \E s \in {"rename", "fetch"} :
          /\ Moves(c, s)
          /\ s = "rename" => Is(c, {"put"} \cup Prefetches) /\ call[c].exclusive = TRUE
HasMD(c) ==
    /\ Load(c) /\ Loads
    /\ \E s \in {"store", "loaded"} : Goes(c, s, LoadedMD, req[c].rd, req[c].rev, req[c].vch, req[c].res)
FindsNone(c) ==
    /\ Load(c) /\ NotExist /\ Is(c, Gets)
    /\ Goes(c, "cold", NoEntry, req[c].rd, req[c].rev, req[c].vch, req[c].res)
WillFetch(c) ==
    /\ Load(c) /\ Is(c, Prefetches)
    /\ Goes(c, "loaded", NoEntry, req[c].rd, req[c].rev, req[c].vch, req[c].res)
Stores(c) == Store(c) /\ At(c, "store") /\ Moves(c, "loaded")
WillOpen(c) == (Loaded(c) \/ CheckSame(c)) /\ At(c, "loaded") /\ Is(c, Gets) /\ Moves(c, "open")
Fetches(c) == (Loaded(c) \/ CheckDiffers(c)) /\ Is(c, Prefetches) /\ Moves(c, "fetch")
Outdated(c) ==
    /\ CheckDiffers(c) /\ At(c, "loaded") /\ Is(c, Gets)
    /\ Goes(c, "cold", req[c].md, req[c].rd, req[c].rev, TRUE, req[c].res)
Upgrades(c) == ColdLock(c) /\ Moves(c, "fetch")
Fetched(c) ==
    /\ Fetch(c) /\ ~Is(c, Prefetches)
    /\ \E s \in {"rename", "stream"} : Goes(c, s, req[c].md, remote, req[c].rev, req[c].vch, req[c].res)
Renames(c) == Rename(c) /\ Moves(c, "persist")
Downgrades(c) ==
    /\ Persist(c) /\ Is(c, Gets)
    /\ Goes(c, "open", cache', req[c].rd, req[c].rev, req[c].vch, req[c].res)
Creates(c) ==
    /\ StreamCreate(c)
    /\ Goes(c, "copy", req[c].md, req[c].rd, IF req[c].vch THEN disk ELSE NoFile, req[c].vch, req[c].res)
Overwrites(c) == StreamOver(c) /\ Moves(c, "copy")
Copies(c) == StreamCopy(c) /\ Moves(c, "persiststream")
Opens(c) ==
    /\ Open(c) /\ file # None
    /\ Goes(c, "tx", req[c].md, file, req[c].rev, req[c].vch, req[c].res)
Transmits(c) ==
    /\ Transmit(c) /\ Loads
    /\ Goes(c, "recache", LoadedMD, req[c].rd, req[c].rev, req[c].vch, req[c].res)

Turn(c) ==
    \/ Waits(c) \/ PutStarts(c) \/ PutSent(c) \/ PutRetries(c) \/ TriesToWrite(c) \/ HasLock(c)
    \/ HasMD(c) \/ FindsNone(c) \/ WillFetch(c) \/ Stores(c) \/ WillOpen(c) \/ Fetches(c) \/ Outdated(c)
    \/ Upgrades(c) \/ Fetched(c) \/ Renames(c) \/ Downgrades(c) \/ Creates(c) \/ Overwrites(c) \/ Copies(c)
    \/ Opens(c) \/ Transmits(c)

\* where a request that has got its lock goes on
LEMMA LockedIs ==
    ASSUME Typed, Locks, NEW c \in Clients, Locked(c)
    PROVE  \E s \in {"load", "rename", "fetch", "delete"} :
              /\ Moves(c, s)
              /\ Is(c, Gets) => s = "load"
              /\ s = "load" => Is(c, Gets \cup Prefetches) /\ call[c].exclusive = FALSE
              /\ s = "rename" => Is(c, {"put"} \cup Prefetches) /\ call[c].exclusive = TRUE
              /\ s = "fetch" => Is(c, {"coldget", "trycold"}) /\ call[c].exclusive = TRUE
              /\ s = "delete" => Is(c, {"delete", "evict"}) /\ call[c].exclusive = TRUE
<1> DEFINE s == CASE Is(c, Gets) -> "load"
                  [] Is(c, Prefetches) -> IF call[c].exclusive THEN "rename" ELSE "load"
                  [] Is(c, {"coldget", "trycold"}) -> "fetch"
                  [] Is(c, {"delete", "evict"}) -> "delete"
                  [] Is(c, {"put"}) -> "rename"
<1>1. To(c, s) /\ At(c, "lock") /\ req[c].kind \in Kinds /\ Holds(c) /\ call[c] # Idle
  BY DEF Locked, Typed, Request, Locks, Acquire
<1>2. call[c].exclusive \in BOOLEAN
  BY <1>1 DEF Locks, IInv, TypeOK, Calls
<1>3. /\ Is(c, Gets) => call[c].exclusive = FALSE
      /\ ~Is(c, Gets \cup Prefetches) => call[c].exclusive = TRUE
  BY <1>1, <1>2 DEF Holds, CallAt, At, Is
<1>4. /\ s \in {"load", "rename", "fetch", "delete"} /\ (Is(c, Gets) => s = "load")
      /\ s = "load" => Is(c, Gets \cup Prefetches) /\ call[c].exclusive = FALSE
      /\ s = "rename" => Is(c, {"put"} \cup Prefetches) /\ call[c].exclusive = TRUE
      /\ s = "fetch" => Is(c, {"coldget", "trycold"}) /\ call[c].exclusive = TRUE
      /\ s = "delete" => Is(c, {"delete", "evict"}) /\ call[c].exclusive = TRUE
  BY <1>1, <1>2, <1>3, SMTT(30) DEF Kinds, Is, Gets, Prefetches
<1> HIDE DEF s
<1>5. s \in PCs
  BY <1>4 DEF PCs
<1>6. Moves(c, s)
  BY <1>1, <1>5, ToIs DEF To, Moves
<1> QED
  BY <1>4, <1>6

\* every unlock passes the mode the request has: each step is a step of the locker
\* (or none), and the lock and the call of the request are those of its new place
LEMMA HoldsStep ==
    ASSUME Typed, Locks, NEW c \in Clients, Step(c)
    PROVE  /\ [Next]_vars /\ LocksAlone(c) /\ Alone(c) /\ req'[c].kind = req[c].kind /\ Holds(c)'
           /\ Rests(c) \/ Turn(c)
<1> DEFINE Goal == /\ [Next]_vars /\ LocksAlone(c) /\ Alone(c) /\ req'[c].kind = req[c].kind /\ Holds(c)'
                   /\ Rests(c) \/ Turn(c)
<1> SUFFICES Goal
  OBVIOUS
<1>0. TypeOK /\ Holds(c) /\ req[c] \in Request
  BY DEF Locks, IInv, Typed
<1> USE <1>0 DEF At, Is, Gets, Prefetches
<1>1. CASE Start(c)
  <2>0. At(c, "start")
    BY <1>1 DEF Start
  <2>1. CASE Is(c, {"put"}) /\ Set(c, [req[c] EXCEPT !.pc = "putremote", !.rd = c]) /\ UNCHANGED vars
    <3>1. Goes(c, "putremote", req[c].md, c, req[c].rev, req[c].vch, req[c].res)
      BY <2>1, RdIs DEF PCs, Versions
    <3>2. Turn(c)
      BY <1>1, <2>1, <3>1 DEF Turn, PutStarts
    <3> QED
      BY <2>0, <2>1, <3>1, <3>2, VarsIs, Distinct DEF Goes, Holds, ModeAt, KindAt, CallAt, ReadPCs, WritePCs,
         Fetchers
  <2>2. ASSUME NEW x \in BOOLEAN, CallLock(c, Obj, x) \/ CallTry(c, Obj, x), To(c, "lock"),
               Is(c, Gets \cup Prefetches) => x = FALSE, ~Is(c, Gets \cup Prefetches) => x = TRUE,
               ~Is(c, {"put"})
        PROVE  Goal
    <3>1. Moves(c, "lock")
      BY <2>2, ToIs DEF PCs, To, Moves
    <3>2. Turn(c)
      BY <1>1, <2>2, <3>1, CallIs DEF Turn, Waits
    <3> QED
      BY <2>0, <2>2, <3>1, <3>2, CallIs DEF Goes, Holds, ModeAt, KindAt, CallAt, ReadPCs, WritePCs, Fetchers,
         Moves
  <2> QED
    BY <1>1, <2>1, <2>2 DEF Start
<1>2. CASE Locked(c)
  <2>0. At(c, "lock") /\ Acquire(c)
    BY <1>2 DEF Locked
  <2>1. PICK s \in {"load", "rename", "fetch", "delete"} :
              /\ Moves(c, s)
              /\ Is(c, Gets) => s = "load"
              /\ s = "load" => Is(c, Gets \cup Prefetches) /\ call[c].exclusive = FALSE
              /\ s = "rename" => Is(c, {"put"} \cup Prefetches) /\ call[c].exclusive = TRUE
              /\ s = "fetch" => Is(c, {"coldget", "trycold"}) /\ call[c].exclusive = TRUE
              /\ s = "delete" => Is(c, {"delete", "evict"}) /\ call[c].exclusive = TRUE
    BY <1>2, LockedIs
  <2>2. s \in {"rename", "fetch"} => Turn(c)
    BY <1>2, <2>1 DEF Turn, HasLock
  <2>3. s \notin {"rename", "fetch"} => Rests(c)
    BY <2>1 DEF Moves, Goes, Rests, Dull
  <2>4. [Next]_vars /\ LocksAlone(c) /\ held'[c][Obj] = ModeOf(call[c].exclusive) /\ call'[c] = Idle
    BY <2>0, AcquireIs DEF Holds, CallAt
  <2>5. Alone(c) /\ req'[c].kind = req[c].kind /\ req'[c].pc = s /\ req'[c].rd = req[c].rd
    BY <2>1 DEF Moves, Goes
  <2>6. Holds(c)'
    <3>1. req[c].rd # Partial
      BY <2>0 DEF Holds, KindAt
    <3>2. CASE s = "load"
      BY <2>1, <2>4, <2>5, <3>1, <3>2 DEF Goes, Holds, ModeAt, KindAt, CallAt, ReadPCs, WritePCs, Fetchers,
         ModeOf
    <3>3. CASE s = "rename"
      BY <2>1, <2>4, <2>5, <3>1, <3>3 DEF Goes, Holds, ModeAt, KindAt, CallAt, ReadPCs, WritePCs, Fetchers,
         ModeOf
    <3>4. CASE s = "fetch"
      BY <2>1, <2>4, <2>5, <3>1, <3>4 DEF Goes, Holds, ModeAt, KindAt, CallAt, ReadPCs, WritePCs, Fetchers,
         ModeOf
    <3>5. CASE s = "delete"
      BY <2>1, <2>4, <2>5, <3>1, <3>5 DEF Goes, Holds, ModeAt, KindAt, CallAt, ReadPCs, WritePCs, Fetchers,
         ModeOf
    <3> QED
      BY <3>2, <3>3, <3>4, <3>5
  <2> QED
    BY <2>2, <2>3, <2>4, <2>5, <2>6
<1>3. CASE Busy(c)
  <2>1. Goes(c, "done", req[c].md, req[c].rd, req[c].rev, req[c].vch, "skip")
    BY <1>3, ResIs DEF Busy, Answer, PCs, Results, Moves
  <2> QED
    BY <1>3, <2>1, TryAgainIs DEF Busy, Goes, Holds, ModeAt, KindAt, CallAt, ReadPCs, WritePCs, Fetchers,
       Moves, Rests, Dull
<1>4. CASE Load(c)
  <2>0. At(c, "load")
    BY <1>4 DEF Load
  <2>1. ASSUME Loads, NEW s \in {"store", "loaded"}, UNCHANGED vars,
               Set(c, [req[c] EXCEPT !.pc = s, !.md = LoadedMD])
        PROVE  Goal
    <3>1. s \in PCs
      BY DEF PCs
    <3>2. Goes(c, s, LoadedMD, req[c].rd, req[c].rev, req[c].vch, req[c].res)
      BY <2>1, <3>1, LoadedEntry, MdIs
    <3>3. Turn(c)
      BY <1>4, <2>1, <3>2 DEF Turn, HasMD
    <3> QED
      BY <2>0, <2>1, <3>2, <3>3, VarsIs DEF Goes, Holds, ModeAt, KindAt, CallAt, ReadPCs, WritePCs, Fetchers
  <2>2. CASE Is(c, Gets) /\ NotExist /\ Set(c, [req[c] EXCEPT !.pc = "cold", !.md = NoEntry]) /\ UNCHANGED vars
    <3>1. Goes(c, "cold", NoEntry, req[c].rd, req[c].rev, req[c].vch, req[c].res)
      BY <2>2, LoadedEntry, MdIs DEF PCs
    <3>2. Turn(c)
      BY <1>4, <2>2, <3>1 DEF Turn, FindsNone
    <3> QED
      BY <2>0, <2>2, <3>1, <3>2, VarsIs DEF Goes, Holds, ModeAt, KindAt, CallAt, ReadPCs, WritePCs, Fetchers
  <2>3. CASE Is(c, Prefetches) /\ Set(c, [req[c] EXCEPT !.pc = "loaded", !.md = NoEntry]) /\ UNCHANGED vars
    <3>1. Goes(c, "loaded", NoEntry, req[c].rd, req[c].rev, req[c].vch, req[c].res)
      BY <2>3, LoadedEntry, MdIs DEF PCs
    <3>2. Turn(c)
      BY <1>4, <2>3, <3>1 DEF Turn, WillFetch
    <3> QED
      BY <2>0, <2>3, <3>1, <3>2, VarsIs DEF Goes, Holds, ModeAt, KindAt, CallAt, ReadPCs, WritePCs, Fetchers
  <2>4. CASE Unlk(c, FALSE) /\ Answer(c, "err")
    <3>1. Goes(c, "done", req[c].md, req[c].rd, req[c].rev, req[c].vch, "err")
      BY <2>4, ResIs DEF Answer, PCs, Results
    <3> QED
      BY <2>0, <2>4, <3>1, UnlkIs DEF Goes, Holds, ModeAt, KindAt, CallAt, ReadPCs, WritePCs, Fetchers,
         Rests, Dull
  <2>5. Is(c, Gets) \/ Is(c, Prefetches)
    BY <2>0 DEF Holds, KindAt
  <2>6. CASE Loads /\ UNCHANGED vars
             /\ Set(c, [req[c] EXCEPT !.pc = IF cache = NoEntry THEN "store" ELSE "loaded", !.md = LoadedMD])
    BY <2>1, <2>6
  <2>7. CASE (NotExist \/ (LmetaNotFound /\ Is(c, Prefetches))) /\ UNCHANGED vars
             /\ Set(c, [req[c] EXCEPT !.pc = IF Is(c, Gets) THEN "cold" ELSE "loaded", !.md = NoEntry])
    BY <2>2, <2>3, <2>5, <2>7
  <2> QED
    BY <1>4, <2>4, <2>6, <2>7 DEF Load
<1>5. CASE Store(c)
  <2>1. CASE At(c, "store") /\ To(c, "loaded") /\ UNCHANGED vars
    <3>1. Moves(c, "loaded")
      BY <2>1, ToIs DEF To, PCs, Moves
    <3>2. Turn(c)
      BY <1>5, <2>1, <3>1 DEF Turn, Stores
    <3> QED
      BY <1>5, <2>1, <3>1, <3>2, VarsIs DEF Store, Goes, Holds, ModeAt, KindAt, CallAt, ReadPCs, WritePCs,
         Fetchers, Moves
  <2>2. CASE At(c, "recache") /\ Answer(c, "ok") /\ Unlk(c, FALSE)
    <3>1. Goes(c, "done", req[c].md, req[c].rd, req[c].rev, req[c].vch, "ok")
      BY <2>2, ResIs DEF Answer, PCs, Results, Moves
    <3> QED
      BY <1>5, <2>2, <3>1, UnlkIs DEF Store, Goes, Holds, ModeAt, KindAt, CallAt, ReadPCs, WritePCs,
         Fetchers, Moves, Rests, Dull
  <2> QED
    BY <1>5, <2>1, <2>2 DEF Store
<1>6. CASE Loaded(c)
  <2>1. CASE Is(c, {"get"}) /\ To(c, "open") /\ UNCHANGED vars
    <3>1. Moves(c, "open")
      BY <2>1, ToIs DEF To, PCs, Moves
    <3>2. Turn(c)
      BY <1>6, <2>1, <3>1 DEF Turn, WillOpen, Loaded
    <3> QED
      BY <1>6, <2>1, <3>1, <3>2, VarsIs DEF Loaded, Goes, Holds, ModeAt, KindAt, CallAt, ReadPCs, WritePCs,
         Fetchers, Moves
  <2>2. CASE Is(c, {"prefetch"}) /\ Answer(c, "ok") /\ Unlk(c, FALSE)
    <3>1. Goes(c, "done", req[c].md, req[c].rd, req[c].rev, req[c].vch, "ok")
      BY <2>2, ResIs DEF Answer, PCs, Results, Moves
    <3> QED
      BY <1>6, <2>2, <3>1, UnlkIs DEF Loaded, Goes, Holds, ModeAt, KindAt, CallAt, ReadPCs, WritePCs,
         Fetchers, Moves, Rests, Dull
  <2>3. CASE Is(c, {"prefetch"}) /\ To(c, "fetch") /\ Unlk(c, FALSE)
    <3>1. Moves(c, "fetch")
      BY <2>3, ToIs DEF To, PCs, Moves
    <3>2. Turn(c)
      BY <1>6, <2>3, <3>1 DEF Turn, Fetches
    <3> QED
      BY <1>6, <2>3, <3>1, <3>2, UnlkIs DEF Loaded, Goes, Holds, ModeAt, KindAt, CallAt, ReadPCs, WritePCs,
         Fetchers, Moves
  <2> QED
    BY <1>6, <2>1, <2>2, <2>3 DEF Loaded
<1>7. CASE CheckSame(c)
  <2>1. CASE Is(c, Gets) /\ To(c, "open") /\ UNCHANGED vars
    <3>1. Moves(c, "open")
      BY <2>1, ToIs DEF To, PCs, Moves
    <3>2. Turn(c)
      BY <1>7, <2>1, <3>1 DEF Turn, WillOpen, CheckSame
    <3> QED
      BY <1>7, <2>1, <3>1, <3>2, VarsIs DEF CheckSame, Goes, Holds, ModeAt, KindAt, CallAt, ReadPCs,
         WritePCs, Fetchers, Moves
  <2>2. CASE ~Is(c, Gets) /\ Answer(c, "ok") /\ Unlk(c, FALSE)
    <3>1. Goes(c, "done", req[c].md, req[c].rd, req[c].rev, req[c].vch, "ok")
      BY <2>2, ResIs DEF Answer, PCs, Results, Moves
    <3> QED
      BY <1>7, <2>2, <3>1, UnlkIs DEF CheckSame, Goes, Holds, ModeAt, KindAt, CallAt, ReadPCs, WritePCs,
         Fetchers, Moves, Rests, Dull
  <2> QED
    BY <1>7, <2>1, <2>2 DEF CheckSame
<1>8. CASE CheckDiffers(c)
  <2>1. CASE Is(c, Gets) /\ Set(c, [req[c] EXCEPT !.pc = "cold", !.vch = TRUE]) /\ UNCHANGED vars
    <3>1. Goes(c, "cold", req[c].md, req[c].rd, req[c].rev, TRUE, req[c].res)
      BY <2>1, VchIs DEF PCs
    <3>2. Turn(c)
      BY <1>8, <2>1, <3>1 DEF Turn, Outdated, CheckDiffers
    <3> QED
      BY <1>8, <2>1, <3>1, <3>2, VarsIs DEF CheckDiffers, Goes, Holds, ModeAt, KindAt, CallAt, ReadPCs,
         WritePCs, Fetchers
  <2>2. CASE Is(c, Prefetches) /\ Unlk(c, FALSE) /\ To(c, "fetch")
    <3>1. Moves(c, "fetch")
      BY <2>2, ToIs DEF To, PCs, Moves
    <3>2. Turn(c)
      BY <1>8, <2>2, <3>1 DEF Turn, Fetches
    <3> QED
      BY <1>8, <2>2, <3>1, <3>2, UnlkIs DEF CheckDiffers, Goes, Holds, ModeAt, KindAt, CallAt, ReadPCs,
         WritePCs, Fetchers, Moves
  <2> QED
    BY <1>8, <2>1, <2>2 DEF CheckDiffers
<1>9. CASE CheckGone(c)
  <2>1. CASE Answer(c, "notfound") /\ Unlk(c, FALSE)
    <3>1. Goes(c, "done", req[c].md, req[c].rd, req[c].rev, req[c].vch, "notfound")
      BY <2>1, ResIs DEF Answer, PCs, Results, Moves
    <3> QED
      BY <1>9, <2>1, <3>1, UnlkIs DEF CheckGone, Goes, Holds, ModeAt, KindAt, CallAt, ReadPCs, WritePCs,
         Fetchers, Moves, Rests, Dull
  <2>2. CASE Is(c, Gets) /\ To(c, "rmforce") /\ UNCHANGED vars
    <3>1. Moves(c, "rmforce")
      BY <2>2, ToIs DEF To, PCs, Moves
    <3> QED
      BY <1>9, <2>2, <3>1, VarsIs DEF CheckGone, Goes, Holds, ModeAt, KindAt, CallAt, ReadPCs, WritePCs,
         Fetchers, Moves, Rests, Dull
  <2> QED
    BY <1>9, <2>1, <2>2 DEF CheckGone
<1>10. CASE CheckFails(c)
  <2>1. Goes(c, "done", req[c].md, req[c].rd, req[c].rev, req[c].vch, "err")
    BY <1>10, ResIs DEF CheckFails, Answer, PCs, Results, Moves
  <2> QED
    BY <1>10, <2>1, UnlkIs DEF CheckFails, Goes, Holds, ModeAt, KindAt, CallAt, ReadPCs, WritePCs, Fetchers,
       Moves, Rests, Dull
<1>11. CASE RemoveForced(c)
  <2>1. Goes(c, "done", req[c].md, req[c].rd, req[c].rev, req[c].vch, "notfound")
    BY <1>11, ResIs DEF RemoveForced, Answer, PCs, Results, Moves
  <2> QED
    BY <1>11, <2>1, UnlkIs DEF RemoveForced, Goes, Holds, ModeAt, KindAt, CallAt, ReadPCs, WritePCs,
       Fetchers, Moves, Rests, Dull
<1>12. CASE ColdLock(c)
  <2>1. Moves(c, "fetch")
    BY <1>12, ToIs DEF ColdLock, To, PCs, Moves
  <2>2. Turn(c)
    BY <1>12, <2>1 DEF Turn, Upgrades
  <2> QED
    BY <1>12, <2>1, <2>2, UpDownIs DEF ColdLock, Goes, Holds, ModeAt, KindAt, CallAt, ReadPCs, WritePCs,
       Fetchers, Moves
<1>13. CASE ColdRefused(c)
  <2>1. Goes(c, "done", req[c].md, req[c].rd, req[c].rev, req[c].vch, "err")
    BY <1>13, ResIs DEF ColdRefused, Answer, PCs, Results, Moves
  <2> QED
    BY <1>13, <2>1, UnlkIs DEF ColdRefused, Goes, Holds, ModeAt, KindAt, CallAt, ReadPCs, WritePCs, Fetchers,
       Moves, Rests, Dull
<1>14. CASE Uplock(c)
  <2>1. CASE At(c, "cold") /\ Unlk(c, FALSE) /\ Answer(c, "conflict")
    <3>1. Goes(c, "done", req[c].md, req[c].rd, req[c].rev, req[c].vch, "conflict")
      BY <2>1, ResIs DEF Answer, PCs, Results
    <3> QED
      BY <2>1, <3>1, UnlkIs DEF Goes, Holds, ModeAt, KindAt, CallAt, ReadPCs, WritePCs, Fetchers, Moves,
         Rests, Dull
  <2>2. CASE At(c, "cold") /\ Unlk(c, FALSE) /\ req[c].tries # UplockTries
             /\ Set(c, [req[c] EXCEPT !.pc = "sleep", !.tries = @ + 1])
    <3>1. Moves(c, "sleep")
      BY <2>2, TriesIs DEF PCs, Moves
    <3> QED
      BY <2>2, <3>1, UnlkIs DEF Goes, Holds, ModeAt, KindAt, CallAt, ReadPCs, WritePCs, Fetchers, Moves,
         Rests, Dull
  <2>3. CASE At(c, "sleep") /\ CallLock(c, Obj, FALSE) /\ To(c, "lock")
    <3>1. Moves(c, "lock")
      BY <2>3, ToIs DEF To, PCs, Moves
    <3>2. Turn(c)
      BY <1>14, <2>3, <3>1 DEF Turn, Waits, Holds, KindAt
    <3> QED
      BY <2>3, <3>1, <3>2, CallIs DEF Goes, Holds, ModeAt, KindAt, CallAt, ReadPCs, WritePCs, Fetchers, Moves
  <2> QED
    BY <1>14, <2>1, <2>2, <2>3 DEF Uplock
<1>15. CASE Fetch(c)
  <2>0. remote \in Versions \cup {None, Partial} /\ remote # Partial /\ At(c, "fetch")
    BY <1>15, Distinct DEF Typed, Fetch
  <2>1. CASE Is(c, Prefetches) /\ Set(c, [req[c] EXCEPT !.pc = "lock", !.rd = remote]) /\ CallTry(c, Obj, TRUE)
    <3>1. Goes(c, "lock", req[c].md, remote, req[c].rev, req[c].vch, req[c].res)
      BY <2>0, <2>1, RdIs DEF PCs
    <3>2. Turn(c)
      BY <1>15, <2>1, <3>1 DEF Turn, TriesToWrite
    <3> QED
      BY <2>0, <2>1, <3>1, <3>2, CallIs DEF Goes, Holds, ModeAt, KindAt, CallAt, ReadPCs, WritePCs, Fetchers
  <2>2. ASSUME ~Is(c, Prefetches), NEW next \in {"rename", "stream"}, next = "stream" => Is(c, Gets),
               Set(c, [req[c] EXCEPT !.pc = next, !.rd = remote, !.cold = TRUE]), UNCHANGED vars
        PROVE  Goal
    <3>1. next \in PCs
      BY DEF PCs
    <3>2. Goes(c, next, req[c].md, remote, req[c].rev, req[c].vch, req[c].res)
      BY <2>0, <2>2, <3>1, ColdIs
    <3>5. Turn(c)
      BY <1>15, <2>2, <3>2 DEF Turn, Fetched
    <3>3. CASE next = "rename"
      BY <2>0, <2>2, <3>2, <3>3, <3>5, VarsIs DEF Goes, Holds, ModeAt, KindAt, CallAt, ReadPCs, WritePCs,
         Fetchers
    <3>4. CASE next = "stream"
      BY <2>0, <2>2, <3>2, <3>4, <3>5, VarsIs DEF Goes, Holds, ModeAt, KindAt, CallAt, ReadPCs, WritePCs,
         Fetchers
    <3> QED
      BY <3>3, <3>4
  <2> QED
    BY <1>15, <2>1, <2>2 DEF Fetch
<1>16. CASE FetchFails(c)
  <2>1. PICK x \in Results : Answer(c, x)
    BY <1>16 DEF FetchFails, Results
  <2>2. Goes(c, "done", req[c].md, req[c].rd, req[c].rev, req[c].vch, x)
    BY <2>1, ResIs DEF Answer, PCs
  <2>3. CASE Is(c, Prefetches) /\ UNCHANGED vars
    BY <1>16, <2>2, <2>3, VarsIs DEF FetchFails, Goes, Holds, ModeAt, KindAt, CallAt, ReadPCs, WritePCs,
       Fetchers, Rests, Dull
  <2>4. CASE ~Is(c, Prefetches) /\ Unlk(c, TRUE)
    BY <1>16, <2>2, <2>4, UnlkIs DEF FetchFails, Goes, Holds, ModeAt, KindAt, CallAt, ReadPCs, WritePCs,
       Fetchers, Rests, Dull
  <2> QED
    BY <1>16, <2>3, <2>4 DEF FetchFails
<1>17. CASE PutWriteFails(c)
  <2>1. Goes(c, "done", req[c].md, req[c].rd, req[c].rev, req[c].vch, "err")
    BY <1>17, ResIs DEF PutWriteFails, Answer, PCs, Results, Moves
  <2> QED
    BY <1>17, <2>1, VarsIs DEF PutWriteFails, Goes, Holds, ModeAt, KindAt, CallAt, ReadPCs, WritePCs,
       Fetchers, Moves, Rests, Dull
<1>18. CASE PutRemote(c)
  <2>1. Moves(c, "lock")
    BY <1>18, ToIs DEF PutRemote, To, PCs, Moves
  <2>2. Turn(c)
    BY <1>18, <2>1 DEF Turn, PutSent
  <2> QED
    BY <1>18, <2>1, <2>2, CallIs DEF PutRemote, Goes, Holds, ModeAt, KindAt, CallAt, ReadPCs, WritePCs,
       Fetchers, Moves
<1>19. CASE PutRemoteFails(c)
  <2>1. CASE To(c, "retry503") /\ UNCHANGED vars
    <3>1. Moves(c, "retry503")
      BY <2>1, ToIs DEF To, PCs, Moves
    <3>2. Turn(c)
      BY <1>19, <2>1, <3>1 DEF Turn, PutRetries
    <3> QED
      BY <1>19, <2>1, <3>1, <3>2, VarsIs DEF PutRemoteFails, Goes, Holds, ModeAt, KindAt, CallAt, ReadPCs,
         WritePCs, Fetchers, Moves
  <2>2. CASE Answer(c, "err") /\ UNCHANGED vars
    <3>1. Goes(c, "done", req[c].md, req[c].rd, req[c].rev, req[c].vch, "err")
      BY <2>2, ResIs DEF Answer, PCs, Results, Moves
    <3> QED
      BY <1>19, <2>2, <3>1, VarsIs DEF PutRemoteFails, Goes, Holds, ModeAt, KindAt, CallAt, ReadPCs,
         WritePCs, Fetchers, Moves, Rests, Dull
  <2> QED
    BY <1>19, <2>1, <2>2 DEF PutRemoteFails
<1>20. CASE Rename(c)
  <2>1. Moves(c, "persist")
    BY <1>20, ToIs DEF Rename, To, PCs, Moves
  <2>2. Turn(c)
    BY <1>20, <2>1 DEF Turn, Renames
  <2> QED
    BY <1>20, <2>1, <2>2, VarsIs DEF Rename, Goes, Holds, ModeAt, KindAt, CallAt, ReadPCs, WritePCs,
       Fetchers, Moves
<1>21. CASE Persist(c)
  <2>1. CASE Is(c, Gets) /\ Downgrade(c, Obj) /\ Set(c, [req[c] EXCEPT !.pc = "open", !.md = cache'])
    <3>1. cache' \in Entries
      BY <1>21, PersistedEntry DEF Persist, Holds, KindAt
    <3>2. Goes(c, "open", cache', req[c].rd, req[c].rev, req[c].vch, req[c].res)
      BY <2>1, <3>1, MdIs DEF PCs
    <3>3. Turn(c)
      BY <1>21, <2>1, <3>2 DEF Turn, Downgrades
    <3> QED
      BY <1>21, <2>1, <3>2, <3>3, UpDownIs DEF Persist, Goes, Holds, ModeAt, KindAt, CallAt, ReadPCs,
         WritePCs, Fetchers
  <2>2. CASE Unlk(c, TRUE) /\ Answer(c, "ok")
    <3>1. Goes(c, "done", req[c].md, req[c].rd, req[c].rev, req[c].vch, "ok")
      BY <2>2, ResIs DEF Answer, PCs, Results
    <3>2. At(c, "persist")
      BY <1>21 DEF Persist
    <3> QED
      BY <1>21, <2>2, <3>1, <3>2, UnlkIs DEF Goes, Holds, ModeAt, KindAt, CallAt, ReadPCs, WritePCs,
         Fetchers, Rests, Dull, At
  <2> QED
    BY <1>21, <2>1, <2>2 DEF Persist
<1>22. CASE FiniFails(c)
  <2>1. CASE Is(c, {"put"} \cup Prefetches) /\ To(c, "uncache") /\ Unlk(c, TRUE)
    <3>1. Moves(c, "uncache")
      BY <2>1, ToIs DEF To, PCs, Moves
    <3> QED
      BY <1>22, <2>1, <3>1, UnlkIs DEF FiniFails, Goes, Holds, ModeAt, KindAt, CallAt, ReadPCs, WritePCs,
         Fetchers, Moves, Rests, Dull
  <2>2. CASE Answer(c, "err") /\ Unlk(c, TRUE)
    <3>1. Goes(c, "done", req[c].md, req[c].rd, req[c].rev, req[c].vch, "err")
      BY <2>2, ResIs DEF Answer, PCs, Results, Moves
    <3> QED
      BY <1>22, <2>2, <3>1, UnlkIs DEF FiniFails, Goes, Holds, ModeAt, KindAt, CallAt, ReadPCs, WritePCs,
         Fetchers, Moves, Rests, Dull
  <2> QED
    BY <1>22, <2>1, <2>2 DEF FiniFails
<1>23. CASE Cleanup(c)
  <2>1. Goes(c, "done", req[c].md, req[c].rd, req[c].rev, req[c].vch, "err")
    BY <1>23, ResIs DEF Cleanup, Answer, PCs, Results, Moves
  <2> QED
    BY <1>23, <2>1, VarsIs DEF Cleanup, Goes, Holds, ModeAt, KindAt, CallAt, ReadPCs, WritePCs, Fetchers,
       Moves, Rests, Dull
<1>24. CASE StreamCreate(c)
  <2> DEFINE x == IF req[c].vch THEN disk ELSE NoFile
  <2>1. x \in (Versions \cup {None, Partial}) \X (Versions \cup {None})
    BY DEF Typed, disk, NoFile
  <2>2. Set(c, [req[c] EXCEPT !.pc = "copy", !.rev = x])
    BY <1>24 DEF StreamCreate
  <2> HIDE DEF x
  <2>3. Goes(c, "copy", req[c].md, req[c].rd, x, req[c].vch, req[c].res)
    BY <2>1, <2>2, RevIs DEF PCs
  <2>4. Turn(c)
    BY <1>24, <2>3 DEF Turn, Creates, x
  <2> QED
    BY <1>24, <2>3, <2>4, VarsIs DEF StreamCreate, Goes, Holds, ModeAt, KindAt, CallAt, ReadPCs, WritePCs,
       Fetchers
<1>25. CASE StreamCopy(c)
  <2>1. Moves(c, "persiststream")
    BY <1>25, ToIs DEF StreamCopy, To, PCs, Moves
  <2>2. Turn(c)
    BY <1>25, <2>1 DEF Turn, Copies
  <2> QED
    BY <1>25, <2>1, <2>2, VarsIs DEF StreamCopy, Goes, Holds, ModeAt, KindAt, CallAt, ReadPCs, WritePCs,
       Fetchers, Moves
<1>26. CASE StreamPersist(c)
  <2>1. Goes(c, "done", req[c].md, req[c].rd, req[c].rev, req[c].vch, "ok")
    BY <1>26, ResIs DEF StreamPersist, Answer, PCs, Results, Moves
  <2> QED
    BY <1>26, <2>1, UnlkIs DEF StreamPersist, Goes, Holds, ModeAt, KindAt, CallAt, ReadPCs, WritePCs,
       Fetchers, Moves, Rests, Dull
<1>27. CASE StreamFails(c)
  <2>1. Goes(c, "done", req[c].md, req[c].rd, req[c].rev, req[c].vch, "err")
    BY <1>27, ResIs DEF StreamFails, Answer, PCs, Results, Moves
  <2> QED
    BY <1>27, <2>1, UnlkIs DEF StreamFails, Goes, Holds, ModeAt, KindAt, CallAt, ReadPCs, WritePCs, Fetchers,
       Moves, Rests, Dull
<1>28. CASE Open(c)
  <2>1. CASE Unlk(c, FALSE) /\ Answer(c, "notfound")
    <3>1. Goes(c, "done", req[c].md, req[c].rd, req[c].rev, req[c].vch, "notfound")
      BY <2>1, ResIs DEF Answer, PCs, Results
    <3> QED
      BY <1>28, <2>1, <3>1, UnlkIs DEF Open, Goes, Holds, ModeAt, KindAt, CallAt, ReadPCs, WritePCs,
         Fetchers, Rests, Dull
  <2>2. CASE file # None /\ Set(c, [req[c] EXCEPT !.pc = "tx", !.rd = file]) /\ UNCHANGED vars
    <3>1. file \in Versions \cup {None, Partial}
      BY DEF Typed
    <3>2. Goes(c, "tx", req[c].md, file, req[c].rev, req[c].vch, req[c].res)
      BY <2>2, <3>1, RdIs DEF PCs
    <3>3. Turn(c)
      BY <1>28, <2>2, <3>2 DEF Turn, Opens
    <3> QED
      BY <1>28, <2>2, <3>2, <3>3, VarsIs DEF Open, Goes, Holds, ModeAt, KindAt, CallAt, ReadPCs, WritePCs,
         Fetchers
  <2> QED
    BY <1>28, <2>1, <2>2 DEF Open
<1>29. CASE Transmit(c)
  <2>1. CASE Unlk(c, FALSE) /\ Answer(c, "ok")
    <3>1. Goes(c, "done", req[c].md, req[c].rd, req[c].rev, req[c].vch, "ok")
      BY <2>1, ResIs DEF Answer, PCs, Results
    <3> QED
      BY <1>29, <2>1, <3>1, UnlkIs DEF Transmit, Goes, Holds, ModeAt, KindAt, CallAt, ReadPCs, WritePCs,
         Fetchers, Rests, Dull
  <2>2. CASE Loads /\ Set(c, [req[c] EXCEPT !.pc = "recache", !.md = LoadedMD]) /\ UNCHANGED vars
    <3>1. Goes(c, "recache", LoadedMD, req[c].rd, req[c].rev, req[c].vch, req[c].res)
      BY <2>2, LoadedEntry, MdIs DEF PCs
    <3>2. Turn(c)
      BY <1>29, <2>2, <3>1 DEF Turn, Transmits
    <3> QED
      BY <1>29, <2>2, <3>1, <3>2, VarsIs DEF Transmit, Goes, Holds, ModeAt, KindAt, CallAt, ReadPCs,
         WritePCs, Fetchers
  <2> QED
    BY <1>29, <2>1, <2>2 DEF Transmit
<1>30. CASE TransmitFails(c)
  <2>1. Goes(c, "done", req[c].md, req[c].rd, req[c].rev, req[c].vch, "err")
    BY <1>30, ResIs DEF TransmitFails, Answer, PCs, Results, Moves
  <2> QED
    BY <1>30, <2>1, UnlkIs DEF TransmitFails, Goes, Holds, ModeAt, KindAt, CallAt, ReadPCs, WritePCs,
       Fetchers, Moves, Rests, Dull
<1>31. CASE DeleteLoad(c)
  <2>0. At(c, "delete")
    BY <1>31 DEF DeleteLoad
  <2>1. ASSUME NEW x \in {"ok", "notfound"}, Unlk(c, TRUE), Answer(c, x) PROVE Goal
    <3>1. x \in Results
      BY DEF Results
    <3>2. Goes(c, "done", req[c].md, req[c].rd, req[c].rev, req[c].vch, x)
      BY <2>1, <3>1, ResIs DEF Answer, PCs
    <3> QED
      BY <2>0, <2>1, <3>2, UnlkIs DEF Goes, Holds, ModeAt, KindAt, CallAt, ReadPCs, WritePCs, Fetchers,
         Moves, Rests, Dull
  <2>2. CASE To(c, "delremote") /\ UNCHANGED vars
    <3>1. Moves(c, "delremote")
      BY <2>2, ToIs DEF To, PCs, Moves
    <3> QED
      BY <2>0, <2>2, <3>1, VarsIs DEF Goes, Holds, ModeAt, KindAt, CallAt, ReadPCs, WritePCs, Fetchers,
         Moves, Rests, Dull
  <2>3. ASSUME NEW s \in {"delmain", "delremote"},
               Set(c, [req[c] EXCEPT !.pc = s, !.md = LoadedMD]), UNCHANGED vars
        PROVE  Goal
    <3>1. s \in PCs
      BY DEF PCs
    <3>2. Goes(c, s, LoadedMD, req[c].rd, req[c].rev, req[c].vch, req[c].res)
      BY <2>3, <3>1, LoadedEntry, MdIs
    <3> QED
      BY <2>0, <2>3, <3>2, VarsIs DEF Goes, Holds, ModeAt, KindAt, CallAt, ReadPCs, WritePCs, Fetchers,
         Moves, Rests, Dull
  <2> QED
    BY <1>31, <2>1, <2>2, <2>3 DEF DeleteLoad
<1>32. CASE DeleteRemote(c)
  <2>0. At(c, "delremote")
    BY <1>32 DEF DeleteRemote
  <2>1. ASSUME NEW s \in {"delmain", "done", "delretry"}, NEW res \in {"ok", "err"},
               Set(c, [req[c] EXCEPT !.pc = s, !.res = res]),
               IF s = "delmain" THEN UNCHANGED vars ELSE Unlk(c, TRUE)
        PROVE  Goal
    <3>1. s \in PCs /\ res \in Results /\ Set(c, [req[c] EXCEPT !.pc = s, !.res = res])
      BY <2>1 DEF PCs, Results
    <3>2. Goes(c, s, req[c].md, req[c].rd, req[c].rev, req[c].vch, res)
      BY <3>1, ResIs
    <3>3. CASE s = "delmain"
      BY <2>0, <2>1, <3>2, <3>3, VarsIs DEF Goes, Holds, ModeAt, KindAt, CallAt, ReadPCs, WritePCs, Fetchers,
         Moves, Rests, Dull
    <3>4. CASE s # "delmain"
      <4>1. Unlk(c, TRUE) /\ (s = "done" \/ s = "delretry")
        BY <2>1, <3>4
      <4> QED
        BY <2>0, <3>2, <4>1, UnlkIs DEF Goes, Holds, ModeAt, KindAt, CallAt, ReadPCs, WritePCs, Fetchers,
           Moves, Rests, Dull
    <3> QED
      BY <3>3, <3>4
  <2> QED
    BY <1>32, <2>1 DEF DeleteRemote, Answer
<1>33. CASE DeleteMain(c)
  <2>0. At(c, "delmain") /\ Unlk(c, TRUE)
    BY <1>33 DEF DeleteMain
  <2>1. ASSUME NEW x \in {"ok", "err"}, Answer(c, x) PROVE Goal
    <3>1. x \in Results
      BY DEF Results
    <3>2. Goes(c, "done", req[c].md, req[c].rd, req[c].rev, req[c].vch, x)
      BY <2>1, <3>1, ResIs DEF Answer, PCs
    <3> QED
      BY <2>0, <3>2, UnlkIs DEF Goes, Holds, ModeAt, KindAt, CallAt, ReadPCs, WritePCs, Fetchers, Moves,
         Rests, Dull
  <2>2. CASE To(c, "delretry")
    <3>1. Moves(c, "delretry")
      BY <2>2, ToIs DEF To, PCs, Moves
    <3> QED
      BY <2>0, <3>1, UnlkIs DEF Goes, Holds, ModeAt, KindAt, CallAt, ReadPCs, WritePCs, Fetchers, Moves,
         Rests, Dull
  <2> QED
    BY <1>33, <2>1, <2>2 DEF DeleteMain
<1>34. CASE DeleteMainFails(c)
  <2>1. Goes(c, "done", req[c].md, req[c].rd, req[c].rev, req[c].vch, "err")
    BY <1>34, ResIs DEF DeleteMainFails, Answer, PCs, Results, Moves
  <2> QED
    BY <1>34, <2>1, UnlkIs DEF DeleteMainFails, Goes, Holds, ModeAt, KindAt, CallAt, ReadPCs, WritePCs,
       Fetchers, Moves, Rests, Dull
<1>35. CASE DeleteRetry(c)
  <2>1. ASSUME NEW x \in {"ok", "err"}, Answer(c, x) PROVE Goal
    <3>1. x \in Results
      BY DEF Results
    <3>2. Goes(c, "done", req[c].md, req[c].rd, req[c].rev, req[c].vch, x)
      BY <2>1, <3>1, ResIs DEF Answer, PCs
    <3> QED
      BY <1>35, <3>2, VarsIs DEF DeleteRetry, Goes, Holds, ModeAt, KindAt, CallAt, ReadPCs, WritePCs,
         Fetchers, Rests, Dull
  <2> QED
    BY <1>35, <2>1 DEF DeleteRetry
<1>36. CASE PutSame(c)
  <2>1. Goes(c, "done", req[c].md, req[c].rd, req[c].rev, req[c].vch, "ok")
    BY <1>36, ResIs DEF PutSame, Answer, PCs, Results
  <2>2. At(c, "start") /\ UNCHANGED vars
    BY <1>36 DEF PutSame
  <2> QED
    BY <1>36, <2>1, <2>2, VarsIs DEF Goes, Holds, ModeAt, KindAt, CallAt, ReadPCs, WritePCs, Fetchers,
       Rests, Dull
<1>37. CASE StreamOver(c)
  <2>1. Moves(c, "copy")
    BY <1>37, ToIs DEF StreamOver, To, PCs, Moves
  <2>2. Turn(c)
    BY <1>37, <2>1 DEF Turn, Overwrites
  <2> QED
    BY <1>37, <2>1, <2>2, VarsIs DEF StreamOver, Goes, Holds, ModeAt, KindAt, CallAt, ReadPCs, WritePCs,
       Fetchers, Moves
<1> QED
  BY <1>1, <1>2, <1>3, <1>4, <1>5, <1>6, <1>7, <1>8, <1>9, <1>10, <1>11, <1>12, <1>13, <1>14, <1>15,
     <1>16, <1>17, <1>18, <1>19, <1>20, <1>21, <1>22, <1>23, <1>24, <1>25, <1>26, <1>27, <1>28, <1>29,
     <1>30, <1>31, <1>32, <1>33, <1>34, <1>35, <1>36, <1>37 DEF Step

\* which actions change the disk, the cache, the backend and the record of the past
LEMMA Effects ==
    ASSUME NEW c \in Clients, Step(c)
    PROVE  /\ hkmd' = hkmd
           /\ UNCHANGED disk \/ RemoveForced(c) \/ Rename(c) \/ Persist(c) \/ StreamCreate(c) \/ StreamOver(c)
                             \/ StreamCopy(c) \/ StreamPersist(c) \/ StreamFails(c) \/ DeleteLoad(c) \/ DeleteMain(c)
           /\ cache' \in {cache, NoEntry} \/ Store(c) \/ Persist(c) \/ StreamPersist(c)
           /\ UNCHANGED remote \/ PutRemote(c) \/ PutRemoteFails(c) \/ DeleteRemote(c) \/ DeleteRetry(c)
           /\ UNCHANGED seen \/ RemoveForced(c) \/ PutRemote(c) \/ PutRemoteFails(c) \/ Rename(c) \/ FiniFails(c)
                             \/ StreamCreate(c) \/ StreamOver(c) \/ StreamFails(c)
<1>1. CASE Start(c) \/ Locked(c) \/ Busy(c) \/ Load(c) \/ Loaded(c) \/ CheckSame(c) \/ CheckDiffers(c)
  BY <1>1 DEF Start, Locked, Busy, Load, Loaded, CheckSame, CheckDiffers, UncacheDel
<1>2. CASE CheckGone(c) \/ CheckFails(c) \/ ColdLock(c) \/ ColdRefused(c) \/ Uplock(c) \/ Fetch(c) \/ FetchFails(c)
  BY <1>2 DEF CheckGone, CheckFails, ColdLock, ColdRefused, Uplock, Fetch, FetchFails, UncacheDel
<1>3. CASE PutSame(c) \/ PutWriteFails(c) \/ FiniFails(c) \/ Cleanup(c) \/ Open(c) \/ Transmit(c)
           \/ TransmitFails(c) \/ DeleteMainFails(c)
  BY <1>3 DEF PutSame, PutWriteFails, FiniFails, Cleanup, Open, Transmit, TransmitFails, DeleteMainFails,
              UncacheDel
<1>4. CASE Store(c) \/ RemoveForced(c) \/ PutRemote(c) \/ PutRemoteFails(c) \/ Rename(c) \/ Persist(c)
  BY <1>4 DEF Store, RemoveForced, PutRemote, PutRemoteFails, Rename, Persist, UncacheDel
<1>5. CASE StreamCreate(c) \/ StreamOver(c) \/ StreamCopy(c) \/ StreamPersist(c) \/ StreamFails(c)
           \/ DeleteLoad(c) \/ DeleteRemote(c) \/ DeleteMain(c) \/ DeleteRetry(c)
  BY <1>5 DEF StreamCreate, StreamOver, StreamCopy, StreamPersist, StreamFails, DeleteLoad, DeleteRemote,
              DeleteMain, DeleteRetry, UncacheDel
<1> QED
  BY <1>1, <1>2, <1>3, <1>4, <1>5 DEF Step

\* the writes record whether they were broken off or could not be undone, and no more
Marked(torn, unclean) ==
    /\ seen' \in Past /\ seen'.accepted = seen.accepted /\ seen'.forced = seen.forced
    /\ seen'.torn = torn /\ seen'.unclean = unclean

\* what Rename, FiniFails, coldStream and its _cleanup record
LEMMA Marks ==
    ASSUME Typed, NEW c \in Clients
    PROVE  /\ Rename(c) \/ StreamCreate(c) => Marked(FALSE, seen.unclean)
           /\ FiniFails(c) => Marked(seen.torn \/ At(c, "persist"), seen.unclean)
           /\ StreamOver(c) => Marked(seen.torn, TRUE)
           /\ StreamFails(c) => \E left \in {req[c].rev, NoFile, disk} :
                 /\ file' = left[1] /\ xattr' = left[2]
                 /\ Marked(seen.torn, seen.unclean \/ left # req[c].rev)
<1>1. seen \in Past
  BY DEF Typed
<1>2. ASSUME NEW b \in BOOLEAN
      PROVE  /\ seen' = [seen EXCEPT !.torn = b] => Marked(b, seen.unclean)
             /\ seen' = [seen EXCEPT !.unclean = b] => Marked(seen.torn, b)
  BY <1>1 DEF Past, Marked
<1>3. Rename(c) \/ StreamCreate(c) => Marked(FALSE, seen.unclean)
  BY <1>2 DEF Rename, StreamCreate
<1>4. FiniFails(c) => Marked(seen.torn \/ At(c, "persist"), seen.unclean)
  <2>1. (seen.torn \/ At(c, "persist")) \in BOOLEAN
    OBVIOUS
  <2> QED
    BY <1>2, <2>1 DEF FiniFails
<1>5. StreamOver(c) => Marked(seen.torn, TRUE)
  BY <1>2 DEF StreamOver
<1>6. ASSUME StreamFails(c)
      PROVE  \E left \in {req[c].rev, NoFile, disk} :
                 /\ file' = left[1] /\ xattr' = left[2]
                 /\ Marked(seen.torn, seen.unclean \/ left # req[c].rev)
  <2>1. PICK left \in {req[c].rev, NoFile, disk} :
               /\ file' = left[1] /\ xattr' = left[2]
               /\ seen' = [seen EXCEPT !.unclean = @ \/ left # req[c].rev]
    BY <1>6 DEF StreamFails
  <2>2. (seen.unclean \/ left # req[c].rev) \in BOOLEAN
    OBVIOUS
  <2>3. Marked(seen.torn, seen.unclean \/ left # req[c].rev)
    BY <1>2, <2>1, <2>2
  <2> QED
    BY <2>1, <2>3
<1> QED
  BY <1>3, <1>4, <1>5, <1>6

\* the types of the shared state after a request's step
LEMMA TypedStep ==
    ASSUME Typed, Locks, NEW c \in Clients, Step(c)
    PROVE  Typed'
<1>0. /\ req' \in [Clients -> Request] /\ Holds(c) /\ req[c] \in Request
      /\ None \in Versions \cup {None} /\ None \in Versions \cup {None, Partial}
  BY HoldsStep DEF Alone, Locks, Typed
<1>1. hkmd' \in Entries
  BY Effects DEF Typed
<1>2. cache' \in Entries
  <2>1. CASE Store(c)
    BY <1>0, <2>1 DEF Store, Recache, Request
  <2>2. CASE Persist(c) \/ StreamPersist(c)
    BY <1>0, <2>2, PersistedEntry DEF Persist, StreamPersist, Holds, KindAt, At
  <2> QED
    BY <2>1, <2>2, Effects, LoadedEntry DEF Typed
<1>3. file' \in Versions \cup {None, Partial} /\ xattr' \in Versions \cup {None}
  <2>1. CASE UNCHANGED disk
    BY <2>1 DEF Typed, disk
  <2>2. CASE RemoveForced(c) \/ DeleteLoad(c) \/ DeleteMain(c)
    BY <2>2 DEF Typed, RemoveForced, DeleteLoad, DeleteMain, disk
  <2>3. CASE Rename(c) \/ StreamCreate(c) \/ StreamOver(c) \/ StreamCopy(c)
    BY <1>0, <2>3 DEF Typed, Rename, StreamCreate, StreamOver, StreamCopy, Request
  <2>4. CASE Persist(c) \/ StreamPersist(c)
    BY <1>0, <2>4, PersistedEntry DEF Persist, StreamPersist, Holds, KindAt, At, Typed
  <2>5. CASE StreamFails(c)
    <3>1. PICK left \in {req[c].rev, NoFile, disk} : file' = left[1] /\ xattr' = left[2]
      BY <2>5 DEF StreamFails
    <3>3. req[c].rev \in (Versions \cup {None, Partial}) \X (Versions \cup {None})
      BY <1>0 DEF Request
    <3>4. /\ NoFile \in (Versions \cup {None, Partial}) \X (Versions \cup {None})
          /\ disk \in (Versions \cup {None, Partial}) \X (Versions \cup {None})
      BY DEF Typed, disk, NoFile
    <3>2. left \in (Versions \cup {None, Partial}) \X (Versions \cup {None})
      BY <3>3, <3>4
    <3> QED
      BY <3>1, <3>2
  <2> QED
    BY <2>1, <2>2, <2>3, <2>4, <2>5, Effects
<1>4. remote' \in Versions \cup {None}
  BY Effects, Distinct DEF Typed, DeleteRemote, DeleteRetry, PutRemote, PutRemoteFails
<1>5. seen' \in Past
  <2>1. CASE UNCHANGED seen
    BY <2>1 DEF Typed
  <2>2. CASE RemoveForced(c)
    BY <2>2 DEF Typed, RemoveForced, Past
  <2>3. CASE PutRemote(c) \/ PutRemoteFails(c)
    <3>1. c \in Versions /\ seen.accepted \in SUBSET Versions /\ seen.accepted \cup {c} \in SUBSET Versions
      BY Distinct DEF Typed, Past
    <3>2. [seen EXCEPT !.accepted = @ \cup {c}] \in Past
      BY <3>1, SMTT(30) DEF Typed, Past
    <3> QED
      BY <2>3, <3>1, <3>2 DEF Typed, PutRemote, PutRemoteFails
  <2>4. CASE Rename(c) \/ FiniFails(c) \/ StreamCreate(c) \/ StreamOver(c) \/ StreamFails(c)
    BY <2>4, Marks DEF Marked
  <2> QED
    BY <2>1, <2>2, <2>3, <2>4, Effects
<1> QED
  BY <1>0, <1>1, <1>2, <1>3, <1>4, <1>5 DEF Typed

\* at the beginning nobody holds the object
LEMMA InitLocks == ObjInit => Typed /\ Locks
<1> SUFFICES ASSUME ObjInit PROVE Typed /\ Locks
  OBVIOUS
<1>1. IInv
  BY InitIInv DEF ObjInit
<1>2. NoEntry \in Entries /\ Entry(file, FALSE) \in Entries /\ NoFile \in (Versions \cup {None, Partial}) \X (Versions \cup {None})
  BY DEF ObjInit, Entries, Entry, NoEntry, NoFile, Versions
<1>3. ASSUME NEW c \in Clients
      PROVE  req[c] \in Request /\ req[c].pc = "start" /\ req[c].rd = None
  <2>1. req[c] \in [kind : Kinds, pc : {"start"}, md : {NoEntry}, rd : {None}, rev : {NoFile},
                    vch : {FALSE}, cold : {FALSE}, tries : {0}, res : {"none"}]
    BY DEF ObjInit
  <2>2. 0 \in 0..UplockTries
    BY ObjAssumption, SMTT(30)
  <2>3. "start" \in PCs /\ "none" \in Results
    BY DEF PCs, Results
  <2> QED
    BY <1>2, <2>1, <2>2, <2>3 DEF Request
<1>4. req \in [Clients -> Request]
  BY <1>3 DEF ObjInit
<1>5. Typed
  BY <1>2, <1>4 DEF ObjInit, Typed, Versions, Past
<1>6. ASSUME NEW c \in Clients PROVE Holds(c)
  BY <1>3, ObjAssumption, Distinct DEF ObjInit, Init, Holds, ModeAt, KindAt, CallAt, ReadPCs, WritePCs
<1> QED
  BY <1>1, <1>5, <1>6 DEF Locks

\* and a crash releases everything
LEMMA CrashLocks ==
    ASSUME Typed, Locks, Crash
    PROVE  /\ Typed' /\ Locks' /\ UNCHANGED <<disk, remote>> /\ cache' = NoEntry /\ hkmd' = NoEntry
           /\ Marked(seen.torn \/ \E c \in Clients : req[c].pc \in {"persist", "copy", "persiststream"}, seen.unclean)
           /\ \A c \in Clients : /\ req'[c].kind = req[c].kind /\ req'[c].md = req[c].md /\ req'[c].rd = req[c].rd
                                 /\ req'[c].rev = req[c].rev /\ req'[c].vch = req[c].vch
                                 /\ \/ req'[c] = req[c]
                                    \/ req'[c].pc = "done" /\ req'[c].res = "crash"
                                 /\ req'[c].pc \in {"start", "done"}
<1> DEFINE q(c) == [req[c] EXCEPT !.pc = "done", !.res = "crash"]
<1>1. ASSUME NEW c \in Clients
      PROVE  /\ q(c) \in Request /\ q(c).pc = "done" /\ q(c).res = "crash" /\ q(c).kind = req[c].kind
             /\ q(c).md = req[c].md /\ q(c).rd = req[c].rd /\ q(c).rev = req[c].rev /\ q(c).vch = req[c].vch
  <2>1. req[c] \in Request
    BY DEF Typed
  <2> QED
    BY <2>1 DEF Request, PCs, Results
<1>2. ASSUME NEW c \in Clients
      PROVE  req'[c] = q(c) \/ (req'[c] = req[c] /\ req[c].pc \in {"start", "done"})
  BY DEF Crash, At
<1>3. req' \in [Clients -> Request]
  <2>1. ASSUME NEW c \in Clients PROVE req'[c] \in Request
    BY <1>1, <1>2 DEF Typed
  <2> QED
    BY <2>1 DEF Crash
<1> HIDE DEF q
<1>8. Marked(seen.torn \/ \E c \in Clients : req[c].pc \in {"persist", "copy", "persiststream"}, seen.unclean)
  <2> DEFINE b == seen.torn \/ \E c \in Clients : req[c].pc \in {"persist", "copy", "persiststream"}
  <2>1. b \in BOOLEAN /\ seen' = [seen EXCEPT !.torn = b]
    BY DEF Crash
  <2> HIDE DEF b
  <2>2. Marked(b, seen.unclean)
    BY <2>1 DEF Typed, Past, Marked
  <2> QED
    BY <2>2 DEF b
<1>4. Typed' /\ UNCHANGED <<disk, remote>> /\ cache' = NoEntry /\ hkmd' = NoEntry
  BY <1>3, <1>8, LoadedEntry DEF Crash, Typed, disk, Marked
<1>5. Init'
  BY DEF Crash, Init
<1>6. IInv'
  BY <1>5, InitIInv, PTL
<1>7. ASSUME NEW c \in Clients PROVE Holds(c)'
  <2>1. req'[c].pc \in {"start", "done"} /\ (req'[c].pc = "start" => req'[c] = req[c])
    BY <1>1, <1>2
  <2>2. req'[c].pc = "start" => req'[c].rd # Partial
    BY <2>1 DEF Locks, Holds, KindAt
  <2>3. held'[c][Obj] = "none" /\ call'[c] = Idle
    BY ObjAssumption DEF Crash
  <2> QED
    BY <2>1, <2>2, <2>3 DEF Holds, ModeAt, KindAt, CallAt, ReadPCs, WritePCs
<1> QED
  BY <1>1, <1>2, <1>4, <1>6, <1>7, <1>8 DEF Locks

\* a request that keeps its place, its lock and its call stays right
LEMMA OthersHold ==
    ASSUME Locks, NEW c \in Clients, NEW d \in Clients, d # c, Alone(c), LocksAlone(c)
    PROVE  Holds(d)'
<1>1. req'[d] = req[d] /\ held'[d] = held[d] /\ call'[d] = call[d]
  BY DEF Alone, LocksAlone
<1> QED
  BY <1>1 DEF Locks, Holds, ModeAt, KindAt, CallAt

\* every step of every request, of the housekeeper, and a crash
LEMMA LocksStep == Typed /\ Locks /\ [ObjNext]_allVars => Typed' /\ Locks'
<1> SUFFICES ASSUME Typed, Locks, [ObjNext]_allVars PROVE Typed' /\ Locks'
  OBVIOUS
<1>1. ASSUME NEW c \in Clients, Step(c) PROVE Typed' /\ Locks'
  <2>1. Typed'
    BY <1>1, TypedStep
  <2>2. IInv'
    BY <1>1, HoldsStep, IInvStep DEF Locks
  <2>3. ASSUME NEW d \in Clients PROVE Holds(d)'
    BY <1>1, HoldsStep, OthersHold
  <2> QED
    BY <2>1, <2>2, <2>3 DEF Locks
<1>2. ASSUME UNCHANGED vars, req' = req PROVE Locks'
  <2>1. IInv'
    BY <1>2, IInvStep DEF Locks
  <2>2. ASSUME NEW c \in Clients PROVE Holds(c)'
    BY <1>2 DEF Locks, Holds, ModeAt, KindAt, CallAt, vars
  <2> QED
    BY <2>1, <2>2 DEF Locks
<1>3. CASE HkRange \/ HkEvict
  <2>1. hkmd.ver \in Versions \cup {None} /\ NoEntry \in Entries
    BY LoadedEntry DEF Typed, Entries
  <2>2. Typed'
    BY <1>3, <2>1 DEF HkRange, HkEvict, UncacheDel, disk, Typed
  <2> QED
    BY <1>2, <1>3, <2>2 DEF HkRange, HkEvict
<1>4. CASE UNCHANGED allVars
  BY <1>2, <1>4 DEF allVars, objVars, Typed
<1> QED
  BY <1>1, <1>3, <1>4, CrashLocks DEF ObjNext, Requests

\* each request holds the lock its place needs, always
LEMMA LocksAlways == ObjSpec => [](Typed /\ Locks)
BY InitLocks, LocksStep, PTL DEF ObjSpec

\* the locker's promises hold for the requests of an object, each of which unlocks
\* in the mode it has by then (goi.unlocked, UpgradeLock, DowngradeLock, fini's
\* deferred unlock), and across crashes
THEOREM ObjectLocks == ObjSpec => [](Exclusion /\ MapMatchesHolders)
<1>1. Locks => Exclusion /\ MapMatchesHolders
  BY Promises DEF Locks
<1> QED
  BY <1>1, LocksAlways, PTL

\* a request that has answered holds no lock, and of those that have not one can
\* always go on: whoever holds the lock waits for nobody
THEOREM SomebodyGoesOn == ObjSpec => []NobodyStuck
<1>1. ASSUME Typed, Locks PROVE NobodyStuck
  <2>1. LocksReleased
    BY <1>1 DEF LocksReleased, Locks, Holds, ModeAt, CallAt, ReadPCs, WritePCs, At
  <2>2. ASSUME NEW c \in Clients, ~At(c, "start"), ~At(c, "done")
        PROVE  \E d \in Clients : /\ ~At(d, "start") /\ ~At(d, "done")
                                  /\ call[d] # Idle => TryOK(m, Obj, call[d].exclusive) \/ call[d].op = "try"
    <3>1. CASE Obj \notin DOMAIN m
      BY <2>2, <3>1 DEF TryOK
    <3>2. CASE Obj \in DOMAIN m
      <4>1. NameOK(Obj)
        BY <1>1, ObjAssumption DEF Locks, IInv
      <4>2. PICK d \in Clients : held[d][Obj] # "none"
        BY <3>2, <4>1 DEF NameOK, Readers, Writers
      <4>3. call[d] = Idle /\ ~At(d, "start") /\ ~At(d, "done")
        BY <1>1, <4>2 DEF Locks, Holds, ModeAt, CallAt, ReadPCs, WritePCs, At
      <4> QED
        BY <4>3
    <3> QED
      BY <3>1, <3>2
  <2> QED
    BY <2>1, <2>2 DEF NobodyStuck
<1> QED
  BY <1>1, LocksAlways, PTL

-----------------------------------------------------------------------------
(* What others may do to a request that holds the lock *)

\* nobody but the request that has it changes the disk under a write lock, and a
\* reader sees at most RemoveObj(force)
LEMMA Rely ==
    ASSUME Typed, Locks, NEW c \in Clients, Step(c), NEW d \in Clients, d # c, held[d][Obj] # "none"
    PROVE  /\ UNCHANGED disk \/ (file' = None /\ xattr' = None /\ seen'.forced = TRUE)
           /\ held[d][Obj] = "write" => UNCHANGED disk /\ cache' \in {cache, NoEntry}
<1>1. held[c][Obj] # "write" /\ (held[d][Obj] = "write" => held[c][Obj] = "none")
  <2>1. Exclusion /\ Obj \in Names
    BY Promises, ObjAssumption DEF Locks
  <2> QED
    BY <2>1 DEF Exclusion
<1>2. Holds(c)
  BY DEF Locks
<1>3. ~Rename(c) /\ ~Persist(c) /\ ~StreamCreate(c) /\ ~StreamOver(c) /\ ~StreamCopy(c)
      /\ ~StreamPersist(c) /\ ~StreamFails(c) /\ ~DeleteLoad(c) /\ ~DeleteMain(c)
  BY <1>1, <1>2 DEF Holds, ModeAt, WritePCs, ReadPCs, At, Rename, Persist, StreamCreate, StreamOver, StreamCopy,
                    StreamPersist, StreamFails, DeleteLoad, DeleteMain
<1>4. RemoveForced(c) \/ Store(c) => held[c][Obj] = "read"
  BY <1>2 DEF Holds, ModeAt, ReadPCs, At, RemoveForced, Store
<1>5. RemoveForced(c) => file' = None /\ xattr' = None /\ seen'.forced = TRUE
  BY DEF RemoveForced, Typed, Past
<1> QED
  BY <1>1, <1>3, <1>4, <1>5, Effects

\* a GET that is about to write the object found none, or the backend has another version
Vacant(c) ==
    Is(c, Gets) /\ req[c].pc \in {"cold", "fetch", "stream", "rename"} => file = None \/ req[c].vch

Vacancy == \A c \in Clients : Vacant(c)

\* the locks protect what a GET found until it writes
LEMMA VacantStep ==
    ASSUME Typed, Locks, \A c \in Clients : Vacant(c), [ObjNext]_allVars
    PROVE  \A c \in Clients : Vacant(c)'
<1>1. ASSUME NEW c \in Clients, Step(c), NEW d \in Clients PROVE Vacant(d)'
  <2>0. Alone(c) /\ Holds(d) /\ req'[c].kind = req[c].kind /\ (Rests(c) \/ Turn(c)) /\ Vacant(d)
    BY <1>1, HoldsStep DEF Locks
  <2>1. CASE d # c
    <3>1. req'[d] = req[d]
      BY <2>0, <2>1 DEF Alone
    <3>2. Is(d, Gets) /\ req[d].pc \in {"cold", "fetch", "stream", "rename"} => held[d][Obj] # "none"
      BY <2>0 DEF Holds, ModeAt, ReadPCs, WritePCs, Is, Gets, Prefetches
    <3>3. held[d][Obj] # "none" => file' = file \/ file' = None
      BY <1>1, <2>1, Rely DEF disk
    <3> QED
      BY <2>0, <3>1, <3>2, <3>3 DEF Vacant, Is
  <2>2. CASE d = c /\ Rests(c)
    BY <2>2 DEF Vacant, Rests, Dull
  <2>3. CASE d = c /\ Turn(c)
    <3> USE DEF Goes, Moves, Is, Vacant
    <3>1. CASE HasLock(c) \/ Fetches(c)
      BY <2>3, <3>1 DEF HasLock, Fetches, Gets, Prefetches
    <3>2. CASE FindsNone(c)
      BY <2>3, <3>2 DEF FindsNone, Load, NotExist, disk
    <3>3. CASE Outdated(c)
      BY <2>3, <3>3 DEF Outdated
    <3>4. CASE Upgrades(c)
      BY <2>0, <2>3, <3>4 DEF Upgrades, ColdLock, disk, At
    <3>5. CASE Fetched(c)
      BY <2>0, <2>3, <3>5 DEF Fetched, Fetch, disk, At
    <3>6. CASE Waits(c) \/ PutStarts(c) \/ PutSent(c) \/ PutRetries(c) \/ TriesToWrite(c) \/ HasMD(c)
               \/ WillFetch(c) \/ Stores(c) \/ WillOpen(c) \/ Renames(c) \/ Downgrades(c) \/ Creates(c)
               \/ Overwrites(c) \/ Copies(c) \/ Opens(c) \/ Transmits(c)
      <4>1. req'[c].pc \in {"lock", "putremote", "retry503", "store", "loaded", "open", "persist", "copy",
                            "persiststream", "tx", "recache"}
        BY <3>6 DEF Waits, PutStarts, PutSent, PutRetries, TriesToWrite, HasMD, WillFetch, Stores, WillOpen,
                    Renames, Downgrades, Creates, Overwrites, Copies, Opens, Transmits
      <4> QED
        BY <2>3, <4>1
    <3> QED
      BY <2>3, <3>1, <3>2, <3>3, <3>4, <3>5, <3>6 DEF Turn
  <2> QED
    BY <2>0, <2>1, <2>2, <2>3
<1>2. CASE Crash
  BY <1>2, CrashLocks DEF Vacant
<1>3. CASE HkRange \/ HkEvict \/ UNCHANGED allVars
  BY <1>3 DEF Vacant, HkRange, HkEvict, disk, allVars, objVars, Is
<1> QED
  BY <1>1, <1>2, <1>3 DEF ObjNext, Requests

\* ... from the beginning on
LEMMA VacantAlways == ObjSpec => [](Typed /\ Locks /\ Vacancy)
<1>1. ObjInit => Vacancy
  BY DEF ObjInit, Vacancy, Vacant
<1>2. Typed /\ Locks /\ Vacancy /\ [ObjNext]_allVars => Vacancy'
  BY VacantStep DEF Vacancy
<1> QED
  BY <1>1, <1>2, LocksAlways, PTL DEF ObjSpec

\* UpgradeLock and `goto do` after _uplock.do, for any number of GETs of an object:
\* one that writes it found no object, or an outdated one
THEOREM FetchedOnce == ObjSpec => NoRefetch
<1> DEFINE A == \A c \in Clients : Is(c, Gets) /\ file' # file /\ req'[c].pc \in {"persist", "copy"}
                                     => file = None \/ req[c].vch
<1>1. ASSUME Typed, Locks, Vacancy, [ObjNext]_allVars PROVE [A]_allVars
  <2> SUFFICES ASSUME NEW d \in Clients, Is(d, Gets), file' # file, req'[d].pc \in {"persist", "copy"},
                      ObjNext
               PROVE  file = None \/ req[d].vch
    BY <1>1
  <2>1. PICK c \in Clients : Step(c)
    BY CrashLocks, <1>1 DEF ObjNext, Requests, HkRange, HkEvict, disk
  <2>2. Alone(c) /\ Holds(d) /\ Vacant(d) /\ (Rests(c) \/ Turn(c))
    BY <1>1, <2>1, HoldsStep DEF Locks, Vacancy
  <2>3. CASE d # c
    <3>1. req[d].pc \in {"persist", "copy"}
      BY <2>2, <2>3 DEF Alone
    <3>2. held[d][Obj] = "write"
      BY <2>2, <3>1 DEF Holds, ModeAt, ReadPCs, WritePCs
    <3> QED
      BY <1>1, <2>1, <2>3, <3>2, Rely DEF disk
  <2>4. CASE d = c /\ (Rename(c) \/ StreamCreate(c) \/ StreamOver(c))
    BY <2>2, <2>4 DEF Vacant, Rename, StreamCreate, StreamOver, At
  <2>5. CASE d = c /\ ~(Rename(c) \/ StreamCreate(c) \/ StreamOver(c))
    <3>1. Turn(c)
      BY <2>2, <2>5 DEF Rests, Dull
    <3>2. req'[c].pc \notin {"persist", "copy"}
      BY <2>5, <3>1 DEF Turn, Goes, Moves, Waits, PutStarts, PutSent, PutRetries, TriesToWrite, HasLock, HasMD,
            FindsNone, WillFetch, Stores, WillOpen, Fetches, Outdated, Upgrades, Fetched, Renames, Downgrades,
            Creates, Overwrites, Copies, Opens, Transmits
    <3> QED
      BY <2>5, <3>2
  <2> QED
    BY <2>3, <2>4, <2>5
<1> QED
  BY <1>1, VacantAlways, PTL DEF ObjSpec, NoRefetch

-----------------------------------------------------------------------------
(* Where versions come from, and that an acknowledged one stays *)

\* how a request gets to the places that the invariants below are about
LEMMA Arrivals ==
    ASSUME NEW c \in Clients, Rests(c) \/ Turn(c)
    PROVE  /\ req'[c].pc # "start"
           /\ req'[c].pc = "persist" => Renames(c)
           /\ req'[c].pc = "copy" => Creates(c) \/ Overwrites(c)
           /\ req'[c].pc = "persiststream" => Copies(c)
           /\ req'[c].pc \in {"store", "recache"} => HasMD(c) \/ Transmits(c)
           /\ req'[c].pc = "tx" => Opens(c)
           /\ req'[c].rev = req[c].rev \/ Creates(c)
           /\ req[c].kind = "put" /\ req'[c].res = "ok"
                 => (req'[c].pc = "done" /\ (Persist(c) \/ PutSame(c))) \/ req[c].res = "ok"
<1>1. CASE Rests(c)
  BY <1>1 DEF Rests, Dull
<1>2. CASE Turn(c)
  BY <1>2 DEF Turn, Goes, Moves, Waits, PutStarts, PutSent, PutRetries, TriesToWrite, HasLock, HasMD, FindsNone,
        WillFetch, Stores, WillOpen, Fetches, Outdated, Upgrades, Fetched, Renames, Downgrades, Creates,
        Overwrites, Copies, Opens, Transmits
<1> QED
  BY <1>1, <1>2

\* an answered request is over
LEMMA Undone == ASSUME NEW c \in Clients, Step(c) PROVE req[c].pc # "done"
<1> SUFFICES ASSUME req[c].pc = "done" PROVE FALSE
  OBVIOUS
<1> USE DEF At
<1>1. ~Start(c) /\ ~PutSame(c) /\ ~Locked(c) /\ ~Busy(c) /\ ~Load(c) /\ ~Store(c) /\ ~Loaded(c) /\ ~CheckSame(c)
  BY DEF Start, PutSame, Locked, Busy, Load, Store, Loaded, CheckSame
<1>2. ~CheckDiffers(c) /\ ~CheckGone(c) /\ ~CheckFails(c) /\ ~RemoveForced(c) /\ ~ColdLock(c) /\ ~ColdRefused(c)
  BY DEF CheckDiffers, CheckGone, CheckFails, RemoveForced, ColdLock, ColdRefused
<1>3. ~Uplock(c) /\ ~Fetch(c) /\ ~FetchFails(c) /\ ~PutWriteFails(c) /\ ~PutRemote(c) /\ ~PutRemoteFails(c)
  BY DEF Uplock, Fetch, FetchFails, PutWriteFails, PutRemote, PutRemoteFails
<1>4. ~Rename(c) /\ ~Persist(c) /\ ~FiniFails(c) /\ ~Cleanup(c) /\ ~StreamCreate(c) /\ ~StreamOver(c)
  BY DEF Rename, Persist, FiniFails, Cleanup, StreamCreate, StreamOver
<1>5. ~StreamCopy(c) /\ ~StreamPersist(c) /\ ~StreamFails(c) /\ ~Open(c) /\ ~Transmit(c) /\ ~TransmitFails(c)
  BY DEF StreamCopy, StreamPersist, StreamFails, Open, Transmit, TransmitFails
<1>6. ~DeleteLoad(c) /\ ~DeleteRemote(c) /\ ~DeleteMain(c) /\ ~DeleteMainFails(c) /\ ~DeleteRetry(c)
  BY DEF DeleteLoad, DeleteRemote, DeleteMain, DeleteMainFails, DeleteRetry
<1> QED
  BY <1>1, <1>2, <1>3, <1>4, <1>5, <1>6 DEF Step

\* what a request is about to write, the backend has accepted; a PUT writes its own
\* version, and is acknowledged only after the backend accepted it, or wrote nothing
Sourced(c) ==
    /\ req[c].pc \in {"rename", "persist", "stream", "copy", "persiststream"} => req[c].rd \in seen.accepted
    /\ At(c, "lock") /\ Is(c, {"put"} \cup Prefetches) /\ call[c].exclusive => req[c].rd \in seen.accepted
    /\ Is(c, {"put"}) /\ req[c].pc \in {"putremote", "retry503", "lock", "rename", "persist"} => req[c].rd = c
    /\ At(c, "start") => req[c].rd = None
    /\ Is(c, {"put"}) /\ req[c].res = "ok" => At(c, "done") /\ (req[c].rd = c => c \in seen.accepted)

Sources == remote \in seen.accepted \cup {None} /\ \A c \in Clients : Sourced(c)

\* the record of the past only grows, with PUTs as the backend accepts them
LEMMA SeenGrows ==
    ASSUME Typed, Locks, NEW c \in Clients, Step(c)
    PROVE  /\ \A v \in seen.accepted : v \in seen'.accepted
           /\ \A v \in seen'.accepted : v \in seen.accepted \/ (v = c /\ Is(c, {"put"}) /\ remote' = c)
           /\ seen.forced = TRUE => seen'.forced = TRUE
           /\ seen.unclean = TRUE => seen'.unclean = TRUE
           /\ remote' \in {remote, None} \/ (remote' = c /\ c \in seen'.accepted)
           /\ PutRemote(c) => c \in seen'.accepted
<1>1. CASE UNCHANGED seen /\ ~PutRemote(c) /\ ~PutRemoteFails(c)
  BY <1>1, Effects DEF DeleteRemote, DeleteRetry
<1>2. CASE RemoveForced(c)
  <2>1. seen'.accepted = seen.accepted /\ seen'.forced = TRUE /\ seen'.unclean = seen.unclean /\ remote' = remote
        /\ ~PutRemote(c)
    BY <1>2 DEF RemoveForced, Typed, Past, PutRemote, At
  <2> QED
    BY <2>1
<1>3. CASE Rename(c) \/ FiniFails(c) \/ StreamCreate(c) \/ StreamOver(c) \/ StreamFails(c)
  <2>1. remote' = remote /\ ~PutRemote(c)
    BY <1>3 DEF Rename, FiniFails, StreamCreate, StreamOver, StreamFails, PutRemote, At
  <2>2. seen'.accepted = seen.accepted /\ seen'.forced = seen.forced /\ (seen.unclean = TRUE => seen'.unclean = TRUE)
    BY <1>3, Marks DEF Marked
  <2> QED
    BY <2>1, <2>2
<1>4. CASE PutRemote(c) \/ PutRemoteFails(c)
  <2>1. Is(c, {"put"})
    BY <1>4 DEF PutRemote, PutRemoteFails, At, Is, Locks, Holds, KindAt
  <2>2. ASSUME seen' = [seen EXCEPT !.accepted = @ \cup {c}]
        PROVE  seen'.accepted = seen.accepted \cup {c} /\ seen'.forced = seen.forced /\ seen'.unclean = seen.unclean
    BY <2>2 DEF Typed, Past
  <2>3. CASE remote' = c /\ seen' = [seen EXCEPT !.accepted = @ \cup {c}]
    BY <2>1, <2>2, <2>3
  <2>4. CASE UNCHANGED <<remote, seen>> /\ ~PutRemote(c)
    BY <2>4
  <2>5. PutRemote(c) => remote' = c /\ seen' = [seen EXCEPT !.accepted = @ \cup {c}]
    BY DEF PutRemote
  <2>6. PutRemoteFails(c) => UNCHANGED <<remote, seen>> \/ (remote' = c /\ seen' = [seen EXCEPT !.accepted = @ \cup {c}])
    BY DEF PutRemoteFails
  <2> QED
    BY <1>4, <2>3, <2>4, <2>5, <2>6
<1> QED
  BY <1>1, <1>2, <1>3, <1>4, Effects

\* versions pass from the backend to requests, and never back before it accepted them
LEMMA SourcesStep ==
    ASSUME Typed, Locks, Sources, [ObjNext]_allVars
    PROVE  Sources'
<1>1. ASSUME NEW c \in Clients, Step(c) PROVE Sources'
  <2>0. Alone(c) /\ LocksAlone(c) /\ Holds(c) /\ req'[c].kind = req[c].kind /\ (Rests(c) \/ Turn(c)) /\ Sourced(c)
        /\ req[c].pc # "done" /\ ~(Is(c, {"put"}) /\ req[c].res = "ok")
    BY <1>1, HoldsStep, Undone DEF Locks, Sources, Sourced, At
  <2>1. remote' \in seen'.accepted \cup {None}
    BY <1>1, SeenGrows DEF Sources
  <2>2. \A v \in seen.accepted : v \in seen'.accepted
    BY <1>1, SeenGrows
  <2>3. ASSUME NEW d \in Clients, d # c PROVE Sourced(d)'
    <3>1. req'[d] = req[d] /\ call'[d] = call[d] /\ Sourced(d)
      BY <2>0, <2>3 DEF Alone, LocksAlone, Sources
    <3> QED
      BY <2>2, <3>1 DEF Sourced, At, Is
  <2>4. Sourced(c)'
    <3> USE DEF At, Is
    <3>1. CASE Rests(c)
      <4>1. /\ Persist(c) => UNCHANGED seen /\ req[c].pc = "persist"
            /\ PutSame(c) => req[c].pc = "start"
        BY DEF Persist, PutSame
      <4>2. Is(c, {"put"}) /\ req'[c].res = "ok" => req'[c].pc = "done" /\ (req'[c].rd = c => c \in seen'.accepted)
        BY <2>0, <2>2, <3>1, <4>1, Distinct DEF Sourced, Rests
      <4> QED
        BY <2>0, <2>2, <3>1, <4>2 DEF Sourced, Rests, Dull
    <3>2. CASE PutStarts(c) \/ PutRetries(c)
      BY <2>0, <2>2, <3>2 DEF PutStarts, PutRetries, Sourced, Goes, Moves, PutRemoteFails
    <3>3. CASE PutSent(c)
      <4>1. req[c].pc \in {"putremote", "retry503"} /\ PutRemote(c) /\ req'[c].pc = "lock"
            /\ req'[c].rd = req[c].rd /\ req'[c].res = req[c].res
        BY <3>3 DEF PutSent, PutRemote, Goes, Moves
      <4>2. req[c].kind = "put" /\ c \in seen'.accepted
        BY <1>1, <2>0, <4>1, SeenGrows DEF Holds, KindAt
      <4> QED
        BY <2>0, <4>1, <4>2 DEF Sourced
    <3>4. CASE TriesToWrite(c)
      <4>1. remote \in seen'.accepted
        BY <2>2, <3>4 DEF TriesToWrite, Fetch, Sources
      <4> QED
        BY <2>0, <3>4, <4>1 DEF TriesToWrite, Sourced, Goes, Prefetches
    <3>5. CASE HasLock(c)
      BY <2>0, <2>2, <3>5 DEF HasLock, Locked, Sourced, Goes, Moves
    <3>6. CASE Fetched(c)
      <4>1. remote \in seen'.accepted /\ req[c].kind # "put"
        BY <2>0, <2>2, <3>6 DEF Fetched, Fetch, Sources, Holds, KindAt, Fetchers, Gets, Prefetches
      <4> QED
        BY <2>0, <3>6, <4>1 DEF Fetched, Sourced, Goes
    <3>7. CASE Renames(c) \/ Creates(c) \/ Overwrites(c) \/ Copies(c)
      BY <2>0, <2>2, <3>7 DEF Renames, Creates, Overwrites, Copies, Rename, StreamCreate, StreamOver, StreamCopy,
         Sourced, Goes, Moves
    <3>8. CASE Waits(c)
      BY <2>0, <2>2, <3>8 DEF Waits, Sourced, Goes, Moves
    <3>9. CASE HasMD(c) \/ FindsNone(c) \/ WillFetch(c) \/ Stores(c) \/ WillOpen(c) \/ Fetches(c) \/ Outdated(c)
               \/ Upgrades(c) \/ Downgrades(c) \/ Opens(c) \/ Transmits(c)
      <4>1. req'[c].pc \in {"store", "loaded", "cold", "open", "fetch", "tx", "recache"} /\ req'[c].res = req[c].res
        BY <3>9 DEF Goes, Moves, HasMD, FindsNone, WillFetch, Stores, WillOpen, Fetches, Outdated, Upgrades,
                    Downgrades, Opens, Transmits
      <4> QED
        BY <2>0, <2>2, <4>1 DEF Sourced
    <3> QED
      BY <2>0, <3>1, <3>2, <3>3, <3>4, <3>5, <3>6, <3>7, <3>8, <3>9 DEF Turn
  <2> QED
    BY <2>1, <2>3, <2>4 DEF Sources
<1>2. CASE Crash
  <2>0. seen'.accepted = seen.accepted
    BY <1>2, CrashLocks DEF Marked
  <2>1. ASSUME NEW c \in Clients PROVE Sourced(c)'
    BY <1>2, <2>0, CrashLocks DEF Sources, Sourced, At, Is
  <2> QED
    BY <1>2, <2>0, <2>1, CrashLocks DEF Sources
<1>3. CASE HkRange \/ HkEvict \/ UNCHANGED allVars
  BY <1>3 DEF Sources, Sourced, HkRange, HkEvict, disk, allVars, objVars, vars, Is, At
<1> QED
  BY <1>1, <1>2, <1>3 DEF ObjNext, Requests

\* ... from the beginning on
LEMMA SourcesAlways == ObjSpec => [](Typed /\ Locks /\ Vacancy /\ Sources)
<1>1. ObjInit => Sources
  <2> SUFFICES ASSUME ObjInit PROVE Sources
    OBVIOUS
  <2>1. seen.accepted = {Old}
    BY DEF ObjInit
  <2>2. ASSUME NEW c \in Clients PROVE req[c].pc = "start" /\ req[c].res = "none" /\ req[c].rd = None
    BY DEF ObjInit
  <2> QED
    BY <2>1, <2>2 DEF ObjInit, Sources, Sourced, At
<1>2. Typed /\ Locks /\ Sources /\ [ObjNext]_allVars => Sources'
  BY SourcesStep
<1> QED
  BY <1>1, <1>2, VacantAlways, PTL DEF ObjSpec

\* the file, what coldStream moved aside and what a GET opened are accepted versions, or
\* the unfinished file of a coldStream
Contents ==
    /\ file \in seen.accepted \cup {None, Partial}
    /\ \A c \in Clients : /\ req[c].rev[1] \in seen.accepted \cup {None, Partial}
                          /\ At(c, "tx") => req[c].rd \in seen.accepted \cup {Partial}

\* content comes from requests that fetched or PUT it, and goes where it is opened
LEMMA ContentsStep ==
    ASSUME Typed, Locks, Sources, Contents, [ObjNext]_allVars
    PROVE  Contents'
<1>1. ASSUME NEW c \in Clients, Step(c) PROVE Contents'
  <2>0. Alone(c) /\ (Rests(c) \/ Turn(c)) /\ Sourced(c) /\ \A v \in seen.accepted : v \in seen'.accepted
    BY <1>1, HoldsStep, SeenGrows DEF Sources
  <2>1. file' \in seen.accepted \cup {None, Partial}
    <3>1. CASE StreamFails(c)
      <4>1. PICK left \in {req[c].rev, NoFile, disk} : file' = left[1]
        BY <3>1 DEF StreamFails
      <4>2. left[1] \in {req[c].rev[1], None, file}
        BY SMTT(30) DEF NoFile, disk
      <4> QED
        BY <4>1, <4>2 DEF Contents
    <3>2. CASE Rename(c) \/ StreamCopy(c)
      BY <2>0, <3>2 DEF Rename, StreamCopy, Sourced, At
    <3>3. CASE UNCHANGED disk \/ Persist(c) \/ StreamPersist(c) \/ StreamCreate(c) \/ StreamOver(c) \/ RemoveForced(c)
               \/ DeleteLoad(c) \/ DeleteMain(c)
      BY <3>3 DEF Contents, disk, Persist, StreamPersist, StreamCreate, StreamOver, RemoveForced, DeleteLoad,
                  DeleteMain
    <3> QED
      BY <1>1, <3>1, <3>2, <3>3, Effects
  <2>2. ASSUME NEW d \in Clients
        PROVE  /\ req'[d].rev[1] \in seen.accepted \cup {None, Partial}
               /\ req'[d].pc = "tx" => req'[d].rd \in seen.accepted \cup {Partial}
    <3>1. CASE d # c
      BY <2>0, <3>1 DEF Alone, Contents, At
    <3>2. CASE d = c
      <4>1. req'[c].rev[1] \in seen.accepted \cup {None, Partial}
        <5>1. CASE Creates(c)
          <6>1. req'[c].rev = IF req[c].vch THEN disk ELSE NoFile
            BY <5>1 DEF Creates, Goes
          <6>2. req'[c].rev[1] \in {file, None}
            BY <6>1, SMTT(30) DEF disk, NoFile
          <6> QED
            BY <6>2 DEF Contents
        <5> QED
          BY <2>0, <5>1, Arrivals DEF Contents
      <4>2. req'[c].pc = "tx" => req'[c].rd = file /\ file # None
        BY <2>0, Arrivals DEF Opens, Goes
      <4> QED
        BY <3>2, <4>1, <4>2 DEF Contents
    <3> QED
      BY <3>1, <3>2
  <2> QED
    BY <2>0, <2>1, <2>2 DEF Contents, At
<1>2. CASE Crash
  <2>1. seen'.accepted = seen.accepted /\ file' = file
    BY <1>2, CrashLocks DEF Marked, disk
  <2>2. ASSUME NEW c \in Clients PROVE req'[c].rev = req[c].rev /\ ~At(c, "tx")'
    BY <1>2, CrashLocks DEF At
  <2> QED
    BY <2>1, <2>2 DEF Contents
<1>3. CASE HkRange \/ HkEvict \/ UNCHANGED allVars
  BY <1>3 DEF Contents, HkRange, HkEvict, disk, allVars, objVars, At
<1> QED
  BY <1>1, <1>2, <1>3 DEF ObjNext, Requests

\* ... from the beginning on
LEMMA ContentsAlways == ObjSpec => [](Typed /\ Locks /\ Vacancy /\ Sources /\ Contents)
<1>1. ObjInit => Contents
  <2> SUFFICES ASSUME ObjInit PROVE Contents
    OBVIOUS
  <2>1. ASSUME NEW c \in Clients PROVE req[c].pc = "start" /\ req[c].rev = NoFile
    BY DEF ObjInit
  <2>2. NoFile[1] = None
    BY SMTT(30) DEF NoFile
  <2> QED
    BY <2>1, <2>2 DEF ObjInit, Contents, At
<1>2. Typed /\ Locks /\ Sources /\ Contents /\ [ObjNext]_allVars => Contents'
  BY ContentsStep
<1> QED
  BY <1>1, <1>2, SourcesAlways, PTL DEF ObjSpec

\* who is writing the file, and who has a version to write that came from the backend
Writing == {"persist", "copy", "persiststream"}
Writer == \E c \in Clients : req[c].pc \in Writing
Written(c) ==
    \/ req[c].pc \in {"rename", "persist", "stream", "copy", "persiststream"}
    \/ At(c, "lock") /\ Is(c, {"put"} \cup Prefetches) /\ call[c].exclusive

\* with nobody deleting, and no removal or clean-up gone wrong
NoDeletes == \A c \in Clients : ~Is(c, {"delete", "evict"})
Standing == NoDeletes /\ ~seen.forced /\ ~seen.unclean
SomeAcked == \E c \in Clients : Acked(c)
Accepting == \E c \in Clients : Is(c, {"put"}) /\ c \in seen.accepted

\* a coldStream that has nothing to put back is not seen by anybody else
Reverts(c) ==
    req[c].pc \in {"copy", "persiststream"} /\ req[c].rev[1] = None
        => cache = NoEntry /\ hkmd = NoEntry /\ xattr = None /\ ~SomeAcked

\* what says that there is a file
Stands ==
    /\ cache # NoEntry \/ hkmd # NoEntry \/ SomeAcked => file # None
    /\ \A c \in Clients : req[c].pc \in {"store", "recache"} => file # None
    /\ \A c \in Clients : Reverts(c)

Kept ==
    /\ Writer => file # None
    /\ NoDeletes /\ (Accepting \/ seen.torn \/ seen.unclean \/ \E c \in Clients : Written(c)) => remote # None
    /\ Standing => Stands

\* without deletes these actions are not taken
LEMMA NotDeleting ==
    ASSUME Locks, NoDeletes, NEW c \in Clients
    PROVE  ~DeleteRemote(c) /\ ~DeleteRetry(c) /\ ~DeleteLoad(c) /\ ~DeleteMain(c)
BY DEF NoDeletes, Is, DeleteRemote, DeleteRetry, DeleteLoad, DeleteMain, At, Locks, Holds, KindAt

\* a writer has put a version there, or is about to
LEMMA FirmStep ==
    ASSUME Typed, Locks, Sources, Writer => file # None, NEW c \in Clients, Step(c), Writer'
    PROVE  file' # None
<1>0. Alone(c) /\ (Rests(c) \/ Turn(c)) /\ Sourced(c) /\ \A v \in seen.accepted : v # None
  BY HoldsStep, Distinct DEF Sources, Typed, Past
<1>1. PICK d \in Clients : req'[d].pc \in Writing
  BY DEF Writer
<1>2. CASE d # c
  <2>1. req[d].pc \in Writing
    BY <1>0, <1>1, <1>2 DEF Alone
  <2>2. held[d][Obj] = "write" /\ file # None
    BY <2>1 DEF Locks, Holds, ModeAt, ReadPCs, WritePCs, Writing, Writer
  <2> QED
    BY <1>2, <2>2, Rely DEF disk
<1>3. CASE d = c
  <2>1. Renames(c) \/ Creates(c) \/ Overwrites(c) \/ Copies(c)
    BY <1>0, <1>1, <1>3, Arrivals DEF Writing
  <2>2. (Renames(c) \/ Copies(c)) => file' = req[c].rd /\ req[c].rd # None
    BY <1>0 DEF Renames, Copies, Rename, StreamCopy, Sourced, At
  <2>3. (Creates(c) \/ Overwrites(c)) => file' = Partial
    BY DEF Creates, Overwrites, StreamCreate, StreamOver
  <2> QED
    BY <2>1, <2>2, <2>3, Distinct
<1> QED
  BY <1>2, <1>3

\* whatever was written, or is about to be, came from the backend, which still has the object
LEMMA BackedStep ==
    ASSUME Typed, Locks, Kept, NEW c \in Clients, Step(c), NoDeletes,
           (Accepting \/ seen.torn \/ seen.unclean \/ \E d \in Clients : Written(d))'
    PROVE  remote' # None
<1>0. Alone(c) /\ LocksAlone(c) /\ (Rests(c) \/ Turn(c)) /\ req'[c].kind = req[c].kind
  BY HoldsStep
<1>1. remote # None => remote' # None
  BY NotDeleting, Effects, Distinct DEF PutRemote, PutRemoteFails
<1>2. CASE Accepting'
  <2>1. PICK d \in Clients : Is(d, {"put"})' /\ d \in seen'.accepted
    BY <1>2 DEF Accepting
  <2>2. Is(d, {"put"})
    BY <1>0, <2>1 DEF Is, Alone
  <2>3. CASE d \in seen.accepted
    BY <1>1, <2>2, <2>3 DEF Kept, Accepting
  <2>4. CASE d \notin seen.accepted
    BY <2>1, <2>4, SeenGrows, Distinct
  <2> QED
    BY <2>3, <2>4
<1>3. ASSUME NEW d \in Clients, Written(d)' PROVE remote' # None
  <2>1. CASE d # c
    <3>1. Written(d)
      BY <1>0, <1>3, <2>1 DEF Written, At, Is, Alone, LocksAlone
    <3> QED
      BY <1>1, <3>1 DEF Kept
  <2>2. CASE d = c /\ Written(c)
    BY <1>1, <2>2 DEF Kept
  <2>3. CASE d = c /\ ~Written(c)
    <3> USE DEF At, Is
    <3>1. ~Renames(c) /\ ~Creates(c) /\ ~Overwrites(c) /\ ~Copies(c)
      BY <2>3 DEF Renames, Creates, Overwrites, Copies, Rename, StreamCreate, StreamOver, StreamCopy, Written
    <3>2. HasLock(c) => req'[c].pc = "fetch"
      BY <2>3 DEF HasLock, Locked, Written, Goes, Moves
    <3>3. Waits(c) => req'[c].pc = "lock" /\ ~Is(c, {"put"}) /\ (Is(c, Prefetches) => call'[c].exclusive = FALSE)
      BY DEF Waits, Goes, Moves
    <3>4. CASE PutSent(c)
      BY <3>4, Distinct DEF PutSent, PutRemote
    <3>5. CASE TriesToWrite(c) \/ Fetched(c)
      BY <1>1, <3>5 DEF TriesToWrite, Fetched, Fetch
    <3>6. CASE Rests(c) \/ Waits(c) \/ PutStarts(c) \/ PutRetries(c) \/ HasLock(c) \/ HasMD(c) \/ FindsNone(c)
               \/ WillFetch(c) \/ Stores(c) \/ WillOpen(c) \/ Fetches(c) \/ Outdated(c) \/ Upgrades(c)
               \/ Downgrades(c) \/ Opens(c) \/ Transmits(c)
      <4>1. req'[c].pc \in Dull \cup {"putremote", "retry503", "fetch", "store", "loaded", "cold", "open", "tx",
                                       "recache"} \/ Waits(c)
        BY <3>2, <3>6 DEF Rests, Goes, Moves, PutStarts, PutRetries, HasMD, FindsNone, WillFetch, Stores,
                     WillOpen, Fetches, Outdated, Upgrades, Downgrades, Opens, Transmits
      <4> QED
        BY <1>0, <1>3, <2>3, <3>3, <4>1 DEF Written, Dull
    <3> QED
      BY <1>0, <3>1, <3>4, <3>5, <3>6 DEF Turn
  <2> QED
    BY <2>1, <2>2, <2>3
<1>4. CASE seen'.torn \/ seen'.unclean
  <2>1. CASE seen.torn \/ seen.unclean
    BY <1>1, <2>1 DEF Kept
  <2>2. CASE ~(seen.torn \/ seen.unclean)
    <3>1. (FiniFails(c) /\ At(c, "persist")) \/ StreamOver(c) \/ StreamFails(c)
      <4>1. RemoveForced(c) => seen'.torn = seen.torn /\ seen'.unclean = seen.unclean
        BY DEF RemoveForced, Typed, Past
      <4>2. PutRemote(c) \/ PutRemoteFails(c) => seen'.torn = seen.torn /\ seen'.unclean = seen.unclean
        BY DEF PutRemote, PutRemoteFails, Typed, Past
      <4>3. Rename(c) \/ StreamCreate(c) => ~seen'.torn /\ seen'.unclean = seen.unclean
        BY Marks DEF Marked
      <4>4. FiniFails(c) /\ ~At(c, "persist") => (seen'.torn <=> seen.torn) /\ seen'.unclean = seen.unclean
        BY Marks DEF Marked
      <4> QED
        BY <1>4, <2>2, <4>1, <4>2, <4>3, <4>4, Effects
    <3>2. Written(c)
      BY <3>1 DEF Written, StreamOver, StreamFails, At
    <3> QED
      BY <1>1, <3>2 DEF Kept
  <2> QED
    BY <2>1, <2>2
<1> QED
  BY <1>2, <1>3, <1>4

\* without deletes, a step that takes the file away puts one back, or nobody knew of it
LEMMA StandsStep ==
    ASSUME Typed, Locks, Vacancy, Sources, Kept, NEW c \in Clients, Step(c), Standing'
    PROVE  Stands'
<1>0. Alone(c) /\ (Rests(c) \/ Turn(c)) /\ Holds(c) /\ Vacant(c) /\ Sourced(c) /\ req'[c].kind = req[c].kind
      /\ \A d \in Clients : d # c => req'[d] = req[d]
  BY HoldsStep DEF Locks, Vacancy, Sources, Alone
<1>1. Standing /\ Stands
  <2>1. NoDeletes
    BY <1>0 DEF Standing, NoDeletes, Is
  <2>2. ~seen.forced /\ ~seen.unclean
    BY SeenGrows DEF Standing, Typed, Past
  <2> QED
    BY <2>1, <2>2 DEF Standing, Kept
<1>2. ~StreamOver(c) /\ ~RemoveForced(c) /\ ~DeleteLoad(c) /\ ~DeleteMain(c)
  <2>1. StreamOver(c) => seen'.unclean
    BY Marks DEF Marked
  <2>2. RemoveForced(c) => seen'.forced
    BY DEF RemoveForced, Typed, Past
  <2> QED
    BY <1>1, <2>1, <2>2, NotDeleting DEF Standing
<1>3. StreamFails(c) => file' = req[c].rev[1]
  BY Marks DEF Marked, Standing
<1>4. SomeAcked' => SomeAcked \/ (Persist(c) /\ Is(c, {"put"})) \/ PutSame(c)
  <2>1. Is(c, {"put"}) /\ req'[c].res = "ok" => Persist(c) \/ PutSame(c) \/ req[c].res = "ok"
    BY <1>0, Arrivals DEF Is
  <2> QED
    BY <1>0, <2>1 DEF SomeAcked, Acked, Is
<1>5. file # None => file' # None \/ (StreamFails(c) /\ req[c].rev[1] = None)
  <2>1. Rename(c) \/ StreamCopy(c) => file' # None
    BY <1>0, Distinct DEF Rename, StreamCopy, At, Sourced, Typed, Past
  <2>2. StreamCreate(c) => file' # None
    BY Distinct DEF StreamCreate
  <2> QED
    BY <1>2, <1>3, <2>1, <2>2, Effects DEF disk, Persist, StreamPersist
<1>6. PutSame(c) => file # None
  BY <1>1 DEF PutSame, Stands, Loads, NotExist
<1>7. (cache # NoEntry \/ hkmd # NoEntry \/ SomeAcked => file # None)'
  <2>1. CASE StreamFails(c) /\ req[c].rev[1] = None
    <3>1. req[c].pc \in {"copy", "persiststream"} /\ cache' \in {cache, NoEntry} /\ hkmd' = hkmd
      BY <2>1 DEF StreamFails, At, UncacheDel
    <3>2. cache = NoEntry /\ hkmd = NoEntry /\ ~SomeAcked
      BY <1>1, <2>1, <3>1 DEF Stands, Reverts
    <3>3. ~Persist(c) /\ ~PutSame(c)
      BY <3>1 DEF Persist, PutSame, At
    <3> QED
      BY <1>4, <3>1, <3>2, <3>3
  <2>2. CASE ~(StreamFails(c) /\ req[c].rev[1] = None)
    <3>1. Store(c) => file # None
      BY <1>1 DEF Store, Stands, At
    <3>2. Persist(c) \/ StreamPersist(c) => file # None
      BY DEF Persist, StreamPersist, At, Kept, Writer, Writing
    <3>3. (cache' # NoEntry \/ hkmd' # NoEntry \/ SomeAcked') => file # None
      BY <1>1, <1>4, <1>6, <3>1, <3>2, Effects DEF Stands
    <3> QED
      BY <1>5, <2>2, <3>3
  <2> QED
    BY <2>1, <2>2
<1>8. ASSUME NEW d \in Clients, req'[d].pc \in {"store", "recache"} PROVE file' # None
  <2>1. CASE d # c
    <3>1. req[d].pc \in {"store", "recache"} /\ held[d][Obj] # "none"
      BY <1>0, <1>8, <2>1 DEF Locks, Holds, ModeAt, ReadPCs, WritePCs
    <3> QED
      BY <1>1, <2>1, <3>1, Rely DEF disk, Stands, Standing
  <2>2. CASE d = c
    <3>1. HasMD(c) \/ Transmits(c)
      BY <1>0, <1>8, <2>2, Arrivals
    <3>2. Loads /\ file' = file
      BY <3>1 DEF HasMD, Transmits, Load, Transmit, disk
    <3> QED
      BY <1>1, <3>2 DEF Loads, NotExist, Stands
  <2> QED
    BY <2>1, <2>2
<1>9. ASSUME NEW d \in Clients, req'[d].pc \in {"copy", "persiststream"}, req'[d].rev[1] = None
      PROVE  cache' = NoEntry /\ hkmd' = NoEntry /\ xattr' = None /\ ~SomeAcked'
  <2>1. CASE d # c
    <3>1. req[d].pc \in {"copy", "persiststream"} /\ req[d].rev[1] = None
      BY <1>0, <1>9, <2>1
    <3>2. held[d][Obj] = "write"
      BY <3>1 DEF Locks, Holds, ModeAt, ReadPCs, WritePCs
    <3>3. cache = NoEntry /\ hkmd = NoEntry /\ xattr = None /\ ~SomeAcked
      BY <1>1, <3>1 DEF Stands, Reverts
    <3>4. ~Persist(c)
      <4>1. held[c][Obj] # "write"
        BY <2>1, <3>2, Promises, ObjAssumption DEF Locks, Exclusion
      <4> QED
        BY <1>0, <4>1 DEF Persist, At, Holds, ModeAt, ReadPCs, WritePCs
    <3>5. ~PutSame(c)
      BY <3>3 DEF PutSame, Loads, NotExist, LmetaNotFound
    <3>6. xattr' = xattr /\ cache' \in {cache, NoEntry} /\ hkmd' = hkmd
      BY <2>1, <3>2, Rely, Effects DEF disk
    <3> QED
      BY <1>4, <3>3, <3>4, <3>5, <3>6
  <2>2. CASE d = c /\ Creates(c)
    <3>1. /\ req[c].pc = "stream" /\ req'[c].rev = IF req[c].vch THEN disk ELSE NoFile
          /\ xattr' = None /\ cache' = cache /\ hkmd' = hkmd
      BY <2>2 DEF Creates, StreamCreate, Goes, At
    <3>2. Is(c, Gets)
      BY <1>0, <3>1 DEF Holds, KindAt, Is
    <3>3. file = None \/ req[c].vch
      BY <1>0, <3>1, <3>2 DEF Vacant
    <3>4. file = None
      BY <1>9, <2>2, <3>1, <3>3, SMTT(30) DEF disk
    <3>5. cache = NoEntry /\ hkmd = NoEntry /\ ~SomeAcked
      BY <1>1, <3>4 DEF Stands
    <3>6. ~Persist(c) /\ ~PutSame(c)
      BY <3>1 DEF Persist, PutSame, At
    <3> QED
      BY <1>4, <3>1, <3>5, <3>6
  <2>3. CASE d = c /\ Copies(c)
    <3>1. /\ req[c].pc = "copy" /\ req'[c].rev = req[c].rev
          /\ xattr' = xattr /\ cache' = cache /\ hkmd' = hkmd
      BY <2>3 DEF Copies, StreamCopy, Goes, Moves, At
    <3>2. cache = NoEntry /\ hkmd = NoEntry /\ xattr = None /\ ~SomeAcked
      BY <1>1, <1>9, <2>3, <3>1 DEF Stands, Reverts
    <3>3. ~Persist(c) /\ ~PutSame(c)
      BY <3>1 DEF Persist, PutSame, At
    <3> QED
      BY <1>4, <3>1, <3>2, <3>3
  <2>4. CASE d = c
    <3>1. Creates(c) \/ Copies(c)
      BY <1>0, <1>2, <1>9, <2>4, Arrivals DEF Overwrites
    <3> QED
      BY <2>2, <2>3, <2>4, <3>1
  <2> QED
    BY <2>1, <2>4
<1>10. \A d \in Clients : Reverts(d)'
  BY <1>9 DEF Reverts
<1> QED
  BY <1>7, <1>8, <1>10 DEF Stands

\* requests, the housekeeper and a crash
LEMMA KeptStep ==
    ASSUME Typed, Locks, Vacancy, Sources, Kept, [ObjNext]_allVars
    PROVE  Kept'
<1>1. ASSUME NEW c \in Clients, Step(c) PROVE Kept'
  <2>1. NoDeletes' => NoDeletes
    BY <1>1, HoldsStep DEF NoDeletes, Is, Alone
  <2>2. Writer' => file' # None
    BY <1>1, FirmStep DEF Kept
  <2>3. NoDeletes' /\ (Accepting \/ seen.torn \/ seen.unclean \/ \E d \in Clients : Written(d))' => remote' # None
    BY <1>1, <2>1, BackedStep
  <2>4. Standing' => Stands'
    BY <1>1, StandsStep
  <2> QED
    BY <2>2, <2>3, <2>4 DEF Kept
<1>2. CASE Crash
  <2>1. ASSUME NEW c \in Clients
        PROVE  /\ req'[c].kind = req[c].kind /\ req'[c].pc \in {"start", "done"}
               /\ req'[c].res = "ok" => req[c].res = "ok"
    BY <1>2, CrashLocks
  <2>2. /\ file' = file /\ remote' = remote /\ cache' = NoEntry /\ hkmd' = NoEntry
        /\ seen'.accepted = seen.accepted /\ seen'.forced = seen.forced /\ seen'.unclean = seen.unclean
        /\ seen'.torn => seen.torn \/ \E c \in Clients : Written(c)
    BY <1>2, CrashLocks DEF Marked, disk, Written
  <2>3. /\ NoDeletes' => NoDeletes
        /\ Accepting' => Accepting
        /\ SomeAcked' => SomeAcked
        /\ \A c \in Clients : ~Written(c)' /\ Reverts(c)'
        /\ ~Writer'
    BY <2>1, <2>2 DEF NoDeletes, Accepting, SomeAcked, Acked, Is, At, Reverts, Written, Writer, Writing
  <2>4. NoDeletes' /\ (Accepting \/ seen.torn \/ seen.unclean \/ \E c \in Clients : Written(c))' => remote' # None
    BY <2>2, <2>3 DEF Kept
  <2>5. Standing' => Stands'
    BY <2>1, <2>2, <2>3 DEF Kept, Standing, Stands
  <2> QED
    BY <2>3, <2>4, <2>5 DEF Kept
<1>3. CASE HkRange \/ HkEvict \/ UNCHANGED allVars
  <2>1. UNCHANGED <<file, remote, seen, req, call>>
    BY <1>3 DEF HkRange, HkEvict, disk, allVars, objVars, vars
  <2>2. /\ NoDeletes' <=> NoDeletes
        /\ Accepting' <=> Accepting
        /\ SomeAcked' <=> SomeAcked
        /\ Writer' <=> Writer
        /\ (\E c \in Clients : Written(c))' <=> \E c \in Clients : Written(c)
    BY <2>1 DEF NoDeletes, Accepting, SomeAcked, Acked, Is, At, Written, Writer
  <2>3. ASSUME Standing, Stands PROVE Stands'
    <3>1. /\ cache' # NoEntry => cache # NoEntry
          /\ hkmd' # NoEntry => cache # NoEntry \/ hkmd # NoEntry
          /\ hkmd = NoEntry => xattr' = xattr
      BY <1>3 DEF HkRange, HkEvict, UncacheDel, disk, allVars, objVars
    <3>2. ASSUME NEW c \in Clients PROVE Reverts(c)'
      BY <2>1, <2>2, <2>3, <3>1 DEF Stands, Reverts
    <3> QED
      BY <2>1, <2>2, <2>3, <3>1, <3>2 DEF Stands
  <2> QED
    BY <2>1, <2>2, <2>3 DEF Kept, Standing
<1> QED
  BY <1>1, <1>2, <1>3 DEF ObjNext, Requests

\* ... from the beginning on
LEMMA KeptAlways == ObjSpec => [](Typed /\ Locks /\ Vacancy /\ Sources /\ Kept)
<1>1. ObjInit => Kept
  <2> SUFFICES ASSUME ObjInit PROVE Kept
    OBVIOUS
  <2>1. ASSUME NEW c \in Clients PROVE req[c].pc = "start" /\ req[c].res = "none"
    BY DEF ObjInit
  <2>2. ~Accepting
    <3>1. seen.accepted = {Old}
      BY DEF ObjInit
    <3> QED
      BY <3>1, ObjAssumption DEF Accepting
  <2>3. ~SomeAcked /\ ~Writer /\ \A c \in Clients : ~Written(c) /\ Reverts(c)
    BY <2>1 DEF SomeAcked, Acked, Writer, Writing, Written, At, Reverts
  <2>4. ~seen.torn /\ ~seen.unclean /\ hkmd = NoEntry /\ (cache # NoEntry => file # None)
    BY DEF ObjInit, NoEntry
  <2> QED
    BY <2>1, <2>2, <2>3, <2>4 DEF Kept, Stands
<1>2. Typed /\ Locks /\ Vacancy /\ Sources /\ Kept /\ [ObjNext]_allVars => Kept'
  BY KeptStep
<1> QED
  BY <1>1, <1>2, SourcesAlways, PTL DEF ObjSpec

-----------------------------------------------------------------------------
(* Cached metadata, content and the disk, with write_policy.md = "immediate" *)

\* nothing cached waits to be flushed
Clean ==
    /\ cache.dirty = FALSE /\ hkmd.dirty = FALSE
    /\ \A c \in Clients : req[c].pc \in {"store", "recache"} => req[c].md.dirty = FALSE

\* what LoadedMD and Persisted make is clean
LEMMA CleanEntries ==
    ASSUME Typed, Clean, Policy = "immediate"
    PROVE  /\ LoadedMD.dirty = FALSE /\ NoEntry.dirty = FALSE
           /\ \A v : Persisted(v) => cache' = Entry(v, FALSE) /\ xattr' = v /\ cache'.dirty = FALSE
<1>1. \A v : Entry(v, FALSE).dirty = FALSE /\ NoEntry.dirty = FALSE
  BY DEF Entry, NoEntry
<1>2. LoadedMD.dirty = FALSE
  BY <1>1 DEF Clean, LoadedMD
<1>3. ASSUME NEW v, Persisted(v) PROVE cache' = Entry(v, FALSE) /\ xattr' = v /\ cache'.dirty = FALSE
  BY <1>1, <1>3 DEF Persisted, Recache
<1> QED
  BY <1>1, <1>2, <1>3

\* with every PersistMain writing the attributes, no step leaves a dirty entry
LEMMA CleanStep ==
    ASSUME Typed, Locks, Clean, Policy = "immediate", [ObjNext]_allVars
    PROVE  Clean'
<1>1. ASSUME NEW c \in Clients, Step(c) PROVE Clean'
  <2>0. Alone(c) /\ (Rests(c) \/ Turn(c))
    BY <1>1, HoldsStep
  <2>1. hkmd'.dirty = FALSE
    BY <1>1, Effects DEF Clean
  <2>2. cache'.dirty = FALSE
    BY <1>1, Effects, CleanEntries DEF Clean, Store, Recache, Persist, StreamPersist, At
  <2>3. ASSUME NEW d \in Clients, req'[d].pc \in {"store", "recache"} PROVE req'[d].md.dirty = FALSE
    <3>1. CASE d # c
      BY <2>0, <2>3, <3>1 DEF Alone, Clean
    <3>2. CASE d = c
      <4>1. HasMD(c) \/ Transmits(c)
        BY <2>0, <2>3, <3>2 DEF Rests, Dull, Goes, Moves, Turn, Waits, PutStarts, PutSent, PutRetries,
           TriesToWrite, HasLock, HasMD, FindsNone, WillFetch, Stores, WillOpen, Fetches, Outdated, Upgrades,
           Fetched, Renames, Downgrades, Creates, Overwrites, Copies, Opens, Transmits
      <4> QED
        BY <3>2, <4>1, CleanEntries DEF HasMD, Transmits, Goes
    <3> QED
      BY <3>1, <3>2
  <2> QED
    BY <2>1, <2>2, <2>3 DEF Clean
<1>2. CASE Crash
  BY <1>2, CrashLocks, CleanEntries DEF Clean, Crash
<1>3. CASE HkRange \/ HkEvict \/ UNCHANGED allVars
  BY <1>3, CleanEntries DEF Clean, HkRange, HkEvict, UncacheDel, allVars, objVars
<1> QED
  BY <1>1, <1>2, <1>3 DEF ObjNext, Requests

\* version v is what the file holds, with its attributes; or the file was removed
\* under a reader
Fresh(v) == (v = file /\ xattr = file) \/ (file = None /\ seen.forced)

DiskOK ==
    /\ xattr # None => xattr = file /\ xattr \in seen.accepted
    /\ file = None \/ xattr = file \/ Writer \/ seen.torn
CacheOK == ~Writer /\ cache # NoEntry => Fresh(cache.ver)

\* a reader's metadata is that of the file, and what it sends belongs to it
ReadOK(c) ==
    /\ req[c].pc \in {"store", "loaded", "open", "recache"} /\ req[c].md # NoEntry => Fresh(req[c].md.ver)
    /\ req[c].pc \in {"store", "open", "recache"} \/ (At(c, "loaded") /\ Is(c, Gets)) => req[c].md # NoEntry
    /\ At(c, "tx") => req[c].rd = req[c].md.ver /\ req[c].rd \in seen.accepted

\* a writer replaces a complete file, has written what it read, and can put back what
\* it replaced together with the cached entry
WriteOK(c) ==
    /\ Is(c, Gets) /\ req[c].pc \in {"cold", "fetch", "stream"} => file = None \/ xattr = file
    /\ req[c].pc \in {"persist", "persiststream"} => file = req[c].rd
    /\ req[c].pc \in {"copy", "persiststream"} /\ req[c].rev[2] # None
          => req[c].rev[2] = req[c].rev[1] /\ req[c].rev[2] \in seen.accepted
    /\ req[c].pc \in {"copy", "persiststream"} => req[c].rev[1] = None \/ req[c].rev[2] = req[c].rev[1]
    /\ At(c, "copy") => xattr = None
    /\ At(c, "copy") /\ cache # NoEntry => \/ cache.ver = req[c].rev[1] /\ req[c].rev[2] = req[c].rev[1]
                                           \/ req[c].rev[1] = None /\ seen.forced

Coherent ==
    /\ Clean /\ DiskOK /\ CacheOK
    /\ \A c \in Clients : ReadOK(c) /\ WriteOK(c)

\* all this as long as coldStream could move the previous version aside and clean up
Coherence == Clean /\ (~seen.unclean => Coherent)

\* whoever has the lock and does not write, nobody else writes
LEMMA AloneWrites ==
    ASSUME Locks, NEW c \in Clients, held[c][Obj] # "none", req[c].pc \notin Writing
    PROVE  ~Writer
<1> SUFFICES ASSUME NEW d \in Clients, req[d].pc \in Writing PROVE FALSE
  BY DEF Writer
<1>1. held[d][Obj] = "write" /\ d # c
  BY DEF Locks, Holds, ModeAt, ReadPCs, WritePCs, Writing
<1> QED
  BY <1>1, Promises, ObjAssumption DEF Locks, Exclusion

\* what Load returns under a read lock is fresh
LEMMA LoadFresh ==
    ASSUME Typed, Locks, Clean, DiskOK, CacheOK, NEW c \in Clients, held[c][Obj] = "read"
    PROVE  /\ ~Writer
           /\ cache # NoEntry => Fresh(cache.ver)
           /\ Loads => LoadedMD # NoEntry /\ Fresh(LoadedMD.ver)
<1>1. ~Writer
  <2>1. req[c].pc \notin Writing
    BY DEF Locks, Holds, ModeAt, ReadPCs, WritePCs, Writing
  <2> QED
    BY <2>1, AloneWrites
<1>2. cache # NoEntry => Fresh(cache.ver)
  BY <1>1 DEF CacheOK
<1>3. ASSUME Loads, cache = NoEntry PROVE LoadedMD # NoEntry /\ Fresh(LoadedMD.ver)
  <2>1. LoadedMD = Entry(xattr, FALSE) /\ xattr # None /\ xattr = file
    BY <1>3 DEF Loads, NotExist, LmetaNotFound, LoadedMD, DiskOK
  <2>2. LoadedMD.ver = xattr /\ NoEntry.ver = None
    BY <2>1 DEF Entry, NoEntry
  <2> QED
    BY <2>1, <2>2 DEF Fresh
<1> QED
  BY <1>1, <1>2, <1>3 DEF LoadedMD


\* the other requests: their locks protect what they rely on
LEMMA OthersCohere ==
    ASSUME Typed, Locks, Coherent, NEW c \in Clients, Step(c), NEW d \in Clients, d # c
    PROVE  ReadOK(d)' /\ WriteOK(d)'
<1>0. Holds(d) /\ ReadOK(d) /\ WriteOK(d)
  BY DEF Locks, Coherent
<1>1. req'[d] = req[d]
  BY HoldsStep DEF Alone
<1>2. seen.forced => seen'.forced
  BY SeenGrows DEF Typed, Past
<1>3. \A v \in seen.accepted : v \in seen'.accepted
  BY SeenGrows
<1>4. ReadOK(d)'
  <2>1. req[d].pc \in {"store", "loaded", "open", "recache"} => held[d][Obj] # "none"
    BY <1>0 DEF Holds, ModeAt, ReadPCs
  <2>2. ASSUME NEW v, held[d][Obj] # "none", Fresh(v) PROVE Fresh(v)'
    BY <1>2, <2>2, Rely DEF Fresh, disk
  <2> QED
    BY <1>0, <1>1, <1>3, <2>1, <2>2 DEF ReadOK, At, Is
<1>5. WriteOK(d)'
  <2>1. Is(d, Gets) /\ req[d].pc \in {"cold", "fetch", "stream"} => held[d][Obj] # "none"
    BY <1>0 DEF Holds, ModeAt, ReadPCs, WritePCs, Is, Gets, Prefetches
  <2>2. req[d].pc \in Writing => held[d][Obj] = "write"
    BY <1>0 DEF Holds, ModeAt, ReadPCs, WritePCs, Writing
  <2>3. held[d][Obj] # "none" /\ (file = None \/ xattr = file) => file' = None \/ xattr' = file'
    BY Rely DEF disk
  <2>4. held[d][Obj] = "write" => file' = file /\ xattr' = xattr /\ (cache' = cache \/ cache' = NoEntry)
    BY Rely DEF disk
  <2>5. Is(d, Gets)' <=> Is(d, Gets)
    BY <1>1 DEF Is
  <2>6. (Is(d, Gets) /\ req[d].pc \in {"cold", "fetch", "stream"} => file = None \/ xattr = file)'
    BY <1>0, <1>1, <2>1, <2>3, <2>5 DEF WriteOK
  <2>7. (req[d].pc \in {"persist", "persiststream"} => file = req[d].rd)'
    BY <1>0, <1>1, <2>2, <2>4 DEF WriteOK, Writing
  <2>8. (req[d].pc \in {"copy", "persiststream"} /\ req[d].rev[2] # None
          => req[d].rev[2] = req[d].rev[1] /\ req[d].rev[2] \in seen.accepted)'
    BY <1>0, <1>1, <1>3 DEF WriteOK
  <2>11. (req[d].pc \in {"copy", "persiststream"} => req[d].rev[1] = None \/ req[d].rev[2] = req[d].rev[1])'
    BY <1>0, <1>1 DEF WriteOK
  <2>9. (At(d, "copy") /\ cache # NoEntry => \/ cache.ver = req[d].rev[1] /\ req[d].rev[2] = req[d].rev[1]
                                             \/ req[d].rev[1] = None /\ seen.forced)'
    BY <1>0, <1>1, <1>2, <2>2, <2>4 DEF WriteOK, Writing, At
  <2>10. (At(d, "copy") => xattr = None)'
    BY <1>0, <1>1, <2>2, <2>4 DEF WriteOK, Writing, At
  <2> QED
    BY <2>6, <2>7, <2>8, <2>9, <2>10, <2>11 DEF WriteOK
<1> QED
  BY <1>4, <1>5

\* a coldStream whose _cleanup worked has put back what was there
LEMMA CleanedUp ==
    ASSUME Typed, NEW c \in Clients, ~seen'.unclean
    PROVE  ~StreamOver(c) /\ (StreamFails(c) => file' = req[c].rev[1] /\ xattr' = req[c].rev[2])
<1>1. ~StreamOver(c)
  BY Marks DEF Marked
<1>2. StreamFails(c) => file' = req[c].rev[1] /\ xattr' = req[c].rev[2]
  BY Marks DEF Marked
<1> QED
  BY <1>1, <1>2

\* the steps of a request that is writing the object
LEMMA WriterSteps ==
    ASSUME NEW c \in Clients, Step(c), req[c].pc \in Writing
    PROVE  Persist(c) \/ FiniFails(c) \/ StreamCopy(c) \/ StreamPersist(c) \/ StreamFails(c)
<1> USE DEF At, Writing
<1>1. ~Start(c) /\ ~PutSame(c) /\ ~Locked(c) /\ ~Busy(c) /\ ~Load(c) /\ ~Store(c) /\ ~Loaded(c) /\ ~CheckSame(c)
  BY DEF Start, PutSame, Locked, Busy, Load, Store, Loaded, CheckSame
<1>2. ~CheckDiffers(c) /\ ~CheckGone(c) /\ ~CheckFails(c) /\ ~RemoveForced(c) /\ ~ColdLock(c) /\ ~ColdRefused(c)
  BY DEF CheckDiffers, CheckGone, CheckFails, RemoveForced, ColdLock, ColdRefused
<1>3. ~Uplock(c) /\ ~Fetch(c) /\ ~FetchFails(c) /\ ~PutWriteFails(c) /\ ~PutRemote(c) /\ ~PutRemoteFails(c)
  BY DEF Uplock, Fetch, FetchFails, PutWriteFails, PutRemote, PutRemoteFails
<1>4. ~Rename(c) /\ ~Cleanup(c) /\ ~StreamCreate(c) /\ ~StreamOver(c) /\ ~Open(c) /\ ~Transmit(c) /\ ~TransmitFails(c)
  BY DEF Rename, Cleanup, StreamCreate, StreamOver, Open, Transmit, TransmitFails
<1>5. ~DeleteLoad(c) /\ ~DeleteRemote(c) /\ ~DeleteMain(c) /\ ~DeleteMainFails(c) /\ ~DeleteRetry(c)
  BY DEF DeleteLoad, DeleteRemote, DeleteMain, DeleteMainFails, DeleteRetry
<1> QED
  BY <1>1, <1>2, <1>3, <1>4, <1>5 DEF Step

\* where coldStream goes once the previous version is moved aside
LEMMA StreamGoes ==
    ASSUME Typed, NEW c \in Clients, StreamCreate(c)
    PROVE  req'[c].pc = "copy"
<1> DEFINE x == IF req[c].vch THEN disk ELSE NoFile
<1>1. x \in (Versions \cup {None, Partial}) \X (Versions \cup {None})
  BY DEF Typed, disk, NoFile
<1>2. Set(c, [req[c] EXCEPT !.pc = "copy", !.rev = x])
  BY DEF StreamCreate
<1> HIDE DEF x
<1>3. Goes(c, "copy", req[c].md, req[c].rd, x, req[c].vch, req[c].res)
  BY <1>1, <1>2, RevIs DEF PCs
<1> QED
  BY <1>3 DEF Goes

\* the disk after a step: attributes are those of the file, and accepted; a file without
\* them is being written, or its write was broken off
LEMMA DiskStep ==
    ASSUME Typed, Locks, Sources, Coherent, Policy = "immediate", NEW c \in Clients, Step(c), ~seen'.unclean
    PROVE  DiskOK'
<1>0. /\ Sourced(c) /\ WriteOK(c) /\ \A v \in seen.accepted : v \in seen'.accepted
      /\ DiskOK /\ Alone(c) /\ (Rests(c) \/ Turn(c))
  BY SeenGrows, HoldsStep DEF Sources, Coherent
<1>1. CASE Persist(c) \/ StreamPersist(c)
  <2>1. req[c].pc \in {"persist", "persiststream"} /\ Persisted(req[c].rd) /\ file' = file
    BY <1>1 DEF Persist, StreamPersist, At
  <2>2. xattr' = req[c].rd /\ file = req[c].rd /\ req[c].rd \in seen.accepted
    BY <1>0, <2>1, CleanEntries DEF WriteOK, Sourced, Coherent
  <2> QED
    BY <1>0, <2>1, <2>2 DEF DiskOK
<1>2. CASE StreamFails(c)
  <2>1. req[c].pc \in {"copy", "persiststream"} /\ file' = req[c].rev[1] /\ xattr' = req[c].rev[2]
    BY <1>2, CleanedUp DEF StreamFails, At
  <2> QED
    BY <1>0, <2>1 DEF WriteOK, DiskOK
<1>3. CASE Rename(c) \/ StreamCreate(c)
  <2>1. xattr' = None /\ req'[c].pc \in Writing
    <3>1. Rename(c) => req'[c].pc = "persist" /\ xattr' = None
      BY ToIs DEF Rename, To, PCs, Goes
    <3>2. StreamCreate(c) => req'[c].pc = "copy" /\ xattr' = None
      BY <1>0, StreamGoes DEF StreamCreate
    <3> QED
      BY <1>3, <3>1, <3>2 DEF Writing
  <2> QED
    BY <2>1 DEF DiskOK, Writer
<1>4. CASE StreamCopy(c)
  <2>1. xattr' = None /\ req'[c].pc = "persiststream"
    BY <1>0, <1>4, ToIs DEF StreamCopy, To, PCs, Goes, WriteOK, At
  <2> QED
    BY <2>1 DEF DiskOK, Writer, Writing
<1>5. CASE RemoveForced(c) \/ (DeleteLoad(c) /\ file' = None) \/ DeleteMain(c)
  <2>1. file' = None /\ xattr' = None
    BY <1>0, <1>5 DEF RemoveForced, DeleteLoad, DeleteMain, disk, DiskOK
  <2> QED
    BY <2>1 DEF DiskOK
<1>6. CASE UNCHANGED disk /\ ~Persist(c) /\ ~StreamPersist(c) /\ ~StreamFails(c) /\ ~Rename(c) /\ ~StreamCreate(c)
           /\ ~StreamCopy(c)
  <2>1. Writer => Writer' \/ FiniFails(c)
    <3>1. ASSUME NEW d \in Clients, req[d].pc \in Writing PROVE Writer' \/ FiniFails(c)
      <4>1. CASE d # c
        BY <1>0, <3>1, <4>1 DEF Writer, Alone
      <4>2. CASE d = c
        BY <1>6, <3>1, <4>2, WriterSteps
      <4> QED
        BY <4>1, <4>2
    <3> QED
      BY <3>1 DEF Writer
  <2>2. seen.torn => seen'.torn
    <3>1. RemoveForced(c) \/ PutRemote(c) \/ PutRemoteFails(c) => seen'.torn = seen.torn
      BY DEF RemoveForced, PutRemote, PutRemoteFails, Typed, Past
    <3>2. FiniFails(c) /\ seen.torn => seen'.torn
      BY Marks DEF Marked
    <3> QED
      BY <1>6, <3>1, <3>2, CleanedUp, Effects
  <2>3. FiniFails(c) /\ At(c, "persist") => seen'.torn
    BY Marks DEF Marked
  <2>4. CASE FiniFails(c) /\ ~At(c, "persist")
    <3>1. req[c].pc = "rename"
      BY <2>4 DEF FiniFails, At
    <3>2. Writer => Writer'
      BY <1>0, <3>1 DEF Writer, Writing, Alone
    <3> QED
      BY <1>0, <1>6, <2>2, <3>2 DEF DiskOK, disk
  <2>5. CASE ~FiniFails(c) \/ At(c, "persist")
    BY <1>0, <1>6, <2>1, <2>2, <2>3, <2>5 DEF DiskOK, disk
  <2> QED
    BY <2>4, <2>5
<1>7. DeleteLoad(c) => UNCHANGED disk \/ file' = None
  BY DEF DeleteLoad
<1> QED
  BY <1>1, <1>2, <1>3, <1>4, <1>5, <1>6, <1>7, CleanedUp, Effects

\* the cache after a step: what is stored is fresh, and what changes the file empties
\* the cache, or keeps the object locked until it stores the new metadata
LEMMA CacheStep ==
    ASSUME Typed, Locks, Coherent, Policy = "immediate", NEW c \in Clients, Step(c), ~seen'.unclean
    PROVE  CacheOK'
<1> SUFFICES ASSUME ~Writer', cache' # NoEntry PROVE Fresh(cache.ver)'
  BY DEF CacheOK
<1>0. /\ Holds(c) /\ ReadOK(c) /\ WriteOK(c) /\ DiskOK /\ CacheOK /\ Clean
      /\ Alone(c) /\ (Rests(c) \/ Turn(c)) /\ req'[c].pc \notin Writing
  BY HoldsStep DEF Coherent, Locks, Writer
<1>1. seen.forced => seen'.forced
  BY SeenGrows DEF Typed, Past
<1>2. ~Writer \/ req[c].pc \in Writing
  BY <1>0 DEF Writer, Alone
<1>3. CASE Store(c)
  <2>1. cache' = req[c].md /\ req[c].pc \in {"store", "recache"} /\ UNCHANGED disk
    BY <1>3 DEF Store, Recache, At
  <2>2. Fresh(cache'.ver)
    BY <1>0, <2>1 DEF ReadOK
  <2> QED
    BY <1>1, <2>1, <2>2 DEF Fresh, disk
<1>4. CASE Persist(c) \/ StreamPersist(c)
  <2>1. req[c].pc \in {"persist", "persiststream"} /\ Persisted(req[c].rd) /\ file' = file
    BY <1>4 DEF Persist, StreamPersist, At
  <2>2. xattr' = req[c].rd /\ file' = req[c].rd /\ cache' = Entry(req[c].rd, FALSE)
    BY <1>0, <2>1, CleanEntries DEF WriteOK
  <2>3. cache'.ver = req[c].rd
    BY <2>2 DEF Entry
  <2> QED
    BY <2>2, <2>3 DEF Fresh
<1>5. CASE StreamFails(c)
  <2>1. req[c].pc = "copy" /\ file' = req[c].rev[1] /\ xattr' = req[c].rev[2] /\ cache' = cache
    BY <1>5, CleanedUp DEF StreamFails, At, UncacheDel
  <2>2. \/ cache.ver = req[c].rev[1] /\ req[c].rev[2] = req[c].rev[1]
        \/ req[c].rev[1] = None /\ seen.forced
    BY <1>0, <2>1 DEF WriteOK, At
  <2> QED
    BY <1>1, <2>1, <2>2 DEF Fresh
<1>6. CASE RemoveForced(c)
  BY <1>6 DEF RemoveForced, Fresh, Typed, Past
<1>7. CASE UNCHANGED disk /\ cache' = cache
  <2>1. CASE ~Writer
    BY <1>0, <1>1, <1>7, <2>1 DEF CacheOK, Fresh, disk
  <2>2. CASE req[c].pc \in Writing
    <3>1. Persist(c) \/ FiniFails(c) \/ StreamCopy(c) \/ StreamPersist(c) \/ StreamFails(c)
      BY <2>2, WriterSteps
    <3>2. ~FiniFails(c) /\ ~StreamCopy(c)
      <4>1. ~FiniFails(c)
        BY <1>7, <2>2 DEF FiniFails, Writing, At, UncacheDel
      <4>2. ~StreamCopy(c)
        BY <1>0 DEF StreamCopy, Writing, Typed, Request, To, Set
      <4> QED
        BY <4>1, <4>2
    <3> QED
      BY <1>4, <1>5, <3>1, <3>2
  <2> QED
    BY <1>2, <2>1, <2>2
<1>8. DeleteLoad(c) \/ DeleteMain(c) => UNCHANGED disk
  BY DEF DeleteLoad, DeleteMain, LmetaNotFound, UncacheDel
<1>9. ~Rename(c) /\ ~StreamCreate(c) /\ ~StreamCopy(c)
  <2>1. ~Rename(c)
    BY <1>0 DEF Rename, Writing, Typed, Request, To, Set
  <2>2. ~StreamCreate(c)
    BY <1>0, StreamGoes DEF Writing
  <2>3. ~StreamCopy(c)
    BY <1>0 DEF StreamCopy, Writing, Typed, Request, To, Set
  <2> QED
    BY <2>1, <2>2, <2>3
<1>10. CASE ~Store(c) /\ ~Persist(c) /\ ~StreamPersist(c) /\ ~StreamFails(c) /\ ~RemoveForced(c)
  <2>1. cache' = cache
    BY <1>10, Effects
  <2>2. UNCHANGED disk
    BY <1>8, <1>9, <1>10, CleanedUp, Effects
  <2> QED
    BY <1>7, <2>1, <2>2
<1> QED
  BY <1>3, <1>4, <1>5, <1>6, <1>10

\* the request that moves: what it relies on from now on, it has made or found so
LEMMA OwnCoheres ==
    ASSUME Typed, Locks, Vacancy, Sources, Coherent, Policy = "immediate", NEW c \in Clients, Step(c),
           ~seen'.unclean
    PROVE  ReadOK(c)' /\ WriteOK(c)'
<1> DEFINE G == ReadOK(c)' /\ WriteOK(c)'
<1> SUFFICES G
  OBVIOUS
<1>0. /\ Holds(c) /\ ReadOK(c) /\ WriteOK(c) /\ DiskOK /\ CacheOK /\ Clean /\ Sourced(c) /\ Vacant(c)
      /\ req'[c].kind = req[c].kind /\ (Rests(c) \/ Turn(c))
  BY HoldsStep DEF Coherent, Locks, Sources, Vacancy
<1>1. req'[c].pc \in Dull \cup {"lock", "putremote", "retry503", "rename"} => G
  BY DEF ReadOK, WriteOK, At, Dull
<1>3. CASE Rests(c)
  BY <1>1, <1>3 DEF Rests
<1>4. CASE Waits(c) \/ PutSent(c) \/ PutRetries(c)
  <2>1. req'[c].pc \in {"lock", "retry503"} /\ req'[c].rd = req[c].rd /\ req'[c].rev = req[c].rev
    BY <1>4 DEF Waits, PutSent, PutRetries, Goes, Moves
  <2> QED
    BY <1>1, <2>1
<1>5. CASE PutStarts(c) \/ TriesToWrite(c)
  <2>1. req'[c].pc \in {"lock", "putremote"} /\ req'[c].rd \in {c, remote} /\ req'[c].rev = req[c].rev
    BY <1>5 DEF PutStarts, TriesToWrite, Goes
  <2> QED
    BY <1>1, <2>1
<1>6. CASE HasLock(c) \/ Fetches(c)
  <2>1. req'[c].pc \in {"rename", "fetch"} /\ req'[c].rd = req[c].rd /\ req'[c].rev = req[c].rev /\ ~Is(c, Gets)
    BY <1>6 DEF HasLock, Fetches, Goes, Moves, Is, Gets, Prefetches
  <2>2. ~Is(c, Gets)'
    BY <1>0, <2>1 DEF Is
  <2> QED
    BY <2>1, <2>2 DEF ReadOK, WriteOK, At
<1>7. CASE HasMD(c) \/ Transmits(c)
  <2>1. /\ Loads /\ req[c].pc \in {"load", "tx"} /\ UNCHANGED disk /\ seen' = seen
        /\ req'[c].pc \in {"store", "loaded", "recache"} /\ req'[c].md = LoadedMD
        /\ req'[c].rd = req[c].rd /\ req'[c].rev = req[c].rev
    BY <1>7 DEF HasMD, Transmits, Load, Transmit, Goes, At
  <2>2. held[c][Obj] = "read"
    BY <1>0, <2>1 DEF Holds, ModeAt, ReadPCs
  <2>3. LoadedMD # NoEntry /\ Fresh(LoadedMD.ver)
    BY <1>0, <2>1, <2>2, LoadFresh
  <2>4. req'[c].md # NoEntry /\ Fresh(req[c].md.ver)'
    BY <2>1, <2>3 DEF Fresh, disk
  <2> QED
    BY <1>0, <2>1, <2>4 DEF ReadOK, WriteOK, At
<1>8. CASE FindsNone(c)
  <2>1. file' = None /\ req'[c].pc = "cold" /\ req'[c].rd = req[c].rd /\ req'[c].rev = req[c].rev
    BY <1>8 DEF FindsNone, Load, NotExist, Goes, disk
  <2> QED
    BY <1>0, <2>1 DEF ReadOK, WriteOK, At
<1>9. CASE WillFetch(c)
  <2>1. /\ req'[c].pc = "loaded" /\ req'[c].md = NoEntry /\ ~Is(c, Gets)'
        /\ req'[c].rd = req[c].rd /\ req'[c].rev = req[c].rev
    BY <1>0, <1>9 DEF WillFetch, Goes, Is, Gets, Prefetches
  <2> QED
    BY <1>0, <2>1 DEF ReadOK, WriteOK, At
<1>10. CASE Stores(c) \/ WillOpen(c)
  <2>1. /\ req[c].pc = "store" \/ (At(c, "loaded") /\ Is(c, Gets))
        /\ req'[c].pc \in {"loaded", "open"} /\ req'[c].md = req[c].md
        /\ req'[c].rd = req[c].rd /\ req'[c].rev = req[c].rev /\ UNCHANGED disk /\ seen' = seen
    BY <1>10 DEF Stores, WillOpen, Store, Loaded, CheckSame, Goes, Moves, At
  <2>2. req[c].md # NoEntry /\ Fresh(req[c].md.ver)
    BY <1>0, <2>1 DEF ReadOK, At
  <2>3. req'[c].md # NoEntry /\ Fresh(req[c].md.ver)'
    BY <2>1, <2>2 DEF Fresh, disk
  <2> QED
    BY <1>0, <2>1, <2>3 DEF ReadOK, WriteOK, At
<1>11. CASE Outdated(c)
  <2>1. /\ At(c, "loaded") /\ Is(c, Gets) /\ UNCHANGED disk
        /\ req'[c].pc = "cold" /\ req'[c].rd = req[c].rd /\ req'[c].rev = req[c].rev
    BY <1>11 DEF Outdated, CheckDiffers, Goes
  <2>2. file = None \/ xattr = file
    BY <1>0, <2>1 DEF ReadOK, Fresh, At
  <2> QED
    BY <1>0, <2>1, <2>2 DEF ReadOK, WriteOK, At, disk
<1>12. CASE Upgrades(c) \/ Fetched(c)
  <2>1. /\ req[c].pc \in {"cold", "fetch"} /\ UNCHANGED disk
        /\ req'[c].pc \in {"fetch", "rename", "stream"} /\ req'[c].rd \in {req[c].rd, remote}
        /\ req'[c].rev = req[c].rev
    BY <1>12 DEF Upgrades, ColdLock, Fetched, Fetch, Goes, Moves, At
  <2>2. Is(c, Gets) => file' = None \/ xattr' = file'
    BY <1>0, <2>1 DEF WriteOK, disk
  <2> QED
    BY <1>0, <2>1, <2>2 DEF ReadOK, WriteOK, At, Is
<1>13. CASE Renames(c)
  <2>1. /\ file' = req[c].rd
        /\ req'[c].pc = "persist" /\ req'[c].rd = req[c].rd /\ req'[c].rev = req[c].rev
    BY <1>13 DEF Renames, Rename, Goes, Moves
  <2> QED
    BY <1>0, <2>1 DEF ReadOK, WriteOK, At
<1>14. CASE Downgrades(c)
  <2>1. /\ req[c].pc = "persist" /\ Persisted(req[c].rd) /\ file' = file
        /\ req'[c].pc = "open" /\ req'[c].md = cache' /\ req'[c].rd = req[c].rd /\ req'[c].rev = req[c].rev
    BY <1>14 DEF Downgrades, Persist, Goes, At
  <2>2. xattr' = req[c].rd /\ file' = req[c].rd /\ cache' = Entry(req[c].rd, FALSE)
    BY <1>0, <2>1, CleanEntries DEF WriteOK
  <2>3. cache'.ver = req[c].rd /\ NoEntry.ver = None
    BY <2>2 DEF Entry, NoEntry
  <2>4. req[c].rd # None
    BY <1>0, <2>1, Distinct DEF Sourced, Typed, Past
  <2> QED
    BY <1>0, <2>1, <2>2, <2>3, <2>4 DEF ReadOK, WriteOK, Fresh, At
<1>15. CASE Creates(c)
  <2>1. /\ req[c].pc = "stream" /\ xattr' = None /\ cache' = cache
        /\ seen'.accepted = seen.accepted /\ seen'.forced = seen.forced
        /\ req'[c].pc = "copy" /\ req'[c].rd = req[c].rd /\ req'[c].rev = IF req[c].vch THEN disk ELSE NoFile
    BY <1>15, Marks DEF Creates, StreamCreate, Goes, At, Marked
  <2>2. Is(c, Gets) /\ held[c][Obj] = "write"
    BY <1>0, <2>1 DEF Holds, KindAt, ModeAt, ReadPCs, WritePCs, Is
  <2>3. (file = None \/ xattr = file) /\ (file = None \/ req[c].vch)
    BY <1>0, <2>1, <2>2 DEF WriteOK, Vacant
  <2>4. \/ req'[c].rev[1] = file /\ req'[c].rev[2] = xattr
        \/ req'[c].rev[1] = None /\ req'[c].rev[2] = None /\ file = None
    BY <2>1, <2>3, SMTT(30) DEF disk, NoFile
  <2>6. req'[c].rev[2] # None => req'[c].rev[2] = req'[c].rev[1] /\ req'[c].rev[2] \in seen'.accepted
    BY <1>0, <2>1, <2>4 DEF DiskOK
  <2>7. cache # NoEntry => Fresh(cache.ver) /\ cache.ver # None
    <3>1. ~Writer
      BY <2>1, <2>2, AloneWrites DEF Writing
    <3>2. cache # NoEntry => cache.ver # None
      BY <1>0 DEF Clean, Typed, Entries, NoEntry, Entry
    <3> QED
      BY <1>0, <3>1, <3>2 DEF CacheOK
  <2>8. cache' # NoEntry => \/ cache'.ver = req'[c].rev[1] /\ req'[c].rev[2] = req'[c].rev[1]
                            \/ req'[c].rev[1] = None /\ seen'.forced
    BY <2>1, <2>4, <2>7 DEF Fresh
  <2>9. req'[c].rev[1] = None \/ req'[c].rev[2] = req'[c].rev[1]
    BY <2>3, <2>4
  <2> QED
    BY <2>1, <2>6, <2>8, <2>9 DEF ReadOK, WriteOK, At
<1>16. CASE Copies(c)
  <2>1. /\ req[c].pc = "copy" /\ file' = req[c].rd /\ seen' = seen
        /\ req'[c].pc = "persiststream" /\ req'[c].rd = req[c].rd /\ req'[c].rev = req[c].rev
    BY <1>16 DEF Copies, StreamCopy, Goes, Moves, At
  <2> QED
    BY <1>0, <2>1 DEF ReadOK, WriteOK, At
<1>17. CASE Opens(c)
  <2>1. /\ req[c].pc = "open" /\ file # None /\ seen' = seen
        /\ req'[c].pc = "tx" /\ req'[c].md = req[c].md /\ req'[c].rd = file /\ req'[c].rev = req[c].rev
    BY <1>17 DEF Opens, Open, Goes, At
  <2>2. file = req[c].md.ver /\ xattr = file
    BY <1>0, <2>1 DEF ReadOK, Fresh
  <2>3. file \in seen.accepted /\ file # Partial
    BY <1>0, <2>1, <2>2, Distinct DEF DiskOK, Typed
  <2> QED
    BY <1>0, <2>1, <2>2, <2>3 DEF ReadOK, WriteOK, At
<1>18. ~Overwrites(c)
  BY CleanedUp DEF Overwrites
<1> QED
  BY <1>0, <1>3, <1>4, <1>5, <1>6, <1>7, <1>8, <1>9, <1>10, <1>11, <1>12, <1>13, <1>14, <1>15, <1>16, <1>17,
     <1>18 DEF Turn

\* the mover, the others, the disk and the cache, put together
LEMMA CoherenceStep ==
    ASSUME Typed, Locks, Vacancy, Sources, Coherence, Policy = "immediate", [ObjNext]_allVars
    PROVE  Coherence'
<1>0. Clean'
  BY CleanStep DEF Coherence
<1> SUFFICES ASSUME ~seen'.unclean PROVE Coherent'
  BY <1>0 DEF Coherence
<1>4. ~seen.unclean
  <2>1. CASE Requests
    BY <2>1, SeenGrows DEF Requests, Typed, Past
  <2>2. CASE Crash
    BY <2>2, CrashLocks DEF Marked
  <2>3. CASE HkRange \/ HkEvict \/ UNCHANGED allVars
    BY <2>3 DEF HkRange, HkEvict, allVars, objVars
  <2> QED
    BY <2>1, <2>2, <2>3 DEF ObjNext
<1>5. Coherent
  BY <1>4 DEF Coherence
<1>1. ASSUME NEW c \in Clients, Step(c) PROVE Coherent'
  <2>1. \A d \in Clients : ReadOK(d)' /\ WriteOK(d)'
    BY <1>1, <1>5, OwnCoheres, OthersCohere
  <2> QED
    BY <1>0, <1>1, <1>5, <2>1, DiskStep, CacheStep DEF Coherent
<1>2. CASE Crash
  <2>1. /\ file' = file /\ xattr' = xattr /\ cache' = NoEntry /\ seen'.accepted = seen.accepted
        /\ \A c \in Clients : req'[c].pc \in {"start", "done"}
        /\ seen.torn \/ Writer => seen'.torn
    BY <1>2, CrashLocks DEF disk, Marked, Writer, Writing
  <2>2. ASSUME NEW c \in Clients PROVE ReadOK(c)' /\ WriteOK(c)'
    BY <2>1 DEF ReadOK, WriteOK, At
  <2>3. DiskOK' /\ CacheOK'
    BY <1>5, <2>1 DEF Coherent, DiskOK, CacheOK
  <2> QED
    BY <1>0, <2>2, <2>3 DEF Coherent
<1>3. CASE HkRange \/ HkEvict \/ UNCHANGED allVars
  <2>1. /\ file' = file /\ xattr' = xattr /\ seen' = seen /\ req' = req /\ cache' \in {cache, NoEntry}
    BY <1>3, <1>5 DEF Coherent, Clean, HkRange, HkEvict, UncacheDel, disk, allVars, objVars
  <2>2. ASSUME NEW c \in Clients PROVE ReadOK(c)' /\ WriteOK(c)'
    <3>1. ReadOK(c) /\ WriteOK(c)
      BY <1>5 DEF Coherent
    <3> QED
      BY <2>1, <3>1 DEF ReadOK, WriteOK, At, Is, Fresh
  <2>3. DiskOK' /\ CacheOK'
    BY <1>5, <2>1 DEF Coherent, DiskOK, CacheOK, Fresh, Writer
  <2> QED
    BY <1>0, <2>2, <2>3 DEF Coherent
<1> QED
  BY <1>1, <1>2, <1>3 DEF ObjNext, Requests

\* ... from the beginning on
LEMMA CoherenceAlways ==
    ASSUME Policy = "immediate"
    PROVE  ObjSpec => [](Typed /\ Locks /\ Vacancy /\ Sources /\ Contents /\ Coherence)
<1>1. ObjInit => Coherence
  <2> SUFFICES ASSUME ObjInit PROVE Coherence
    OBVIOUS
  <2>1. ASSUME NEW c \in Clients PROVE req[c].pc = "start"
    BY DEF ObjInit
  <2>3. ASSUME NEW c \in Clients PROVE ReadOK(c) /\ WriteOK(c)
    BY <2>1 DEF ReadOK, WriteOK, At
  <2>4. Entry(file, FALSE).ver = file /\ Entry(file, FALSE).dirty = FALSE /\ NoEntry.dirty = FALSE
    BY DEF Entry, NoEntry
  <2>5. Clean
    BY <2>1, <2>4 DEF Clean, ObjInit
  <2>6. DiskOK /\ CacheOK
    BY <2>4 DEF DiskOK, CacheOK, Fresh, ObjInit
  <2> QED
    BY <2>3, <2>5, <2>6 DEF Coherence, Coherent
<1>2. Typed /\ Locks /\ Vacancy /\ Sources /\ Coherence /\ [ObjNext]_allVars => Coherence'
  BY CoherenceStep
<1> QED
  BY <1>1, <1>2, ContentsAlways, PTL DEF ObjSpec

\* txfini, for any number of requests, faults and crashes: what a GET sends is the
\* content of the version whose metadata it sends, and is never half of a coldStream
\* (unless coldStream could not move the previous version aside, or clean up)
THEOREM ReadsAreWhole == ASSUME Policy = "immediate" PROVE ObjSpec => []NoTornRead
<1>1. Coherence => NoTornRead
  BY DEF Coherence, Coherent, ReadOK, NoTornRead
<1> QED
  BY <1>1, CoherenceAlways, PTL

\* fini and putRemote: what any GET delivers, the backend has accepted before, or is a
\* file that coldStream could not clean up
THEOREM ReadsAreAccepted == ASSUME Policy = "immediate" PROVE ObjSpec => []VisibleAfterRemote
<1>1. Contents /\ Coherence => VisibleAfterRemote
  BY DEF Contents, Coherence, Coherent, ReadOK, VisibleAfterRemote
<1> QED
  BY <1>1, CoherenceAlways, PTL

\* whoever holds no write lock writes nothing
LEMMA NoWriterWrites == Locks /\ NoWriter => ~Writer
BY DEF NoWriter, Writer, Locks, Holds, ModeAt, ReadPCs, WritePCs, Writing

\* Recache, UncacheDel, Store and the housekeeper, in any interleaving: while nobody
\* writes, cached metadata is the file's and is on disk
THEOREM CacheIsCoherent == ASSUME Policy = "immediate" PROVE ObjSpec => []CacheCoherent
<1>1. ASSUME Typed, Locks, Coherence PROVE CacheCoherent
  <2>1. NoWriter /\ ~seen.forced /\ ~seen.unclean /\ cache # NoEntry => cache.ver = file /\ xattr = file
    BY <1>1, NoWriterWrites DEF Coherence, Coherent, CacheOK, Fresh
  <2>2. ObjTypeOK
    BY <1>1 DEF ObjTypeOK, Typed, Request
  <2> QED
    BY <2>1, <2>2 DEF CacheCoherent
<1> QED
  BY <1>1, CoherenceAlways, PTL

\* fini, PersistMain, coldStream and its _cleanup, for any number of requests, faults and
\* crashes and any write policy: once a PUT was acknowledged, and unless somebody deletes
\* the object, the backend has it if that PUT wrote it, and there is a file unless
\* coldStream could not clean up.  With metadata written immediately the file is whole
\* while nobody writes it and the latest write was not broken off, and the backend has
\* the object whenever it is not
THEOREM AcknowledgedStays == ObjSpec => []AckedStays
<1>1. ASSUME Sources, Kept, SomeAcked, Undeleted
      PROVE  /\ (\E c \in Clients : Acked(c) /\ req[c].rd = c) => remote # None
             /\ ~seen.unclean => file # None
  <2>1. NoDeletes /\ ~seen.forced
    BY <1>1 DEF Undeleted, NoDeletes
  <2>2. ~seen.unclean => file # None
    BY <1>1, <2>1 DEF Kept, Standing, Stands
  <2>3. ASSUME NEW c \in Clients, Acked(c), req[c].rd = c PROVE remote # None
    <3>1. c \in seen.accepted /\ Is(c, {"put"})
      BY <1>1, <2>3 DEF Sources, Sourced, Acked
    <3> QED
      BY <1>1, <2>1, <3>1 DEF Kept, Accepting
  <2> QED
    BY <2>2, <2>3
<1>2. ASSUME Policy # "immediate" PROVE ObjSpec => []AckedStays
  <2>1. Sources /\ Kept => AckedStays
    BY <1>1, <1>2 DEF AckedStays, SomeAcked
  <2> QED
    BY <2>1, KeptAlways, PTL
<1>3. ASSUME Policy = "immediate" PROVE ObjSpec => []AckedStays
  <2>1. ASSUME Typed, Locks, Sources, Kept, Coherence PROVE AckedStays
    <3> SUFFICES ASSUME SomeAcked, Undeleted
                 PROVE  /\ NoWriter /\ ~seen.torn /\ ~seen.unclean => Readable
                        /\ Readable \/ remote # None
      BY <1>1, <2>1 DEF AckedStays, SomeAcked
    <3>1. ASSUME ~Writer, ~seen.torn, ~seen.unclean PROVE Readable
      <4>1. file # None
        BY <1>1, <2>1, <3>1
      <4>2. xattr = file
        BY <2>1, <3>1, <4>1 DEF Coherence, Coherent, DiskOK
      <4> QED
        BY <2>1, <4>1, <4>2 DEF Readable, Typed
    <3>2. Writer \/ seen.torn \/ seen.unclean => remote # None
      BY <2>1 DEF Kept, Undeleted, NoDeletes, Writer, Writing, Written
    <3> QED
      BY <2>1, <3>1, <3>2, NoWriterWrites
  <2> QED
    BY <1>3, <2>1, KeptAlways, CoherenceAlways, PTL
<1> QED
  BY <1>2, <1>3
=============================================================================
