--------------------------- MODULE BckTxn_proofs ---------------------------
(***************************************************************************)
(* Bucket transactions end to end, for any number of targets, buckets,     *)
(* requests, retries and faults.  The targets behave as module TargetTxns  *)
(* says they do whatever arrives, so that lock ownership and the order of  *)
(* BMDs hold in the cluster; and a BMD version means one content, on the   *)
(* primary, on the targets and on the wire.                                *)
(*                                                                         *)
(* BMDs is the set of bucket metadata that the primary may come to own;    *)
(* the premise [](pbmd \in BMDs) says no more than that it is large        *)
(* enough.                                                                 *)
(*                                                                         *)
(* On a target, lock ownership needs one more fact to be inductive: a      *)
(* begin that is still polling for its lock is not registered yet, so that *)
(* registering it cannot overwrite an entry that owns locks.               *)
(*                                                                         *)
(* Three results about a whole request follow.  PInv: a bucket is locked   *)
(* on the primary while one create or destroy holds it, so that undo finds *)
(* the bucket of its own create (UndoIsOwn).  SInv: the BMD sent for a     *)
(* request is not older than its version and a commit answers for the BMD  *)
(* of its target, so that success means every target has it                *)
(* (SuccessReachesAll).  RInv: metasync rounds are numbered and a target   *)
(* that is behind is unsynced or in the round, so that when everything has *)
(* come to rest nothing is left over (RestIsClean).                        *)
(***************************************************************************)
EXTENDS BckTxn, TLAPS

\* leaves are for Zenon, those with arithmetic or records for SMT
USE ZenonT(30)

-----------------------------------------------------------------------------
(* The targets, whatever arrives *)

\* a begin handler that polls has arrived and is not registered
PollersWait == \A t \in Targets : \A u \in polling[t] : u \in began[t] /\ u \notin DOMAIN txns[t]

TTInv == TTTypeOK /\ LockOwnership /\ PollersWait

\* an empty transaction table, with no lock taken
LEMMA InitTTInv == TTInit => TTInv
<1> SUFFICES ASSUME TTInit PROVE TTInv
  OBVIOUS
<1>1. TTTypeOK
  BY TTAssumption DEF TTInit, TTTypeOK, EmptyMap, Errs, RxIdle
<1>2. LockOwnership
  BY DEF TTInit, LockOwnership, EmptyMap
<1>3. PollersWait
  BY DEF TTInit, PollersWait
<1> QED
  BY <1>1, <1>2, <1>3 DEF TTInv

\* ending a registered transaction (txns.term, housekeep) releases its locks and no other
LEMMA ReleaseStep ==
    ASSUME TTInv, NEW t \in Targets, NEW u \in DOMAIN txns[t],
           txns' = [txns EXCEPT ![t] = Without(txns[t], u)],
           locks' = [locks EXCEPT ![t] = UnlockAll(locks[t], txns[t][u])]
    PROVE  LockOwnership'
<1>1. /\ DOMAIN txns'[t] = DOMAIN txns[t] \ {u}
      /\ \A v \in DOMAIN txns[t] \ {u} : txns'[t][v] = txns[t][v]
      /\ DOMAIN locks'[t] = DOMAIN locks[t] \ txns[t][u]
  BY DEF TTInv, TTTypeOK, Without, UnlockAll
<1>2. \A s \in Targets \ {t} : txns'[s] = txns[s] /\ locks'[s] = locks[s]
  BY DEF TTInv, TTTypeOK
<1>3. ASSUME NEW b \in Bcks
      PROVE  b \in DOMAIN locks'[t] <=> \E v \in DOMAIN txns'[t] : b \in txns'[t][v]
  <2>1. b \in DOMAIN locks[t] <=> \E v \in DOMAIN txns[t] : b \in txns[t][v]
    BY DEF TTInv, LockOwnership
  <2>2. \A v \in DOMAIN txns[t] : b \in txns[t][v] /\ b \in txns[t][u] => v = u
    BY DEF TTInv, LockOwnership
  <2> QED
    BY <1>1, <2>1, <2>2
<1>4. \A v, w \in DOMAIN txns'[t] : txns'[t][v] \cap txns'[t][w] # {} => v = w
  BY <1>1, SMTT(30) DEF TTInv, LockOwnership
<1> QED
  BY <1>2, <1>3, <1>4, SMTT(30) DEF TTInv, LockOwnership

\* txns.term: whatever the transaction, ownership and types survive it
LEMMA TermStep ==
    ASSUME TTInv, NEW t \in Targets, NEW u \in Uuids, Term(t, u)
    PROVE  /\ LockOwnership'
           /\ DOMAIN locks' = Targets /\ DOMAIN txns' = Targets /\ DOMAIN rendezvous' = Targets
           /\ \A s \in Targets :
                 /\ DOMAIN locks'[s] \subseteq Bcks /\ locks'[s] \in [DOMAIN locks'[s] -> LockInfo]
                 /\ DOMAIN txns'[s] \subseteq DOMAIN txns[s]
                 /\ txns'[s] \in [DOMAIN txns'[s] -> SUBSET Bcks]
                 /\ DOMAIN rendezvous'[s] \subseteq Uuids
                 /\ rendezvous'[s] \in [DOMAIN rendezvous'[s] -> Errs]
<1>1. CASE u \notin DOMAIN txns[t]
  BY <1>1, SMTT(30) DEF Term, TTInv, TTTypeOK, LockOwnership
<1>2. CASE u \in DOMAIN txns[t]
  <2>1. /\ txns' = [txns EXCEPT ![t] = Without(txns[t], u)]
        /\ rendezvous' = [rendezvous EXCEPT ![t] = Without(rendezvous[t], u)]
        /\ locks' = [locks EXCEPT ![t] = UnlockAll(locks[t], txns[t][u])]
    BY <1>2 DEF Term
  <2>2. LockOwnership'
    BY <1>2, <2>1, ReleaseStep
  <2>3. DOMAIN locks' = Targets /\ DOMAIN txns' = Targets /\ DOMAIN rendezvous' = Targets
    BY <2>1 DEF TTInv, TTTypeOK
  <2>4. ASSUME NEW s \in Targets
        PROVE  DOMAIN locks'[s] \subseteq Bcks /\ locks'[s] \in [DOMAIN locks'[s] -> LockInfo]
    BY <2>1, SMTT(30) DEF TTInv, TTTypeOK, UnlockAll
  <2>5. ASSUME NEW s \in Targets
        PROVE  /\ DOMAIN txns'[s] \subseteq DOMAIN txns[s]
               /\ txns'[s] \in [DOMAIN txns'[s] -> SUBSET Bcks]
    BY <2>1, SMTT(30) DEF TTInv, TTTypeOK, Without
  <2>6. ASSUME NEW s \in Targets
        PROVE  /\ DOMAIN rendezvous'[s] \subseteq Uuids
               /\ rendezvous'[s] \in [DOMAIN rendezvous'[s] -> Errs]
    BY <2>1 DEF TTInv, TTTypeOK, Without
  <2> QED
    BY <2>2, <2>3, <2>4, <2>5, <2>6
<1> QED
  BY <1>1, <1>2

\* every handler, the BMD receipt and the housekeeper keep the types
LEMMA TypeStep == ASSUME TTInv, TTNext PROVE TTTypeOK'
<1> USE DEF TTInv
<1>1. PICK t \in Targets : TTStep(t)
  BY DEF TTNext
<1>2. ASSUME NEW u \in Uuids, BeginCreate(t, u) PROVE TTTypeOK'
  BY <1>2, SMTT(30) DEF BeginCreate, TTTypeOK, WithEntry
<1>3. ASSUME NEW u \in Uuids, BeginFail(t, u) PROVE TTTypeOK'
  BY <1>3, SMTT(30) DEF BeginFail, TTTypeOK
<1>4. ASSUME NEW u \in Uuids, BeginPoll(t, u) PROVE TTTypeOK'
  BY <1>4, SMTT(30) DEF BeginPoll, TTTypeOK
<1>5. ASSUME NEW u \in Uuids, BeginLocked(t, u) PROVE TTTypeOK'
  BY <1>5, TTAssumption, SMTT(30) DEF BeginLocked, TTTypeOK, WithEntry, TryOK, TryLock, SetEntry, LockInfo, PollersWait
<1>6. ASSUME NEW u \in Uuids, BeginBusy(t, u) PROVE TTTypeOK'
  BY <1>6 DEF BeginBusy, TTTypeOK
<1>7. ASSUME NEW u \in Uuids, CommitWait(t, u) PROVE TTTypeOK'
  BY <1>7, SMTT(30) DEF CommitWait, TTTypeOK
<1>8. ASSUME NEW u \in Uuids, CommitRefuse(t, u) PROVE TTTypeOK'
  BY <1>8, TermStep DEF CommitRefuse, TTTypeOK
<1>9. ASSUME NEW u \in Uuids, CommitOK(t, u) PROVE TTTypeOK'
  BY <1>9, TermStep DEF CommitOK, TTTypeOK
<1>10. ASSUME NEW u \in Uuids, CommitFail(t, u) PROVE TTTypeOK'
  BY <1>10, TermStep DEF CommitFail, TTTypeOK
<1>11. ASSUME NEW u \in Uuids, Abort(t, u) PROVE TTTypeOK'
  BY <1>11, TermStep DEF Abort, TTTypeOK
<1>12. ASSUME NEW u \in Uuids, NEW bmd \in BMDs, RxBefore(t, u, bmd) PROVE TTTypeOK'
  BY <1>12, SMTT(30) DEF RxBefore, TTTypeOK, WithEntry, Errs
<1>13. ASSUME NEW u \in Uuids, GC(t, u) PROVE TTTypeOK'
  BY <1>13, SMTT(30) DEF GC, TTTypeOK, Without, UnlockAll
<1>14. ASSUME NEW u \in Uuids, Cleanup(t, u) PROVE TTTypeOK'
  BY <1>14, SMTT(30) DEF Cleanup, TTTypeOK, Without
<1>15. ASSUME NEW bmd \in BMDs, RxPlainOK(t, bmd) PROVE TTTypeOK'
  BY <1>15 DEF RxPlainOK, TTTypeOK
<1>16. CASE RxApply(t)
  BY <1>16, SMTT(30) DEF RxApply, TTTypeOK, RxIdle, Errs
<1>17. CASE RxAfter(t)
  <2>1. rx[t] \in [step : {"after"}, u : Uuids, bmd : BMDs, err : Errs]
    BY <1>17, SMTT(30) DEF RxAfter, TTTypeOK, RxIdle
  <2>2. rx[t].u \in Uuids /\ rx[t].err \in Errs /\ Forgive(rx[t].err) \in Errs
    BY <2>1 DEF Errs, Forgive
  <2>3. done' \in [Targets -> [Uuids -> Errs]]
    <3>1. done' = done \/ done' = [done EXCEPT ![t][rx[t].u] = Forgive(rx[t].err)]
      BY <1>17 DEF RxAfter
    <3>2. ASSUME NEW v \in Uuids, NEW e \in Errs, done' = [done EXCEPT ![t][v] = e]
          PROVE  done' \in [Targets -> [Uuids -> Errs]]
      BY <3>2 DEF TTTypeOK
    <3> QED
      BY <3>1, <3>2, <2>2 DEF TTTypeOK
  <2>4. /\ DOMAIN rendezvous' = Targets
        /\ \A s \in Targets : /\ DOMAIN rendezvous'[s] \subseteq Uuids
                               /\ rendezvous'[s] \in [DOMAIN rendezvous'[s] -> Errs]
    <3>1. CASE rendezvous' = rendezvous
      BY <3>1 DEF TTTypeOK
    <3>2. CASE /\ rx[t].u \in DOMAIN rendezvous[t]
               /\ rendezvous' = [rendezvous EXCEPT ![t][rx[t].u] = rx[t].err]
      BY <3>2, <2>2, ZenonT(30) DEF TTTypeOK
    <3> QED
      BY <1>17, <3>1, <3>2 DEF RxAfter
  <2> QED
    BY <1>17, <2>3, <2>4 DEF RxAfter, TTTypeOK
<1> QED
  BY <1>1, <1>2, <1>3, <1>4, <1>5, <1>6, <1>7, <1>8, <1>9, <1>10, <1>11, <1>12, <1>13,
     <1>14, <1>15, <1>16, <1>17 DEF TTStep

\* only txns.begin adds an owner, with a lock it just took; only ending one releases
LEMMA OwnershipStep == ASSUME TTInv, TTNext PROVE LockOwnership'
<1> USE DEF TTInv
<1>1. PICK t \in Targets : TTStep(t)
  BY DEF TTNext
<1>2. ASSUME NEW u \in Uuids, BeginCreate(t, u) PROVE LockOwnership'
  <2>1. /\ u \notin DOMAIN txns[t]
        /\ DOMAIN txns'[t] = DOMAIN txns[t] \cup {u}
        /\ txns'[t][u] = {}
        /\ \A v \in DOMAIN txns[t] : txns'[t][v] = txns[t][v]
    BY <1>2 DEF BeginCreate, TTTypeOK, WithEntry
  <2>2. locks' = locks /\ \A s \in Targets \ {t} : txns'[s] = txns[s]
    BY <1>2 DEF BeginCreate, TTTypeOK
  <2>3. \A b \in Bcks : b \in DOMAIN locks'[t] <=> \E v \in DOMAIN txns'[t] : b \in txns'[t][v]
    BY <2>1, <2>2 DEF LockOwnership
  <2>4. \A v, w \in DOMAIN txns'[t] : txns'[t][v] \cap txns'[t][w] # {} => v = w
    BY <2>1, SMTT(30) DEF LockOwnership
  <2> QED
    BY <2>2, <2>3, <2>4 DEF LockOwnership
<1>3. ASSUME NEW u \in Uuids, BeginLocked(t, u) PROVE LockOwnership'
  <2>1. /\ u \notin DOMAIN txns[t]
        /\ BckOf[u] \notin DOMAIN locks[t]
        /\ BckOf[u] \in Bcks
    BY <1>3, TTAssumption DEF BeginLocked, TryOK, PollersWait
  <2>2. /\ DOMAIN txns'[t] = DOMAIN txns[t] \cup {u}
        /\ txns'[t][u] = {BckOf[u]}
        /\ \A v \in DOMAIN txns[t] : txns'[t][v] = txns[t][v]
        /\ DOMAIN locks'[t] = DOMAIN locks[t] \cup {BckOf[u]}
    BY <1>3, <2>1 DEF BeginLocked, TTTypeOK, WithEntry, TryLock, SetEntry
  <2>3. \A s \in Targets \ {t} : txns'[s] = txns[s] /\ locks'[s] = locks[s]
    BY <1>3 DEF BeginLocked, TTTypeOK
  <2>4. \A v \in DOMAIN txns[t] : BckOf[u] \notin txns[t][v]
    BY <2>1 DEF LockOwnership
  <2>5. \A b \in Bcks : b \in DOMAIN locks'[t] <=> \E v \in DOMAIN txns'[t] : b \in txns'[t][v]
    BY <2>1, <2>2 DEF LockOwnership
  <2>6. \A v, w \in DOMAIN txns'[t] : txns'[t][v] \cap txns'[t][w] # {} => v = w
    BY <2>2, <2>4, SMTT(30) DEF LockOwnership
  <2> QED
    BY <2>3, <2>5, <2>6, SMTT(30) DEF LockOwnership
<1>4. ASSUME NEW u \in Uuids, Term(t, u) PROVE LockOwnership'
  BY <1>4, TermStep
<1>5. ASSUME NEW u \in Uuids, GC(t, u) PROVE LockOwnership'
  BY <1>5, ReleaseStep DEF GC
<1>6. CASE UNCHANGED <<txns, locks>>
  BY <1>6, ZenonT(30) DEF LockOwnership
<1> QED
  BY <1>1, <1>2, <1>3, <1>4, <1>5, <1>6, ZenonT(30)
     DEF TTStep, BeginFail, BeginPoll, BeginBusy, CommitWait, CommitRefuse, CommitOK, CommitFail,
         Abort, RxBefore, Cleanup, RxPlainOK, RxApply, RxAfter

\* a polling begin registers once, when it stops polling
LEMMA PollersStep == ASSUME TTInv, TTNext PROVE PollersWait'
<1> USE DEF TTInv
<1>1. PICK t \in Targets : TTStep(t)
  BY DEF TTNext
<1>2. ASSUME NEW u \in Uuids, BeginCreate(t, u) PROVE PollersWait'
  BY <1>2 DEF BeginCreate, TTTypeOK, PollersWait, WithEntry
<1>3. ASSUME NEW u \in Uuids, BeginFail(t, u) PROVE PollersWait'
  BY <1>3 DEF BeginFail, TTTypeOK, PollersWait
<1>4. ASSUME NEW u \in Uuids, BeginPoll(t, u) PROVE PollersWait'
  BY <1>4 DEF BeginPoll, TTTypeOK, PollersWait
<1>5. ASSUME NEW u \in Uuids, BeginLocked(t, u) PROVE PollersWait'
  BY <1>5 DEF BeginLocked, TTTypeOK, PollersWait, WithEntry
<1>6. ASSUME NEW u \in Uuids, BeginBusy(t, u) PROVE PollersWait'
  BY <1>6 DEF BeginBusy, TTTypeOK, PollersWait
<1>7. ASSUME NEW u \in Uuids, Term(t, u), UNCHANGED <<polling, began>> PROVE PollersWait'
  BY <1>7, TermStep DEF PollersWait
<1>8. ASSUME NEW u \in Uuids, GC(t, u) PROVE PollersWait'
  BY <1>8 DEF GC, TTTypeOK, PollersWait, Without
<1>9. CASE UNCHANGED <<txns, polling, began>>
  BY <1>9 DEF PollersWait
<1> QED
  BY <1>1, <1>2, <1>3, <1>4, <1>5, <1>6, <1>7, <1>8, <1>9, SMTT(30)
     DEF TTStep, CommitWait, CommitRefuse, CommitOK, CommitFail,
         Abort, RxBefore, Cleanup, RxPlainOK, RxApply, RxAfter

\* the inductive invariant holds in every behaviour of a target's transactions
THEOREM TTInvariance == TTSpec => []TTInv
<1>1. TTInv /\ UNCHANGED ttvars => TTInv'
  BY SMTT(30) DEF TTInv, TTTypeOK, LockOwnership, PollersWait, ttvars
<1>2. TTInv /\ [TTNext]_ttvars => TTInv'
  BY <1>1, TypeStep, OwnershipStep, PollersStep DEF TTInv
<1> QED
  BY InitTTInv, <1>2, PTL DEF TTSpec

\* the transaction tables keep their types whatever arrives and in whatever order
THEOREM TTTypeCorrect == TTSpec => []TTTypeOK
BY TTInvariance, PTL DEF TTInv

\* txns owns the bucket locks: commit, abort, error cleanup and housekeeping
\* release exactly the locks of the transaction they end
THEOREM LocksAreOwned == TTSpec => []LockOwnership
BY TTInvariance, PTL DEF TTInv

\* a target's BMD goes forward
Fwd == \A t \in Targets : tbmd'[t].ver >= tbmd[t].ver
                          /\ (tbmd'[t].ver = tbmd[t].ver => tbmd'[t] = tbmd[t])

\* whatever a target does
LEMMA FwdStep == ASSUME TTInv, [TTNext]_ttvars PROVE Fwd
<1>1. ASSUME UNCHANGED tbmd PROVE Fwd
  BY <1>1, TTAssumption, SMTT(30) DEF TTInv, TTTypeOK, Fwd
<1>2. ASSUME NEW t \in Targets, NEW bmd \in BMDs, RxPlainOK(t, bmd) PROVE Fwd
  BY <1>2, TTAssumption, SMTT(30) DEF RxPlainOK, TTInv, TTTypeOK, Fwd
<1>3. ASSUME NEW t \in Targets, RxApply(t) PROVE Fwd
  <2>1. rx[t] \in [step : {"apply"}, u : Uuids, bmd : BMDs]
    BY <1>3, SMTT(30) DEF RxApply, TTInv, TTTypeOK, RxIdle
  <2> QED
    BY <1>3, <2>1, TTAssumption, SMTT(30) DEF RxApply, TTInv, TTTypeOK, Fwd
<1>4. ASSUME NEW t \in Targets, TTStep(t) PROVE Fwd
  <2>1. \/ UNCHANGED tbmd
        \/ \E bmd \in BMDs : RxPlainOK(t, bmd)
        \/ RxApply(t)
    BY <1>4 DEF TTStep, BeginCreate, BeginFail, BeginPoll, BeginLocked, BeginBusy, CommitWait,
           CommitRefuse, CommitOK, CommitFail, Abort, RxBefore, GC, Cleanup, RxAfter
  <2> QED
    BY <1>1, <1>2, <1>3, <2>1
<1> QED
  BY <1>1, <1>4 DEF TTNext, ttvars

\* receiveBMD never takes a target back to an older BMD, nor to another one of
\* the same version
THEOREM BMDNeverGoesBack == TTSpec => NoDowngrade
<1>1. TTInv /\ [TTNext]_ttvars => [Fwd]_ttvars
  BY FwdStep
<1> QED
  BY <1>1, TTInvariance, PTL DEF TTSpec, NoDowngrade, Fwd

-----------------------------------------------------------------------------
(* The cluster *)

Txns == Uuids \cup {NoTxn}
Tries == UNION {[S -> Nat] : S \in SUBSET Targets}
RoundRec == [on: {TRUE}, u: Txns, waiter: Txns, bmd: BMDs, round: Nat, pending: BOOLEAN, try: Tries]

QRec == [u: Txns, waiter: Txns]

Sound(calls) ==
    \A call \in calls : call.k = "bmd" => call.u \in Txns /\ call.bmd \in BMDs /\ call.round \in Nat

\* what the metasyncer and the network carry
WireOK ==
    /\ Sound(net)
    /\ ms = MsIdle \/ ms \in RoundRec
    /\ q \in Seq(QRec)
    /\ lastSynced \in BMDs
    /\ unsynced \subseteq Targets
    /\ round \in Nat

\* a call of the round in progress, and a step within a round
OfMs(call) == ms \in RoundRec /\ call.u = ms.u /\ call.bmd = ms.bmd /\ call.round = ms.round
SameRound ==
    /\ ms \in RoundRec /\ ms' \in RoundRec
    /\ ms'.u = ms.u /\ ms'.waiter = ms.waiter /\ ms'.bmd = ms.bmd /\ ms'.round = ms.round

\* begin, commit and abort calls carry no BMD
LEMMA BcastOK ==
    ASSUME WireOK, NEW u, NEW phase \in Phases, Bcast(u, phase)
    PROVE  Sound(net') /\ \A call \in net' : call.k = "bmd" => call \in net
  BY SMTT(30) DEF WireOK, Sound, Bcast, Phases

\* a round without one of its targets
LEMMA WithoutOK ==
    ASSUME NEW f \in Tries, NEW t
    PROVE  Without(f, t) \in Tries
<1>1. PICK S \in SUBSET Targets : f \in [S -> Nat]
  BY DEF Tries
<1>2. Without(f, t) \in [S \ {t} -> Nat]
  BY <1>1 DEF Without
<1>3. S \ {t} \in SUBSET Targets
  OBVIOUS
<1> QED
  BY <1>2, <1>3 DEF Tries

\* ... or with one more attempt for a target
LEMMA AgainOK ==
    ASSUME NEW f \in Tries, NEW t \in DOMAIN f
    PROVE  [f EXCEPT ![t] = f[t] + 1] \in Tries /\ f[t] + 1 \in Nat
<1>1. PICK S \in SUBSET Targets : f \in [S -> Nat]
  BY DEF Tries
<1>2. [f EXCEPT ![t] = f[t] + 1] \in [S -> Nat] /\ f[t] + 1 \in Nat
  BY <1>1, SMTT(30)
<1> QED
  BY <1>1, <1>2 DEF Tries

\* handleRefused and the end of a target's part in a round
LEMMA RetryOK ==
    ASSUME WireOK, ms \in RoundRec, NEW t \in DOMAIN ms.try, NEW calls, Sound(calls), t \in Targets,
           MsRetry(t, calls)
    PROVE  /\ Sound(net') /\ SameRound /\ unsynced' \subseteq Targets
           /\ \A call \in net' : call.k = "bmd" => call \in calls \/ OfMs(call)
<1>1. ms.try \in Tries /\ ms.u \in Txns /\ ms.bmd \in BMDs /\ ms.round \in Nat
  BY DEF RoundRec
<1>2. ASSUME ms' = [ms EXCEPT !.try[t] = ms.try[t] + 1], net' = calls \cup {MsCall(t, ms.try[t] + 1)},
             UNCHANGED unsynced
      PROVE  /\ Sound(net') /\ SameRound /\ unsynced' \subseteq Targets
             /\ \A call \in net' : call.k = "bmd" => call \in calls \/ OfMs(call)
  <2> DEFINE f == [ms.try EXCEPT ![t] = ms.try[t] + 1]
  <2>1. f \in Tries
    BY <1>1, AgainOK
  <2>2. ms' = [ms EXCEPT !.try = f]
    BY <1>2
  <2> HIDE DEF f
  <2>3. SameRound
    BY <2>1, <2>2 DEF RoundRec, SameRound
  <2>4. OfMs(MsCall(t, ms.try[t] + 1))
    BY DEF MsCall, OfMs
  <2> QED
    BY <1>1, <1>2, <2>3, <2>4 DEF Sound, WireOK, OfMs
<1>3. ASSUME MsFailed(t), net' = calls
      PROVE  /\ Sound(net') /\ SameRound /\ unsynced' \subseteq Targets
             /\ \A call \in net' : call.k = "bmd" => call \in calls \/ OfMs(call)
  <2> DEFINE f == Without(ms.try, t)
  <2>1. f \in Tries
    BY <1>1, WithoutOK
  <2>2. ms' = [ms EXCEPT !.try = f]
    BY <1>3 DEF MsFailed
  <2> HIDE DEF f
  <2>3. SameRound
    BY <2>1, <2>2 DEF RoundRec, SameRound
  <2> QED
    BY <1>3, <2>3 DEF MsFailed, WireOK
<1> QED
  BY <1>2, <1>3 DEF MsRetry

\* the BMDs on the wire after a step: those of before, and what the primary owns,
\* has synced last or is syncing
Flow ==
    /\ WireOK'
    /\ \A c \in net' : c.k = "bmd" => \/ c \in net
                                      \/ OfMs(c)
                                      \/ c.bmd \in {pbmd, lastSynced}
    /\ \/ ms' = ms \/ ms' = MsIdle \/ SameRound
       \/ ms'.bmd \in {pbmd, lastSynced}
    /\ lastSynced' \in {pbmd, lastSynced}

MsKept == ms' = ms \/ SameRound

\* the answer of a metasync handler
LEMMA ReplyOK ==
    ASSUME WireOK, NEW call, NEW accepted \in BOOLEAN, NEW calls, Sound(calls), MsReply(call, accepted, calls)
    PROVE  /\ Sound(net') /\ MsKept /\ unsynced' \subseteq Targets
           /\ \A c \in net' : c.k = "bmd" => c \in calls \/ OfMs(c)
<1>1. CASE ~Awaited(call)
  BY <1>1 DEF MsReply, MsKept, WireOK
<1>2. CASE Awaited(call)
  <2>1. ms \in RoundRec /\ call.t \in DOMAIN ms.try
    BY <1>2, SMTT(30) DEF Awaited, WireOK, MsIdle
  <2>2. ms.try \in Tries
    BY <2>1 DEF RoundRec
  <2>3. call.t \in Targets
    BY <2>1, <2>2 DEF Tries
  <2>4. ASSUME MsOK(call.t) \/ MsFailed(call.t), net' = calls
        PROVE  /\ Sound(net') /\ MsKept /\ unsynced' \subseteq Targets
               /\ \A c \in net' : c.k = "bmd" => c \in calls \/ OfMs(c)
    <3> DEFINE f == Without(ms.try, call.t)
    <3>1. f \in Tries
      BY <2>2, WithoutOK
    <3>2. ms' = [ms EXCEPT !.try = f]
      BY <2>4 DEF MsOK, MsFailed
    <3> HIDE DEF f
    <3>3. SameRound
      BY <2>1, <3>1, <3>2 DEF RoundRec, SameRound
    <3>4. unsynced' \subseteq Targets
      BY <2>3, <2>4 DEF MsOK, MsFailed, WireOK
    <3> QED
      BY <2>1, <2>4, <3>3, <3>4 DEF MsKept
  <2>5. ASSUME MsRetry(call.t, calls)
        PROVE  /\ Sound(net') /\ MsKept /\ unsynced' \subseteq Targets
               /\ \A c \in net' : c.k = "bmd" => c \in calls \/ OfMs(c)
    BY <2>1, <2>3, <2>5, RetryOK DEF MsKept
  <2> QED
    BY <1>2, <2>4, <2>5 DEF MsReply
<1> QED
  BY <1>1, <1>2

\* a round starts, with the BMD and the transaction it was given
LEMMA StartOK ==
    ASSUME WireOK, NEW u \in Txns, NEW waiter \in Txns, NEW bmd \in BMDs, NEW to \in SUBSET Targets,
           NEW pending \in BOOLEAN, StartRound(Round(u, waiter, bmd, to, pending))
    PROVE  /\ Sound(net') /\ ms' \in RoundRec /\ ms'.bmd = bmd /\ round' \in Nat
           /\ ms'.u = u /\ ms'.waiter = waiter /\ ms'.round = round' /\ DOMAIN ms'.try = to /\ round' = round + 1
           /\ \A c \in net' : c.k = "bmd" => c \in net \/ (c.bmd = bmd /\ c.u = u /\ c.round = round')
<1> DEFINE f == [t \in to |-> 1]
           r == Round(u, waiter, bmd, to, pending)
<1>1. f \in [to -> Nat] /\ round + 1 \in Nat
  BY SMTT(30) DEF WireOK
<1>2. f \in Tries
  BY <1>1 DEF Tries
<1> HIDE DEF f
<1>3. r = [on |-> TRUE, u |-> u, waiter |-> waiter, bmd |-> bmd, round |-> round + 1,
           pending |-> pending, try |-> f]
  BY DEF Round, f
<1>4. /\ r \in RoundRec /\ r.u = u /\ r.bmd = bmd
      /\ r.waiter = waiter /\ r.round = round + 1 /\ r.try = f
  BY <1>1, <1>2, <1>3, SMTT(30) DEF RoundRec
<1>5. /\ ms' = r /\ round' = round + 1
      /\ net' = net \cup {[k |-> "bmd", u |-> r.u, t |-> t, bmd |-> r.bmd,
                           round |-> r.round, try |-> 1] : t \in DOMAIN r.try}
  BY DEF StartRound
<1> HIDE DEF r
<1>6. \A c \in net' : c \in net \/ (c.u = u /\ c.bmd = bmd /\ c.round = round + 1)
  BY <1>4, <1>5, SMTT(30)
<1>7. DOMAIN f = to
  BY DEF f
<1> QED
  BY <1>1, <1>4, <1>5, <1>6, <1>7 DEF WireOK, Sound

-----------------------------------------------------------------------------
(* The cluster's steps are steps of its targets, or leave them alone *)

\* a request's goroutine sends calls and queues its BMD
LEMMA RequestWire ==
    ASSUME WireOK, NEW u \in Uuids, Request(u)
    PROVE  Flow /\ UNCHANGED ttvars
<1>1. UNCHANGED <<ttvars, ms, lastSynced, round, unsynced>>
  BY DEF Request, StartLock, StartProps, StartNotFound, Locked, LockedExists, BeginDone, Modify, ModifyErr,
         ModifyPanic, Post, CommitDone, AbortDone, Undo, UndoPost, msvars
<1>2. Sound(net') /\ \A c \in net' : c.k = "bmd" => c \in net
  <2>1. ASSUME NEW phase \in Phases, Bcast(u, phase)
        PROVE  Sound(net') /\ \A c \in net' : c.k = "bmd" => c \in net
    BY <2>1, BcastOK
  <2>2. CASE net' = net
    BY <2>2 DEF WireOK
  <2>3. "begin" \in Phases /\ "abort" \in Phases
    BY DEF Phases
  <2>4. net' = net \/ Bcast(u, "begin") \/ Bcast(u, "abort")
    BY DEF Request, StartLock, StartProps, StartNotFound, Locked, LockedExists, BeginDone,
           Modify, ModifyErr, ModifyPanic, Post, CommitDone, AbortDone, Undo, UndoPost
  <2> QED
    BY <2>1, <2>2, <2>3, <2>4
<1>3. q' \in Seq(QRec)
  <2>1. q' = q \/ q' = Append(q, [u |-> u, waiter |-> u]) \/ q' = Append(q, [u |-> NoTxn, waiter |-> NoTxn])
    BY DEF Request, StartLock, StartProps, StartNotFound, Locked, LockedExists, BeginDone, Modify, ModifyErr,
           ModifyPanic, Post, CommitDone, AbortDone, Undo, UndoPost, msvars, Nobody
  <2>2. [u |-> u, waiter |-> u] \in QRec /\ [u |-> NoTxn, waiter |-> NoTxn] \in QRec
    BY DEF Txns, QRec
  <2> QED
    BY <2>1, <2>2, SMTT(30) DEF WireOK
<1> QED
  BY <1>1, <1>2, <1>3 DEF WireOK, Flow

\* the metasyncer sends what the primary owns by now, or the last it has sent
LEMMA MetasyncerWire ==
    ASSUME WireOK, pbmd \in BMDs, Metasyncer
    PROVE  Flow /\ UNCHANGED <<ttvars, pbmd>>
<1>1. CASE MsDo
  <2>1. Head(q) \in QRec /\ Tail(q) \in Seq(QRec)
    BY <1>1, SMTT(30) DEF MsDo, WireOK
  <2>2. Head(q).u \in Txns /\ Head(q).waiter \in Txns
    BY <2>1 DEF QRec
  <2>3. StartRound(Round(Head(q).u, Head(q).waiter, pbmd, Targets, FALSE))
    BY <1>1 DEF MsDo
  <2>4. /\ Sound(net') /\ ms' \in RoundRec /\ ms'.bmd = pbmd /\ round' \in Nat
        /\ \A c \in net' : c.k = "bmd" => c \in net \/ (c.bmd = pbmd /\ c.u = Head(q).u /\ c.round = round')
    BY <2>2, <2>3, StartOK
  <2>5. q' = Tail(q) /\ lastSynced' = pbmd /\ UNCHANGED <<ttvars, pbmd, unsynced>>
    BY <1>1 DEF MsDo, pvars
  <2>6. WireOK'
    BY <2>1, <2>4, <2>5 DEF WireOK
  <2> QED
    BY <2>4, <2>5, <2>6 DEF Flow
<1>2. CASE MsPending
  <2>1. lastSynced \in BMDs /\ unsynced \in SUBSET Targets /\ NoTxn \in Txns /\ Nobody \in Txns
    BY DEF WireOK, Txns, Nobody
  <2>2. StartRound(Round(NoTxn, Nobody, lastSynced, unsynced, TRUE))
    BY <1>2 DEF MsPending
  <2>3. /\ Sound(net') /\ ms' \in RoundRec /\ ms'.bmd = lastSynced /\ round' \in Nat
        /\ \A c \in net' : c.k = "bmd" => c \in net \/ c.bmd = lastSynced
    BY <2>1, <2>2, StartOK
  <2>4. UNCHANGED <<ttvars, pbmd, q, unsynced, lastSynced>>
    BY <1>2 DEF MsPending, pvars
  <2>5. WireOK'
    BY <2>3, <2>4 DEF WireOK
  <2> QED
    BY <2>3, <2>4, <2>5 DEF Flow
<1>3. CASE MsDone
  <2>1. UNCHANGED <<ttvars, pbmd, q, round, unsynced, lastSynced>> /\ ms' = MsIdle
    BY <1>3 DEF MsDone
  <2>2. Sound(net') /\ \A c \in net' : c.k = "bmd" => c \in net
    <3>1. CASE net' = net
      BY <3>1 DEF WireOK
    <3>2. CASE Bcast(ms.waiter, "commit")
      <4>1. "commit" \in Phases
        BY DEF Phases
      <4> QED
        BY <3>2, <4>1, BcastOK
    <3> QED
      BY <1>3, <3>1, <3>2 DEF MsDone
  <2>3. WireOK'
    BY <2>1, <2>2 DEF WireOK
  <2> QED
    BY <2>1, <2>2, <2>3 DEF Flow
<1> QED
  BY <1>1, <1>2, <1>3 DEF Metasyncer

\* calls that are taken off the wire, lost or answered late
LEMMA FewerWire ==
    ASSUME WireOK, net' \subseteq net, UNCHANGED <<ms, q, lastSynced, unsynced, round>>
    PROVE  Flow
<1>1. WireOK'
  BY DEF WireOK, Sound
<1> QED
  BY <1>1 DEF Flow

\* the handlers of begin, commit and abort, and the housekeeper
LEMMA HandlerWire ==
    ASSUME WireOK, NEW t \in Targets, NEW u \in Uuids,
           TxnHandler(t, u) \/ Housekeeper(t, u) \/ CallFault(u, t)
    PROVE  Flow /\ [TTNext]_ttvars /\ pbmd' = pbmd
<1>1. UNCHANGED <<ms, q, lastSynced, unsynced, round, pbmd>>
  BY DEF TxnHandler, Housekeeper, CallFault, msvars, ptail, pvars
<1>2. net' \subseteq net
  BY DEF TxnHandler, Housekeeper, CallFault, Take
<1>3. TTStep(t) \/ UNCHANGED ttvars
  BY DEF TxnHandler, Housekeeper, CallFault, TTStep
<1> QED
  BY <1>1, <1>2, <1>3, FewerWire DEF TTNext

\* the receipt of a BMD
LEMMA RxWire ==
    ASSUME WireOK, NEW t \in Targets, RxHandler(t)
    PROVE  Flow /\ [TTNext]_ttvars /\ pbmd' = pbmd
<1>1. UNCHANGED <<pbmd, q, round, lastSynced>>
  BY DEF RxHandler, pvars
<1>2. ASSUME NEW call, NEW accepted \in BOOLEAN, NEW calls \in SUBSET net, MsReply(call, accepted, calls)
      PROVE  Flow
  <2>1. Sound(calls)
    BY DEF WireOK, Sound
  <2>2. /\ Sound(net') /\ MsKept /\ unsynced' \subseteq Targets
        /\ \A c \in net' : c.k = "bmd" => c \in calls \/ OfMs(c)
    BY <1>2, <2>1, ReplyOK
  <2>3. WireOK'
    BY <1>1, <2>2 DEF WireOK, MsKept, SameRound
  <2> QED
    BY <1>1, <2>2, <2>3 DEF Flow, MsKept
<1>3. ASSUME NEW call \in net, call.k = "bmd", call.t = t,
             \/ call.u = NoTxn /\ RxPlainOK(t, call.bmd) /\ MsReply(call, TRUE, net \ {call})
             \/ call.u = NoTxn /\ RxPlainErr(t, call.bmd) /\ MsReply(call, FALSE, net \ {call})
             \/ call.u # NoTxn /\ RxBefore(t, call.u, call.bmd) /\ net' = net \ {call} /\ UNCHANGED <<ms, unsynced>>
             \/ call.u # NoTxn /\ RxDup(t, call.u) /\ MsReply(call, FALSE, net \ {call})
      PROVE  Flow /\ [TTNext]_ttvars
  <2>1. call.bmd \in BMDs /\ call.u \in Txns
    BY <1>3 DEF WireOK, Sound
  <2>2. TTStep(t) \/ UNCHANGED ttvars
    BY <1>3, <2>1 DEF TTStep, RxPlainErr, RxDup, Txns
  <2>3. Flow
    <3>1. CASE MsReply(call, TRUE, net \ {call})
      BY <1>2, <3>1
    <3>2. CASE MsReply(call, FALSE, net \ {call})
      BY <1>2, <3>2
    <3>3. CASE net' = net \ {call} /\ UNCHANGED <<ms, unsynced>>
      BY <1>1, <3>3, FewerWire
    <3> QED
      BY <1>3, <3>1, <3>2, <3>3
  <2> QED
    BY <2>2, <2>3 DEF TTNext
<1>4. CASE RxApply(t) /\ UNCHANGED <<net, ms, unsynced>>
  <2>1. TTStep(t)
    BY <1>4 DEF TTStep
  <2> QED
    BY <1>1, <1>4, <2>1, FewerWire DEF TTNext
<1>5. CASE RxAfter(t) /\ MsReply(rxcall[t], RxAccepted(t), net)
  <2>1. TTStep(t)
    BY <1>5 DEF TTStep
  <2>2. RxAccepted(t) \in BOOLEAN
    BY DEF RxAccepted
  <2> QED
    BY <1>1, <1>2, <1>5, <2>1, <2>2 DEF TTNext
<1> QED
  BY <1>1, <1>3, <1>4, <1>5 DEF RxHandler

\* a metasync call that times out or is refused
LEMMA FaultWire ==
    ASSUME WireOK, NEW t \in Targets, MsFault(t)
    PROVE  Flow /\ UNCHANGED <<ttvars, pbmd>>
<1>1. UNCHANGED <<ttvars, pbmd, q, round, lastSynced>> /\ ms \in RoundRec /\ t \in DOMAIN ms.try
  BY SMTT(30) DEF MsFault, pvars, WireOK, MsIdle
<1>2. PICK calls \in {net, net \ {MsCall(t, ms.try[t])}} : MsRetry(t, calls)
  BY DEF MsFault
<1>3. Sound(calls) /\ calls \subseteq net
  BY DEF WireOK, Sound
<1>4. /\ Sound(net') /\ SameRound /\ unsynced' \subseteq Targets
      /\ \A call \in net' : call.k = "bmd" => call \in calls \/ OfMs(call)
  BY <1>1, <1>2, <1>3, RetryOK
<1>5. WireOK'
  BY <1>1, <1>4 DEF WireOK, SameRound
<1> QED
  BY <1>1, <1>3, <1>4, <1>5 DEF Flow

\* every step: what is on the wire, and what the targets see of it
LEMMA WireStep ==
    ASSUME WireOK, pbmd \in BMDs, [Next]_vars
    PROVE  /\ Flow
           /\ [TTNext]_ttvars
           /\ pbmd' = pbmd \/ (UNCHANGED ttvars /\ \E u \in Uuids : Modify(u) \/ Undo(u))
<1>1. ASSUME NEW u \in Uuids, Request(u)
      PROVE  Flow /\ UNCHANGED ttvars /\ (pbmd' = pbmd \/ Modify(u) \/ Undo(u))
  <2>1. Flow /\ UNCHANGED ttvars
    BY <1>1, RequestWire
  <2>2. pbmd' = pbmd \/ Modify(u) \/ Undo(u)
    BY <1>1 DEF Request, StartLock, StartProps, StartNotFound, Locked, LockedExists, BeginDone, ModifyErr,
           ModifyPanic, Post, CommitDone, AbortDone, UndoPost
  <2> QED
    BY <2>1, <2>2
<1>2. CASE UNCHANGED vars
  <2>1. UNCHANGED <<net, ms, q, lastSynced, unsynced, round, ttvars, pbmd>>
    BY <1>2 DEF vars, msvars, pvars
  <2> QED
    BY <2>1, FewerWire
<1> QED
  BY <1>1, <1>2, MetasyncerWire, HandlerWire, RxWire, FaultWire DEF Next, Finished

\* no call is on the wire at the start
LEMMA InitWire == Init /\ pbmd \in BMDs => WireOK
<1> SUFFICES ASSUME Init, pbmd \in BMDs
             PROVE  WireOK
  OBVIOUS
<1>1. net = {} /\ ms = MsIdle /\ q = <<>> /\ lastSynced = pbmd /\ unsynced = {} /\ round = 0
  BY DEF Init
<1>2. Sound(net)
  BY <1>1 DEF Sound
<1>3. q \in Seq(QRec)
  BY <1>1, SMTT(30)
<1> QED
  BY <1>1, <1>2, <1>3 DEF WireOK

\* whatever the primary, the metasyncer and the network do, each target sees a sequence
\* of begins, commits, aborts and BMDs of module TargetTxns: the cluster implements it
THEOREM ClusterRunsTargets == Spec /\ [](pbmd \in BMDs) => TTSpec
<1>1. Init => TTInit
  BY DEF Init
<1>2. WireOK /\ pbmd \in BMDs /\ [Next]_vars => WireOK' /\ [TTNext]_ttvars
  BY WireStep DEF Flow
<1> QED
  BY <1>1, <1>2, InitWire, PTL DEF Spec, TTSpec

\* hence txns owns the bucket locks of every target, whichever transactions the cluster
\* runs and whatever is lost, late, retried or reclaimed
THEOREM ClusterLocksAreOwned == Spec /\ [](pbmd \in BMDs) => []LockOwnership
  BY ClusterRunsTargets, LocksAreOwned, PTL

\* and no target of the cluster goes back to an older BMD
THEOREM ClusterBMDNeverGoesBack == Spec /\ [](pbmd \in BMDs) => NoDowngrade
  BY ClusterRunsTargets, BMDNeverGoesBack, PTL

-----------------------------------------------------------------------------
(* One version, one content *)

\* a BMD that is not ahead of the primary's, and the same if it has its version
Known(bmd) == bmd.ver <= pbmd.ver /\ (bmd.ver = pbmd.ver => bmd = pbmd)

KnownEverywhere ==
    /\ \A t \in Targets : Known(tbmd[t]) /\ (rx[t] # RxIdle => Known(rx[t].bmd))
    /\ \A call \in net : call.k = "bmd" => Known(call.bmd)
    /\ ms \in RoundRec => Known(ms.bmd)
    /\ Known(lastSynced)

\* owner.bmd.modify makes a newer version
LEMMA ModifyGrows ==
    ASSUME pbmd \in BMDs, NEW u \in Uuids, Modify(u) \/ Undo(u)
    PROVE  pbmd' = pbmd \/ pbmd'.ver > pbmd.ver
<1>1. pbmd.ver \in Nat
  BY TTAssumption DEF TTAssumption
<1>2. ASSUME NEW b, NEW val
      PROVE  add(pbmd, b, val).ver > pbmd.ver /\ del(pbmd, b).ver > pbmd.ver /\ set(pbmd, b, val).ver > pbmd.ver
  BY <1>1, SMTT(30) DEF add, del, set
<1>3. CASE Undo(u)
  BY <1>2, <1>3 DEF Undo
<1>4. CASE Modify(u)
  <2>1. \/ pbmd' = add(pbmd, BckOf[u], u) \/ pbmd' = del(pbmd, BckOf[u]) \/ pbmd' = set(pbmd, BckOf[u], u)
    BY <1>4 DEF Modify
  <2> QED
    BY <1>2, <2>1
<1> QED
  BY <1>3, <1>4

\* what was known stays known
LEMMA KnownStays ==
    ASSUME WireOK, pbmd \in BMDs, pbmd' \in BMDs, [Next]_vars, NEW bmd \in BMDs, Known(bmd)
    PROVE  bmd.ver <= pbmd'.ver /\ (bmd.ver = pbmd'.ver => bmd = pbmd')
<1>1. pbmd' = pbmd \/ pbmd'.ver > pbmd.ver
  BY WireStep, ModifyGrows
<1>2. bmd.ver \in Nat /\ pbmd.ver \in Nat /\ pbmd'.ver \in Nat
  BY TTAssumption DEF TTAssumption
<1> QED
  BY <1>1, <1>2, SMTT(30) DEF Known

\* where the BMD that a target has, or is about to apply, comes from
From(s) ==
    /\ \/ tbmd'[s] = tbmd[s]
       \/ rx[s] # RxIdle /\ tbmd'[s] = rx[s].bmd
       \/ \E call \in net : call.k = "bmd" /\ tbmd'[s] = call.bmd
    /\ \/ rx'[s] = rx[s] \/ rx'[s] = RxIdle
       \/ rx[s] # RxIdle /\ rx'[s].bmd = rx[s].bmd /\ rx'[s].u = rx[s].u
       \/ \E call \in net : call.k = "bmd" /\ call.u # NoTxn /\ rx'[s].bmd = call.bmd /\ rx'[s].u = call.u

\* the receipt of a BMD
LEMMA RxFrom ==
    ASSUME TTTypeOK, NEW t \in Targets, RxHandler(t)
    PROVE  \A s \in Targets : From(s)
<1>1. DOMAIN tbmd = Targets /\ DOMAIN rx = Targets
  BY DEF TTTypeOK
<1>2. ASSUME NEW call \in net, call.k = "bmd", RxPlainOK(t, call.bmd)
      PROVE  \A s \in Targets : From(s)
  BY <1>1, <1>2 DEF RxPlainOK, From
<1>3. ASSUME NEW call \in net, call.k = "bmd", call.u # NoTxn, RxBefore(t, call.u, call.bmd)
      PROVE  \A s \in Targets : From(s)
  <2> DEFINE r == [step |-> "apply", u |-> call.u, bmd |-> call.bmd]
  <2>1. rx' = [rx EXCEPT ![t] = r] /\ r.bmd = call.bmd /\ r.u = call.u /\ tbmd' = tbmd
    BY <1>3 DEF RxBefore
  <2> HIDE DEF r
  <2> QED
    BY <1>1, <1>3, <2>1 DEF From
<1>4. CASE UNCHANGED ttvars
  BY <1>4 DEF From, ttvars
<1>5. CASE RxApply(t)
  <2>1. rx[t] # RxIdle
    BY <1>5, SMTT(30) DEF RxApply, RxIdle
  <2>2. PICK err : /\ tbmd' = IF err = "ok" /\ rx[t].bmd.ver > tbmd[t].ver
                              THEN [tbmd EXCEPT ![t] = rx[t].bmd] ELSE tbmd
                   /\ rx' = [rx EXCEPT ![t] = [step |-> "after", u |-> rx[t].u, bmd |-> rx[t].bmd, err |-> err]]
    BY <1>5 DEF RxApply
  <2> DEFINE r == [step |-> "after", u |-> rx[t].u, bmd |-> rx[t].bmd, err |-> err]
  <2>3. r.bmd = rx[t].bmd /\ r.u = rx[t].u /\ rx' = [rx EXCEPT ![t] = r]
    BY <2>2
  <2> HIDE DEF r
  <2> QED
    BY <1>1, <2>1, <2>2, <2>3 DEF From
<1>6. CASE RxAfter(t)
  BY <1>1, <1>6 DEF RxAfter, From
<1> QED
  BY <1>2, <1>3, <1>4, <1>5, <1>6 DEF RxHandler, RxPlainErr, RxDup

\* every step
LEMMA AllFrom ==
    ASSUME WireOK, TTTypeOK, pbmd \in BMDs, [Next]_vars
    PROVE  \A s \in Targets : From(s)
<1>1. ASSUME UNCHANGED <<tbmd, rx>>
      PROVE  \A s \in Targets : From(s)
  BY <1>1 DEF From
<1>2. ASSUME NEW t \in Targets, NEW u \in Uuids, TxnHandler(t, u) \/ Housekeeper(t, u) \/ CallFault(u, t)
      PROVE  UNCHANGED <<tbmd, rx>>
  BY <1>2 DEF TxnHandler, Housekeeper, CallFault, BeginCreate, BeginFail, BeginPoll, BeginLocked, BeginBusy,
         CommitWait, CommitRefuse, CommitOK, CommitFail, Abort, GC, Cleanup, ttvars
<1>3. CASE UNCHANGED ttvars
  BY <1>1, <1>3 DEF ttvars
<1>4. CASE UNCHANGED vars
  BY <1>3, <1>4 DEF vars
<1>5. ASSUME NEW u \in Uuids, Request(u)
      PROVE  UNCHANGED ttvars
  BY <1>5, RequestWire
<1> QED
  BY <1>1, <1>2, <1>3, <1>4, <1>5, MetasyncerWire, FaultWire, RxFrom DEF Next, Finished

\* and it is known
LEMMA KnownStep ==
    ASSUME WireOK, TTTypeOK, TTTypeOK', pbmd \in BMDs, pbmd' \in BMDs, KnownEverywhere, [Next]_vars
    PROVE  KnownEverywhere'
<1> DEFINE OK(bmd) == bmd \in BMDs /\ Known(bmd)
<1>1. ASSUME NEW bmd, OK(bmd)
      PROVE  bmd.ver <= pbmd'.ver /\ (bmd.ver = pbmd'.ver => bmd = pbmd')
  BY <1>1, KnownStays
<1>2. /\ \A call \in net : call.k = "bmd" => OK(call.bmd)
      /\ ms \in RoundRec => OK(ms.bmd)
      /\ OK(lastSynced) /\ OK(pbmd)
  <2>1. pbmd.ver \in Nat
    BY TTAssumption DEF TTAssumption
  <2>2. \A call \in net : call.k = "bmd" => OK(call.bmd)
    BY DEF WireOK, Sound, KnownEverywhere
  <2>3. ASSUME ms \in RoundRec
        PROVE  OK(ms.bmd)
    <3>1. ms.bmd \in BMDs
      BY <2>3 DEF RoundRec
    <3> QED
      BY <2>3, <3>1 DEF KnownEverywhere
  <2>4. OK(lastSynced)
    BY DEF WireOK, KnownEverywhere
  <2>5. OK(pbmd)
    BY <2>1, SMTT(30) DEF Known
  <2> QED
    BY <2>2, <2>3, <2>4, <2>5
<1>3. \A t \in Targets : OK(tbmd[t]) /\ (rx[t] # RxIdle => OK(rx[t].bmd))
  BY DEF TTTypeOK, KnownEverywhere
<1> HIDE DEF OK
<1>4. Flow
  BY WireStep
<1>5. \A call \in net' : call.k = "bmd" => OK(call.bmd)
  BY <1>2, <1>4 DEF Flow, OfMs
<1>6. OK(lastSynced') /\ (ms' \in RoundRec => OK(ms'.bmd))
  <2>1. MsIdle \notin RoundRec
    BY DEF MsIdle, RoundRec
  <2> QED
    BY <1>2, <1>4, <2>1 DEF Flow, SameRound
<1>7. \A s \in Targets : OK(tbmd'[s]) /\ (rx'[s] # RxIdle => OK(rx'[s].bmd))
  BY <1>2, <1>3, AllFrom, SMTT(30) DEF From
<1> QED
  BY <1>1, <1>5, <1>6, <1>7 DEF KnownEverywhere, Known

\* versions identify contents: whatever requests run concurrently and whatever is lost or
\* late, no target is ahead of the primary, and a target that has the primary's version
\* has the primary's buckets and props
THEOREM VersionsIdentify == Spec /\ [](pbmd \in BMDs) => []SameVersionSameBMD
<1>1. Init /\ pbmd \in BMDs => KnownEverywhere
  <2> SUFFICES ASSUME Init, pbmd \in BMDs
               PROVE  KnownEverywhere
    OBVIOUS
  <2>1. pbmd.ver \in Nat
    BY TTAssumption DEF TTAssumption
  <2>2. MsIdle \notin RoundRec
    BY DEF MsIdle, RoundRec
  <2>3. net = {} /\ ms = MsIdle /\ lastSynced = pbmd /\ tbmd = [t \in Targets |-> pbmd]
    BY DEF Init
  <2>4. rx = [t \in Targets |-> RxIdle]
    BY DEF Init, TTInit
  <2>5. Known(pbmd)
    BY <2>1, SMTT(30) DEF Known
  <2> QED
    BY <2>2, <2>3, <2>4, <2>5 DEF KnownEverywhere
<1>2. WireOK /\ pbmd \in BMDs /\ [Next]_vars => WireOK'
  BY WireStep DEF Flow
<1>3. /\ KnownEverywhere /\ WireOK /\ TTTypeOK /\ TTTypeOK' /\ pbmd \in BMDs /\ (pbmd \in BMDs)' /\ [Next]_vars
      => KnownEverywhere'
  BY KnownStep
<1>4. KnownEverywhere => SameVersionSameBMD
  BY DEF KnownEverywhere, Known, SameVersionSameBMD
<1> QED
  BY <1>1, <1>2, <1>3, <1>4, InitWire, ClusterRunsTargets, TTTypeCorrect, PTL DEF Spec

-----------------------------------------------------------------------------
(* The primary: types, who moves whom *)

\* the types of what the requests and the network keep
PTypes ==
    /\ pc \in [Uuids -> PCs]
    /\ wait \in [Uuids -> SUBSET Targets]
    /\ bad \in [Uuids -> BOOLEAN]
    /\ mine \in [Uuids -> Nat]
    /\ \A call \in net : call \in Calls \/ call.k = "bmd"
    /\ DOMAIN rxcall = Targets
    /\ faults \in 0..MaxFaults

\* a broadcast keeps the types
LEMMA BcastTypes ==
    ASSUME PTypes, NEW u \in Uuids, NEW phase \in Phases, Bcast(u, phase)
    PROVE  /\ pc' \in [Uuids -> PCs] /\ wait' \in [Uuids -> SUBSET Targets] /\ bad' \in [Uuids -> BOOLEAN]
           /\ \A call \in net' : call \in Calls \/ call.k = "bmd"
<1>1. phase \in PCs
  BY DEF PCs
<1>2. \A t \in Targets : [k |-> phase, u |-> u, t |-> t] \in Calls
  BY DEF Calls
<1> QED
  BY <1>1, <1>2 DEF PTypes, Bcast, Goto

\* every step of a request moves its goroutine, never from waiting for the metasyncer
LEMMA RequestMoves ==
    ASSUME NEW u \in Uuids, Request(u)
    PROVE  /\ \E l \in PCs : Goto(u, l)
           /\ pc[u] # "sync"
           /\ ms' = ms /\ rxcall' = rxcall
           /\ faults' = faults \/ Fault
<1>1. \E l \in PCs : Goto(u, l)
  BY DEF Request, StartLock, StartProps, StartNotFound, Locked, LockedExists, BeginDone, Modify, ModifyErr,
         ModifyPanic, Post, CommitDone, AbortDone, Undo, UndoPost, Bcast, Return, PCs, Phases
<1>2. pc[u] # "sync"
  BY DEF Request, StartLock, StartProps, StartNotFound, Locked, LockedExists, BeginDone, Modify, ModifyErr,
         ModifyPanic, Post, CommitDone, AbortDone, Undo, UndoPost
<1>3. ms' = ms /\ rxcall' = rxcall /\ (faults' = faults \/ Fault)
  BY DEF Request, StartLock, StartProps, StartNotFound, Locked, LockedExists, BeginDone, Modify, ModifyErr,
         ModifyPanic, Post, CommitDone, AbortDone, Undo, UndoPost, msvars
<1> QED
  BY <1>1, <1>2, <1>3

\* no one else moves a goroutine, but the metasyncer at the end of a round
PrimaryKept == UNCHANGED <<pbmd, plocks, pc, mine, q>>

\* the handlers' answers
LEMMA ReplyTypes ==
    ASSUME PTypes, NEW phase, NEW u \in Uuids, NEW t, NEW ok \in BOOLEAN, Reply(phase, u, t, ok)
    PROVE  wait' \in [Uuids -> SUBSET Targets] /\ bad' \in [Uuids -> BOOLEAN]
<1>1. CASE pc[u] = phase /\ t \in wait[u]
  <2>1. wait' = [wait EXCEPT ![u] = @ \ {t}] /\ bad' = [bad EXCEPT ![u] = @ \/ ~ok]
    BY <1>1 DEF Reply
  <2>2. wait[u] \ {t} \in SUBSET Targets /\ (bad[u] \/ ~ok) \in BOOLEAN
    BY DEF PTypes
  <2> QED
    BY <2>1, <2>2 DEF PTypes
<1>2. CASE ~(pc[u] = phase /\ t \in wait[u])
  BY <1>2 DEF PTypes, Reply
<1> QED
  BY <1>1, <1>2

\* the handlers of begin, commit and abort, the housekeeper, and calls that time out
LEMMA HandlerTypes ==
    ASSUME PTypes, NEW t \in Targets, NEW u \in Uuids,
           TxnHandler(t, u) \/ Housekeeper(t, u) \/ CallFault(u, t)
    PROVE  /\ PrimaryKept /\ ms' = ms /\ rxcall' = rxcall /\ net' \subseteq net
           /\ wait' \in [Uuids -> SUBSET Targets] /\ bad' \in [Uuids -> BOOLEAN]
           /\ faults' = faults \/ Fault
<1>1. PrimaryKept /\ ms' = ms /\ rxcall' = rxcall /\ (faults' = faults \/ Fault)
  BY DEF PrimaryKept, TxnHandler, Housekeeper, CallFault, msvars, ptail, pvars
<1>2. net' \subseteq net
  BY DEF TxnHandler, Housekeeper, CallFault, Take
<1>3. \/ UNCHANGED <<wait, bad>>
      \/ \E phase : \E ok \in BOOLEAN : Reply(phase, u, t, ok)
  BY DEF TxnHandler, Housekeeper, CallFault, pvars
<1>4. wait' \in [Uuids -> SUBSET Targets] /\ bad' \in [Uuids -> BOOLEAN]
  <2>1. CASE UNCHANGED <<wait, bad>>
    BY <2>1 DEF PTypes
  <2>2. ASSUME NEW phase, NEW ok \in BOOLEAN, Reply(phase, u, t, ok)
        PROVE  wait' \in [Uuids -> SUBSET Targets] /\ bad' \in [Uuids -> BOOLEAN]
    BY <2>2, ReplyTypes
  <2> QED
    BY <1>3, <2>1, <2>2
<1> QED
  BY <1>1, <1>2, <1>4

\* the receipt of a BMD, and the faults of the metasyncer's calls
LEMMA RxKeeps ==
    ASSUME NEW t \in Targets, RxHandler(t) \/ MsFault(t)
    PROVE  /\ PrimaryKept /\ UNCHANGED <<wait, bad, round, lastSynced>>
           /\ faults' = faults \/ Fault
           /\ DOMAIN rxcall' = DOMAIN rxcall
<1>1. PrimaryKept /\ UNCHANGED <<wait, bad, round, lastSynced>>
  BY DEF PrimaryKept, RxHandler, MsFault, pvars
<1>2. faults' = faults \/ Fault
  BY DEF RxHandler, MsFault
<1>3. DOMAIN rxcall' = DOMAIN rxcall
  BY DEF RxHandler, MsFault
<1> QED
  BY <1>1, <1>2, <1>3

\* the metasyncer only ever puts BMDs on the wire
LEMMA RxCalls ==
    ASSUME NEW t \in Targets, RxHandler(t) \/ MsFault(t)
    PROVE  \A call \in net' : call \in net \/ call.k = "bmd"
<1>1. ASSUME NEW s, NEW calls \in SUBSET net, MsRetry(s, calls)
      PROVE  \A call \in net' : call \in net \/ call.k = "bmd"
  <2>1. MsCall(s, ms.try[s] + 1).k = "bmd"
    BY DEF MsCall
  <2> QED
    BY <1>1, <2>1 DEF MsRetry
<1>2. ASSUME NEW call, NEW accepted, NEW calls \in SUBSET net, MsReply(call, accepted, calls)
      PROVE  \A c \in net' : c \in net \/ c.k = "bmd"
  BY <1>1, <1>2 DEF MsReply
<1>3. CASE MsFault(t)
  BY <1>1, <1>3 DEF MsFault
<1>4. CASE RxHandler(t)
  <2>1. \/ net' \subseteq net
        \/ \E call, accepted : \E calls \in SUBSET net : MsReply(call, accepted, calls)
    BY <1>4 DEF RxHandler
  <2> QED
    BY <1>2, <2>1
<1> QED
  BY <1>3, <1>4

\* and stays within its round
LEMMA RxRound ==
    ASSUME WireOK, NEW t \in Targets, RxHandler(t) \/ MsFault(t)
    PROVE  MsKept /\ \A c \in net' : c.k = "bmd" => c \in net \/ OfMs(c)
<1>1. ASSUME NEW calls \in SUBSET net
      PROVE  Sound(calls)
  BY DEF WireOK, Sound
<1>2. ASSUME NEW call, NEW accepted \in BOOLEAN, NEW calls \in SUBSET net, MsReply(call, accepted, calls)
      PROVE  MsKept /\ \A c \in net' : c.k = "bmd" => c \in net \/ OfMs(c)
  BY <1>1, <1>2, ReplyOK
<1>3. CASE MsFault(t)
  <2>1. ms \in RoundRec /\ t \in DOMAIN ms.try
    BY <1>3, SMTT(30) DEF MsFault, WireOK, MsIdle
  <2>2. PICK calls \in SUBSET net : MsRetry(t, calls)
    BY <1>3 DEF MsFault
  <2> QED
    BY <1>1, <2>1, <2>2, RetryOK DEF MsKept
<1>4. CASE RxHandler(t)
  <2>1. RxAccepted(t) \in BOOLEAN
    BY DEF RxAccepted
  <2>2. \/ net' \subseteq net /\ ms' = ms
        \/ \E call : \E accepted \in BOOLEAN : \E calls \in SUBSET net : MsReply(call, accepted, calls)
    BY <1>4, <2>1 DEF RxHandler
  <2> QED
    BY <1>2, <2>2 DEF MsKept
<1> QED
  BY <1>3, <1>4

\* the metasyncer's own steps
LEMMA MetasyncerKeeps ==
    ASSUME WireOK, pbmd \in BMDs, Metasyncer
    PROVE  /\ UNCHANGED <<pbmd, plocks, mine, rxcall, faults>>
           /\ \/ MsDone /\ ms \in RoundRec /\ ms.waiter \in Uuids /\ Bcast(ms.waiter, "commit")
              \/ /\ UNCHANGED <<pc, wait, bad>>
                 /\ \A call \in net' : call \in net \/ call.k = "bmd"
<1>1. UNCHANGED <<pbmd, plocks, mine, rxcall, faults>>
  BY DEF Metasyncer, MsDo, MsPending, MsDone, pvars
<1>2. ASSUME NEW r, StartRound(r)
      PROVE  \A call \in net' : call \in net \/ call.k = "bmd"
  BY <1>2, SMTT(30) DEF StartRound
<1>3. CASE MsDo \/ MsPending
  BY <1>2, <1>3 DEF MsDo, MsPending, pvars
<1>4. CASE MsDone
  <2>1. ms \in RoundRec
    BY <1>4, SMTT(30) DEF MsDone, WireOK, MsIdle
  <2>2. ms.waiter = NoTxn \/ ms.waiter \in Uuids
    BY <2>1 DEF RoundRec, Txns
  <2> QED
    BY <1>4, <2>1, <2>2 DEF MsDone, Nobody
<1> QED
  BY <1>1, <1>3, <1>4 DEF Metasyncer

\* the environment's failures stay within their budget
LEMMA FaultBudget ==
    ASSUME faults \in 0..MaxFaults, faults' = faults \/ Fault
    PROVE  faults' \in 0..MaxFaults
  BY BTAssumption, SMTT(30) DEF Fault, BTAssumption

\* every step keeps the types
LEMMA PTypesStep ==
    ASSUME PTypes, WireOK, pbmd \in BMDs, pbmd' \in BMDs, [Next]_vars
    PROVE  PTypes'
<1>1. ASSUME NEW u \in Uuids, Request(u)
      PROVE  PTypes'
  <2>1. PICK l \in PCs : Goto(u, l)
    BY <1>1, RequestMoves
  <2>2. pc' \in [Uuids -> PCs]
    BY <2>1 DEF PTypes, Goto
  <2>3. DOMAIN rxcall' = Targets /\ faults' \in 0..MaxFaults
    BY <1>1, RequestMoves, FaultBudget DEF PTypes
  <2>4. UNCHANGED <<wait, bad, net>> \/ \E phase \in Phases : Bcast(u, phase)
    BY <1>1 DEF Request, StartLock, StartProps, StartNotFound, Locked, LockedExists, BeginDone, Modify,
           ModifyErr, ModifyPanic, Post, CommitDone, AbortDone, Undo, UndoPost, Phases
  <2>5. /\ wait' \in [Uuids -> SUBSET Targets] /\ bad' \in [Uuids -> BOOLEAN]
        /\ \A call \in net' : call \in Calls \/ call.k = "bmd"
    <3>1. CASE UNCHANGED <<wait, bad, net>>
      BY <3>1 DEF PTypes
    <3>2. ASSUME NEW phase \in Phases, Bcast(u, phase)
          PROVE  /\ wait' \in [Uuids -> SUBSET Targets] /\ bad' \in [Uuids -> BOOLEAN]
                 /\ \A call \in net' : call \in Calls \/ call.k = "bmd"
      BY <3>2, BcastTypes
    <3> QED
      BY <2>4, <3>1, <3>2
  <2>6. mine' \in [Uuids -> Nat]
    <3>1. pbmd'.ver \in Nat
      BY TTAssumption DEF TTAssumption
    <3>2. mine' = mine \/ mine' = [mine EXCEPT ![u] = pbmd'.ver]
      BY <1>1 DEF Request, StartLock, StartProps, StartNotFound, Locked, LockedExists, BeginDone, Modify,
             ModifyErr, ModifyPanic, Post, CommitDone, AbortDone, Undo, UndoPost
    <3> QED
      BY <3>1, <3>2 DEF PTypes
  <2> QED
    BY <2>2, <2>3, <2>5, <2>6 DEF PTypes
<1>2. CASE Metasyncer
  <2>1. mine' \in [Uuids -> Nat] /\ DOMAIN rxcall' = Targets /\ faults' \in 0..MaxFaults
    BY <1>2, MetasyncerKeeps DEF PTypes
  <2>2. CASE ms.waiter \in Uuids /\ Bcast(ms.waiter, "commit")
    <3>1. "commit" \in Phases
      BY DEF Phases
    <3> QED
      BY <2>1, <2>2, <3>1, BcastTypes DEF PTypes
  <2>3. CASE UNCHANGED <<pc, wait, bad>> /\ \A call \in net' : call \in net \/ call.k = "bmd"
    BY <2>1, <2>3 DEF PTypes
  <2> QED
    BY <1>2, <2>2, <2>3, MetasyncerKeeps
<1>3. ASSUME NEW t \in Targets, RxHandler(t) \/ MsFault(t)
      PROVE  PTypes'
  BY <1>3, RxKeeps, RxCalls, FaultBudget DEF PTypes, PrimaryKept
<1>4. ASSUME NEW t \in Targets, NEW u \in Uuids, TxnHandler(t, u) \/ Housekeeper(t, u) \/ CallFault(u, t)
      PROVE  PTypes'
  BY <1>4, HandlerTypes, FaultBudget DEF PTypes, PrimaryKept
<1>5. CASE UNCHANGED vars
  BY <1>5 DEF vars, pvars, PTypes
<1> QED
  BY <1>1, <1>2, <1>3, <1>4, <1>5 DEF Next, Finished

-----------------------------------------------------------------------------
(* The primary's bucket locks *)

\* between nlp.Lock() and the deferred unlock of createBucket and destroyBucket
Holding == {"begin", "modify", "post", "sync", "commit", "abort", "undo", "undopost"}
Holds(u) == OpOf[u] \in {"create", "destroy"} /\ pc[u] \in Holding

\* a bucket is locked exactly while one request holds it
PLocksOK ==
    /\ \A u \in Uuids : pc[u] = "lock" => OpOf[u] \in {"create", "destroy"}
    /\ \A u \in Uuids : Holds(u) => BckOf[u] \in DOMAIN plocks
    /\ \A b \in DOMAIN plocks : \E u \in Uuids : Holds(u) /\ BckOf[u] = b
    /\ \A u, v \in Uuids : Holds(u) /\ Holds(v) /\ BckOf[u] = BckOf[v] => u = v

\* what a request's step does to the locks: nothing, or it takes or releases its own
Keeps(u) == plocks' = plocks /\ (Holds(u)' <=> Holds(u))
Takes(u) == /\ BckOf[u] \notin DOMAIN plocks /\ DOMAIN plocks' = DOMAIN plocks \cup {BckOf[u]}
            /\ Holds(u)'
Frees(u) == /\ Holds(u) /\ ~Holds(u)'
            /\ DOMAIN plocks' = DOMAIN plocks \ {BckOf[u]}

\* a request that returns releases its lock (the deferred unlock), if it took one
LEMMA ReturnFrees ==
    ASSUME pc \in [Uuids -> PCs], NEW u \in Uuids, NEW res \in Final, pc[u] \in Holding, Return(u, res)
    PROVE  Keeps(u) \/ Frees(u)
<1>1. pc'[u] = res /\ res \notin Holding
  BY DEF Return, Goto, Final, Holding
<1>2. CASE OpOf[u] \in {"create", "destroy"}
  <2>1. plocks' = DelEntry(plocks, BckOf[u])
    BY <1>2 DEF Return, Unlock
  <2>2. DOMAIN plocks' = DOMAIN plocks \ {BckOf[u]}
    BY <2>1 DEF DelEntry
  <2> QED
    BY <1>1, <1>2, <2>2 DEF Frees, Holds
<1>3. CASE OpOf[u] \notin {"create", "destroy"}
  BY <1>3 DEF Return, Keeps, Holds
<1> QED
  BY <1>2, <1>3

\* a request's step on the locks, one case per place in the handler
LEMMA LockStep ==
    ASSUME pc \in [Uuids -> PCs], PLocksOK, NEW u \in Uuids, Request(u)
    PROVE  Keeps(u) \/ Takes(u) \/ Frees(u)
<1>1. ASSUME NEW l, Goto(u, l)
      PROVE  pc'[u] = l
  BY <1>1 DEF Goto
<1>2. CASE StartLock(u) \/ LockedExists(u)
  BY <1>1, <1>2 DEF StartLock, LockedExists, Keeps, Holds, Holding
<1>3. CASE StartProps(u) \/ StartNotFound(u) \/ ModifyPanic(u)
  BY <1>1, <1>3 DEF StartProps, StartNotFound, ModifyPanic, NeedsBck, Keeps, Holds
<1>4. CASE BeginDone(u) \/ Modify(u) \/ ModifyErr(u) \/ Post(u)
  BY <1>1, <1>4 DEF BeginDone, Modify, ModifyErr, Post, Bcast, Keeps, Holds, Holding
<1>5. CASE Locked(u)
  <2>1. BckOf[u] \notin DOMAIN plocks
    BY <1>5 DEF Locked, TryOK
  <2>2. DOMAIN plocks' = DOMAIN plocks \cup {BckOf[u]}
    BY <1>5 DEF Locked, TryLock, SetEntry
  <2>3. pc'[u] = "begin"
    BY <1>1, <1>5 DEF Locked, Bcast
  <2>4. OpOf[u] \in {"create", "destroy"}
    BY <1>5 DEF Locked, PLocksOK
  <2> QED
    BY <2>1, <2>2, <2>3, <2>4 DEF Takes, Holds, Holding
<1>6. CASE CommitDone(u)
  <2>1. pc[u] \in Holding /\ "undo" \in Holding /\ "abort" \in Holding /\ "ok" \in Final
    BY <1>6 DEF CommitDone, Holding, Final
  <2>2. CASE Return(u, "ok")
    BY <2>1, <2>2, ReturnFrees
  <2>3. CASE (Goto(u, "undo") \/ Bcast(u, "abort")) /\ plocks' = plocks
    BY <1>1, <2>1, <2>3 DEF Bcast, Keeps, Holds
  <2> QED
    BY <1>6, <2>2, <2>3 DEF CommitDone
<1>7. CASE AbortDone(u) \/ Undo(u) \/ UndoPost(u)
  <2>1. pc[u] \in Holding /\ "undo" \in Holding /\ "undopost" \in Holding /\ "err" \in Final
    BY <1>7 DEF AbortDone, Undo, UndoPost, Holding, Final
  <2>2. CASE Return(u, "err")
    BY <2>1, <2>2, ReturnFrees
  <2>3. CASE (Goto(u, "undo") \/ Goto(u, "undopost")) /\ plocks' = plocks
    BY <1>1, <2>1, <2>3 DEF Keeps, Holds
  <2> QED
    BY <1>7, <2>2, <2>3 DEF AbortDone, Undo, UndoPost
<1> QED
  BY <1>2, <1>3, <1>4, <1>5, <1>6, <1>7 DEF Request

\* the locks are exact, whichever requests run and however they end
LEMMA PLocksStep ==
    ASSUME PTypes, PLocksOK, WireOK, pbmd \in BMDs, [Next]_vars,
           ms \in RoundRec /\ ms.waiter \in Uuids => pc[ms.waiter] = "sync"
    PROVE  PLocksOK'
<1> USE DEF PTypes
<1>1. ASSUME NEW u \in Uuids, Request(u)
      PROVE  PLocksOK'
  <2>1. PICK l \in PCs : Goto(u, l)
    BY <1>1, RequestMoves
  <2>2. \A v \in Uuids : v # u => pc'[v] = pc[v]
    BY <2>1 DEF Goto
  <2>3. \A v \in Uuids : v # u => (Holds(v)' <=> Holds(v))
    BY <2>2 DEF Holds
  <2>4. \A v \in Uuids : pc'[v] = "lock" => OpOf[v] \in {"create", "destroy"}
    <3>1. pc'[u] = "lock" => OpOf[u] \in {"create", "destroy"}
      BY <1>1 DEF Request, StartLock, StartProps, StartNotFound, Locked, LockedExists, BeginDone, Modify,
             ModifyErr, ModifyPanic, Post, CommitDone, AbortDone, Undo, UndoPost, Bcast, Goto, Return, Phases
    <3> QED
      BY <2>2, <3>1 DEF PLocksOK
  <2>5. CASE Keeps(u)
    <3>1. \A v \in Uuids : Holds(v)' <=> Holds(v)
      BY <2>3, <2>5 DEF Keeps
    <3>2. plocks' = plocks
      BY <2>5 DEF Keeps
    <3> QED
      BY <2>4, <3>1, <3>2 DEF PLocksOK
  <2>6. CASE Takes(u)
    <3>1. \A v \in Uuids : v # u /\ Holds(v) => BckOf[v] # BckOf[u]
      BY <2>6 DEF Takes, PLocksOK
    <3> QED
      BY <2>3, <2>4, <2>6, <3>1 DEF Takes, PLocksOK
  <2>7. CASE Frees(u)
    <3>1. \A v \in Uuids : v # u /\ Holds(v) => BckOf[v] # BckOf[u]
      BY <2>7 DEF Frees, PLocksOK
    <3> QED
      BY <2>3, <2>4, <2>7, <3>1 DEF Frees, PLocksOK
  <2> QED
    BY <1>1, <2>5, <2>6, <2>7, LockStep
<1>2. ASSUME UNCHANGED <<pc, plocks>>
      PROVE  PLocksOK'
  BY <1>2 DEF PLocksOK, Holds
<1>3. CASE Metasyncer
  <2>1. CASE UNCHANGED pc
    BY <1>2, <1>3, <2>1, MetasyncerKeeps
  <2>2. CASE MsDone /\ ms \in RoundRec /\ ms.waiter \in Uuids /\ Bcast(ms.waiter, "commit")
    <3>1. pc' = [pc EXCEPT ![ms.waiter] = "commit"] /\ pc[ms.waiter] = "sync"
      BY <2>2 DEF Bcast, Goto
    <3>2. \A v \in Uuids : (Holds(v)' <=> Holds(v)) /\ (pc'[v] = "lock" => pc[v] = "lock")
      BY <3>1 DEF Holds, Holding
    <3>3. plocks' = plocks
      BY <1>3, MetasyncerKeeps
    <3> QED
      BY <3>2, <3>3 DEF PLocksOK
  <2> QED
    BY <1>3, <2>1, <2>2, MetasyncerKeeps
<1>4. CASE UNCHANGED vars
  BY <1>2, <1>4 DEF vars, pvars
<1>5. ASSUME NEW t \in Targets, RxHandler(t) \/ MsFault(t)
      PROVE  PLocksOK'
  BY <1>2, <1>5, RxKeeps DEF PrimaryKept
<1>6. ASSUME NEW t \in Targets, NEW u \in Uuids, TxnHandler(t, u) \/ Housekeeper(t, u) \/ CallFault(u, t)
      PROVE  PLocksOK'
  BY <1>2, <1>6, HandlerTypes DEF PrimaryKept
<1> QED
  BY <1>1, <1>3, <1>4, <1>5, <1>6 DEF Next, Finished

-----------------------------------------------------------------------------
(* Who waits for the metasyncer *)

\* an entry of the queue, or a round, on behalf of a request that waits for it
Awaits(e, at) == e.u = e.waiter /\ (e.waiter # NoTxn => at[e.waiter] = "sync")

\* and each request waits in one place
WaitersOK ==
    /\ \A i \in DOMAIN q : Awaits(q[i], pc)
    /\ \A i, j \in DOMAIN q : q[i].waiter = q[j].waiter /\ q[i].waiter # NoTxn => i = j
    /\ ms \in RoundRec => /\ Awaits(ms, pc)
                          /\ \A i \in DOMAIN q : q[i].waiter = ms.waiter => ms.waiter = NoTxn

\* a goroutine that moves disturbs no one else's wait
LEMMA AwaitsStays ==
    ASSUME NEW u, NEW l, pc \in [Uuids -> PCs], Goto(u, l), NEW e, e.waiter \in Txns, e.waiter # u, Awaits(e, pc)
    PROVE  Awaits(e, pc')
  BY DEF Goto, Awaits, Txns

\* the queue grows at its end
LEMMA AppendQ ==
    ASSUME NEW s \in Seq(QRec), NEW e
    PROVE  /\ Len(s) \in Nat
           /\ DOMAIN Append(s, e) = DOMAIN s \cup {Len(s) + 1} /\ Len(s) + 1 \notin DOMAIN s
           /\ \A i \in DOMAIN s : Append(s, e)[i] = s[i]
           /\ Append(s, e)[Len(s) + 1] = e
  BY SMTT(30)

\* ... and is served at its head
LEMMA TailQ ==
    ASSUME NEW s \in Seq(QRec), s # <<>>
    PROVE  /\ 1 \in DOMAIN s /\ Head(s) = s[1]
           /\ \A i \in DOMAIN Tail(s) : i \in Nat /\ i + 1 \in DOMAIN s /\ Tail(s)[i] = s[i + 1] /\ i + 1 # 1
           /\ \A i, j \in DOMAIN Tail(s) : i + 1 = j + 1 => i = j
  BY SMTT(30)

\* every step keeps the waits: post joins the queue, a round takes its head, wg.Done releases
LEMMA WaitersStep ==
    ASSUME PTypes, WaitersOK, WireOK, pbmd \in BMDs, [Next]_vars
    PROVE  WaitersOK'
<1> USE DEF PTypes
<1>1. q \in Seq(QRec) /\ \A i \in DOMAIN q : q[i] \in QRec
  BY SMTT(30) DEF WireOK
<1>2. \A i \in DOMAIN q : q[i].waiter \in Txns
  BY <1>1 DEF QRec
<1>3. ms \in RoundRec => ms.waiter \in Txns
  BY DEF RoundRec
<1>4. MsIdle \notin RoundRec
  BY DEF MsIdle, RoundRec
<1>5. ASSUME NEW u \in Uuids, Request(u)
      PROVE  WaitersOK'
  <2>1. PICK l \in PCs : Goto(u, l)
    BY <1>5, RequestMoves
  <2>2. pc[u] # "sync" /\ ms' = ms
    BY <1>5, RequestMoves
  <2>3. u # NoTxn
    BY TTAssumption DEF TTAssumption
  <2>4. \A i \in DOMAIN q : q[i].waiter # u
    BY <2>2, <2>3 DEF WaitersOK, Awaits
  <2>5. ms \in RoundRec => ms.waiter # u
    BY <2>2, <2>3 DEF WaitersOK, Awaits
  <2>6. \A i \in DOMAIN q : Awaits(q[i], pc')
    BY <1>2, <2>1, <2>4, AwaitsStays DEF WaitersOK
  <2>7. ms \in RoundRec => Awaits(ms, pc')
    BY <1>3, <2>1, <2>5, AwaitsStays DEF WaitersOK
  <2>8. CASE q' = q
    BY <2>2, <2>6, <2>7, <2>8 DEF WaitersOK
  <2>9. ASSUME NEW e, q' = Append(q, e), Awaits(e, pc'), e.waiter \in {u, NoTxn}
        PROVE  WaitersOK'
    <3> DEFINE n == Len(q) + 1
    <3>1. /\ DOMAIN q' = DOMAIN q \cup {n} /\ n \notin DOMAIN q
          /\ \A i \in DOMAIN q : q'[i] = q[i]
          /\ q'[n] = e
      <4>1. /\ DOMAIN Append(q, e) = DOMAIN q \cup {Len(q) + 1} /\ Len(q) + 1 \notin DOMAIN q
            /\ \A i \in DOMAIN q : Append(q, e)[i] = q[i]
            /\ Append(q, e)[Len(q) + 1] = e
        BY <1>1, AppendQ, SMTT(30)
      <4> QED
        BY <2>9, <4>1
    <3> HIDE DEF n
    <3>2. \A i \in DOMAIN q' : Awaits(q'[i], pc')
      BY <2>6, <2>9, <3>1
    <3>3. \A i \in DOMAIN q : q[i].waiter = e.waiter => e.waiter = NoTxn
      BY <2>4, <2>9
    <3>4. \A i, j \in DOMAIN q' : q'[i].waiter = q'[j].waiter /\ q'[i].waiter # NoTxn => i = j
      <4>1. \A i, j \in DOMAIN q : q'[i].waiter = q'[j].waiter /\ q'[i].waiter # NoTxn => i = j
        BY <3>1 DEF WaitersOK
      <4>2. \A i \in DOMAIN q : ~(q'[i].waiter = q'[n].waiter /\ q'[i].waiter # NoTxn)
        BY <3>1, <3>3
      <4> QED
        BY <3>1, <4>1, <4>2
    <3>5. ms' \in RoundRec => /\ Awaits(ms', pc')
                               /\ \A i \in DOMAIN q' : q'[i].waiter = ms'.waiter => ms'.waiter = NoTxn
      BY <2>2, <2>5, <2>7, <2>9, <3>1 DEF WaitersOK
    <3> QED
      BY <3>2, <3>4, <3>5 DEF WaitersOK
  <2>10. CASE Post(u)
    <3> DEFINE e == [u |-> u, waiter |-> u]
    <3>1. e.u = u /\ e.waiter = u /\ q' = Append(q, e)
      BY <2>10 DEF Post
    <3>2. pc'[u] = "sync"
      BY <2>10 DEF Post, Goto
    <3> HIDE DEF e
    <3>3. Awaits(e, pc')
      BY <3>1, <3>2 DEF Awaits
    <3> QED
      BY <2>9, <3>1, <3>3
  <2>11. CASE UndoPost(u)
    <3> DEFINE e == [u |-> NoTxn, waiter |-> NoTxn]
    <3>1. e.u = NoTxn /\ e.waiter = NoTxn /\ q' = Append(q, e)
      BY <2>11 DEF UndoPost, Nobody
    <3> HIDE DEF e
    <3>2. Awaits(e, pc')
      BY <3>1 DEF Awaits
    <3> QED
      BY <2>9, <3>1, <3>2
  <2>12. q' = q \/ Post(u) \/ UndoPost(u)
    BY <1>5 DEF Request, StartLock, StartProps, StartNotFound, Locked, LockedExists, BeginDone, Modify,
           ModifyErr, ModifyPanic, CommitDone, AbortDone, Undo, msvars
  <2> QED
    BY <2>8, <2>10, <2>11, <2>12
<1>6. CASE MsDo
  <2>1. /\ q # <<>> /\ q' = Tail(q) /\ pc' = pc
        /\ StartRound(Round(Head(q).u, Head(q).waiter, pbmd, Targets, FALSE))
    BY <1>6 DEF MsDo, pvars
  <2>2. 1 \in DOMAIN q /\ Head(q) = q[1]
    BY <1>1, <2>1, TailQ
  <2>3. Head(q).u \in Txns /\ Head(q).waiter \in Txns
    BY <1>1, <2>2 DEF QRec
  <2>4. ms'.u = q[1].u /\ ms'.waiter = q[1].waiter
    BY <2>1, <2>2, <2>3, StartOK
  <2>5. \A i \in DOMAIN q' : i + 1 \in DOMAIN q /\ q'[i] = q[i + 1] /\ i + 1 # 1
    BY <1>1, <2>1, TailQ
  <2>6. \A i, j \in DOMAIN q' : i + 1 = j + 1 => i = j
    BY <1>1, <2>1, TailQ
  <2>7. Awaits(ms', pc')
    BY <2>1, <2>2, <2>4 DEF WaitersOK, Awaits
  <2>8. \A i \in DOMAIN q' : q'[i].waiter = ms'.waiter => ms'.waiter = NoTxn
    BY <2>2, <2>4, <2>5 DEF WaitersOK
  <2>9. \A i \in DOMAIN q' : Awaits(q'[i], pc')
    BY <2>1, <2>5 DEF WaitersOK
  <2>10. ASSUME NEW i \in DOMAIN q', NEW j \in DOMAIN q', q'[i].waiter = q'[j].waiter, q'[i].waiter # NoTxn
         PROVE  i = j
    <3>1. i + 1 \in DOMAIN q /\ j + 1 \in DOMAIN q /\ q'[i] = q[i + 1] /\ q'[j] = q[j + 1]
      BY <2>5
    <3>2. i + 1 = j + 1
      BY <2>10, <3>1 DEF WaitersOK
    <3> QED
      BY <2>6, <3>2
  <2> QED
    BY <2>7, <2>8, <2>9, <2>10 DEF WaitersOK
<1>7. CASE MsPending
  <2>1. /\ UNCHANGED <<q, pc>> /\ StartRound(Round(NoTxn, Nobody, lastSynced, unsynced, TRUE))
    BY <1>7 DEF MsPending, pvars
  <2>2. NoTxn \in Txns /\ Nobody \in Txns /\ Nobody = NoTxn /\ lastSynced \in BMDs /\ unsynced \in SUBSET Targets
    BY DEF Txns, Nobody, WireOK
  <2>3. ms'.u = NoTxn /\ ms'.waiter = NoTxn
    BY <2>1, <2>2, StartOK
  <2> QED
    BY <2>1, <2>3 DEF WaitersOK, Awaits
<1>8. CASE MsDone
  <2>1. ms' = MsIdle /\ q' = q /\ ms \in RoundRec
    BY <1>8, SMTT(30) DEF MsDone, WireOK, MsIdle
  <2>2. CASE pc' = pc
    BY <1>4, <2>1, <2>2 DEF WaitersOK
  <2>3. CASE ms.waiter # NoTxn /\ Goto(ms.waiter, "commit")
    <3>1. \A i \in DOMAIN q : q[i].waiter # ms.waiter
      BY <2>1, <2>3 DEF WaitersOK
    <3>2. \A i \in DOMAIN q : Awaits(q[i], pc')
      BY <1>2, <2>3, <3>1, AwaitsStays DEF WaitersOK
    <3> QED
      BY <1>4, <2>1, <3>2 DEF WaitersOK
  <2> QED
    BY <1>8, <2>2, <2>3 DEF MsDone, Bcast, Nobody
<1>9. ASSUME UNCHANGED <<q, pc>>, MsKept
      PROVE  WaitersOK'
  BY <1>9 DEF WaitersOK, MsKept, SameRound, Awaits
<1>10. CASE UNCHANGED vars
  BY <1>9, <1>10 DEF vars, msvars, pvars, MsKept
<1>11. ASSUME NEW t \in Targets, RxHandler(t) \/ MsFault(t)
       PROVE  WaitersOK'
  BY <1>9, <1>11, RxKeeps, RxRound DEF PrimaryKept
<1>12. ASSUME NEW t \in Targets, NEW u \in Uuids, TxnHandler(t, u) \/ Housekeeper(t, u) \/ CallFault(u, t)
       PROVE  WaitersOK'
  BY <1>9, <1>12, HandlerTypes DEF PrimaryKept, MsKept
<1> QED
  BY <1>5, <1>6, <1>7, <1>8, <1>10, <1>11, <1>12 DEF Next, Finished, Metasyncer

-----------------------------------------------------------------------------
(* The version a request produced, and the bucket it created *)

\* between its update of the BMD and its return or rollback, a create-bucket finds the
\* bucket it created in the primary's BMD
Created(u) == OpOf[u] = "create" /\ pc[u] \in {"post", "sync", "commit", "undo"}
Own(u) == Present(pbmd, BckOf[u]) /\ pbmd.bcks[BckOf[u]].bid = mine[u] - 1

MineOK(u) ==
    /\ mine[u] <= pbmd.ver
    /\ pc[u] \in {"idle", "lock", "begin", "modify"} => mine[u] = 0
    /\ pc[u] \in {"post", "sync", "commit"} => mine[u] > 0
    /\ Created(u) => Own(u)

\* what happens to one bucket leaves the others alone; new props keep the BID
LEMMA OtherBucket ==
    ASSUME NEW b, NEW c, Present(pbmd, b), NEW val
    PROVE  /\ c # b => /\ Present(add(pbmd, c, val), b) /\ add(pbmd, c, val).bcks[b] = pbmd.bcks[b]
                       /\ Present(del(pbmd, c), b) /\ del(pbmd, c).bcks[b] = pbmd.bcks[b]
           /\ Present(set(pbmd, c, val), b) /\ set(pbmd, c, val).bcks[b].bid = pbmd.bcks[b].bid
<1>1. ASSUME NEW p
      PROVE  b \in DOMAIN WithProps(pbmd.bcks, c, p) /\ (c # b => WithProps(pbmd.bcks, c, p)[b] = pbmd.bcks[b])
  BY DEF WithProps, Present
<1>2. c # b => /\ Present(add(pbmd, c, val), b) /\ add(pbmd, c, val).bcks[b] = pbmd.bcks[b]
               /\ Present(del(pbmd, c), b) /\ del(pbmd, c).bcks[b] = pbmd.bcks[b]
  BY <1>1 DEF add, del, Present
<1>3. Present(set(pbmd, c, val), b) /\ set(pbmd, c, val).bcks[b].bid = pbmd.bcks[b].bid
  <2> DEFINE p == [bid |-> pbmd.bcks[c].bid, val |-> val]
  <2>1. set(pbmd, c, val).bcks = WithProps(pbmd.bcks, c, p) /\ p.bid = pbmd.bcks[c].bid
    BY DEF set
  <2>2. c = b => WithProps(pbmd.bcks, c, p)[b] = p
    BY DEF WithProps, Present
  <2> HIDE DEF p
  <2> QED
    BY <1>1, <2>1, <2>2 DEF Present
<1> QED
  BY <1>2, <1>3

\* ... for adding a bucket alone
LEMMA AddOther ==
    ASSUME NEW b, NEW c, NEW val, c # b, Present(pbmd, b)
    PROVE  Present(add(pbmd, c, val), b) /\ add(pbmd, c, val).bcks[b] = pbmd.bcks[b]
  BY OtherBucket

\* a bucket that a create-bucket holds locked is not removed by anyone else
LEMMA OwnStays ==
    ASSUME PLocksOK, NEW u \in Uuids, NEW v \in Uuids, v # u, Created(v), Own(v), mine'[v] = mine[v],
           Modify(u) \/ Undo(u)
    PROVE  Own(v)'
<1>1. Holds(v)
  BY DEF Created, Holds, Holding
<1>2. OpOf[u] \in {"create", "destroy"} => BckOf[u] # BckOf[v]
  <2>1. OpOf[u] \in {"create", "destroy"} => Holds(u)
    BY DEF Modify, Undo, Holds, Holding
  <2> QED
    BY <1>1, <2>1 DEF PLocksOK
<1>3. Present(pbmd, BckOf[v])
  BY DEF Own
<1>4. \/ OpOf[u] = "create" /\ pbmd' = add(pbmd, BckOf[u], u)
      \/ OpOf[u] \in {"create", "destroy"} /\ pbmd' = del(pbmd, BckOf[u])
      \/ \E val : pbmd' = set(pbmd, BckOf[u], val)
      \/ pbmd' = pbmd
  <2>1. CASE Modify(u)
    <3>1. CASE OpOf[u] = "create"
      BY <2>1, <3>1 DEF Modify
    <3>2. CASE OpOf[u] = "destroy"
      BY <2>1, <3>2, SMTT(30) DEF Modify
    <3>3. CASE OpOf[u] \notin {"create", "destroy"}
      BY <2>1, <3>3, SMTT(30) DEF Modify
    <3> QED
      BY <3>1, <3>2, <3>3
  <2>2. CASE Undo(u)
    BY <2>2 DEF Undo
  <2> QED
    BY <2>1, <2>2
<1>5. Present(pbmd', BckOf[v]) /\ pbmd'.bcks[BckOf[v]].bid = pbmd.bcks[BckOf[v]].bid
  <2>1. CASE OpOf[u] = "create" /\ pbmd' = add(pbmd, BckOf[u], u)
    <3>1. BckOf[u] # BckOf[v]
      BY <1>2, <2>1
    <3>2. Present(add(pbmd, BckOf[u], u), BckOf[v]) /\ add(pbmd, BckOf[u], u).bcks[BckOf[v]] = pbmd.bcks[BckOf[v]]
      BY <1>3, <3>1, AddOther
    <3> QED
      BY <2>1, <3>2
  <2>2. CASE OpOf[u] \in {"create", "destroy"} /\ pbmd' = del(pbmd, BckOf[u])
    BY <1>2, <1>3, <2>2, OtherBucket
  <2>3. ASSUME NEW val, pbmd' = set(pbmd, BckOf[u], val)
        PROVE  Present(pbmd', BckOf[v]) /\ pbmd'.bcks[BckOf[v]].bid = pbmd.bcks[BckOf[v]].bid
    <3>1. /\ Present(set(pbmd, BckOf[u], val), BckOf[v])
          /\ set(pbmd, BckOf[u], val).bcks[BckOf[v]].bid = pbmd.bcks[BckOf[v]].bid
      BY <1>3, OtherBucket, SMTT(30)
    <3> QED
      BY <2>3, <3>1
  <2>4. CASE pbmd' = pbmd
    BY <1>3, <2>4
  <2> QED
    BY <1>4, <2>1, <2>2, <2>3, <2>4
<1> QED
  BY <1>5 DEF Own

\* the request itself
LEMMA MineStep ==
    ASSUME PTypes, NEW u \in Uuids, MineOK(u), pbmd \in BMDs, pbmd' \in BMDs, Request(u)
    PROVE  MineOK(u)'
<1> USE DEF PTypes
<1>1. pbmd.ver \in Nat /\ pbmd'.ver \in Nat /\ mine[u] \in Nat
  BY TTAssumption DEF TTAssumption
<1>2. ASSUME NEW l, Goto(u, l)
      PROVE  pc'[u] = l
  BY <1>2 DEF Goto
<1>3. CASE StartLock(u) \/ StartProps(u) \/ StartNotFound(u) \/ Locked(u) \/ LockedExists(u) \/ BeginDone(u)
  <2>1. UNCHANGED <<mine, pbmd>> /\ pc[u] \in {"idle", "lock", "begin"}
    BY <1>3 DEF StartLock, StartProps, StartNotFound, Locked, LockedExists, BeginDone
  <2>2. pc'[u] \in {"lock", "begin", "err", "modify", "abort"}
    BY <1>2, <1>3 DEF StartLock, StartProps, StartNotFound, Locked, LockedExists, BeginDone, Bcast
  <2> QED
    BY <2>1, <2>2 DEF MineOK, Created
<1>4. CASE ModifyErr(u) \/ ModifyPanic(u)
  <2>1. UNCHANGED <<mine, pbmd>>
    BY <1>4 DEF ModifyErr, ModifyPanic
  <2>2. pc'[u] \in {"abort", "panic"}
    BY <1>2, <1>4 DEF ModifyErr, ModifyPanic, Bcast
  <2> QED
    BY <2>1, <2>2 DEF MineOK, Created
<1>5. CASE Post(u)
  <2>1. UNCHANGED <<mine, pbmd>> /\ pc[u] = "post" /\ pc'[u] = "sync"
    BY <1>2, <1>5 DEF Post
  <2> QED
    BY <2>1 DEF MineOK, Created, Own
<1>6. CASE CommitDone(u)
  <2>1. UNCHANGED <<mine, pbmd>> /\ pc[u] = "commit"
    BY <1>6 DEF CommitDone
  <2>2. pc'[u] \in {"ok", "undo", "abort"}
    BY <1>2, <1>6 DEF CommitDone, Return, Bcast
  <2> QED
    BY <2>1, <2>2 DEF MineOK, Created, Own
<1>7. CASE AbortDone(u)
  <2>1. UNCHANGED <<mine, pbmd>>
    BY <1>7 DEF AbortDone
  <2>2. pc'[u] = "err" \/ (pc'[u] = "undo" /\ OpOf[u] = "mnc")
    BY <1>2, <1>7 DEF AbortDone, Return
  <2> QED
    BY <2>1, <2>2 DEF MineOK, Created
<1>8. CASE Undo(u) \/ UndoPost(u)
  <2>1. mine' = mine
    BY <1>8 DEF Undo, UndoPost
  <2>2. pc'[u] \in {"err", "undopost"}
    BY <1>2, <1>8 DEF Undo, UndoPost, Return
  <2>3. pbmd' = pbmd \/ pbmd'.ver > pbmd.ver
    BY <1>8, ModifyGrows DEF UndoPost
  <2>4. mine'[u] <= pbmd'.ver
    BY <1>1, <2>1, <2>3, SMTT(30) DEF MineOK
  <2> QED
    BY <2>2, <2>4 DEF MineOK, Created
<1>9. CASE Modify(u)
  <2>1. pc'[u] = "post" /\ mine'[u] = pbmd'.ver
    BY <1>2, <1>9 DEF Modify
  <2>2. /\ pbmd' = CASE OpOf[u] = "create"  -> add(pbmd, BckOf[u], u)
                     [] OpOf[u] = "destroy" -> del(pbmd, BckOf[u])
                     [] OTHER               -> set(pbmd, BckOf[u], u)
    BY <1>9 DEF Modify
  <2>3. pbmd'.ver > pbmd.ver
    BY <1>1, <2>2, SMTT(30) DEF add, del, set
  <2>4. mine'[u] <= pbmd'.ver /\ mine'[u] > 0
    BY <1>1, <2>1, <2>3, SMTT(30)
  <2>5. ASSUME OpOf[u] = "create"
        PROVE  Own(u)'
    <3> DEFINE v == IF pbmd.ver = 0 THEN 1 ELSE pbmd.ver
               p == [bid |-> v, val |-> u]
    <3>1. pbmd' = add(pbmd, BckOf[u], u)
      BY <2>2, <2>5
    <3>2. pbmd'.bcks = WithProps(pbmd.bcks, BckOf[u], p) /\ pbmd'.ver = v + 1
      BY <3>1, SMTT(30) DEF add
    <3>3. p.bid = v /\ v \in Nat
      BY <1>1, SMTT(30)
    <3> HIDE DEF p, v
    <3>4. BckOf[u] \in DOMAIN pbmd'.bcks /\ pbmd'.bcks[BckOf[u]] = p
      BY <3>2 DEF WithProps
    <3>5. v = mine'[u] - 1
      BY <2>1, <3>2, <3>3, SMTT(30)
    <3> QED
      BY <3>3, <3>4, <3>5 DEF Own, Present
  <2> QED
    BY <2>1, <2>4, <2>5 DEF MineOK, Created
<1> QED
  BY <1>3, <1>4, <1>5, <1>6, <1>7, <1>8, <1>9 DEF Request

\* every step, of this request or of any other
LEMMA MineInv ==
    ASSUME PTypes, PLocksOK, WaitersOK, WireOK, \A u \in Uuids : MineOK(u),
           pbmd \in BMDs, pbmd' \in BMDs, [Next]_vars
    PROVE  \A u \in Uuids : MineOK(u)'
<1> USE DEF PTypes
<1>1. ASSUME NEW u \in Uuids, Request(u), NEW v \in Uuids
      PROVE  MineOK(v)'
  <2>1. CASE v = u
    BY <1>1, <2>1, MineStep
  <2>2. CASE v # u
    <3>1. PICK l \in PCs : Goto(u, l)
      BY <1>1, RequestMoves
    <3>2. pc'[v] = pc[v]
      BY <2>2, <3>1 DEF Goto
    <3>3. mine'[v] = mine[v]
      BY <1>1, <2>2 DEF Request, StartLock, StartProps, StartNotFound, Locked, LockedExists, BeginDone,
             Modify, ModifyErr, ModifyPanic, Post, CommitDone, AbortDone, Undo, UndoPost
    <3>4. pbmd' = pbmd \/ Modify(u) \/ Undo(u)
      BY <1>1 DEF Request, StartLock, StartProps, StartNotFound, Locked, LockedExists, BeginDone, ModifyErr,
             ModifyPanic, Post, CommitDone, AbortDone, UndoPost
    <3>5. mine[v] <= pbmd'.ver
      <4>1. pbmd.ver \in Nat /\ pbmd'.ver \in Nat /\ mine[v] \in Nat
        BY TTAssumption DEF TTAssumption
      <4>2. pbmd' = pbmd \/ pbmd'.ver > pbmd.ver
        BY <3>4, ModifyGrows
      <4> QED
        BY <4>1, <4>2, SMTT(30) DEF MineOK
    <3>6. Created(v) => Own(v)'
      BY <2>2, <3>3, <3>4, OwnStays DEF MineOK, Own
    <3> QED
      BY <3>2, <3>3, <3>5, <3>6 DEF MineOK, Created
  <2> QED
    BY <2>1, <2>2
<1>2. ASSUME UNCHANGED <<pc, mine, pbmd>>, NEW v \in Uuids
      PROVE  MineOK(v)'
  BY <1>2 DEF MineOK, Created, Own
<1>3. ASSUME Metasyncer, NEW v \in Uuids
      PROVE  MineOK(v)'
  <2>1. UNCHANGED <<mine, pbmd>>
    BY <1>3, MetasyncerKeeps
  <2>2. CASE pc' = pc
    BY <1>2, <2>1, <2>2
  <2>3. CASE MsDone /\ ms \in RoundRec /\ ms.waiter \in Uuids /\ Bcast(ms.waiter, "commit")
    <3>1. pc[ms.waiter] = "sync" /\ pc' = [pc EXCEPT ![ms.waiter] = "commit"]
      BY <2>3, TTAssumption DEF WaitersOK, Awaits, Bcast, Goto, TTAssumption
    <3>2. pc'[v] = pc[v] \/ (pc[v] = "sync" /\ pc'[v] = "commit")
      BY <3>1
    <3> QED
      BY <2>1, <3>2 DEF MineOK, Created, Own
  <2> QED
    BY <1>3, <2>2, <2>3, MetasyncerKeeps
<1>4. CASE UNCHANGED vars
  BY <1>2, <1>4 DEF vars, pvars
<1>5. ASSUME NEW t \in Targets, RxHandler(t) \/ MsFault(t)
      PROVE  UNCHANGED <<pc, mine, pbmd>>
  BY <1>5, RxKeeps DEF PrimaryKept
<1>6. ASSUME NEW t \in Targets, NEW u \in Uuids, TxnHandler(t, u) \/ Housekeeper(t, u) \/ CallFault(u, t)
      PROVE  UNCHANGED <<pc, mine, pbmd>>
  BY <1>6, HandlerTypes DEF PrimaryKept
<1> QED
  BY <1>1, <1>2, <1>3, <1>4, <1>5, <1>6 DEF Next, Finished

\* what holds of the primary at all times
PInv == PTypes /\ PLocksOK /\ WaitersOK /\ \A u \in Uuids : MineOK(u)

\* no request has started
LEMMA InitPInv == Init /\ pbmd \in BMDs => PInv
<1> SUFFICES ASSUME Init, pbmd \in BMDs
             PROVE  PInv
  OBVIOUS
<1>1. PTypes
  <2>1. faults \in 0..MaxFaults /\ mine \in [Uuids -> Nat]
    BY BTAssumption, SMTT(30) DEF Init, BTAssumption
  <2> QED
    BY <2>1 DEF Init, PTypes, PCs
<1>2. PLocksOK
  BY DEF Init, PLocksOK, Holds, Holding, EmptyMap
<1>3. WaitersOK
  <2>1. DOMAIN q = {}
    BY SMTT(30) DEF Init
  <2>2. ms \notin RoundRec
    BY DEF Init, MsIdle, RoundRec
  <2> QED
    BY <2>1, <2>2 DEF WaitersOK
<1>4. \A u \in Uuids : MineOK(u)
  <2>1. pbmd.ver \in Nat
    BY TTAssumption DEF TTAssumption
  <2>2. \A u \in Uuids : mine[u] = 0 /\ pc[u] = "idle"
    BY DEF Init
  <2>3. 0 <= pbmd.ver
    BY <2>1, SMTT(30)
  <2> QED
    BY <2>2, <2>3 DEF MineOK, Created
<1> QED
  BY <1>1, <1>2, <1>3, <1>4 DEF PInv

\* and every step keeps it all
LEMMA PInvStep ==
    ASSUME PInv, WireOK, pbmd \in BMDs, pbmd' \in BMDs, [Next]_vars
    PROVE  PInv'
<1>1. ms \in RoundRec /\ ms.waiter \in Uuids => pc[ms.waiter] = "sync"
  BY TTAssumption DEF PInv, WaitersOK, Awaits, TTAssumption
<1>2. PTypes' /\ PLocksOK' /\ WaitersOK'
  BY <1>1, PTypesStep, PLocksStep, WaitersStep DEF PInv
<1>3. \A u \in Uuids : MineOK(u)'
  BY MineInv DEF PInv
<1> QED
  BY <1>2, <1>3 DEF PInv

\* the primary's invariant, and the wire's
LEMMA PInvariance == Spec /\ [](pbmd \in BMDs) => [](PInv /\ WireOK)
<1>1. PInv /\ WireOK /\ pbmd \in BMDs /\ (pbmd \in BMDs)' /\ [Next]_vars => PInv' /\ WireOK'
  BY PInvStep, WireStep DEF Flow
<1> QED
  BY <1>1, InitPInv, InitWire, PTL DEF Spec

\* undoCreateBucket looks the bucket up by name, and still removes no one else's: whatever
\* creates, destroys, props updates and rollbacks run at the time, what it finds is the
\* bucket this very request created
THEOREM UndoIsOwn == Spec /\ [](pbmd \in BMDs) => []UndoRemovesOwn
<1>1. PInv => UndoRemovesOwn
  BY DEF PInv, MineOK, Created, Own, UndoRemovesOwn
<1> QED
  BY <1>1, PInvariance, PTL

-----------------------------------------------------------------------------
(* What success means: the BMD of a request, from the queue to every target *)

\* a BMD that has the version n, once a request has produced that version
Carried(n, bmd) == n > 0 /\ bmd.ver >= n

\* a request produces one version
LEMMA MineFixed ==
    ASSUME PInv, WireOK, pbmd \in BMDs, [Next]_vars, NEW u \in Uuids, mine[u] > 0
    PROVE  mine'[u] = mine[u]
<1>1. pc[u] # "modify"
  <2>1. pc[u] = "modify" => mine[u] = 0
    BY DEF PInv, MineOK
  <2> QED
    BY <2>1, SMTT(30)
<1>2. ASSUME NEW v \in Uuids, Request(v)
      PROVE  mine'[u] = mine[u]
  <2>1. mine' = mine \/ Modify(v)
    BY <1>2 DEF Request, StartLock, StartProps, StartNotFound, Locked, LockedExists, BeginDone,
           ModifyErr, ModifyPanic, Post, CommitDone, AbortDone, Undo, UndoPost
  <2>2. CASE Modify(v)
    BY <1>1, <2>2 DEF Modify, PInv, PTypes
  <2> QED
    BY <2>1, <2>2
<1>3. ASSUME NEW t \in Targets, RxHandler(t) \/ MsFault(t)
      PROVE  mine' = mine
  BY <1>3, RxKeeps DEF PrimaryKept
<1>4. ASSUME NEW t \in Targets, NEW v \in Uuids, TxnHandler(t, v) \/ Housekeeper(t, v) \/ CallFault(v, t)
      PROVE  mine' = mine
  BY <1>4, HandlerTypes DEF PrimaryKept, PInv
<1>5. CASE UNCHANGED vars
  BY <1>5 DEF vars, pvars
<1> QED
  BY <1>2, <1>3, <1>4, <1>5, MetasyncerKeeps DEF Next, Finished

\* so that what has its version keeps it
LEMMA CarriedStays ==
    ASSUME PInv, WireOK, pbmd \in BMDs, [Next]_vars, NEW u \in Uuids, NEW bmd, Carried(mine[u], bmd)
    PROVE  Carried(mine'[u], bmd)
  BY MineFixed DEF Carried

\* a newer BMD carries it too
LEMMA CarriedNewer ==
    ASSUME NEW n \in Nat, NEW bmd \in BMDs, NEW newer \in BMDs, newer.ver >= bmd.ver, Carried(n, bmd)
    PROVE  Carried(n, newer)
<1>1. bmd.ver \in Nat /\ newer.ver \in Nat
  BY TTAssumption DEF TTAssumption
<1> QED
  BY <1>1, SMTT(30) DEF Carried

\* a round starts with what the primary owns or has synced last; else it goes on or ends
NewRound ==
    /\ ms \notin RoundRec /\ ms' \in RoundRec
    /\ round' = round + 1 /\ ms'.round = round' /\ lastSynced' = ms'.bmd
    /\ ms'.u # NoTxn => pc[ms'.u] = "sync" /\ ms'.bmd = pbmd
    /\ \A c \in net' : c.k = "bmd" => c \in net \/ (c.u = ms'.u /\ c.bmd = ms'.bmd /\ c.round = round')
SameOrEnd ==
    /\ ms' = ms \/ ms' = MsIdle \/ SameRound
    /\ UNCHANGED <<round, lastSynced>>
    /\ \A c \in net' : c.k = "bmd" => c \in net \/ OfMs(c)

\* every step is one or the other
LEMMA MsSteps ==
    ASSUME WireOK, PInv, pbmd \in BMDs, [Next]_vars
    PROVE  NewRound \/ SameOrEnd
<1>1. MsIdle \notin RoundRec
  BY DEF MsIdle, RoundRec
<1>2. CASE MsDo
  <2>1. /\ q # <<>> /\ ms = MsIdle /\ lastSynced' = pbmd
        /\ StartRound(Round(Head(q).u, Head(q).waiter, pbmd, Targets, FALSE))
    BY <1>2 DEF MsDo
  <2>2. 1 \in DOMAIN q /\ Head(q) = q[1]
    BY <2>1, TailQ DEF WireOK
  <2>3. q[1] \in QRec
    BY <2>2, SMTT(30) DEF WireOK
  <2>4. Head(q).u \in Txns /\ Head(q).waiter \in Txns
    BY <2>2, <2>3 DEF QRec
  <2>5. /\ ms' \in RoundRec /\ ms'.bmd = pbmd /\ ms'.u = Head(q).u /\ ms'.round = round' /\ round' = round + 1
        /\ \A c \in net' : c.k = "bmd" => c \in net \/ (c.bmd = pbmd /\ c.u = Head(q).u /\ c.round = round')
    BY <2>1, <2>4, StartOK
  <2>6. Head(q).u # NoTxn => pc[Head(q).u] = "sync"
    BY <2>2 DEF PInv, WaitersOK, Awaits
  <2> QED
    BY <1>1, <2>1, <2>5, <2>6 DEF NewRound
<1>3. CASE MsPending
  <2>1. /\ ms = MsIdle /\ lastSynced' = lastSynced
        /\ StartRound(Round(NoTxn, Nobody, lastSynced, unsynced, TRUE))
    BY <1>3 DEF MsPending
  <2>2. NoTxn \in Txns /\ Nobody \in Txns /\ lastSynced \in BMDs /\ unsynced \in SUBSET Targets
    BY DEF Txns, Nobody, WireOK
  <2>3. /\ ms' \in RoundRec /\ ms'.bmd = lastSynced /\ ms'.u = NoTxn /\ ms'.round = round' /\ round' = round + 1
        /\ \A c \in net' : c.k = "bmd" => c \in net \/ (c.bmd = lastSynced /\ c.u = NoTxn /\ c.round = round')
    BY <2>1, <2>2, StartOK
  <2> QED
    BY <1>1, <2>1, <2>3 DEF NewRound
<1>4. ASSUME NEW u, NEW phase \in Phases, Bcast(u, phase)
      PROVE  \A c \in net' : c.k = "bmd" => c \in net
  BY <1>4, BcastOK
<1>5. CASE MsDone
  <2>1. "commit" \in Phases
    BY DEF Phases
  <2>2. net' = net \/ Bcast(ms.waiter, "commit")
    BY <1>5 DEF MsDone
  <2>3. \A c \in net' : c.k = "bmd" => c \in net
    BY <1>4, <2>1, <2>2
  <2> QED
    BY <1>5, <2>3 DEF MsDone, SameOrEnd
<1>6. ASSUME NEW u \in Uuids, Request(u)
      PROVE  SameOrEnd
  <2>1. UNCHANGED <<round, lastSynced>>
    BY <1>6 DEF Request, StartLock, StartProps, StartNotFound, Locked, LockedExists, BeginDone, Modify,
           ModifyErr, ModifyPanic, Post, CommitDone, AbortDone, Undo, UndoPost, msvars
  <2>2. net' = net \/ \E phase \in Phases : Bcast(u, phase)
    BY <1>6 DEF Request, StartLock, StartProps, StartNotFound, Locked, LockedExists, BeginDone, Modify,
           ModifyErr, ModifyPanic, Post, CommitDone, AbortDone, Undo, UndoPost, Phases
  <2> QED
    BY <1>4, <1>6, <2>1, <2>2, RequestMoves DEF SameOrEnd
<1>7. ASSUME NEW t \in Targets, RxHandler(t) \/ MsFault(t)
      PROVE  SameOrEnd
  BY <1>7, RxKeeps, RxRound DEF SameOrEnd, MsKept
<1>8. ASSUME NEW t \in Targets, NEW u \in Uuids, TxnHandler(t, u) \/ Housekeeper(t, u) \/ CallFault(u, t)
      PROVE  SameOrEnd
  <2>1. UNCHANGED <<round, lastSynced>>
    BY <1>8 DEF TxnHandler, Housekeeper, CallFault, msvars
  <2> QED
    BY <1>8, <2>1, HandlerTypes DEF PInv, SameOrEnd
<1>9. CASE UNCHANGED vars
  BY <1>9 DEF vars, msvars, SameOrEnd
<1> QED
  BY <1>2, <1>3, <1>5, <1>6, <1>7, <1>8, <1>9 DEF Next, Finished, Metasyncer

\* a BMD sent for a request, on the wire or at a target, has the version it produced
CarriedOK ==
    /\ ms \in RoundRec /\ ms.u # NoTxn => Carried(mine[ms.u], ms.bmd)
    /\ \A call \in net : call.k = "bmd" /\ call.u # NoTxn => Carried(mine[call.u], call.bmd)
    /\ \A t \in Targets : rx[t] # RxIdle => Carried(mine[rx[t].u], rx[t].bmd)

\* every step: jit sends the BMD the primary has by now, which is no older than the request's
LEMMA CarriedStep ==
    ASSUME CarriedOK, PInv, WireOK, TTTypeOK, pbmd \in BMDs, [Next]_vars
    PROVE  CarriedOK'
<1>1. /\ ms \in RoundRec => ms.u \in Txns
      /\ \A call \in net : call.k = "bmd" => call.u \in Txns
  BY DEF RoundRec, WireOK, Sound
<1>2. \A t \in Targets : rx[t] # RxIdle => rx[t].u \in Uuids
  <2> TAKE t \in Targets
  <2>1. rx[t] \in {RxIdle} \cup [step : {"apply"}, u : Uuids, bmd : BMDs]
                           \cup [step : {"after"}, u : Uuids, bmd : BMDs, err : Errs]
    BY DEF TTTypeOK
  <2> QED
    BY <2>1
<1>3. ms \in RoundRec /\ ms.u # NoTxn => Carried(mine'[ms.u], ms.bmd)
  BY <1>1, CarriedStays DEF CarriedOK, Txns
<1>4. \A call \in net : call.k = "bmd" /\ call.u # NoTxn => Carried(mine'[call.u], call.bmd)
  BY <1>1, CarriedStays DEF CarriedOK, Txns
<1>5. \A t \in Targets : rx[t] # RxIdle => Carried(mine'[rx[t].u], rx[t].bmd)
  BY <1>2, CarriedStays DEF CarriedOK
<1>6. ASSUME NewRound, ms'.u # NoTxn
      PROVE  Carried(mine'[ms'.u], ms'.bmd)
  <2>1. ms'.u \in Uuids /\ pc[ms'.u] = "sync" /\ ms'.bmd = pbmd
    BY <1>6 DEF NewRound, RoundRec, Txns
  <2>2. mine[ms'.u] > 0 /\ mine[ms'.u] <= pbmd.ver /\ mine[ms'.u] \in Nat
    BY <2>1 DEF PInv, MineOK, PTypes
  <2>3. pbmd.ver \in Nat
    BY TTAssumption DEF TTAssumption
  <2>4. Carried(mine[ms'.u], pbmd)
    BY <2>2, <2>3, SMTT(30) DEF Carried
  <2> QED
    BY <2>1, <2>4, CarriedStays
<1>7. ms' \in RoundRec /\ ms'.u # NoTxn => Carried(mine'[ms'.u], ms'.bmd)
  <2>1. CASE NewRound
    BY <1>6, <2>1
  <2>2. CASE SameOrEnd
    <3>1. MsIdle \notin RoundRec
      BY DEF MsIdle, RoundRec
    <3> QED
      BY <1>3, <2>2, <3>1 DEF SameOrEnd, SameRound
  <2> QED
    BY <2>1, <2>2, MsSteps
<1>8. \A call \in net' : call.k = "bmd" /\ call.u # NoTxn => Carried(mine'[call.u], call.bmd)
  <2>1. CASE NewRound
    BY <1>4, <1>6, <2>1 DEF NewRound
  <2>2. CASE SameOrEnd
    BY <1>3, <1>4, <2>2 DEF SameOrEnd, OfMs
  <2> QED
    BY <2>1, <2>2, MsSteps
<1>9. \A t \in Targets : rx'[t] # RxIdle => Carried(mine'[rx'[t].u], rx'[t].bmd)
  <2> SUFFICES ASSUME NEW t \in Targets, rx'[t] # RxIdle
               PROVE  Carried(mine'[rx'[t].u], rx'[t].bmd)
    OBVIOUS
  <2>1. \/ rx'[t] = rx[t]
        \/ rx[t] # RxIdle /\ rx'[t].bmd = rx[t].bmd /\ rx'[t].u = rx[t].u
        \/ \E call \in net : call.k = "bmd" /\ call.u # NoTxn /\ rx'[t].bmd = call.bmd /\ rx'[t].u = call.u
    BY AllFrom DEF From
  <2> QED
    BY <1>4, <1>5, <2>1
<1> QED
  BY <1>7, <1>8, <1>9 DEF CarriedOK

\* a transaction that is done without error, and one whose BMD came first, is on a
\* target that has its BMD or a newer one
AppliedOK(t) ==
    /\ rx[t] # RxIdle /\ rx[t].step = "after" /\ rx[t].err \in {"ok", "downgrade"} => tbmd[t].ver >= rx[t].bmd.ver
    /\ \A u \in DOMAIN rendezvous[t] : rendezvous[t][u] = "ok" => Carried(mine[u], tbmd[t])
    /\ \A u \in Uuids : done[t][u] = "ok" => Carried(mine[u], tbmd[t])

\* where the results of a target's handlers come from
Outcome(t) ==
    /\ rx'[t] # RxIdle /\ rx'[t].step = "after" /\ rx'[t].err \in {"ok", "downgrade"} =>
          rx'[t] = rx[t] \/ tbmd'[t].ver >= rx'[t].bmd.ver
    /\ \A u \in DOMAIN rendezvous'[t] : rendezvous'[t][u] = "ok" =>
          \/ u \in DOMAIN rendezvous[t] /\ rendezvous[t][u] = "ok"
          \/ rx[t] # RxIdle /\ rx[t].u = u /\ tbmd'[t] = tbmd[t]
             /\ rx[t].step = "after" /\ rx[t].err \in {"ok", "downgrade"}
    /\ \A u \in Uuids : done'[t][u] = "ok" =>
          \/ done[t][u] = "ok"
          \/ u \in DOMAIN rendezvous[t] /\ rendezvous[t][u] = "ok"
          \/ rx[t] # RxIdle /\ rx[t].u = u /\ tbmd'[t] = tbmd[t]
             /\ rx[t].step = "after" /\ rx[t].err \in {"ok", "downgrade"}

\* every step of a target: commitAfter and txns.wait only pass on what _syncBMD returned
LEMMA OutcomeStep ==
    ASSUME TTTypeOK, [TTNext]_ttvars, NEW s \in Targets
    PROVE  Outcome(s)
<1> USE DEF TTTypeOK
<1>1. ASSUME UNCHANGED <<rx, done>>, \/ UNCHANGED rendezvous
                                     \/ \E t \in Targets : \E u \in Uuids :
                                             rendezvous' = [rendezvous EXCEPT ![t] = Without(rendezvous[t], u)]
      PROVE  Outcome(s)
  <2>1. ASSUME NEW u \in DOMAIN rendezvous'[s]
        PROVE  u \in DOMAIN rendezvous[s] /\ rendezvous'[s][u] = rendezvous[s][u]
    <3>1. CASE rendezvous' = rendezvous
      BY <2>1, <3>1
    <3>2. ASSUME NEW t \in Targets, NEW v \in Uuids,
                 rendezvous' = [rendezvous EXCEPT ![t] = Without(rendezvous[t], v)]
          PROVE  u \in DOMAIN rendezvous[s] /\ rendezvous'[s][u] = rendezvous[s][u]
      <4>1. CASE s = t
        <5>1. rendezvous'[s] = Without(rendezvous[s], v)
          BY <3>2, <4>1
        <5> QED
          BY <2>1, <5>1 DEF Without
      <4>2. CASE s # t
        BY <2>1, <3>2, <4>2
      <4> QED
        BY <4>1, <4>2
    <3> QED
      BY <1>1, <3>1, <3>2
  <2> QED
    BY <1>1, <2>1 DEF Outcome
<1>2. ASSUME NEW t \in Targets, NEW u \in Uuids, Term(t, u), UNCHANGED <<rx, done>>
      PROVE  Outcome(s)
  BY <1>1, <1>2 DEF Term
<1>3. ASSUME NEW t \in Targets, NEW u \in Uuids, CommitWait(t, u)
      PROVE  Outcome(s)
  BY <1>3 DEF CommitWait, Outcome
<1>4. ASSUME NEW t \in Targets, NEW u \in Uuids, NEW bmd \in BMDs, RxBefore(t, u, bmd)
      PROVE  Outcome(s)
  <2> DEFINE r == [step |-> "apply", u |-> u, bmd |-> bmd]
  <2>1. r.step = "apply" /\ rx' = [rx EXCEPT ![t] = r] /\ done' = done
        /\ rendezvous' = [rendezvous EXCEPT ![t] = WithEntry(rendezvous[t], u, "none")]
    BY <1>4 DEF RxBefore
  <2> HIDE DEF r
  <2>2. \A v \in DOMAIN rendezvous'[s] : rendezvous'[s][v] = "ok" =>
            v \in DOMAIN rendezvous[s] /\ rendezvous[s][v] = "ok"
    BY <2>1 DEF WithEntry
  <2>3. rx'[s] = rx[s] \/ rx'[s].step = "apply"
    BY <2>1
  <2> QED
    BY <2>1, <2>2, <2>3 DEF Outcome
<1>5. ASSUME NEW t \in Targets, RxApply(t)
      PROVE  Outcome(s)
  <2>1. PICK err \in {"ok", "fail", "downgrade"} :
          /\ err = "downgrade" <=> rx[t].bmd.ver < tbmd[t].ver
          /\ tbmd' = IF err = "ok" /\ rx[t].bmd.ver > tbmd[t].ver
                     THEN [tbmd EXCEPT ![t] = rx[t].bmd] ELSE tbmd
          /\ rx' = [rx EXCEPT ![t] = [step |-> "after", u |-> rx[t].u, bmd |-> rx[t].bmd, err |-> err]]
    BY <1>5 DEF RxApply
  <2> DEFINE r == [step |-> "after", u |-> rx[t].u, bmd |-> rx[t].bmd, err |-> err]
  <2>2. r.bmd = rx[t].bmd /\ r.err = err /\ rx' = [rx EXCEPT ![t] = r]
    BY <2>1
  <2>3. UNCHANGED <<done, rendezvous>>
    BY <1>5 DEF RxApply
  <2> HIDE DEF r
  <2>4. rx[t].bmd \in BMDs
    BY <1>5, SMTT(30) DEF RxApply, RxIdle
  <2>5. tbmd[t].ver \in Nat /\ rx[t].bmd.ver \in Nat
    BY <2>4, TTAssumption DEF TTAssumption
  <2>6. err \in {"ok", "downgrade"} => tbmd'[t].ver >= rx[t].bmd.ver
    BY <2>1, <2>5, SMTT(30)
  <2>7. s # t => rx'[s] = rx[s]
    BY <2>2
  <2>8. rx'[t] = r
    BY <2>2
  <2> QED
    BY <2>2, <2>3, <2>6, <2>7, <2>8 DEF Outcome
<1>6. ASSUME NEW t \in Targets, RxAfter(t)
      PROVE  Outcome(s)
  <2>1. /\ rx[t].step = "after" /\ rx' = [rx EXCEPT ![t] = RxIdle] /\ tbmd' = tbmd
    BY <1>6 DEF RxAfter
  <2>2. rx[t] # RxIdle
    BY <2>1, SMTT(30) DEF RxIdle
  <2>3. rx[t].u \in Uuids
    BY <2>1, SMTT(30) DEF RxIdle
  <2> DEFINE w == rx[t].u
             Ren == rendezvous' = [rendezvous EXCEPT ![t][w] = rx[t].err]
             Don == done' = [done EXCEPT ![t][w] = Forgive(rx[t].err)]
  <2>4. (rendezvous' = rendezvous \/ Ren) /\ (done' = done \/ Don)
    BY <1>6 DEF RxAfter
  <2>5. \A v \in DOMAIN rendezvous'[s] : rendezvous'[s][v] = "ok" =>
            \/ v \in DOMAIN rendezvous[s] /\ rendezvous[s][v] = "ok"
            \/ s = t /\ w = v /\ rx[t].err = "ok"
    <3> HIDE DEF w
    <3>1. CASE Ren
      BY <3>1
    <3> QED
      BY <2>4, <3>1
  <2>6. \A v \in Uuids : done'[s][v] = "ok" =>
            \/ done[s][v] = "ok"
            \/ s = t /\ w = v /\ rx[t].err \in {"ok", "downgrade"}
    <3>1. w \in Uuids
      BY <2>3
    <3> HIDE DEF w
    <3>2. CASE Don
      BY <3>1, <3>2 DEF Forgive
    <3> QED
      BY <2>4, <3>2
  <2> QED
    BY <2>1, <2>2, <2>5, <2>6 DEF Outcome
<1>7. ASSUME NEW t \in Targets, TTStep(t)
      PROVE  Outcome(s)
  <2>1. ASSUME NEW u \in Uuids, BeginCreate(t, u) \/ BeginFail(t, u) \/ BeginPoll(t, u)
                                \/ BeginLocked(t, u) \/ BeginBusy(t, u) \/ GC(t, u)
        PROVE  Outcome(s)
    BY <1>1, <2>1 DEF BeginCreate, BeginFail, BeginPoll, BeginLocked, BeginBusy, GC
  <2>2. ASSUME NEW u \in Uuids, CommitRefuse(t, u) \/ CommitOK(t, u) \/ CommitFail(t, u) \/ Abort(t, u)
        PROVE  Outcome(s)
    BY <1>2, <2>2 DEF CommitRefuse, CommitOK, CommitFail, Abort
  <2>3. ASSUME NEW u \in Uuids, Cleanup(t, u)
        PROVE  Outcome(s)
    BY <1>1, <2>3 DEF Cleanup
  <2>4. ASSUME NEW bmd \in BMDs, RxPlainOK(t, bmd)
        PROVE  Outcome(s)
    BY <1>1, <2>4 DEF RxPlainOK
  <2> QED
    BY <1>3, <1>4, <1>5, <1>6, <1>7, <2>1, <2>2, <2>3, <2>4 DEF TTStep
<1> QED
  BY <1>1, <1>7 DEF TTNext, ttvars

\* every step: the target's BMD only goes forward from there
LEMMA AppliedStep ==
    ASSUME \A t \in Targets : AppliedOK(t), CarriedOK, PInv, PInv', WireOK, TTInv, TTTypeOK', pbmd \in BMDs, [Next]_vars
    PROVE  \A t \in Targets : AppliedOK(t)'
<1> SUFFICES ASSUME NEW t \in Targets
             PROVE  AppliedOK(t)'
  OBVIOUS
<1>1. Outcome(t) /\ Fwd
  BY OutcomeStep, FwdStep, WireStep DEF TTInv
<1>2. tbmd[t] \in BMDs /\ tbmd'[t] \in BMDs /\ DOMAIN rendezvous[t] \subseteq Uuids /\ DOMAIN rendezvous'[t] \subseteq Uuids
  BY DEF TTInv, TTTypeOK
<1>3. tbmd'[t].ver >= tbmd[t].ver
  BY <1>1 DEF Fwd
<1>4. ASSUME NEW u \in Uuids, Carried(mine[u], tbmd[t])
      PROVE  Carried(mine'[u], tbmd'[t])
  <2>1. Carried(mine'[u], tbmd[t])
    BY <1>4, CarriedStays
  <2>2. mine'[u] \in Nat
    BY DEF PInv, PTypes
  <2> QED
    BY <1>2, <1>3, <2>1, <2>2, CarriedNewer
<1>5. rx[t] # RxIdle => rx[t].bmd \in BMDs /\ rx[t].u \in Uuids
  <2>1. rx[t] \in {RxIdle} \cup [step : {"apply"}, u : Uuids, bmd : BMDs]
                           \cup [step : {"after"}, u : Uuids, bmd : BMDs, err : Errs]
    BY DEF TTInv, TTTypeOK
  <2> QED
    BY <2>1
<1>6. ASSUME rx[t] # RxIdle, rx[t].step = "after", rx[t].err \in {"ok", "downgrade"}
      PROVE  tbmd[t].ver >= rx[t].bmd.ver /\ Carried(mine[rx[t].u], tbmd[t])
  <2>1. tbmd[t].ver >= rx[t].bmd.ver
    BY <1>6 DEF AppliedOK
  <2>2. Carried(mine[rx[t].u], rx[t].bmd) /\ mine[rx[t].u] \in Nat
    BY <1>5, <1>6 DEF CarriedOK, PInv, PTypes
  <2> QED
    BY <1>2, <1>5, <1>6, <2>1, <2>2, CarriedNewer
<1>7. rx'[t] # RxIdle /\ rx'[t].step = "after" /\ rx'[t].err \in {"ok", "downgrade"} => tbmd'[t].ver >= rx'[t].bmd.ver
  <2>1. ASSUME rx'[t] # RxIdle, rx'[t].step = "after", rx'[t].err \in {"ok", "downgrade"}, rx'[t] = rx[t]
        PROVE  tbmd'[t].ver >= rx[t].bmd.ver
    <3>1. tbmd[t].ver >= rx[t].bmd.ver /\ rx[t].bmd \in BMDs
      BY <1>5, <1>6, <2>1
    <3>2. tbmd[t].ver \in Nat /\ tbmd'[t].ver \in Nat /\ rx[t].bmd.ver \in Nat
      BY <1>2, <3>1, TTAssumption DEF TTAssumption
    <3> QED
      BY <1>3, <3>1, <3>2, SMTT(30)
  <2> QED
    BY <1>1, <2>1 DEF Outcome
<1>8. \A u \in DOMAIN rendezvous'[t] : rendezvous'[t][u] = "ok" => Carried(mine'[u], tbmd'[t])
  <2> SUFFICES ASSUME NEW u \in DOMAIN rendezvous'[t], rendezvous'[t][u] = "ok"
               PROVE  Carried(mine'[u], tbmd'[t])
    OBVIOUS
  <2>1. u \in Uuids
    BY <1>2
  <2>2. Carried(mine[u], tbmd[t])
    BY <1>1, <1>6 DEF Outcome, AppliedOK
  <2> QED
    BY <1>4, <2>1, <2>2
<1>9. \A u \in Uuids : done'[t][u] = "ok" => Carried(mine'[u], tbmd'[t])
  <2> SUFFICES ASSUME NEW u \in Uuids, done'[t][u] = "ok"
               PROVE  Carried(mine'[u], tbmd'[t])
    OBVIOUS
  <2>1. Carried(mine[u], tbmd[t])
    BY <1>1, <1>6 DEF Outcome, AppliedOK
  <2> QED
    BY <1>4, <2>1
<1> QED
  BY <1>7, <1>8, <1>9 DEF AppliedOK

\* a commit broadcast without error so far: the targets that have answered have the BMD
AnsweredOK(u) ==
    /\ pc[u] = "commit" /\ ~bad[u] => \A t \in Targets \ wait[u] : Carried(mine[u], tbmd[t])
    /\ pc[u] = "ok" => mine[u] > 0 /\ \A t \in Targets : Carried(mine[u], tbmd[t])

\* an answer counts for the broadcast of its phase
LEMMA Answer ==
    ASSUME PTypes, NEW t \in Targets, NEW v \in Uuids, TxnHandler(t, v) \/ Housekeeper(t, v) \/ CallFault(v, t),
           NEW u \in Uuids, pc[u] = "commit", ~bad'[u]
    PROVE  ~bad[u] /\ \A s \in Targets \ wait'[u] : s \notin wait[u] \/ done[s][u] = "ok"
<1> USE DEF PTypes
<1>1. ASSUME UNCHANGED <<wait, bad>>
      PROVE  ~bad[u] /\ \A s \in Targets \ wait'[u] : s \notin wait[u] \/ done[s][u] = "ok"
  BY <1>1
<1>2. ASSUME NEW phase, NEW ok \in BOOLEAN, Reply(phase, v, t, ok), phase = "commit" /\ ok => done[t][v] = "ok"
      PROVE  ~bad[u] /\ \A s \in Targets \ wait'[u] : s \notin wait[u] \/ done[s][u] = "ok"
  <2>1. CASE ~(pc[v] = phase /\ t \in wait[v])
    BY <1>1, <1>2, <2>1 DEF Reply
  <2>2. CASE pc[v] = phase /\ t \in wait[v]
    <3>1. wait' = [wait EXCEPT ![v] = @ \ {t}] /\ bad' = [bad EXCEPT ![v] = @ \/ ~ok]
      BY <1>2, <2>2 DEF Reply
    <3>2. CASE v # u
      <4>1. wait'[u] = wait[u] /\ bad'[u] = bad[u]
        BY <3>1, <3>2
      <4> QED
        BY <4>1
    <3>3. CASE v = u
      <4>1. wait'[u] = wait[u] \ {t} /\ bad'[u] = (bad[u] \/ ~ok)
        BY <3>1, <3>3
      <4>2. ~bad[u] /\ ok
        BY <4>1
      <4>3. done[t][u] = "ok"
        BY <1>2, <2>2, <3>3, <4>2
      <4> QED
        BY <4>1, <4>2, <4>3
    <3> QED
      BY <3>2, <3>3
  <2> QED
    BY <2>1, <2>2
<1>3. CASE TxnHandler(t, v)
  <2>1. \/ UNCHANGED <<wait, bad>>
        \/ \E phase : \E ok \in BOOLEAN : Reply(phase, v, t, ok) /\ (phase = "commit" /\ ok => done[t][v] = "ok")
    <3>1. CASE CommitOK(t, v) /\ Reply("commit", v, t, TRUE)
      BY <3>1 DEF CommitOK
    <3>2. CASE \E ok \in BOOLEAN : Reply("begin", v, t, ok) \/ Reply("abort", v, t, ok)
      BY <3>2
    <3>3. CASE Reply("commit", v, t, FALSE)
      BY <3>3
    <3> QED
      BY <1>3, <3>1, <3>2, <3>3 DEF TxnHandler
  <2> QED
    BY <1>1, <1>2, <2>1
<1>4. CASE Housekeeper(t, v)
  BY <1>1, <1>4 DEF Housekeeper, pvars
<1>5. CASE CallFault(v, t)
  BY <1>2, <1>5 DEF CallFault
<1> QED
  BY <1>3, <1>4, <1>5

\* every step: an answer is a success only of a target that is done
LEMMA AnsweredStep ==
    ASSUME \A u \in Uuids : AnsweredOK(u), \A t \in Targets : AppliedOK(t), PInv, PInv', WireOK, TTInv, TTTypeOK',
           pbmd \in BMDs, [Next]_vars
    PROVE  \A u \in Uuids : AnsweredOK(u)'
<1>1. ASSUME NEW u \in Uuids, NEW t \in Targets, Carried(mine[u], tbmd[t])
      PROVE  Carried(mine'[u], tbmd'[t])
  <2>1. Carried(mine'[u], tbmd[t])
    BY <1>1, CarriedStays
  <2>2. mine'[u] \in Nat
    BY DEF PInv, PTypes
  <2>3. tbmd[t] \in BMDs /\ tbmd'[t] \in BMDs
    BY DEF TTInv, TTTypeOK
  <2>4. tbmd'[t].ver >= tbmd[t].ver
    BY FwdStep, WireStep DEF Fwd
  <2> QED
    BY <2>1, <2>2, <2>3, <2>4, CarriedNewer
<1>2. ASSUME NEW u \in Uuids, mine[u] > 0
      PROVE  mine'[u] > 0
  BY <1>2, MineFixed
<1>3. ASSUME NEW u \in Uuids, pc'[u] = pc[u], pc[u] = "commit" => wait'[u] = wait[u] /\ bad'[u] = bad[u]
      PROVE  AnsweredOK(u)'
  BY <1>1, <1>2, <1>3 DEF AnsweredOK
<1>4. ASSUME NEW u \in Uuids, NEW v \in Uuids, Request(v)
      PROVE  AnsweredOK(u)'
  <2>1. PICK l \in PCs : Goto(v, l)
    BY <1>4, RequestMoves
  <2>2. CASE u # v
    <3>1. pc'[u] = pc[u]
      BY <2>1, <2>2 DEF Goto, PInv, PTypes
    <3>2. UNCHANGED <<wait, bad>> \/ \E phase \in Phases : Bcast(v, phase)
      BY <1>4 DEF Request, StartLock, StartProps, StartNotFound, Locked, LockedExists, BeginDone, Modify,
             ModifyErr, ModifyPanic, Post, CommitDone, AbortDone, Undo, UndoPost, Phases
    <3>3. wait'[u] = wait[u] /\ bad'[u] = bad[u]
      BY <2>2, <3>2 DEF Bcast, PInv, PTypes
    <3> QED
      BY <1>3, <3>1, <3>3
  <2>3. CASE u = v
    <3>1. pc'[u] # "commit"
      BY <1>4, <2>3 DEF Request, StartLock, StartProps, StartNotFound, Locked, LockedExists, BeginDone, Modify,
             ModifyErr, ModifyPanic, Post, CommitDone, AbortDone, Undo, UndoPost, Bcast, Return, Goto, PInv, PTypes
    <3>2. pc'[u] = "ok" => CommitDone(u) /\ ~bad[u]
      BY <1>4, <2>3 DEF Request, StartLock, StartProps, StartNotFound, Locked, LockedExists, BeginDone, Modify,
             ModifyErr, ModifyPanic, Post, CommitDone, AbortDone, Undo, UndoPost, Bcast, Return, Goto, PInv, PTypes
    <3>3. ASSUME CommitDone(u), ~bad[u]
          PROVE  mine'[u] > 0 /\ \A t \in Targets : Carried(mine'[u], tbmd'[t])
      <4>1. pc[u] = "commit" /\ wait[u] = {}
        BY <3>3 DEF CommitDone
      <4>2. mine[u] > 0
        BY <4>1 DEF PInv, MineOK
      <4>3. \A t \in Targets : Carried(mine[u], tbmd[t])
        BY <3>3, <4>1 DEF AnsweredOK
      <4> QED
        BY <1>1, <1>2, <4>2, <4>3
    <3> QED
      BY <3>1, <3>2, <3>3 DEF AnsweredOK
  <2> QED
    BY <2>2, <2>3
<1>5. ASSUME NEW u \in Uuids, Metasyncer
      PROVE  AnsweredOK(u)'
  <2>1. CASE UNCHANGED <<pc, wait, bad>>
    BY <1>3, <2>1
  <2>2. CASE ms.waiter \in Uuids /\ Bcast(ms.waiter, "commit")
    <3>1. CASE u # ms.waiter
      <4>1. pc'[u] = pc[u] /\ wait'[u] = wait[u] /\ bad'[u] = bad[u]
        BY <2>2, <3>1 DEF Bcast, Goto, PInv, PTypes
      <4> QED
        BY <1>3, <4>1
    <3>2. CASE u = ms.waiter
      <4>1. pc'[u] = "commit" /\ wait'[u] = Targets
        BY <2>2, <3>2 DEF Bcast, Goto, PInv, PTypes
      <4> QED
        BY <4>1 DEF AnsweredOK
    <3> QED
      BY <3>1, <3>2
  <2> QED
    BY <1>5, <2>1, <2>2, MetasyncerKeeps
<1>6. ASSUME NEW u \in Uuids, NEW t \in Targets, RxHandler(t) \/ MsFault(t)
      PROVE  AnsweredOK(u)'
  BY <1>3, <1>6, RxKeeps DEF PrimaryKept
<1>7. ASSUME NEW u \in Uuids, NEW t \in Targets, NEW v \in Uuids,
             TxnHandler(t, v) \/ Housekeeper(t, v) \/ CallFault(v, t)
      PROVE  AnsweredOK(u)'
  <2>1. pc' = pc
    BY <1>7, HandlerTypes DEF PrimaryKept, PInv
  <2>2. ASSUME pc[u] = "commit", ~bad'[u], NEW s \in Targets \ wait'[u]
        PROVE  Carried(mine'[u], tbmd'[s])
    <3>1. ~bad[u] /\ (s \notin wait[u] \/ done[s][u] = "ok")
      BY <1>7, <2>2, Answer DEF PInv
    <3>2. Carried(mine[u], tbmd[s])
      BY <2>2, <3>1 DEF AnsweredOK, AppliedOK
    <3> QED
      BY <1>1, <3>2
  <2>3. pc[u] = "ok" => mine'[u] > 0 /\ \A s \in Targets : Carried(mine'[u], tbmd'[s])
    BY <1>1, <1>2 DEF AnsweredOK
  <2> QED
    BY <2>1, <2>2, <2>3 DEF AnsweredOK
<1>8. ASSUME NEW u \in Uuids, UNCHANGED vars
      PROVE  AnsweredOK(u)'
  BY <1>3, <1>8 DEF vars, pvars
<1> QED
  BY <1>4, <1>5, <1>6, <1>7, <1>8 DEF Next, Finished

\* what success rests on
SInv == CarriedOK /\ (\A t \in Targets : AppliedOK(t)) /\ (\A u \in Uuids : AnsweredOK(u))

\* nothing was sent yet
LEMMA InitSInv == Init => SInv
<1> SUFFICES ASSUME Init
             PROVE  SInv
  OBVIOUS
<1>1. ms \notin RoundRec
  BY DEF Init, MsIdle, RoundRec
<1>2. \A t \in Targets : rx[t] = RxIdle /\ DOMAIN rendezvous[t] = {} /\ \A u \in Uuids : done[t][u] = "none"
  BY DEF Init, TTInit
<1>3. net = {} /\ \A u \in Uuids : pc[u] = "idle"
  BY DEF Init
<1> QED
  BY <1>1, <1>2, <1>3 DEF SInv, CarriedOK, AppliedOK, AnsweredOK

\* the invariant behind success
LEMMA SInvariance == Spec /\ [](pbmd \in BMDs) => []SInv
<1>1. /\ SInv /\ PInv /\ PInv' /\ WireOK /\ TTInv /\ TTInv' /\ pbmd \in BMDs /\ [Next]_vars
      => SInv'
  <2> SUFFICES ASSUME SInv, PInv, PInv', WireOK, TTInv, TTInv', pbmd \in BMDs, [Next]_vars
               PROVE  SInv'
    OBVIOUS
  <2>1. TTTypeOK /\ TTTypeOK'
    BY DEF TTInv
  <2>2. CarriedOK'
    BY <2>1, CarriedStep DEF SInv
  <2>3. \A t \in Targets : AppliedOK(t)'
    BY <2>1, AppliedStep DEF SInv
  <2>4. \A u \in Uuids : AnsweredOK(u)'
    BY <2>1, AnsweredStep DEF SInv
  <2> QED
    BY <2>2, <2>3, <2>4 DEF SInv
<1> QED
  BY <1>1, InitSInv, PInvariance, ClusterRunsTargets, TTInvariance, PTL DEF Spec

\* what a client may rely on: when create, destroy, make-n-copies or set-props returns
\* success, every target has the BMD with that change or a newer one, whatever other
\* requests, retries, lost and late calls came in between
THEOREM SuccessReachesAll == Spec /\ [](pbmd \in BMDs) => []SuccessEverywhere
<1>1. SInv => SuccessEverywhere
  BY DEF SInv, AnsweredOK, Carried, SuccessEverywhere
<1> QED
  BY <1>1, SInvariance, PTL

-----------------------------------------------------------------------------
(* Coming to rest: no target is forgotten *)

\* a call of an earlier round, or of this one and with its BMD
OfRound(call, n, m) ==
    /\ call.round \in Nat /\ call.round <= n
    /\ m \in RoundRec /\ call.round = m.round => call.bmd = m.bmd

\* the rounds follow one another, and a target answers the call it was sent
RoundsOK ==
    /\ \A call \in net : call.k = "bmd" => OfRound(call, round, ms)
    /\ ms \in RoundRec => ms.round = round /\ ms.bmd = lastSynced
    /\ \A t \in Targets : rx[t] # RxIdle => OfRound(rxcall[t], round, ms) /\ rxcall[t].bmd = rx[t].bmd /\ rxcall[t].t = t

\* the call a target is processing
LEMMA RxCallFrom ==
    ASSUME WireOK, PTypes, TTTypeOK, pbmd \in BMDs, [Next]_vars, NEW s \in Targets, rx'[s] # RxIdle
    PROVE  \/ rx[s] # RxIdle /\ rx'[s].bmd = rx[s].bmd /\ rxcall'[s] = rxcall[s]
           \/ \E call \in net : call.k = "bmd" /\ call.t = s /\ rx'[s].bmd = call.bmd /\ rxcall'[s] = call
<1> DEFINE G == \/ rx[s] # RxIdle /\ rx'[s].bmd = rx[s].bmd /\ rxcall'[s] = rxcall[s]
                \/ \E call \in net : call.k = "bmd" /\ call.t = s /\ rx'[s].bmd = call.bmd /\ rxcall'[s] = call
<1>1. DOMAIN rx = Targets /\ DOMAIN rxcall = Targets
  BY DEF TTTypeOK, PTypes
<1>2. ASSUME UNCHANGED <<rx, rxcall>>
      PROVE  G
  BY <1>2
<1>3. ASSUME NEW t \in Targets, NEW call \in net, call.k = "bmd", call.t = t,
             RxBefore(t, call.u, call.bmd), rxcall' = [rxcall EXCEPT ![t] = call]
      PROVE  G
  <2> DEFINE r == [step |-> "apply", u |-> call.u, bmd |-> call.bmd]
  <2>1. rx' = [rx EXCEPT ![t] = r] /\ r.bmd = call.bmd
    BY <1>3 DEF RxBefore
  <2> HIDE DEF r
  <2>2. CASE s = t
    BY <1>1, <1>3, <2>1, <2>2
  <2>3. CASE s # t
    BY <1>1, <1>3, <2>1, <2>3
  <2> QED
    BY <2>2, <2>3
<1>4. ASSUME NEW t \in Targets, RxApply(t), rxcall' = rxcall
      PROVE  G
  <2>1. rx[t] # RxIdle
    BY <1>4, SMTT(30) DEF RxApply, RxIdle
  <2>2. PICK err : rx' = [rx EXCEPT ![t] = [step |-> "after", u |-> rx[t].u, bmd |-> rx[t].bmd, err |-> err]]
    BY <1>4 DEF RxApply
  <2> DEFINE r == [step |-> "after", u |-> rx[t].u, bmd |-> rx[t].bmd, err |-> err]
  <2>3. r.bmd = rx[t].bmd /\ rx' = [rx EXCEPT ![t] = r]
    BY <2>2
  <2> HIDE DEF r
  <2> QED
    BY <1>1, <1>4, <2>1, <2>3
<1>5. ASSUME NEW t \in Targets, RxAfter(t), rxcall' = [rxcall EXCEPT ![t] = MsIdle]
      PROVE  G
  <2>1. rx' = [rx EXCEPT ![t] = RxIdle]
    BY <1>5 DEF RxAfter
  <2> QED
    BY <1>1, <1>5, <2>1
<1>6. ASSUME NEW t \in Targets, RxHandler(t)
      PROVE  G
  <2>1. CASE UNCHANGED <<rx, rxcall>>
    BY <1>2, <2>1
  <2> HIDE DEF G
  <2> QED
    BY <1>3, <1>4, <1>5, <1>6, <2>1 DEF RxHandler, RxPlainOK, RxPlainErr, RxDup, ttvars
<1>7. ASSUME NEW t \in Targets, NEW u \in Uuids, TxnHandler(t, u) \/ Housekeeper(t, u) \/ CallFault(u, t)
      PROVE  UNCHANGED <<rx, rxcall>>
  BY <1>7 DEF TxnHandler, Housekeeper, CallFault, BeginCreate, BeginFail, BeginPoll, BeginLocked, BeginBusy,
         CommitWait, CommitRefuse, CommitOK, CommitFail, Abort, GC, Cleanup, ttvars
<1>8. ASSUME NEW u \in Uuids, Request(u)
      PROVE  UNCHANGED <<rx, rxcall>>
  BY <1>8, RequestWire, RequestMoves DEF ttvars
<1>9. ASSUME Metasyncer
      PROVE  G
  BY <1>2, <1>9, MetasyncerWire, MetasyncerKeeps DEF ttvars
<1>10. ASSUME NEW t \in Targets, MsFault(t)
       PROVE  G
  BY <1>2, <1>10, FaultWire DEF ttvars, MsFault
<1>11. ASSUME UNCHANGED vars
       PROVE  G
  BY <1>2, <1>11 DEF vars, ttvars
<1> HIDE DEF G
<1>12. G
  BY <1>2, <1>6, <1>7, <1>8, <1>9, <1>10, <1>11 DEF Next, Finished
<1> QED
  BY <1>12 DEF G

\* every step: the answer to a call of an earlier round counts no more
LEMMA RoundsStep ==
    ASSUME RoundsOK, WireOK, PInv, TTTypeOK, pbmd \in BMDs, [Next]_vars
    PROVE  RoundsOK'
<1>1. MsIdle \notin RoundRec /\ round \in Nat
  BY DEF MsIdle, RoundRec, WireOK
<1>2. ASSUME NEW call, OfRound(call, round, ms)
      PROVE  OfRound(call, round', ms')
  <2>1. CASE NewRound
    <3>1. call.round <= round' /\ call.round # round'
      BY <1>1, <1>2, <2>1, SMTT(30) DEF NewRound, OfRound
    <3>2. ms'.round = round' /\ call.round \in Nat
      BY <1>2, <2>1 DEF NewRound, OfRound
    <3> QED
      BY <3>1, <3>2 DEF OfRound
  <2>2. CASE SameOrEnd
    BY <1>1, <1>2, <2>2 DEF SameOrEnd, SameRound, OfRound
  <2> QED
    BY <2>1, <2>2, MsSteps
<1>3. \A call \in net' : call.k = "bmd" => OfRound(call, round', ms')
  <2> SUFFICES ASSUME NEW call \in net', call.k = "bmd"
               PROVE  OfRound(call, round', ms')
    OBVIOUS
  <2>1. CASE call \in net
    BY <1>2, <2>1 DEF RoundsOK
  <2>2. CASE NewRound /\ call.bmd = ms'.bmd /\ call.round = round'
    <3>1. round' \in Nat /\ round' <= round'
      BY <1>1, <2>2, SMTT(30) DEF NewRound
    <3> QED
      BY <2>2, <3>1 DEF OfRound
  <2>3. CASE OfMs(call)
    <3>1. call.round = round /\ call.bmd = ms.bmd
      BY <2>3 DEF OfMs, RoundsOK
    <3>2. round <= round
      BY <1>1, SMTT(30)
    <3>3. OfRound(call, round, ms)
      BY <1>1, <3>1, <3>2 DEF OfRound
    <3> QED
      BY <1>2, <3>3
  <2> QED
    BY <2>1, <2>2, <2>3, MsSteps DEF NewRound, SameOrEnd
<1>4. ms' \in RoundRec => ms'.round = round' /\ ms'.bmd = lastSynced'
  BY <1>1, MsSteps DEF NewRound, SameOrEnd, SameRound, RoundsOK
<1>5. ASSUME NEW t \in Targets, rx'[t] # RxIdle
      PROVE  OfRound(rxcall'[t], round', ms') /\ rxcall'[t].bmd = rx'[t].bmd /\ rxcall'[t].t = t
  <2>1. CASE rx[t] # RxIdle /\ rx'[t].bmd = rx[t].bmd /\ rxcall'[t] = rxcall[t]
    BY <1>2, <2>1 DEF RoundsOK
  <2>2. ASSUME NEW call \in net, call.k = "bmd", call.t = t, rx'[t].bmd = call.bmd, rxcall'[t] = call
        PROVE  OfRound(rxcall'[t], round', ms') /\ rxcall'[t].bmd = rx'[t].bmd /\ rxcall'[t].t = t
    BY <1>2, <2>2 DEF RoundsOK
  <2>3. PTypes
    BY DEF PInv
  <2> QED
    BY <1>5, <2>1, <2>2, <2>3, RxCallFrom
<1> QED
  BY <1>3, <1>4, <1>5 DEF RoundsOK

\* the metasyncer still owes target t a BMD: its retry is pending, or the round is on
Owed(t) == t \in unsynced \/ (ms \in RoundRec /\ t \in DOMAIN ms.try)

\* no target is behind without being owed a BMD; and what the primary has changed since
\* the last round started is queued, or about to be
SyncingOK ==
    /\ \A t \in Targets : tbmd[t].ver < lastSynced.ver => Owed(t)
    /\ lastSynced.ver < pbmd.ver => q # <<>> \/ \E u \in Uuids : pc[u] \in {"post", "undopost"}

\* a target leaves a round as unsynced, or with an answer
LEMMA LeavesRound ==
    ASSUME NEW t, ms \in RoundRec, ms' = [ms EXCEPT !.try = Without(ms.try, t)], ms' \in RoundRec,
           NEW s, Owed(s), s # t, unsynced \ {t} \subseteq unsynced'
    PROVE  Owed(s)'
<1>1. ms'.try = Without(ms.try, t)
  BY DEF RoundRec
<1>2. DOMAIN ms'.try = DOMAIN ms.try \ {t}
  BY <1>1 DEF Without
<1> QED
  BY <1>2 DEF Owed

\* a refused or timed-out call is sent again, or left to the retry timer
LEMMA RetryOwes ==
    ASSUME NEW t, NEW calls, ms \in RoundRec, ms' \in RoundRec, MsRetry(t, calls), NEW s, Owed(s)
    PROVE  Owed(s)'
<1>1. CASE MsFailed(t)
  <2>1. ms' = [ms EXCEPT !.try = Without(ms.try, t)] /\ unsynced' = unsynced \cup {t}
    BY <1>1 DEF MsFailed
  <2>2. CASE s = t
    BY <2>1, <2>2 DEF Owed
  <2>3. CASE s # t
    BY <2>1, <2>3, LeavesRound
  <2> QED
    BY <2>2, <2>3
<1>2. CASE ms' = [ms EXCEPT !.try[t] = ms.try[t] + 1] /\ UNCHANGED unsynced
  <2> DEFINE f == [ms.try EXCEPT ![t] = ms.try[t] + 1]
  <2>1. ms' = [ms EXCEPT !.try = f] /\ DOMAIN f = DOMAIN ms.try
    BY <1>2
  <2> HIDE DEF f
  <2>2. ms'.try = f
    BY <2>1 DEF RoundRec
  <2> QED
    BY <1>2, <2>1, <2>2 DEF Owed
<1> QED
  BY <1>1, <1>2 DEF MsRetry

\* an answer ends a target's part in the round only if it is the one awaited
LEMMA ReplyOwes ==
    ASSUME WireOK, NEW call, NEW accepted \in BOOLEAN, NEW calls \in SUBSET net, MsReply(call, accepted, calls),
           NEW s, Owed(s)
    PROVE  Owed(s)' \/ (accepted /\ ms \in RoundRec /\ call.round = ms.round /\ s = call.t)
<1>1. CASE ~Awaited(call)
  BY <1>1 DEF MsReply, Owed
<1>2. CASE Awaited(call)
  <2>1. ms \in RoundRec /\ call.round = ms.round
    BY <1>2, SMTT(30) DEF Awaited, WireOK, MsIdle
  <2>2. Sound(calls)
    BY DEF WireOK, Sound
  <2>3. ms' \in RoundRec
    BY <2>1, <2>2, ReplyOK DEF MsKept, SameRound
  <2>4. CASE MsRetry(call.t, calls)
    BY <2>1, <2>3, <2>4, RetryOwes
  <2>5. CASE MsFailed(call.t)
    <3>1. ms' = [ms EXCEPT !.try = Without(ms.try, call.t)] /\ unsynced' = unsynced \cup {call.t}
      BY <2>5 DEF MsFailed
    <3>2. CASE s = call.t
      BY <3>1, <3>2 DEF Owed
    <3>3. CASE s # call.t
      BY <2>1, <2>3, <3>1, <3>3, LeavesRound
    <3> QED
      BY <3>2, <3>3
  <2>6. CASE accepted /\ MsOK(call.t)
    <3>1. ms' = [ms EXCEPT !.try = Without(ms.try, call.t)] /\ unsynced' = unsynced \ {call.t}
      BY <2>6 DEF MsOK
    <3>2. CASE s # call.t
      BY <2>1, <2>3, <3>1, <3>2, LeavesRound
    <3> QED
      BY <2>1, <2>6, <3>2
  <2> QED
    BY <1>2, <2>4, <2>5, <2>6 DEF MsReply
<1> QED
  BY <1>1, <1>2

\* a target that was owed the BMD of the last round still is, or has it
LEMMA RxOwes ==
    ASSUME WireOK, RoundsOK, TTInv, \A t \in Targets : AppliedOK(t), pbmd \in BMDs,
           NEW t \in Targets, RxHandler(t), NEW s \in Targets, Owed(s)
    PROVE  Owed(s)' \/ tbmd'[s].ver >= lastSynced.ver
<1>1. CASE UNCHANGED <<ms, unsynced>>
  BY <1>1 DEF Owed
<1>2. ASSUME NEW call, NEW calls \in SUBSET net, MsReply(call, FALSE, calls)
      PROVE  Owed(s)'
  BY <1>2, ReplyOwes
<1>3. ASSUME NEW call \in net, call.k = "bmd", call.t = t, RxPlainOK(t, call.bmd), MsReply(call, TRUE, net \ {call})
      PROVE  Owed(s)' \/ tbmd'[s].ver >= lastSynced.ver
  <2>1. Owed(s)' \/ (ms \in RoundRec /\ call.round = ms.round /\ s = t)
    BY <1>3, ReplyOwes
  <2>2. ASSUME ms \in RoundRec, call.round = ms.round
        PROVE  tbmd'[t].ver >= lastSynced.ver
    <3>1. call.bmd = lastSynced
      BY <1>3, <2>2 DEF RoundsOK, OfRound
    <3>2. lastSynced.ver \in Nat /\ tbmd[t].ver \in Nat
      BY TTAssumption DEF TTAssumption, WireOK, TTInv, TTTypeOK
    <3>3. /\ lastSynced.ver >= tbmd[t].ver
          /\ tbmd' = IF lastSynced.ver > tbmd[t].ver THEN [tbmd EXCEPT ![t] = lastSynced] ELSE tbmd
          /\ t \in DOMAIN tbmd
      BY <1>3, <3>1 DEF RxPlainOK, TTInv, TTTypeOK
    <3> QED
      BY <3>2, <3>3, SMTT(30)
  <2> QED
    BY <2>1, <2>2
<1>4. CASE RxAfter(t) /\ MsReply(rxcall[t], RxAccepted(t), net)
  <2>1. RxAccepted(t) \in BOOLEAN
    BY DEF RxAccepted
  <2>2. Owed(s)' \/ (RxAccepted(t) /\ ms \in RoundRec /\ rxcall[t].round = ms.round /\ s = rxcall[t].t)
    BY <1>4, <2>1, ReplyOwes
  <2>3. rx[t] # RxIdle /\ rx[t].step = "after" /\ tbmd' = tbmd
    BY <1>4, SMTT(30) DEF RxAfter, RxIdle
  <2>4. RxAccepted(t) => tbmd[t].ver >= rx[t].bmd.ver
    BY <2>3 DEF RxAccepted, AppliedOK
  <2>5. rxcall[t].t = t /\ rxcall[t].bmd = rx[t].bmd /\ OfRound(rxcall[t], round, ms)
    BY <2>3 DEF RoundsOK
  <2>6. ms \in RoundRec /\ rxcall[t].round = ms.round => rx[t].bmd = lastSynced
    BY <2>5 DEF OfRound, RoundsOK
  <2> QED
    BY <2>2, <2>3, <2>4, <2>5, <2>6
<1> QED
  BY <1>1, <1>2, <1>3, <1>4 DEF RxHandler

\* every step: what one request, round or target gives up another keeps
LEMMA SyncingStep ==
    ASSUME SyncingOK, RoundsOK, WireOK, PInv, TTInv, TTTypeOK', \A t \in Targets : AppliedOK(t),
           pbmd \in BMDs, pbmd' \in BMDs, [Next]_vars
    PROVE  SyncingOK'
<1>1. lastSynced.ver \in Nat /\ pbmd.ver \in Nat
  BY TTAssumption DEF TTAssumption, WireOK
<1>2. \A t \in Targets : tbmd[t].ver \in Nat /\ tbmd'[t].ver \in Nat /\ tbmd'[t].ver >= tbmd[t].ver
  <2>1. Fwd
    BY FwdStep, WireStep
  <2> QED
    BY <2>1, TTAssumption DEF TTAssumption, Fwd, TTInv, TTTypeOK
<1>3. ASSUME lastSynced' = lastSynced,
             \A t \in Targets : Owed(t) => Owed(t)' \/ tbmd'[t].ver >= lastSynced.ver
      PROVE  \A t \in Targets : tbmd'[t].ver < lastSynced'.ver => Owed(t)'
  <2> TAKE t \in Targets
  <2>1. tbmd'[t].ver < lastSynced.ver => tbmd[t].ver < lastSynced.ver /\ ~(tbmd'[t].ver >= lastSynced.ver)
    BY <1>1, <1>2, SMTT(30)
  <2> QED
    BY <1>3, <2>1 DEF SyncingOK
<1>4. ASSUME UNCHANGED <<ms, unsynced, lastSynced>>
      PROVE  \A t \in Targets : tbmd'[t].ver < lastSynced'.ver => Owed(t)'
  BY <1>3, <1>4 DEF Owed
<1>5. ASSUME PrimaryKept, lastSynced' = lastSynced
      PROVE  lastSynced'.ver < pbmd'.ver => q' # <<>> \/ \E u \in Uuids : pc'[u] \in {"post", "undopost"}
  BY <1>5 DEF PrimaryKept, SyncingOK
<1>6. ASSUME NEW u \in Uuids, Request(u)
      PROVE  SyncingOK'
  <2>1. UNCHANGED <<ms, unsynced, lastSynced>>
    BY <1>6 DEF Request, StartLock, StartProps, StartNotFound, Locked, LockedExists, BeginDone, Modify,
           ModifyErr, ModifyPanic, Post, CommitDone, AbortDone, Undo, UndoPost, msvars
  <2>2. PICK l \in PCs : Goto(u, l)
    BY <1>6, RequestMoves
  <2>3. pc'[u] = l /\ \A v \in Uuids : v # u => pc'[v] = pc[v]
    BY <2>2 DEF Goto, PInv, PTypes
  <2>4. q' = q \/ Post(u) \/ UndoPost(u)
    BY <1>6 DEF Request, StartLock, StartProps, StartNotFound, Locked, LockedExists, BeginDone, Modify,
           ModifyErr, ModifyPanic, CommitDone, AbortDone, Undo, msvars
  <2>5. CASE Post(u) \/ UndoPost(u)
    <3>1. PICK e : q' = Append(q, e)
      BY <2>5 DEF Post, UndoPost
    <3>2. q' # <<>>
      BY <3>1, SMTT(30) DEF WireOK
    <3> QED
      BY <1>4, <2>1, <3>2 DEF SyncingOK
  <2>6. CASE pbmd' # pbmd
    <3>1. Modify(u) \/ (Undo(u) /\ Goto(u, "undopost"))
      BY <1>6, <2>6 DEF Request, StartLock, StartProps, StartNotFound, Locked, LockedExists, BeginDone,
             ModifyErr, ModifyPanic, Post, CommitDone, AbortDone, Undo, UndoPost
    <3>2. pc'[u] \in {"post", "undopost"}
      BY <3>1 DEF Modify, Goto, PInv, PTypes
    <3> QED
      BY <1>4, <2>1, <3>2 DEF SyncingOK
  <2>7. CASE q' = q /\ pbmd' = pbmd /\ ~Post(u) /\ ~UndoPost(u)
    <3>1. pc[u] \notin {"post", "undopost"}
      BY <1>6, <2>7 DEF Request, StartLock, StartProps, StartNotFound, Locked, LockedExists, BeginDone, Modify,
             ModifyErr, ModifyPanic, CommitDone, AbortDone, Undo
    <3>2. \A v \in Uuids : pc[v] \in {"post", "undopost"} => pc'[v] = pc[v]
      BY <2>3, <3>1
    <3>3. lastSynced'.ver < pbmd'.ver => q' # <<>> \/ \E v \in Uuids : pc'[v] \in {"post", "undopost"}
      BY <2>1, <2>7, <3>2 DEF SyncingOK
    <3> QED
      BY <1>4, <2>1, <3>3 DEF SyncingOK
  <2> QED
    BY <2>4, <2>5, <2>6, <2>7
<1>7. CASE MsDo
  <2>1. /\ q # <<>> /\ lastSynced' = pbmd /\ pbmd' = pbmd
        /\ StartRound(Round(Head(q).u, Head(q).waiter, pbmd, Targets, FALSE))
    BY <1>7 DEF MsDo, pvars
  <2>2. 1 \in DOMAIN q /\ Head(q) = q[1]
    BY <2>1, TailQ DEF WireOK
  <2>3. q[1] \in QRec
    BY <2>2, SMTT(30) DEF WireOK
  <2>4. Head(q).u \in Txns /\ Head(q).waiter \in Txns
    BY <2>2, <2>3 DEF QRec
  <2>5. ms' \in RoundRec /\ DOMAIN ms'.try = Targets
    BY <2>1, <2>4, StartOK
  <2>6. ~(pbmd.ver < pbmd.ver)
    BY <1>1, SMTT(30)
  <2> QED
    BY <2>1, <2>5, <2>6 DEF SyncingOK, Owed
<1>8. CASE MsPending
  <2>1. /\ UNCHANGED <<pbmd, pc, q, unsynced, lastSynced>> /\ ms = MsIdle
    BY <1>8 DEF MsPending, pvars
  <2>2. MsIdle \notin RoundRec
    BY DEF MsIdle, RoundRec
  <2>3. \A t \in Targets : Owed(t) => Owed(t)'
    BY <2>1, <2>2 DEF Owed
  <2> QED
    BY <1>3, <2>1, <2>3 DEF SyncingOK
<1>9. CASE MsDone
  <2>1. UNCHANGED <<pbmd, q, unsynced, lastSynced>> /\ DOMAIN ms.try = {} /\ ms \in RoundRec
    BY <1>9, SMTT(30) DEF MsDone, WireOK, MsIdle
  <2>2. \A t \in Targets : Owed(t) => Owed(t)'
    BY <2>1 DEF Owed
  <2>3. \A v \in Uuids : pc[v] \in {"post", "undopost"} => pc'[v] = pc[v]
    <3>1. CASE pc' = pc
      BY <3>1
    <3>2. CASE ms.waiter # NoTxn /\ Goto(ms.waiter, "commit")
      <4>1. pc[ms.waiter] = "sync"
        BY <2>1, <3>2 DEF PInv, WaitersOK, Awaits
      <4> QED
        BY <3>2, <4>1 DEF Goto, PInv, PTypes
    <3> QED
      BY <1>9, <3>1, <3>2 DEF MsDone, Bcast, Nobody
  <2>4. lastSynced'.ver < pbmd'.ver => q' # <<>> \/ \E v \in Uuids : pc'[v] \in {"post", "undopost"}
    BY <2>1, <2>3 DEF SyncingOK
  <2> QED
    BY <1>3, <2>1, <2>2, <2>4 DEF SyncingOK
<1>10. ASSUME NEW t \in Targets, RxHandler(t)
       PROVE  SyncingOK'
  <2>1. PrimaryKept /\ lastSynced' = lastSynced
    BY <1>10, RxKeeps
  <2>2. \A s \in Targets : Owed(s) => Owed(s)' \/ tbmd'[s].ver >= lastSynced.ver
    BY <1>10, RxOwes
  <2> QED
    BY <1>3, <1>5, <2>1, <2>2 DEF SyncingOK
<1>11. ASSUME NEW t \in Targets, MsFault(t)
       PROVE  SyncingOK'
  <2>1. PrimaryKept /\ lastSynced' = lastSynced
    BY <1>11, RxKeeps
  <2>2. ms \in RoundRec
    BY <1>11, SMTT(30) DEF MsFault, WireOK, MsIdle
  <2>3. ms' \in RoundRec
    BY <1>11, <2>2, RxRound DEF MsKept, SameRound
  <2>4. PICK calls : MsRetry(t, calls)
    BY <1>11 DEF MsFault
  <2>5. \A s \in Targets : Owed(s) => Owed(s)'
    BY <2>2, <2>3, <2>4, RetryOwes
  <2> QED
    BY <1>3, <1>5, <2>1, <2>5 DEF SyncingOK
<1>12. ASSUME NEW t \in Targets, NEW u \in Uuids, TxnHandler(t, u) \/ Housekeeper(t, u) \/ CallFault(u, t)
       PROVE  SyncingOK'
  <2>1. PrimaryKept
    BY <1>12, HandlerTypes DEF PInv
  <2>2. UNCHANGED <<ms, unsynced, lastSynced>>
    BY <1>12 DEF TxnHandler, Housekeeper, CallFault, msvars
  <2> QED
    BY <1>4, <1>5, <2>1, <2>2 DEF SyncingOK
<1>13. CASE UNCHANGED vars
  <2>1. PrimaryKept /\ UNCHANGED <<ms, unsynced, lastSynced>>
    BY <1>13 DEF vars, msvars, pvars, PrimaryKept
  <2> QED
    BY <1>4, <1>5, <2>1 DEF SyncingOK
<1> QED
  BY <1>6, <1>7, <1>8, <1>9, <1>10, <1>11, <1>12, <1>13 DEF Next, Finished, Metasyncer

\* what coming to rest rests on
RInv == RoundsOK /\ SyncingOK

\* all targets have the first BMD
LEMMA InitRInv == Init /\ pbmd \in BMDs => RInv
<1> SUFFICES ASSUME Init, pbmd \in BMDs
             PROVE  RInv
  OBVIOUS
<1>1. ms \notin RoundRec /\ net = {} /\ lastSynced = pbmd /\ \A t \in Targets : tbmd[t] = pbmd /\ rx[t] = RxIdle
  BY DEF Init, TTInit, MsIdle, RoundRec
<1>2. pbmd.ver \in Nat
  BY TTAssumption DEF TTAssumption
<1>3. ~(pbmd.ver < pbmd.ver)
  BY <1>2, SMTT(30)
<1> QED
  BY <1>1, <1>3 DEF RInv, RoundsOK, SyncingOK

\* and with nothing left to do nothing is missing
LEMMA QuietIsClean ==
    ASSUME PInv, WireOK, TTInv, RInv, SameVersionSameBMD, pbmd \in BMDs
    PROVE  SettledClean
<1>1. TypeOK
  <2>1. TTTypeOK /\ lastSynced \in BMDs /\ unsynced \subseteq Targets
    BY DEF TTInv, WireOK
  <2>2. DOMAIN plocks \subseteq Bcks
    <3>1. \A b \in DOMAIN plocks : \E u \in Uuids : BckOf[u] = b
      BY DEF PInv, PLocksOK
    <3>2. \A u \in Uuids : BckOf[u] \in Bcks
      BY TTAssumption DEF TTAssumption
    <3> QED
      BY <3>1, <3>2
  <2>3. pc \in [Uuids -> PCs] /\ wait \in [Uuids -> SUBSET Targets] /\ faults \in 0..MaxFaults
    BY DEF PInv, PTypes
  <2>4. \A call \in net : call \in Calls \/ (call.k = "bmd" /\ call.bmd \in BMDs)
    BY DEF PInv, PTypes, WireOK, Sound
  <2> QED
    BY <2>1, <2>2, <2>3, <2>4 DEF TypeOK
<1>2. ASSUME AllQuiet
      PROVE  DOMAIN plocks = {}
  <2>1. \A u \in Uuids : ~Holds(u)
    BY <1>2 DEF AllQuiet, Holds, Holding, Final
  <2> QED
    BY <2>1 DEF PInv, PLocksOK
<1>3. ASSUME AllQuiet, NEW t \in Targets
      PROVE  DOMAIN locks[t] = {}
  <2>1. DOMAIN txns[t] = {}
    BY <1>3 DEF AllQuiet
  <2>2. DOMAIN locks[t] \subseteq Bcks
    BY DEF TTInv, TTTypeOK
  <2>3. \A b \in Bcks : b \notin DOMAIN locks[t]
    BY <2>1 DEF TTInv, LockOwnership
  <2> QED
    BY <2>2, <2>3
<1>4. ASSUME AllQuiet, NEW t \in Targets
      PROVE  tbmd[t] = pbmd
  <2>1. ~Owed(t)
    <3>1. ms \notin RoundRec /\ unsynced = {}
      BY <1>4 DEF AllQuiet, MsIdle, RoundRec
    <3> QED
      BY <3>1 DEF Owed
  <2>2. ~(lastSynced.ver < pbmd.ver)
    <3>1. q = <<>> /\ \A u \in Uuids : pc[u] \notin {"post", "undopost"}
      BY <1>4 DEF AllQuiet, Final
    <3> QED
      BY <3>1 DEF RInv, SyncingOK
  <2>3. ~(tbmd[t].ver < lastSynced.ver)
    BY <2>1 DEF RInv, SyncingOK
  <2>4. tbmd[t].ver \in Nat /\ lastSynced.ver \in Nat /\ pbmd.ver \in Nat
    BY TTAssumption DEF TTAssumption, WireOK, TTInv, TTTypeOK
  <2>5. tbmd[t].ver <= pbmd.ver
    BY DEF SameVersionSameBMD
  <2>6. tbmd[t].ver = pbmd.ver
    BY <2>2, <2>3, <2>4, <2>5, SMTT(30)
  <2> QED
    BY <2>6 DEF SameVersionSameBMD
<1> QED
  BY <1>1, <1>2, <1>3, <1>4 DEF SettledClean

\* whatever was lost, late, retried, aborted, rolled back or reclaimed: once every request
\* has returned and nothing is on the wire, queued or pending, every target has the
\* primary's BMD and no bucket is locked anywhere
THEOREM RestIsClean == Spec /\ [](pbmd \in BMDs) => []SettledClean
<1>1. /\ SInv /\ RInv /\ PInv /\ PInv' /\ WireOK /\ TTInv /\ TTInv'
      /\ pbmd \in BMDs /\ (pbmd \in BMDs)' /\ [Next]_vars
      => RInv'
  <2> SUFFICES ASSUME SInv, RInv, PInv, PInv', WireOK, TTInv, TTInv', pbmd \in BMDs, (pbmd \in BMDs)', [Next]_vars
               PROVE  RInv'
    OBVIOUS
  <2>1. TTTypeOK /\ TTTypeOK'
    BY DEF TTInv
  <2>2. RoundsOK'
    BY <2>1, RoundsStep DEF RInv
  <2>3. SyncingOK'
    BY <2>1, SyncingStep DEF RInv, SInv
  <2> QED
    BY <2>2, <2>3 DEF RInv
<1>2. PInv /\ WireOK /\ TTInv /\ RInv /\ SameVersionSameBMD /\ pbmd \in BMDs => SettledClean
  BY QuietIsClean
<1> QED
  BY <1>1, <1>2, InitRInv, SInvariance, PInvariance, VersionsIdentify, ClusterRunsTargets, TTInvariance, PTL DEF Spec
=============================================================================
