------------------------------- MODULE BckTxn -------------------------------
(***************************************************************************)
(* Bucket transactions end to end: the primary proxy (ais/prxtxn.go) runs  *)
(* create, destroy, make-n-copies and set-props requests concurrently,     *)
(* each as                                                                 *)
(*    lock -- begin -- modify BMD -- metasync -- commit  [-- abort, undo]  *)
(* against the targets of module TargetTxns, over calls that may be lost   *)
(* or outlive their timeout.                                               *)
(*                                                                         *)
(* A request is known by its transaction's uuid.  The metasyncer is the    *)
(* part of ais/metasync.go that matters here: one round at a time, the     *)
(* current BMD whatever version was asked for (jit), retries of refused    *)
(* and timed-out calls with the same message, and later retries of what    *)
(* is still pending with no transaction uuid.                              *)
(***************************************************************************)
EXTENDS TargetTxns, Sequences

CONSTANTS
    InitBcks,       \* buckets that exist at the start
    MaxTries,       \* attempts of a metasync round per target: 1 + retrySyncRefused
    MaxFaults,      \* bound: lost or timed-out calls and failed saves in a behaviour
    HkRuns          \* does the housekeeper come round within the behaviours considered?

ASSUME BTAssumption == MaxTries \in Nat \ {0} /\ MaxFaults \in Nat /\ HkRuns \in BOOLEAN

VARIABLES
    pbmd,           \* the primary's owner.bmd
    plocks,         \* the primary's bckLocker
    stuck,          \* owner.bmd's mutex was left locked
    pc,             \* pc[u]: where the request's goroutine is
    wait,           \* wait[u]: targets whose answer the current broadcast awaits
    bad,            \* bad[u]: the current broadcast collected an error
    seen,           \* seen[u]: createBucket found the bucket in the BMD it read first
    mine,           \* mine[u]: the BMD version the request produced, 0 if none
    revert,         \* revert[u]: ctx.revertProps
    q,              \* metasyncer.workCh: <<[u, waiter]>>
    ms,             \* the metasync round in progress, or MsIdle
    round,          \* rounds started
    unsynced,       \* targets whose nodesRevs are behind lastSynced, retry timer on
    lastSynced,     \* lastSynced[BMD]
    net,            \* calls on the wire
    rxcall,         \* rxcall[t]: the metasync call target t is processing
    faults

pvars == <<pbmd, plocks, stuck, pc, wait, bad, seen, mine, revert>>
msvars == <<q, ms, round, unsynced, lastSynced>>
vars == <<ttvars, pvars, msvars, net, rxcall, faults>>

MsIdle == [on |-> FALSE]
Nobody == NoTxn
Phases == {"begin", "commit", "abort"}
PCs == Phases \cup {"idle", "lock", "modify", "post", "sync", "undo", "undopost",
                    "ok", "err", "panic"}
Final == {"ok", "err", "panic"}

Init ==
    /\ pbmd = [ver |-> 2, bcks |-> [b \in InitBcks |-> [bid |-> 1, val |-> NoTxn]]]
    /\ TTInit /\ tbmd = [t \in Targets |-> pbmd]
    /\ plocks = EmptyMap
    /\ stuck = FALSE
    /\ pc = [u \in Uuids |-> "idle"]
    /\ wait = [u \in Uuids |-> {}]
    /\ bad = [u \in Uuids |-> FALSE]
    /\ seen = [u \in Uuids |-> FALSE]
    /\ mine = [u \in Uuids |-> 0]
    /\ revert = [u \in Uuids |-> NoTxn]
    /\ q = <<>>
    /\ ms = MsIdle
    /\ round = 0
    /\ unsynced = {}
    /\ lastSynced = pbmd
    /\ net = {}
    /\ rxcall = [t \in Targets |-> MsIdle]
    /\ faults = 0

\* every failure of the environment draws on one budget
Fault == faults < MaxFaults /\ faults' = faults + 1

-----------------------------------------------------------------------------
(* the request's goroutine                                                 *)

Goto(u, l) == pc' = [pc EXCEPT ![u] = l]

\* txnCln.bcast of a phase to all targets
Bcast(u, phase) ==
    /\ Goto(u, phase)
    /\ wait' = [wait EXCEPT ![u] = Targets]
    /\ bad' = [bad EXCEPT ![u] = FALSE]
    /\ net' = net \cup {[k |-> phase, u |-> u, t |-> t] : t \in Targets}

\* the handler returns; createBucket and destroyBucket unlock (defer)
Return(u, res) ==
    /\ Goto(u, res)
    /\ plocks' = IF OpOf[u] \in {"create", "destroy"}
                 THEN Unlock(plocks, BckOf[u], TRUE) ELSE plocks

\* createBucket and destroyBucket go for the bucket lock; createBucket has
\* already read the BMD it will check
StartLock(u) ==
    /\ pc[u] = "idle" /\ OpOf[u] \in {"create", "destroy"}
    /\ Goto(u, "lock")
    /\ seen' = [seen EXCEPT ![u] = Present(pbmd, BckOf[u])]
    /\ UNCHANGED <<ttvars, msvars, net, rxcall, faults, pbmd, plocks, stuck, wait, bad, mine, revert>>

\* makeNCopies and setBprops confirm existence and begin without a lock
StartProps(u) ==
    /\ pc[u] = "idle" /\ NeedsBck(u) /\ Present(pbmd, BckOf[u])
    /\ Bcast(u, "begin")
    /\ UNCHANGED <<ttvars, msvars, rxcall, faults, pbmd, plocks, stuck, seen, mine, revert>>

StartNotFound(u) ==
    /\ pc[u] = "idle" /\ NeedsBck(u) /\ ~Present(pbmd, BckOf[u])
    /\ Goto(u, "err")
    /\ UNCHANGED <<ttvars, msvars, net, rxcall, faults, pbmd, plocks, stuck, wait, bad, seen, mine, revert>>

\* nlp.Lock() returns: begin
Locked(u) ==
    /\ pc[u] = "lock" /\ TryOK(plocks, BckOf[u], TRUE)
    /\ ~(OpOf[u] = "create" /\ seen[u])
    /\ plocks' = TryLock(plocks, BckOf[u], TRUE)
    /\ Bcast(u, "begin")
    /\ UNCHANGED <<ttvars, msvars, rxcall, faults, pbmd, stuck, seen, mine, revert>>

\* ... or the bucket already existed in the BMD read before locking
LockedExists(u) ==
    /\ pc[u] = "lock" /\ TryOK(plocks, BckOf[u], TRUE)
    /\ OpOf[u] = "create" /\ seen[u]
    /\ Goto(u, "err")
    /\ UNCHANGED <<ttvars, msvars, net, rxcall, faults, pbmd, plocks, stuck, wait, bad, seen, mine, revert>>

\* txnCln.begin: all targets have answered
BeginDone(u) ==
    /\ pc[u] = "begin" /\ wait[u] = {}
    /\ IF bad[u] THEN Bcast(u, "abort")
                 ELSE Goto(u, "modify") /\ UNCHANGED <<wait, bad, net>>
    /\ UNCHANGED <<ttvars, msvars, rxcall, faults, pbmd, plocks, stuck, seen, mine, revert>>

\* bmodCreate and bmodRm refuse on a second look; the others do not look
Refused(u) ==
    \/ OpOf[u] = "create" /\ Present(pbmd, BckOf[u])
    \/ OpOf[u] = "destroy" /\ ~Present(pbmd, BckOf[u])

\* owner.bmd.modify, under its mutex: ctx.pre and putPersist
Modify(u) ==
    /\ pc[u] = "modify" /\ ~stuck
    /\ ~Refused(u)
    /\ NeedsBck(u) => Present(pbmd, BckOf[u])
    /\ pbmd' = CASE OpOf[u] = "create"  -> add(pbmd, BckOf[u], u)
                 [] OpOf[u] = "destroy" -> del(pbmd, BckOf[u])
                 [] OTHER               -> set(pbmd, BckOf[u], u)
    /\ mine' = [mine EXCEPT ![u] = pbmd'.ver]
    /\ revert' = IF NeedsBck(u) THEN [revert EXCEPT ![u] = pbmd.bcks[BckOf[u]].val] ELSE revert
    /\ Goto(u, "post")
    /\ UNCHANGED <<ttvars, msvars, net, rxcall, faults, plocks, stuck, wait, bad, seen>>

\* owner.bmd.modify returns an error (refused, or putPersist failed): abort
ModifyErr(u) ==
    /\ pc[u] = "modify" /\ ~stuck
    /\ \/ Refused(u) /\ UNCHANGED faults
       \/ /\ ~Refused(u) /\ (NeedsBck(u) => Present(pbmd, BckOf[u]))
          /\ Fault
    /\ Bcast(u, "abort")
    /\ UNCHANGED <<ttvars, msvars, rxcall, pbmd, plocks, stuck, seen, mine, revert>>

\* bmodMirror, bmodSetProps with the bucket gone: debug.Assert(present), then a
\* nil dereference while modify holds the mutex (it does not unlock on panic)
ModifyPanic(u) ==
    /\ pc[u] = "modify" /\ ~stuck
    /\ NeedsBck(u) /\ ~Present(pbmd, BckOf[u])
    /\ stuck' = TRUE
    /\ Goto(u, "panic")
    /\ UNCHANGED <<ttvars, msvars, net, rxcall, faults, pbmd, plocks, wait, bad, seen, mine, revert>>

\* bmodSync, after the mutex is released: queue the BMD, then wait for the round
Post(u) ==
    /\ pc[u] = "post"
    /\ q' = Append(q, [u |-> u, waiter |-> u])
    /\ Goto(u, "sync")
    /\ UNCHANGED <<ttvars, net, rxcall, faults, pbmd, plocks, stuck, wait, bad, seen, mine, revert,
                   ms, round, unsynced, lastSynced>>

\* mutant: errors of the commit phase are not looked at
CommitDoneBlind(u) ==
    /\ pc[u] = "commit" /\ wait[u] = {}
    /\ Return(u, "ok") /\ UNCHANGED <<wait, bad, net>>
    /\ UNCHANGED <<ttvars, msvars, rxcall, faults, pbmd, stuck, seen, mine, revert>>

\* mutant: a failed create-bucket unlocks before it rolls back
CommitDoneUnlockEarly(u) ==
    /\ pc[u] = "commit" /\ wait[u] = {}
    /\ IF bad[u] /\ OpOf[u] = "create"
       THEN /\ Goto(u, "undo") /\ plocks' = DelEntry(plocks, BckOf[u]) /\ UNCHANGED <<wait, bad, net>>
       ELSE IF ~bad[u] THEN Return(u, "ok") /\ UNCHANGED <<wait, bad, net>>
       ELSE Bcast(u, "abort") /\ UNCHANGED plocks
    /\ UNCHANGED <<ttvars, msvars, rxcall, faults, pbmd, stuck, seen, mine, revert>>

\* txnCln.commit: all targets have answered; a failed create-bucket is rolled
\* back (and not aborted), the others are aborted
CommitDone(u) ==
    /\ pc[u] = "commit" /\ wait[u] = {}
    /\ IF ~bad[u] THEN Return(u, "ok") /\ UNCHANGED <<wait, bad, net>>
       ELSE IF OpOf[u] = "create" THEN Goto(u, "undo") /\ UNCHANGED <<plocks, wait, bad, net>>
       ELSE Bcast(u, "abort") /\ UNCHANGED plocks
    /\ UNCHANGED <<ttvars, msvars, rxcall, faults, pbmd, stuck, seen, mine, revert>>

\* bcastAbort returns; a make-n-copies that got as far as commit is rolled back
AbortDone(u) ==
    /\ pc[u] = "abort" /\ wait[u] = {}
    /\ IF OpOf[u] = "mnc" /\ mine[u] > 0
       THEN Goto(u, "undo") /\ UNCHANGED plocks
       ELSE Return(u, "err")
    /\ UNCHANGED <<ttvars, msvars, net, rxcall, faults, pbmd, stuck, wait, bad, seen, mine, revert>>

\* undoCreateBucket, undoUpdateCopies: modify again if the bucket is still there
Undo(u) ==
    /\ pc[u] = "undo" /\ ~stuck
    /\ IF Present(pbmd, BckOf[u])
       THEN /\ pbmd' = IF OpOf[u] = "create" THEN del(pbmd, BckOf[u])
                                             ELSE set(pbmd, BckOf[u], revert[u])
            /\ Goto(u, "undopost")
            /\ UNCHANGED plocks
       ELSE Return(u, "err") /\ UNCHANGED pbmd
    /\ UNCHANGED <<ttvars, msvars, net, rxcall, faults, stuck, wait, bad, seen, mine, revert>>

\* mutant: the rollback stays with the primary
UndoPostNoSync(u) ==
    /\ pc[u] = "undopost"
    /\ Return(u, "err")
    /\ UNCHANGED <<ttvars, net, rxcall, faults, pbmd, stuck, wait, bad, seen, mine, revert, msvars>>

\* bmodSync of the rollback: no transaction, nobody waits
UndoPost(u) ==
    /\ pc[u] = "undopost"
    /\ q' = Append(q, [u |-> NoTxn, waiter |-> Nobody])
    /\ Return(u, "err")
    /\ UNCHANGED <<ttvars, net, rxcall, faults, pbmd, stuck, wait, bad, seen, mine, revert,
                   ms, round, unsynced, lastSynced>>

Request(u) ==
    \/ StartLock(u) \/ StartProps(u) \/ StartNotFound(u) \/ Locked(u) \/ LockedExists(u)
    \/ BeginDone(u) \/ Modify(u) \/ ModifyErr(u) \/ ModifyPanic(u) \/ Post(u)
    \/ CommitDone(u) \/ AbortDone(u) \/ Undo(u) \/ UndoPost(u)

-----------------------------------------------------------------------------
(* the metasyncer                                                          *)

MsCall(t, try) == [k |-> "bmd", u |-> ms.u, t |-> t, bmd |-> ms.bmd, round |-> ms.round, try |-> try]

Round(u, waiter, bmd, to, pending) ==
    [on |-> TRUE, u |-> u, waiter |-> waiter, bmd |-> bmd, round |-> round + 1,
     pending |-> pending, try |-> [t \in to |-> 1]]

StartRound(r) ==
    /\ ms' = r
    /\ round' = round + 1
    /\ net' = net \cup {[k |-> "bmd", u |-> r.u, t |-> t, bmd |-> r.bmd,
                         round |-> r.round, try |-> 1] : t \in DOMAIN r.try}

\* metasyncer.do: the head of the queue, with the BMD current by now (jit)
MsDo ==
    /\ ms = MsIdle /\ q # <<>>
    /\ StartRound(Round(Head(q).u, Head(q).waiter, pbmd, Targets, FALSE))
    /\ q' = Tail(q)
    /\ lastSynced' = pbmd
    /\ UNCHANGED <<ttvars, pvars, unsynced, rxcall, faults>>

\* handlePending, when the retry timer fires: lastSynced, and no transaction
MsPending ==
    /\ ms = MsIdle /\ unsynced # {}
    /\ StartRound(Round(NoTxn, Nobody, lastSynced, unsynced, TRUE))
    /\ UNCHANGED <<ttvars, pvars, q, unsynced, lastSynced, rxcall, faults>>

\* the answer of target t to the round's current attempt: done; or failed for now
MsOK(t) ==
    /\ ms' = [ms EXCEPT !.try = Without(ms.try, t)]
    /\ unsynced' = unsynced \ {t}

MsFailed(t) ==
    /\ ms' = [ms EXCEPT !.try = Without(ms.try, t)]
    /\ unsynced' = unsynced \cup {t}

\* handleRefused: the same message once more; after the last attempt, failed for now
MsRetry(t, calls) ==
    IF ~ms.pending /\ ms.try[t] < MaxTries
    THEN /\ ms' = [ms EXCEPT !.try[t] = ms.try[t] + 1]
         /\ net' = calls \cup {MsCall(t, ms.try[t] + 1)}
         /\ UNCHANGED unsynced
    ELSE MsFailed(t) /\ net' = calls

\* is anyone still waiting for this call?
Awaited(call) ==
    ms.on /\ call.round = ms.round /\ call.t \in DOMAIN ms.try /\ call.try = ms.try[call.t]

\* a metasync handler answers; an error other than a lost connection is not
\* retried after the first attempt, but keeps a refused node in the loop
MsReply(call, accepted, calls) ==
    IF ~Awaited(call)
    THEN net' = calls /\ UNCHANGED <<ms, unsynced>>
    ELSE IF accepted THEN MsOK(call.t) /\ net' = calls
    ELSE IF call.try = 1 THEN MsFailed(call.t) /\ net' = calls
    ELSE MsRetry(call.t, calls)

\* all targets accounted for: wg.Done, and the waiter moves on to commit
MsDone ==
    /\ ms.on /\ DOMAIN ms.try = {}
    /\ ms' = MsIdle
    /\ IF ms.waiter = Nobody THEN UNCHANGED <<pc, wait, bad, net>> ELSE Bcast(ms.waiter, "commit")
    /\ UNCHANGED <<ttvars, q, round, unsynced, lastSynced, rxcall, faults,
                   pbmd, plocks, stuck, seen, mine, revert>>

Metasyncer == MsDo \/ MsPending \/ MsDone

-----------------------------------------------------------------------------
(* targets: handlers of module TargetTxns joined to their callers          *)

ptail == <<pbmd, plocks, stuck, pc, seen, mine, revert>>

\* the answer to a begin, commit or abort call counts if its broadcast still waits
Reply(phase, u, t, ok) ==
    IF pc[u] = phase /\ t \in wait[u]
    THEN /\ wait' = [wait EXCEPT ![u] = @ \ {t}]
         /\ bad' = [bad EXCEPT ![u] = @ \/ ~ok]
    ELSE UNCHANGED <<wait, bad>>

Take(phase, u, t) ==
    /\ [k |-> phase, u |-> u, t |-> t] \in net
    /\ net' = net \ {[k |-> phase, u |-> u, t |-> t]}

TxnHandler(t, u) ==
    /\ \/ /\ Take("begin", u, t)
          /\ \/ BeginCreate(t, u) /\ Reply("begin", u, t, TRUE)
             \/ BeginFail(t, u) /\ Reply("begin", u, t, FALSE)
             \/ BeginPoll(t, u) /\ UNCHANGED <<wait, bad>>
       \/ /\ UNCHANGED net
          /\ \/ BeginLocked(t, u) /\ Reply("begin", u, t, TRUE)
             \/ BeginBusy(t, u) /\ Reply("begin", u, t, FALSE)
             \/ CommitOK(t, u) /\ Reply("commit", u, t, TRUE)
             \/ CommitFail(t, u) /\ Reply("commit", u, t, FALSE)
       \/ /\ Take("commit", u, t)
          /\ \/ CommitWait(t, u) /\ UNCHANGED <<wait, bad>>
             \/ CommitRefuse(t, u) /\ Reply("commit", u, t, FALSE)
       \/ /\ Take("abort", u, t)
          /\ Abort(t, u) /\ Reply("abort", u, t, TRUE)
    /\ UNCHANGED <<ptail, msvars, rxcall, faults>>

\* PUT /v1/metasync: one at a time (regstate lock)
RxHandler(t) ==
    /\ \/ \E call \in net :
             /\ call.k = "bmd" /\ call.t = t
             /\ \/ /\ call.u = NoTxn /\ RxPlainOK(t, call.bmd)
                   /\ MsReply(call, TRUE, net \ {call}) /\ UNCHANGED <<rxcall, faults>>
                \/ /\ call.u = NoTxn /\ RxPlainErr(t, call.bmd)
                   /\ IF call.bmd.ver < tbmd[t].ver THEN UNCHANGED faults ELSE Fault
                   /\ MsReply(call, FALSE, net \ {call}) /\ UNCHANGED rxcall
                \/ /\ call.u # NoTxn /\ RxBefore(t, call.u, call.bmd)
                   /\ rxcall' = [rxcall EXCEPT ![t] = call]
                   /\ net' = net \ {call} /\ UNCHANGED <<ms, unsynced, faults>>
                \/ /\ call.u # NoTxn /\ RxDup(t, call.u)
                   /\ MsReply(call, FALSE, net \ {call}) /\ UNCHANGED <<rxcall, faults>>
       \/ /\ RxApply(t)
          /\ IF rx'[t].err = "fail" THEN Fault ELSE UNCHANGED faults
          /\ UNCHANGED <<net, ms, unsynced, rxcall>>
       \/ /\ RxAfter(t)
          /\ MsReply(rxcall[t], RxAccepted(t), net)
          /\ rxcall' = [rxcall EXCEPT ![t] = MsIdle]
          /\ UNCHANGED faults
    /\ UNCHANGED <<pvars, q, round, lastSynced>>

\* a transaction is reclaimed 2 * max_host_busy after its begin, by when the
\* primary is done with its begin broadcast (2 * max_keepalive) and its local update
Housekeeper(t, u) ==
    /\ (GC(t, u) /\ HkRuns /\ pc[u] \notin {"begin", "modify", "post"}) \/ Cleanup(t, u)
    /\ UNCHANGED <<pvars, msvars, net, rxcall, faults>>

-----------------------------------------------------------------------------
(* the network                                                             *)

\* a begin, commit or abort call times out at the primary, or is lost
CallFault(u, t) ==
    /\ Fault
    /\ pc[u] \in Phases /\ t \in wait[u]
    /\ Reply(pc[u], u, t, FALSE)
    /\ net' \in {net, net \ {[k |-> pc[u], u |-> u, t |-> t]}}
    /\ UNCHANGED <<ttvars, ptail, msvars, rxcall>>

\* a metasync call times out at the primary, or its connection is refused
MsFault(t) ==
    /\ Fault
    /\ ms.on /\ t \in DOMAIN ms.try
    /\ \E calls \in {net, net \ {MsCall(t, ms.try[t])}} : MsRetry(t, calls)
    /\ UNCHANGED <<ttvars, pvars, q, round, lastSynced, rxcall>>

\* every request returned and nothing is left to do
AllQuiet ==
    /\ \A u \in Uuids : pc[u] \in Final
    /\ net = {} /\ ms = MsIdle /\ q = <<>> /\ unsynced = {}
    /\ \A t \in Targets : /\ rx[t] = RxIdle
                          /\ DOMAIN txns[t] = {} /\ polling[t] = {} /\ waiting[t] = {}
                          /\ orphans[t] = {}

Finished == AllQuiet /\ UNCHANGED vars

Next ==
    \/ \E u \in Uuids : Request(u)
    \/ Metasyncer
    \/ \E t \in Targets : RxHandler(t) \/ MsFault(t)
    \/ \E t \in Targets, u \in Uuids : TxnHandler(t, u) \/ Housekeeper(t, u) \/ CallFault(u, t)
    \/ Finished

Spec == Init /\ [][Next]_vars

\* every goroutine runs, the retry timer fires, and the housekeeper comes round;
\* polling, waiting and queued work is thus served, faults stay optional
Fairness ==
    /\ \A u \in Uuids : WF_vars(Request(u))
    /\ WF_vars(Metasyncer)
    /\ \A t \in Targets : WF_vars(RxHandler(t))
    /\ \A t \in Targets, u \in Uuids : WF_vars(TxnHandler(t, u)) /\ WF_vars(Housekeeper(t, u))

FairSpec == Spec /\ Fairness

-----------------------------------------------------------------------------
Calls == [k : Phases, u : Uuids, t : Targets]

\* the types of the primary's variables
TypeOK ==
    /\ TTTypeOK
    /\ pbmd \in BMDs /\ lastSynced \in BMDs
    /\ DOMAIN plocks \subseteq Bcks
    /\ pc \in [Uuids -> PCs]
    /\ wait \in [Uuids -> SUBSET Targets]
    /\ \A call \in net : call \in Calls \/ (call.k = "bmd" /\ call.bmd \in BMDs)
    /\ unsynced \subseteq Targets
    /\ faults \in 0..MaxFaults

\* what a client may rely on when create, destroy, make-n-copies or set-props
\* returns success: every target has the BMD with that change, or a newer one
SuccessEverywhere ==
    \A u \in Uuids : pc[u] = "ok" =>
        mine[u] > 0 /\ \A t \in Targets : tbmd[t].ver >= mine[u]

\* versions identify contents: no target is ahead of the primary, and a target
\* that has the primary's version has the primary's buckets and props
SameVersionSameBMD ==
    \A t \in Targets : /\ tbmd[t].ver <= pbmd.ver
                       /\ tbmd[t].ver = pbmd.ver => tbmd[t] = pbmd

\* undoCreateBucket removes by name: what it removes must be the bucket that
\* this very request created (BID), not one created since
UndoRemovesOwn ==
    \A u \in Uuids : pc[u] = "undo" /\ OpOf[u] = "create" =>
        Present(pbmd, BckOf[u]) /\ pbmd.bcks[BckOf[u]].bid = mine[u] - 1

\* the state keeps its types, and once everything has come to rest, whatever was
\* lost, late, aborted or reclaimed: targets and primary agree, and no bucket is
\* locked anywhere
SettledClean ==
    /\ TypeOK
    /\ AllQuiet => /\ \A t \in Targets : tbmd[t] = pbmd /\ DOMAIN locks[t] = {}
                   /\ DOMAIN plocks = {}

\* bmodMirror and bmodSetProps assert that the bucket is still there
\* (debug.Assert(present)) when the begin phase has succeeded everywhere
NoPanic == \A u \in Uuids : pc[u] # "panic"

\* every request returns and the cluster comes to rest: no commit handler waits
\* forever, no bucket stays locked, every target gets the last BMD
ComesToRest == <>[]AllQuiet
=============================================================================
