----------------------------- MODULE TargetTxns -----------------------------
(***************************************************************************)
(* The target half of two-phase commit (ais/txn.go, ais/tgttxn.go) and the *)
(* receipt of bucket metadata that completes a transaction (receiveBMD in  *)
(* ais/tgtcp.go).  A transaction is known by its uuid; `OpOf` and `BckOf`  *)
(* give its action and bucket.                                             *)
(*                                                                         *)
(* Begin, commit and abort requests and metasync-ed BMDs arrive in any     *)
(* order and at any time (each uuid begins at most once per target: the    *)
(* primary generates it and does not resend).  Handlers run concurrently:  *)
(* a begin may sit polling for the bucket lock, a commit may sit waiting   *)
(* for the BMD, the BMD handler takes three steps, and the housekeeper may *)
(* reclaim a transaction between any two of them.  Each action is named    *)
(* for the outcome it reports to the caller.                               *)
(***************************************************************************)
EXTENDS NLC, BMD, FiniteSets

CONSTANTS
    Targets,
    Bcks,
    Uuids,          \* transactions
    NoTxn,          \* the empty msg.UUID of a BMD that belongs to no transaction
    OpOf,           \* [Uuids -> Ops]
    BckOf,          \* [Uuids -> Bcks]
    BMDs            \* the bucket metadata that can be received

Ops == {"create", "destroy", "mnc", "setprops"}

ASSUME TTAssumption ==
    /\ NoTxn \notin Uuids
    /\ OpOf \in [Uuids -> Ops]
    /\ BckOf \in [Uuids -> Bcks]
    /\ \A bmd \in BMDs : bmd.ver \in Nat

VARIABLES
    tbmd,           \* tbmd[t]: owner.bmd
    locks,          \* locks[t]: bckLocker, an nlc map
    txns,           \* txns[t]: txns.m as a function from the registered uuids to txn.nlps
    rendezvous,     \* rendezvous[t]: rendezvous.m, from uuids to their rndzvs.err
    done,           \* done[t][u]: txn.err of the transaction object (outlives txns.m)
    began,          \* began[t]: uuids whose begin request has arrived
    polling,        \* polling[t]: begin handlers inside nlp.TryLock
    waiting,        \* waiting[t]: commit handlers inside txns.wait
    orphans,        \* orphans[t]: reclaimed by housekeep, cleanup goroutine not yet run
    rx              \* rx[t]: the metasync PUT being processed (regstate lock), or RxIdle

ttvars == <<tbmd, locks, txns, rendezvous, done, began, polling, waiting, orphans, rx>>

RxIdle == [step |-> "idle"]
Errs == {"none", "ok", "fail", "downgrade"}       \* "none": no *txnError stored yet

WithEntry(f, u, x) == [v \in DOMAIN f \cup {u} |-> IF v = u THEN x ELSE f[v]]
Without(f, u) == [v \in DOMAIN f \ {u} |-> f[v]]

TTInit ==
    /\ \E bmd \in BMDs : tbmd = [t \in Targets |-> bmd]
    /\ locks = [t \in Targets |-> EmptyMap]
    /\ txns = [t \in Targets |-> [u \in {} |-> {}]]
    /\ rendezvous = [t \in Targets |-> [u \in {} |-> "none"]]
    /\ done = [t \in Targets |-> [u \in Uuids |-> "none"]]
    /\ began = [t \in Targets |-> {}]
    /\ polling = [t \in Targets |-> {}]
    /\ waiting = [t \in Targets |-> {}]
    /\ orphans = [t \in Targets |-> {}]
    /\ rx = [t \in Targets |-> RxIdle]

-----------------------------------------------------------------------------
(* txns                                                                    *)

\* txn.unlock: every NLP of the transaction
UnlockAll(m, nlps) == [b \in DOMAIN m \ nlps |-> m[b]]

\* mutant: the transaction is forgotten with its bucket still locked
TermNoUnlock(t, u) ==
    IF u \in DOMAIN txns[t]
    THEN /\ txns' = [txns EXCEPT ![t] = Without(txns[t], u)]
         /\ rendezvous' = [rendezvous EXCEPT ![t] = Without(rendezvous[t], u)]
         /\ UNCHANGED locks
    ELSE UNCHANGED <<txns, rendezvous, locks>>

\* txns.term (Commit2PC, Abort2PC or cleanup): no-op when the txn is not registered
Term(t, u) ==
    IF u \in DOMAIN txns[t]
    THEN /\ txns' = [txns EXCEPT ![t] = Without(txns[t], u)]
         /\ rendezvous' = [rendezvous EXCEPT ![t] = Without(rendezvous[t], u)]
         /\ locks' = [locks EXCEPT ![t] = UnlockAll(locks[t], txns[t][u])]
    ELSE UNCHANGED <<txns, rendezvous, locks>>

-----------------------------------------------------------------------------
(* begin                                                                   *)

NeedsBck(u) == OpOf[u] \in {"mnc", "setprops"}       \* c.bck.Init(t.owner.bmd)

\* create-bucket takes no lock: the transaction is registered at once
BeginCreate(t, u) ==
    /\ u \notin began[t] /\ OpOf[u] = "create"
    /\ began' = [began EXCEPT ![t] = @ \cup {u}]
    /\ txns' = [txns EXCEPT ![t] = WithEntry(txns[t], u, {})]
    /\ UNCHANGED <<tbmd, locks, rendezvous, done, polling, waiting, orphans, rx>>

\* begin fails: the bucket does not exist, or (create) the remote backend
\* refused and txnHandler's cleanup removed what begin had registered
BeginFail(t, u) ==
    /\ u \notin began[t]
    /\ \/ NeedsBck(u) /\ ~Present(tbmd[t], BckOf[u])
       \/ OpOf[u] = "create"
    /\ began' = [began EXCEPT ![t] = @ \cup {u}]
    /\ UNCHANGED <<tbmd, locks, txns, rendezvous, done, polling, waiting, orphans, rx>>

\* the request passed its checks and enters nlp.TryLock
BeginPoll(t, u) ==
    /\ u \notin began[t] /\ OpOf[u] # "create"
    /\ NeedsBck(u) => Present(tbmd[t], BckOf[u])
    /\ began' = [began EXCEPT ![t] = @ \cup {u}]
    /\ polling' = [polling EXCEPT ![t] = @ \cup {u}]
    /\ UNCHANGED <<tbmd, locks, txns, rendezvous, done, waiting, orphans, rx>>

\* nlp.TryLock succeeds; txns.begin registers the transaction and its lock
BeginLocked(t, u) ==
    /\ u \in polling[t] /\ TryOK(locks[t], BckOf[u], TRUE)
    /\ polling' = [polling EXCEPT ![t] = @ \ {u}]
    /\ locks' = [locks EXCEPT ![t] = TryLock(locks[t], BckOf[u], TRUE)]
    /\ txns' = [txns EXCEPT ![t] = WithEntry(txns[t], u, {BckOf[u]})]
    /\ UNCHANGED <<tbmd, rendezvous, done, began, waiting, orphans, rx>>

\* the last attempt of nlp.TryLock finds the bucket busy
BeginBusy(t, u) ==
    /\ u \in polling[t] /\ ~TryOK(locks[t], BckOf[u], TRUE)
    /\ polling' = [polling EXCEPT ![t] = @ \ {u}]
    /\ UNCHANGED <<tbmd, locks, txns, rendezvous, done, began, waiting, orphans, rx>>

-----------------------------------------------------------------------------
(* commit and abort                                                        *)

\* the transaction is found: txns.wait moves an error (or success) left in the
\* rendezvous record to the transaction, then polls
CommitWait(t, u) ==
    /\ u \in DOMAIN txns[t] /\ u \notin waiting[t]
    /\ NeedsBck(u) => Present(tbmd[t], BckOf[u])
    /\ waiting' = [waiting EXCEPT ![t] = @ \cup {u}]
    /\ done' = IF u \in DOMAIN rendezvous[t] /\ rendezvous[t][u] # "none"
               THEN [done EXCEPT ![t][u] = rendezvous[t][u]]
               ELSE done
    /\ UNCHANGED <<tbmd, locks, txns, rendezvous, began, polling, orphans, rx>>

\* commit fails at once: the bucket is gone (txnHandler's cleanup then ends the
\* transaction), or the transaction is not registered
CommitRefuse(t, u) ==
    /\ \/ NeedsBck(u) /\ ~Present(tbmd[t], BckOf[u])
       \/ u \notin DOMAIN txns[t]
    /\ Term(t, u)
    /\ UNCHANGED <<tbmd, done, began, polling, waiting, orphans, rx>>

\* _wait sees the transaction done without error: term, report success
CommitOK(t, u) ==
    /\ u \in waiting[t] /\ done[t][u] = "ok"
    /\ waiting' = [waiting EXCEPT ![t] = @ \ {u}]
    /\ Term(t, u)
    /\ UNCHANGED <<tbmd, done, began, polling, orphans, rx>>

\* mutant: the wait goes on polling when the transaction is gone
CommitFailNoGone(t, u) ==
    /\ u \in waiting[t]
    /\ IF done[t][u] = "none" /\ u \notin DOMAIN txns[t]
       THEN UNCHANGED ttvars
       ELSE /\ done[t][u] = "none" => u \in DOMAIN rendezvous[t]
            /\ done[t][u] = "ok" => NeedsBck(u)
            /\ waiting' = [waiting EXCEPT ![t] = @ \ {u}]
            /\ Term(t, u)
            /\ UNCHANGED <<tbmd, done, began, polling, orphans, rx>>

\* commit fails: done with an error; or done but the xaction would not start;
\* or no longer registered (aborted, reclaimed); or, once the rendezvous record
\* is there, the host timeout.  There is no other timeout: create, destroy,
\* make-n-copies and set-props send no network timeout (waitmsync)
CommitFail(t, u) ==
    /\ u \in waiting[t]
    /\ \/ done[t][u] \in {"fail", "downgrade"}
       \/ done[t][u] = "ok" /\ NeedsBck(u)
       \/ done[t][u] = "none" /\ u \notin DOMAIN txns[t]
       \/ done[t][u] = "none" /\ u \in DOMAIN rendezvous[t]
    /\ waiting' = [waiting EXCEPT ![t] = @ \ {u}]
    /\ Term(t, u)
    /\ UNCHANGED <<tbmd, done, began, polling, orphans, rx>>

Abort(t, u) ==
    /\ Term(t, u)
    /\ UNCHANGED <<tbmd, done, began, polling, waiting, orphans, rx>>

-----------------------------------------------------------------------------
(* bucket metadata: commitBefore -- applyBMD -- commitAfter                *)

\* a BMD that belongs to no transaction: applied when newer, ok when the same
RxPlainOK(t, bmd) ==
    /\ rx[t] = RxIdle
    /\ bmd.ver >= tbmd[t].ver
    /\ tbmd' = IF bmd.ver > tbmd[t].ver THEN [tbmd EXCEPT ![t] = bmd] ELSE tbmd
    /\ UNCHANGED <<locks, txns, rendezvous, done, began, polling, waiting, orphans, rx>>

\* ... and refused when older (downgrade), or when fs.CreateBucket fails for a new bucket
RxPlainErr(t, bmd) ==
    /\ rx[t] = RxIdle
    /\ \/ bmd.ver < tbmd[t].ver
       \/ bmd.ver > tbmd[t].ver /\ \E b \in DOMAIN bmd.bcks : ~Present(tbmd[t], b)
    /\ UNCHANGED ttvars

\* commitBefore: leave the rendezvous record
RxBefore(t, u, bmd) ==
    /\ rx[t] = RxIdle /\ u \notin DOMAIN rendezvous[t]
    /\ rendezvous' = [rendezvous EXCEPT ![t] = WithEntry(rendezvous[t], u, "none")]
    /\ rx' = [rx EXCEPT ![t] = [step |-> "apply", u |-> u, bmd |-> bmd]]
    /\ UNCHANGED <<tbmd, locks, txns, done, began, polling, waiting, orphans>>

\* commitBefore: the record already exists
RxDup(t, u) ==
    /\ rx[t] = RxIdle /\ u \in DOMAIN rendezvous[t]
    /\ UNCHANGED ttvars

\* applyBMD, _syncBMD; fs.CreateBucket may fail when the BMD adds a bucket
RxApply(t) ==
    /\ rx[t].step = "apply"
    /\ \E err \in {"ok", "fail", "downgrade"} :
          /\ err = "downgrade" <=> rx[t].bmd.ver < tbmd[t].ver
          /\ err = "fail" => /\ rx[t].bmd.ver > tbmd[t].ver
                             /\ \E b \in DOMAIN rx[t].bmd.bcks : ~Present(tbmd[t], b)
          /\ tbmd' = IF err = "ok" /\ rx[t].bmd.ver > tbmd[t].ver
                     THEN [tbmd EXCEPT ![t] = rx[t].bmd] ELSE tbmd
          /\ rx' = [rx EXCEPT ![t] = [step |-> "after", u |-> rx[t].u,
                                      bmd |-> rx[t].bmd, err |-> err]]
    /\ UNCHANGED <<locks, txns, rendezvous, done, began, polling, waiting, orphans>>

\* what commitAfter leaves in a registered transaction: a downgrade is forgiven
Forgive(err) == IF err = "downgrade" THEN "ok" ELSE err

\* commitAfter (txnBase.commitAfter keeps the first result): the transaction is done, or (not registered) its record holds the result
RxAfter(t) ==
    LET u == rx[t].u
    IN  /\ rx[t].step = "after"
        /\ rx' = [rx EXCEPT ![t] = RxIdle]
        /\ IF u \in DOMAIN txns[t]
           THEN /\ done' = IF done[t][u] = "none"
                           THEN [done EXCEPT ![t][u] = Forgive(rx[t].err)] ELSE done
                /\ UNCHANGED rendezvous
           ELSE /\ rendezvous' = IF u \in DOMAIN rendezvous[t]
                                 THEN [rendezvous EXCEPT ![t][u] = rx[t].err] ELSE rendezvous
                /\ UNCHANGED done
        /\ UNCHANGED <<tbmd, locks, txns, began, polling, waiting, orphans>>

\* the reply to the primary: success when the BMD went in and commitAfter found the
\* transaction not yet done, or its record
RxAccepted(t) ==
    /\ rx[t].err = "ok"
    /\ IF rx[t].u \in DOMAIN txns[t] THEN done[t][rx[t].u] = "none"
                                     ELSE rx[t].u \in DOMAIN rendezvous[t]

-----------------------------------------------------------------------------
(* housekeeping                                                            *)

\* txns.housekeep finds the transaction too old: abort it, forget it
GC(t, u) ==
    /\ u \in DOMAIN txns[t]
    /\ txns' = [txns EXCEPT ![t] = Without(txns[t], u)]
    /\ locks' = [locks EXCEPT ![t] = UnlockAll(locks[t], txns[t][u])]
    /\ orphans' = [orphans EXCEPT ![t] = @ \cup {u}]
    /\ UNCHANGED <<tbmd, rendezvous, done, began, polling, waiting, rx>>

\* the goroutine it starts drops the rendezvous records
Cleanup(t, u) ==
    /\ u \in orphans[t]
    /\ orphans' = [orphans EXCEPT ![t] = @ \ {u}]
    /\ rendezvous' = [rendezvous EXCEPT ![t] = Without(rendezvous[t], u)]
    /\ UNCHANGED <<tbmd, locks, txns, done, began, polling, waiting, rx>>

-----------------------------------------------------------------------------
\* RxPlainErr and RxDup only answer the primary: they are stutters here
TTStep(t) ==
    \/ \E u \in Uuids :
          \/ BeginCreate(t, u) \/ BeginFail(t, u) \/ BeginPoll(t, u)
          \/ BeginLocked(t, u) \/ BeginBusy(t, u)
          \/ CommitWait(t, u) \/ CommitRefuse(t, u) \/ CommitOK(t, u) \/ CommitFail(t, u)
          \/ Abort(t, u)
          \/ \E bmd \in BMDs : RxBefore(t, u, bmd)
          \/ GC(t, u) \/ Cleanup(t, u)
    \/ \E bmd \in BMDs : RxPlainOK(t, bmd)
    \/ RxApply(t)
    \/ RxAfter(t)

TTNext == \E t \in Targets : TTStep(t)

TTSpec == TTInit /\ [][TTNext]_ttvars

-----------------------------------------------------------------------------
\* the types of the transaction tables, the handlers and the metadata
TTTypeOK ==
    /\ tbmd \in [Targets -> BMDs]
    /\ \A t \in Targets :
          /\ DOMAIN locks[t] \subseteq Bcks /\ locks[t] \in [DOMAIN locks[t] -> LockInfo]
          /\ DOMAIN txns[t] \subseteq began[t] /\ txns[t] \in [DOMAIN txns[t] -> SUBSET Bcks]
          /\ DOMAIN rendezvous[t] \subseteq Uuids
          /\ rendezvous[t] \in [DOMAIN rendezvous[t] -> Errs]
    /\ DOMAIN locks = Targets /\ DOMAIN txns = Targets /\ DOMAIN rendezvous = Targets
    /\ done \in [Targets -> [Uuids -> Errs]]
    /\ began \in [Targets -> SUBSET Uuids]
    /\ polling \in [Targets -> SUBSET Uuids]
    /\ waiting \in [Targets -> SUBSET Uuids]
    /\ orphans \in [Targets -> SUBSET Uuids]
    /\ rx \in [Targets -> {RxIdle}
                 \cup [step : {"apply"}, u : Uuids, bmd : BMDs]
                 \cup [step : {"after"}, u : Uuids, bmd : BMDs, err : Errs]]

\* tgttxn.go's ownership rule ("after txns.begin succeeds, txns owns the locks"):
\* at all times a bucket is locked exactly when one registered transaction owns
\* its lock, whoever ends transactions (commit, abort, error cleanup, GC) and in
\* whatever order; no lock is leaked, none is released twice or under an owner
LockOwnership ==
    \A t \in Targets :
        /\ \A b \in Bcks :
              b \in DOMAIN locks[t] <=> \E u \in DOMAIN txns[t] : b \in txns[t][u]
        /\ \A u, v \in DOMAIN txns[t] : txns[t][u] \cap txns[t][v] # {} => u = v

\* _syncBMD under owner.bmd's lock: no interleaving of transactional and plain
\* BMDs, late ones included, takes a target back to an older version
NoDowngrade ==
    [][\A t \in Targets : tbmd'[t].ver >= tbmd[t].ver
                          /\ (tbmd'[t].ver = tbmd[t].ver => tbmd'[t] = tbmd[t])]_ttvars
=============================================================================
