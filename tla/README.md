# AIStore: a TLA+ verification project

AIStore is a storage cluster of *proxies* (gateways; one of them, elected, is
the *primary*) and *targets* (storage). All cluster-wide state is versioned
metadata that the primary owns, changes and distributes; objects live on
targets, placed by hashing over the cluster map; long-running work is done by
*xactions*. This project models, checks and proves the protocols that keep such
a cluster consistent: locks, two-phase bucket transactions, the distribution of
metadata, elections, the lifecycle of xactions and the notifications of their
end, the object path of a target, transport streams, and global rebalance. The
reference is the Go code; module comments name the files, and `PROJECT.json`
maps every definition to its lines.

Contents: 1 the parts and how they interact, 2 modules and code, 3 runs,
4 bounds and fairness, 5 proofs, 6 findings and counterexamples, 7 what is not
modelled.

## 1. The parts and how they interact

| part | source | modules |
|---|---|---|
| name locks | `core/namelocker.go` | `NLC`, `NameLocker` |
| bucket metadata (BMD) | `ais/bucketmeta.go`, `core/meta/bmd.go` | `BMD` |
| bucket transactions: target, primary | `ais/txn.go`, `ais/tgttxn.go`; `ais/prxtxn.go` | `TargetTxns`; `BckTxn` |
| metasyncer | `ais/metasync.go` | `Metasync` |
| elections, keepalive, cluster map (Smap) | `ais/vote.go`, `ais/kalive.go`, `ais/psetforce.go`, `ais/clustermap.go` | `Vote` |
| xactions: base, on-demand | `xact/base.go`; `xact/demand.go`, `hk/housekeeper.go` | `XactBase`, `XactAbs`; `Demand` |
| mirroring of PUTs | `mirror/put_copies.go`, `fs/mpather/worker.go` | `PutCopies` |
| notifications, information center | `ais/prxnotif.go`, `nl/listener.go`, `ais/ic.go` | `Notifs` |
| object path, LOM and its cache, prefetch | `ais/tgtobj.go`, `ais/tgtfcold.go`, `core/lom.go`, `core/lcache.go`, ... | `Objects` |
| transport stream and collector | `transport/` | `Stream` |
| global rebalance | `reb/`, `ais/rebmeta.go` | `Reb` |

A bucket request at the primary takes its name lock, sends *begin* to all
targets (each takes its own name lock), changes the BMD, hands it to the
metasyncer with the transaction's uuid, and sends *commit*. A target's commit
waits until the BMD with that uuid has been applied. The metasyncer is one
goroutine that serves all metadata; it may send a newer version than it was
asked for, and what it fails to send it retries later with no uuid. Any failure
at the primary turns into *abort* and, after the BMD was changed, into an undo
that is itself a BMD change. An orphan on a target is ended by the housekeeper.

Commit of make-n-copies and others starts an xaction. An on-demand xaction counts
its pending work and ends after the housekeeper found it idle; the end of an
xaction is notified to listeners at the proxies of the information center. A
change of membership gives a new Smap and a new rebalance generation: every target
runs it as an xaction and moves misplaced objects over streams. A node that cannot
reach the primary starts an election, whose winner metasyncs a new Smap.

Composition: `BckTxn` EXTENDS `TargetTxns`, which uses `NLC` and `BMD`; `Objects`
EXTENDS `NameLocker`; `PutCopies` EXTENDS `Demand`, which EXTENDS `XactAbs`, the
abstract xaction that `XactBase` is shown to implement.

## 2. Modules and code

**NLC** is `nlc`'s map and its operations as operators on a function from the
locked names to `[rc, exclusive]`; a name is in the domain exactly when the Go
map has the key. Every module with a lock uses it.

**NameLocker** puts goroutines (`Clients`) around one `nlc`. Lock polls
(`CallLock`, then `Acquire`), TryLock and TryRLock poll a bounded number of
times (`CallTry`, `TryAgain`), and holders upgrade, downgrade and unlock. `held`
is each client's own idea of what it holds. It has no run of its own: `Objects`
runs it.

**BMD** has bucket metadata as `[ver, bcks]`, a bucket's props as its bucket id and
one abstract value, and the changes to them.

**TargetTxns** is a target against an arbitrary primary. `txns` maps registered
uuids to the locks they own, `done` keeps each transaction's error after it left
the table (a commit handler holds a pointer to it), `rendezvous` has what a BMD
receipt left for a commit. One action per outcome of a handler: begin (create
takes no lock on targets, the others poll: `BeginPoll`, then `BeginLocked` or
`BeginBusy`), commit (`CommitWait`, `CommitRefuse`, then `CommitOK` or
`CommitFail`), `Abort`; BMD receipt in the three steps of `metasyncPut`
(`RxBefore`, `RxApply`, `RxAfter`), or in one when it has no transaction; `GC`
and the goroutine it starts (`Cleanup`).

**BckTxn** conjoins the actions of TargetTxns with the calls that drive them.
`pc[u]` is the request's goroutine at the primary: lock, begin, modify, post,
sync, commit, abort, undo, as in `createBucket`, `destroyBucket`, `makeNCopies`
and `setBprops`. A call is on the wire (`net`) until the target takes it;
`CallFault` loses a request, or makes the caller give up while the request is
still to arrive; `MsFault` does so for the metasyncer's. The part of the
metasyncer that transactions see is here in small: one round at a time, the
newest BMD, bounded retries with the same message, later retries without uuid.
When make-n-copies finds its bucket gone (`ModifyPanic`) the BMD mutex stays
locked (`stuck`) and later BMD changes block, as in the code.

**Metasync** is the metasyncer of `ais/metasync.go` with its callers, but for what
section 7 names. Metadata is reduced to tag and version;
the Smap's members are kept, since the broadcast goes to them. `Modify`, `Check`,
`Send` are the caller (change the metadata, check for primary, queue); `Do`,
`RetryRefused`, `HandlePending`, `Done`, `Reset`, `Drain`, `PushNil` are the one
goroutine `Run`; `AnswerOK`, `AnswerLost` (applied, the answer lost),
`AnswerErr`, `AnswerConflict` are what a call to a node may come to;
`NewPrimary`, `LosePrimary` and `SetPrimary` are the ways to stop being primary. A
notification (`gfn`) is a POST that installs nothing.

**Vote** gives every node an Smap of its own. A node that cannot reach its primary
(`Silence`, `Observe`) asks the next proxy in HRW order to run an election, or runs
it; the candidate pings the primary, collects votes from all nodes, tells all nodes
the result, makes itself primary and metasyncs (`Elect`, `Lead`). The primary removes
nodes it cannot reach. A call, its handler and its answer are one step; the calls
of a broadcast are separate steps in any order. Nodes stop for good, connections
are lost for good, answers are lost one by one.

**XactBase** has one step per atomic operation of `Abort`, `Finish`, `SetStopping`
and `AddErr` (and `DemandBase.Abort`, which calls `Finish` too). A process is one
call. The two CAS of `Finish` on the end time are two steps, reading `abort.err`
polls and may give up (`PollTimesOut`), the channel has capacity one, closing it
twice or sending on it closed sets `panicked`. **XactAbs** is the xaction as its users
see it, in five visible steps; `XactBase!Abs` is the refinement mapping.

**Demand** is `DemandBase` with its entry in the housekeeper: `IncPending` and
`SubPending` as two atomic operations each, `hkcb` in its loads, the mailbox of
registrations, `Stop`, idle ticks. Time is an abstract age of `idle.last`.
**PutCopies** puts the mirroring xaction on top: PUTs that find or renew it, post to
the channel of their mountpath's worker and account for what they add, the workers,
`Run` with its select, stop and drain, and a user's abort.

**Objects** is one object of a remote bucket on its target: the file, its extended
attributes, the cached LOM metadata, the backend's copy, and requests of nine kinds
(GET, validated GET, PUT, DELETE, evict, GetCold and its try variant, two prefetches) as
sequences of steps between which others may run. Each unlock passes the mode that the
code passes, right or wrong. `HkEvict` flushes and evicts cache entries, `Fault` fails
an I/O or backend operation, `Crash` loses memory and keeps disk and backend.
A PUT of what is already there is a no-op (`PutSame`). A write that is broken off, by an
error or a crash, leaves a file without its attributes, which a GET answers with an error
until it is replaced (`seen.torn`); a streaming cold GET that fails puts the previous version
back, and when the disk refuses that, or refused to move it aside, there are only warnings
(`seen.unclean`). `Policy` is the bucket's metadata-write policy.

**Notifs** is one proxy's view of one xaction: `own`, the listener registered here
with its callback, `copy`, the one decoded from another member's table, and the tables
`nls` and `fin`. Goroutines are the handlers of `finished` messages, the
housekeeper's callback that pulls what was lost, the Smap listener, and (`NMergeSpec`)
the merge of an ownership table. A step is what a goroutine does under one lock.

**Stream** is one object stream: concurrent `Send`, `Fin`, `Stop`; `sendLoop` with the
HTTP request that reads the stream as its body; `cmplLoop`; the collector's idle, drain
and reap passes. `SQ` is `workCh`, `SCQ` is `cmplCh`. A failed request always
terminates the stream, since the condition under which `reopen` would go on never
holds. `Timely` is the timing assumption that a goroutine between two statements is
faster than a collector interval; one blocked on a full channel is not.

**Reb** is a target's `Reb.Run` per generation: `RecvRMD`, `Preempt`, `Poll`,
`Pingall`, `Renew`, `RenewDM`, the barriers (`PeerReady`, `PeerLate`), the walk
(`DoSend`), `PostTraversed`, `Quiesced`, `EndStreams`, `Fini`, with the status handler
the peers poll, best-effort notifications, and the receiving side (`RecvObj`,
`RecvNtfn`). A target whose BMD has no bucket yet opens no streams and reports the last
stage at once (`RenewEmpty`, `NothingToDo`), so its peers take it for ready and what they
send it is dropped. Stops by a user, crashes, a failing marker, timeouts, and errors of
the walk, of sending and of receiving are faults. Some of these errors abort the generation
and some are only logged, as in the code: `WalkFails` (an object that cannot be loaded, or
that the get-from-neighbour filter takes for sent), `RecvObj` (a broken stream, a bucket that
cannot be initialized), `Lose` (a failed transmission); `lost` records the objects given up
that way. Timing assumptions, each an operator: an RMD comes when the Runs of earlier ones
have their xaction (`Apart`, dropped by `Overlaps`), an object in flight arrives within the
silence that `Quiesce` waits for (`Arrived`), and nobody waits in vain before something went
wrong (`TimeOut`): the barriers wait for minutes, `_preempt` for 16 seconds.

## 3. Runs

| run | instance | shows |
|---|---|---|
| `bck_create_destroy` | 2 targets, create against destroy, 1 fault, housekeeper | success is everywhere, versions identify contents, undo removes its own bucket, a settled cluster is clean, locks are owned |
| `bck_props` | 1 target, make-n-copies, set-props, destroy and create, 1 fault | success is everywhere and a settled cluster is clean, past the panic of section 6; the bucket may be destroyed and created again under the others |
| `bck_live` | 1 target, create and destroy, 2 faults | the cluster comes to rest |
| `bck_no_panic` (violation) | make-n-copies against destroy, 2 targets, no fault | the finding of section 6 |
| `metasync` | 3 nodes; three scenarios (below) | records are never ahead of the nodes, versions are sent in order, members converge, waiters are released |
| `xact_lifecycle` | abort, demand abort, Finish, SetStopping, AddErr | no panic, one notification with the right outcome, nobody left waiting; implements `XactAbs` |
| `put_copies` | 2 PUTs, 1 mountpath, user's abort, channel of 1 | the pending count is exact, drops are reported, no tick overtakes work, abort or idleness ends it, PUTs return |
| `objects` | 3 requests: any kind, a PUT, DELETE or validated GET, and a GET; 1 fault, 1 crash | no torn read, nothing visible that the backend has not accepted, cache agrees with disk, what was acknowledged stays, nobody is stuck, a cold GET does not overwrite what another has fetched |
| `notifs` | 2 targets, 1 fault | the callback runs once, never as a success it was not, and the listener always finishes |
| `vote` | 3 proxies, 1 target, 1 crash, 1 lost connection or answer | one primary when nothing is lost, a primary that all proxies reach is not replaced, versions only grow, a failed primary is replaced when nothing else is lost |
| `stream` | 2 sends, channel of 1, 1 failing request | one owner per object until its one completion, the collector's grace protects a Send, everything completes, but for two ways of being left behind |
| `rebalance` | 2 targets, 2 objects; four scenarios | one Run owns the data mover, what ended unaborted delivered all but what it gave up in the log, every Run returns and the newest succeeds |

Every property of a passing run has a mutant of the model, a bug one could make in
that code (a lock kept, an answer recorded before it came, a CAS turned into a
load), under which TLC finds it violated.

Properties that say more than one thing: `SettledClean` includes `TypeOK` of `BckTxn`;
`PendingExact` the types and `IdleClockRuns`; `CacheCoherent` the types; `NobodyStuck`
that all locks are released; `NodesRevsSound`, `OneOwner`, `SingleOwner` the types;
`Completes` that Fin returns and Stop completes; `Ends` that an abort stops the xaction,
that it ends by itself, unless an object was gone by the time its worker got to it, and that
a PUT blocked on a full channel is freed, unless the worker is gone and others that came too
late fill its channel.

`AckedStays` has four parts. Once a PUT was acknowledged and nobody deletes the object: the
backend has what was written; there is a file; it is whole while nobody writes and the
latest write was not broken off; what is not whole here the backend has. A streaming cold
GET that fails over an acknowledged object takes two PUTs and a validated GET, one request
more than the run has of these kinds; the theorem covers it.

Deadlock is checked in `bck_create_destroy`, `bck_live`, `metasync`, `xact_lifecycle`,
`put_copies` and `notifs`, whose final states stutter explicitly. In `objects`,
`vote`, `stream` and `rebalance` requests, failures and generations are finite in number
and a behaviour may simply be over; `NobodyStuck` and the liveness properties say
what is to be reached. In `bck_props` and `bck_no_panic` the panic leaves the BMD
mutex locked and requests really do stop.

## 4. Bounds and fairness

Bounds, and why they are enough for what the runs ask:

- *Targets.* Two show disagreement between targets, one failing after another;
  targets share nothing, so a third repeats the role of one of them. They are
  interchangeable in `bck_create_destroy` (symmetry, in safety runs only). One is
  enough where the question is about the requests and not about disagreement
  (`bck_props`, `bck_live`). The proofs of section 5 lift all these bounds.
- *Requests.* Two to four on one bucket: requests on different buckets meet only in
  the BMD's version, which the runs also exercise through undo. Two sends and two
  PUTs with channels of one: the channel fills and a sender blocks.
- *Faults.* `MaxFaults`, `MaxFails`, `MaxCrashes`, `MaxNetFaults` count lost, late and
  failed operations in a behaviour. Two allow a failure and a failure of its recovery.
- *Retries.* `MaxTries` (2), `Retries` (1), `UplockTries` (1) and `NumTries` stand for
  the code's retry counts; a retry that also fails is within the faults.
- *Housekeeping.* `HkRuns` TRUE lets the housekeeper end a transaction at any moment
  after its begin (a slow cluster); FALSE drops it from `bck_props`, the largest instance.
  With `IdleTicks` 2 a Send can fall between two passes of the collector.
- *Versions.* The BMDs that TLC enumerates go as far as the requests and their undos can
  take the version; `TypeOK` would say if they did not.
- *Proxies.* Three, since with two proxies and one target no election can be won (section 6).
  Without faults in the network, 3 proxies and 3 targets with two crashes
  (3.7 million states) pass as well, and so do 3 and 1 with two network faults (2 million).

Scenarios, chosen by `Init` so that one run covers instances that would be too large
together: `metasync` has a BMD change, a join and a leave with a queue of two and two
faults; a BMD change and a leave with elections and one fault; a BMD change and a
notification with elections. Those with elections have a queue that cannot fill, section 7
says why. `rebalance` has two successive generations without faults, one with two faults
of all kinds, two with a crash, and two of which a target has no bucket in the first.

Fairness is weak fairness of each goroutine: the Go scheduler runs a goroutine that can
run, timers fire, and a call is answered or times out. It is never assumed of a fault, of
an election being called or lost to, or of a message's fate.

- `BckTxn`: each request, the metasyncer, each handler on a target, the housekeeper.
- `Metasync`: callers, the metasyncer's goroutine, answers, and the completion of
  a set-primary that has begun.
- `XactBase`: every call keeps taking its steps.
- `PutCopies`: the goroutines as one, the housekeeper, and strongly the passing of time, which
  PUTs interrupt whenever they make the xaction busy again.
- `Notifs`: handlers, housekeeper, Smap listener.
- `Vote`: each node's keepalive, each proxy's election and its work as primary.
- `Stream`: senders, both loops, the collector.
- `Reb`: receipt of the newest RMD (the metasyncer retries until it arrives), every Run, and
  the arrival of objects on a stream.

## 5. Proofs

Every theorem is for all values of the constants that the named assumptions of the
modules allow: any number of nodes, requests, objects, retries, faults and crashes. The
assumptions give the constants their types (finite sets where something is counted,
positive capacities, distinct ranks), and TLC evaluates them in the runs. Premises beyond
them are part of the statements and named here. Every safety invariant and action property
of a passing run is proved, in the form given below.

| module | theorem | states |
|---|---|---|
| `Objects_proofs` | `TypeCorrect`, `MutualExclusion`, `MapIsTruthful` | `TypeOK`, `Exclusion`, `MapMatchesHolders` of `NameLocker` |
| | `ObjectLocks` | `Exclusion` and `MapMatchesHolders` with the requests' own locking and unlocking |
| | `SomebodyGoesOn`, `FetchedOnce`, `AcknowledgedStays` | `NobodyStuck`, `NoRefetch`, `AckedStays` |
| | `ReadsAreWhole`, `ReadsAreAccepted`, `CacheIsCoherent` | `NoTornRead`, `VisibleAfterRemote`, `CacheCoherent`, for policy "immediate" |
| `BckTxn_proofs` | `TTTypeCorrect`, `LocksAreOwned`, `BMDNeverGoesBack` | a target against any primary |
| | `ClusterRunsTargets` | `BckTxn` implements `TTSpec`, the targets' specification |
| | `ClusterLocksAreOwned`, `ClusterBMDNeverGoesBack` | the same in the cluster |
| | `VersionsIdentify`, `UndoIsOwn` | `SameVersionSameBMD`, `UndoRemovesOwn` |
| | `SuccessReachesAll`, `RestIsClean` | `SuccessEverywhere`, `SettledClean` |
| `Cluster_proofs` | `NeverOlder`, `ClaimsAreTrue` | `NonDecremental`, `NodesRevsSound` of `Metasync` |
| | `NoOlderSmap`, `OnePrimary` | `VersionsGrow`, `OneLeader` of `Vote` |
| `XactBase_proofs` | `TypeCorrect`, `NeverPanics`, `NotifiesOnce`, `ReportsOutcome`, `EndIsFinal` | `TypeOK`, `NoPanic`, `NotifiedOnce`, `OutcomeReported`, `NeverRevived` |
| | `RefinesAbs` | `XactBase` implements `XactAbs` (safety) |
| `PutCopies_proofs` | `CountIsExact`, `DropsAreReported`, `TicksWhenIdle` | `PendingExact`, `DropsReported`, `TickOnlyIdle` |
| `Notifs_proofs` | `CalledAtMostOnce`, `FinishedMeansSuccess` | `CallbackOnce`, `NoFalseSuccess` |
| `Stream_proofs` | `CompletedOnce`, `GraceProtects` | `OneOwner`, `SendSafe` |
| `Reb_proofs` | `OneRunOwns`, `AllDelivered` | `SingleOwner`, `Delivered` |

**Name locks.** `Exclusion` is not inductive: unlock of a reader deletes the entry when its
count reaches zero, so the count has to be right. `IInv` says of each name that it is in
one of three states: no entry and no holder; an exclusive entry and one writer; an entry
whose count is the number of readers, at least one, and no writer; and that a client
waiting for a name does not hold it.

**Objects.** In layers, each used by the next: the locks of every place in the code
(`Locks`), which make every unlock pass the mode that is held; that a GET about to write
found no object or a newer one in the backend, and that this stays so under its lock
(`Vacancy`); that what is about to be written, what is in the file and what was moved aside
the backend has accepted (`Sources`, `Contents`); that only a DELETE takes an acknowledged
object away, and that after a write was broken off the backend has it (`Kept`); that file,
attributes, cached and loaded metadata agree except while the holder of the write lock works
or after a write was broken off (`Coherence`, until a streaming cold GET could not clean
up). A layer
is shown for the request that moves, way by way (`Turn`), and for the others from what a
step can do to a request that holds the lock (`Rely`). With policy "delayed" the housekeeper
may write metadata without the lock, so the theorems on reads and cache are about
"immediate", the default (`api/apc/write_policy.go`) and what the run checks.

**Bucket transactions.** `TTInv` adds to types and lock ownership that a begin that polls is
not registered, without which registering could overwrite an owner. The refinement
`ClusterRunsTargets` carries the targets' results to the cluster. Three invariants follow
a whole request. `PInv`: a bucket is locked on the primary while one create or destroy
holds it, each request waits for the metasyncer in one place only (the queue or the
round), its version is zero before its modify and fixed after; so an undo finds the bucket
of its own create. `SInv`: the BMDs sent for a request are not older than its version, a
commit passes on what the receipt of the BMD came to, and a target's BMD only goes forward;
so an error-free commit means every target has the change. `RInv`: rounds are numbered and
only answers of the current round count, a target behind `lastSynced` is unsynced or in the
round, a primary ahead of `lastSynced` has a BMD queued or about to be; so when all is quiet
nothing is left over. The cluster's theorems have the premise `[](pbmd \in BMDs)`: `BMDs` is
the set that TLC enumerates, and the premise says only that it is large enough.

**Metasync.** Whatever a caller made, a request carries or `lastSynced` holds is at most the
current version (`Ordered`), so that `jit` replaces it by exactly that one. `ClaimsAreTrue`
has the premise that no notification is retried as refused: section 6 shows that it is needed.

**Vote.** `Settled`: while the first primary is up and every proxy reaches it, nobody knows
another one and every election ends at its ping. `Orderly`: while nothing is lost, nobody
who is up is missing from an Smap, so all agree on who is next in line; an election that
gets beyond its ping is run by the highest proxy that is up, and that is one. The votes
play no part in it: they matter only once connections are lost.

**XactBase.** `XBInv` has four parts beside the properties: the winner of `abort.closed` is
alone with the channel (`Closer`), the winner of the end time is alone in Finish
(`Finisher`), the winner of `abort.done` alone stores the error (`Aborter`), and what Finish
picked up is what was there when it started (`Picked`). The refinement adds what the steps
that users see rest on (`Visible`).

**PutCopies.** All three rest on where every object is (`CopiesInv`): with its PUT, in the
one channel of its mountpath, with that worker, or done with.

**Notifs.** With merges of ownership tables included. Who is between the CAS of the end time
and the call (`CInv`), and what every goroutine knows when it gets there (`FInv`).

**Stream.** Where an object is: with its caller, in one of two queues, with the request, or
completed; and which collector pass a Send has lived through.

**Reb.** `Order` is what `_preempt` keeps true of the Runs of a target (when one is past it
the earlier ones have returned), `Owned` what belongs to the one between `_renew` and
`fini`. `DeliveryInv`: a target sends only to targets that receive (`rxReady`), none stops
receiving before all have sent everything (the callback of `Quiesce` finds a target busy
until it has), and what is in flight to a target that receives arrives; the barrier
`waitPostTraverse` is not needed for it. Of every object it says where it is: at home, in
flight (`Moving`, `NetOK`), where it belongs, or given up in the log; a target without a
bucket takes part in none of this, which its peers cannot tell (`KeptOK`). Both theorems are for generations that come with an
RMD (`UserGens = {}`) and do not overlap while starting (`~Overlaps`), and `OneRunOwns` for
behaviours in which no wait has timed out: section 6 shows what happens otherwise.

**Only model-checked.** All liveness, since fairness and ENABLED are out of the proof system's
reach: `ComesToRest`, `Converges`, `WaitersReleased`, `FinishNotifies`, `Ends`, `Settles`,
`AbortFinishes`, `Failover`, `Completes`, `NewestSucceeds`, and the fairness of
`ImplementsAbs`. So is `SingleOwner` after a wait that timed out. No result rests on induction over data or on RECURSIVE operators, which
that prover cannot handle either; the project has none.

## 6. Findings and counterexamples

`PROJECT.json` has two findings. The finding of `bck_no_panic` (`NoPanic`, `ais/prxtxn.go:427`): make-n-copies asserts that
its bucket is still in the BMD. A target checks for the bucket before it polls for the
lock, so a destroy that commits during the poll lets the begin succeed; the nil
dereference that follows leaves the BMD's mutex locked (`ais/bucketmeta.go:329`).

The finding of `rebalance` (`SingleOwner`, `reb/globrun.go:633`) is a disagreement of code and
document: invariants 1 and 3 of `reb/README.md` say that `endStreams` clears `reb.dm`, under
`reb.mu`. In the code `endStreams` "MUST run lock-free" and leaves `reb.dm` alone; `fini` clears
it afterwards, under `reb.mu`. In between `reb.dm` is a data mover that is closed and
unregistered. `SingleOwner` states the invariant as the code has it.

Further configurations in this directory are not among the runs. Each has one property that
restates a sentence of the documentation, a comment or an assertion, and TLC finds it
violated:

| configuration | property | what happens |
|---|---|---|
| `MetasyncNotify.cfg` | `QuietMeansSynced` | `handleRefused` records a retried *notification* as a *sync* (`ais/metasync.go:490`): a target that missed the Smap is taken to have it; `NodesRevsSound` fails the same way there |
| `MetasyncLeader.cfg` | `OnlyPrimarySends` | primacy is checked when a request is queued, not when it is sent (`ais/metasync.go:303`, comment at 65) |
| `XactErrThere.cfg` | `AbortErrThere` | `Finish` can see `abort.done` without `abort.err` (`xact/base.go:225`), which it asserts cannot be |
| `PutCopiesIdle.cfg` | `SelfTerminates` | an object that is gone when its worker gets to it stays counted (`fs/mpather/worker.go:133`), and the xaction never idles |
| `ObjectsWrites.cfg` | `WritesConsistent` | two writes, or a write and a delete, may end differently in the backend and on the target (`ais/tgtobj.go:442`, `docs/traffic_patterns.md:51`) |
| `NotifsMerge.cfg` | `StatusSound` | errors are not part of the ownership table (`nl/listener.go:87`, `docs/ic.md`): a merged listener looks successful |
| `VoteSmall.cfg` | `Failover` | with two gateways and one target the dead primary's missing vote counts against the one that is given (`ais/vote.go:355`, `docs/ha.md:14`) |
| `VoteSplit.cfg` | `OnlyOnePrimary` | when an answer is lost, nodes may vote for two candidates (`ais/vote.go:514`, `docs/ha.md:24`) |
| `StreamLost.cfg` | `AlwaysCompleted` | a missed wake-up leaves an object in the queue (`transport/base.go:178`, comment at `transport/api.go:169`) |
| `RebUser.cfg`, `RebOverlap.cfg` | `SingleOwner` | a generation started by a user without an RMD, or two that start at once, break invariants 1 and 4 of `reb/README.md` |

## 7. Not modelled, and why

Data, encoding and I/O are abstracted throughout: object contents, checksums, the format of
xattrs, JSON and msgpack, HTTP itself, disks, vendors' SDKs, Kubernetes. Configuration,
statistics, the S3 dialect, authentication, the memory manager and the clients are
translations, counters or separate programs. Join and startup, the xaction registry, resilver
and mountpath changes, multipart upload, erasure coding, LRU and cleanup, batch
xactions, the downloader, dsort and ETL have protocols of their own and are left for later
work. The project covers a small part of the repository by lines, chosen for what is hard
to test. `PROJECT.json` lists every part with its status.

Within the modelled parts:

- `Metasync`: the cache of encoded bodies (`sgl`), maintenance flags, joining targets of a
  rebalance; a full queue at the moment of stepping down, where `becomeNonPrimary` would wait
  for the goroutine that it runs in (`ais/metasync.go:298`); the one caller that waits for a
  notification (`ais/prxcycle.go:443`), as callers that wait for a sync do.
- `TargetTxns`: removing a transaction takes three locks one after the other (`ais/txn.go:205`)
  and is one step, `Term`; a begin that fails for lack of space, on invalid arguments or beside
  an xaction it cannot coexist with (`ais/tgttxn.go:296`) is the call that fails, `CallFault`.
- `BckTxn`: an undo whose BMD cannot be stored (`ais/prxtxn.go:1104`); rename (`ais/tgttxn.go:509`), copy/transform, EC encode, archive, promote, ETL, and
  the BMD's files on disk. Make-n-copies' rollback writes back the number of copies it read
  at first, which may undo a later transaction (`ais/prxtxn.go:1110`): the model does what the
  code does, and no property is stated because no document says what should happen.
- `Objects`: append, archive, range reads, get-from-neighbour, mirror copies, and the copy of an
  object, which locks its destination while it holds the source (`ais/tgtobj.go:1971`); an
  evicted cache entry that is zeroed while a reader still holds it (`core/lcache.go:375`);
  `Load` by callers without the lock (`core/lom.go:652`), which when TryLock fails reads the
  attributes, and caches them if asked to, beside a writer: `LoadedMD` is `Load` under the
  lock, and `CacheCoherent` says nothing of the others.
- `Demand`: the housekeeper's heap and the growth of its mailbox.
- `Notifs`: membership of the information center and forwarding (`ais/ic.go:117`), statistics
  of progress messages; the pulls of status queries (`ais/ic.go:194`, `ais/ic.go:268`,
  `ais/prxdl.go:240`), which do what the housekeeper's does; the listener of a rebalance with a
  cause, which a node's legal inactivity does not abort (`ais/prxnotif.go:582`).
- `Vote`: set-primary and force-set-primary by a user, persistence, the fast keepalive and the
  statistics of round trips; the graceful stop of a primary, which tells its successor to start
  the election (`ais/proxy.go:3307`, `ais/vote.go:109`): in the model a primary stops silently.
- Overlapping detach and disable of mountpaths (`ais/fspathrgrp.go:244`) belong to resilver,
  which is left out.
- `Stream`: the receiving side, message streams, bundles, compression. A Send's look at the
  stream's termination and its CAS of the session state (`transport/base.go:169`) are one step.
- `Reb`: EC stages, cleanup mode, limited scope, the joggers' worker pool, changing membership, and
  get-from-neighbour, of which there are only the filter's false positives (`WalkFails`).
