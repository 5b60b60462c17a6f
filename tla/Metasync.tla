------------------------------ MODULE Metasync ------------------------------
(***************************************************************************)
(* The metasyncer of the primary proxy (ais/metasync.go): one goroutine    *)
(* takes requests off workCh, broadcasts the current versions of the       *)
(* requested REVS, retries nodes that could not be reached, keeps what     *)
(* every node is known to have (nodesRevs), and while anything failed      *)
(* retries on a timer.  Callers change the metadata and queue requests     *)
(* concurrently; nodes may join and leave; the proxy may stop being        *)
(* primary at any time.                                                    *)
(*                                                                         *)
(* A REVS is its tag and version.  The cluster map's contents are kept as  *)
(* the set of members, since every broadcast reads it.  Not modelled: the  *)
(* SGL cache of encoded bodies, maintenance flags, RMD's joining targets.  *)
(***************************************************************************)
EXTENDS Naturals, Sequences, FiniteSets

CONSTANTS
    Others,         \* all other nodes, members at some time
    TargetNodes,    \* ... those that are targets
    InitMembers,    \* members at the start
    Tags,           \* kinds of REVS, "Smap" among them
    Callers,        \* goroutines that change metadata, each once
    NodeOf,         \* [Callers -> Others], the node that joins or leaves
    Retries,        \* retrySyncRefused, retryNotifyRefused
    Nobody,         \* the caller of a request nobody waits for
    Scenarios       \* what may happen, one of these per behaviour

Kinds == {"bmd", "join", "leave", "gfn", "none"}
Scenario == [kindOf: [Callers -> Kinds],        \* what each caller does
             workChanCap: Nat \ {0},
             maxFaults: Nat,                    \* bound: calls lost, timed out or failed
             elections: BOOLEAN]                \* may another proxy become primary?

ASSUME MSAssumption ==
    /\ TargetNodes \subseteq Others /\ InitMembers \subseteq Others
    /\ {"Smap", "BMD"} \subseteq Tags
    /\ NodeOf \in [Callers -> Others] /\ Retries \in Nat
    /\ Nobody \notin Callers /\ Scenarios \subseteq Scenario

VARIABLES
    sc,             \* the scenario, chosen at the start
    cur,            \* cur[tag]: version of the primary's own copy (owner.smap, owner.bmd, ...)
    members,        \* nodes of the primary's Smap
    prim,           \* smap.isPrimary(self)
    setp,           \* step of the set-primary handler (psetforce.go), which runs at most once
    moved,          \* nodes that already follow another primary
    has,            \* has[n][tag]: version at node n
    pc,             \* pc[c]: where caller c is
    made,           \* made[c]: versions of the pairs it asks to sync
    workCh,
    run,            \* what Run is doing
    nodesRevs,
    lastSynced,
    timerOn,
    faults

callvars == <<cur, members, pc, made>>
envvars == <<sc, prim, setp, moved, faults>>
vars == <<callvars, envvars, has, workCh, run, nodesRevs, lastSynced, timerOn>>

KindOf == sc.kindOf
WorkChanCap == sc.workChanCap
MaxFaults == sc.maxFaults
Elections == sc.elections

NilReq == [nil |-> TRUE]
Select == [step |-> "select"]
\* becomeNonPrimary, called half way; fails: do goes on to report failures
Draining(by, fails) == [step |-> "drain", by |-> by, fails |-> fails]

NoVers == [tag \in {} |-> 0]
Merge(f, g) == [tag \in DOMAIN f \cup DOMAIN g |-> IF tag \in DOMAIN g THEN g[tag] ELSE f[tag]]

Init ==
    /\ sc \in Scenarios
    /\ cur = [tag \in Tags |-> 1]
    /\ members = InitMembers
    /\ prim = TRUE
    /\ setp = "no"
    /\ moved = {}
    /\ has = [n \in Others |-> [tag \in Tags |-> IF n \in InitMembers THEN 1 ELSE 0]]
    /\ pc = [c \in Callers |-> IF KindOf[c] = "none" THEN "done" ELSE "idle"]
    /\ made = [c \in Callers |-> NoVers]
    /\ workCh = <<>>
    /\ run = Select
    /\ nodesRevs = [n \in InitMembers |-> cur]
    /\ lastSynced = cur
    /\ timerOn = FALSE
    /\ faults = 0

-----------------------------------------------------------------------------
(* callers                                                                 *)

\* set-primary holds the lock of owner.smap meanwhile
SmapLocked == setp \in {"push", "publish"}

Goto(c, l) == pc' = [pc EXCEPT ![c] = l]

\* owner.X.modify under X's lock; the pairs are then synced outside of it.  A join
\* syncs everything, a bucket transaction the BMD, the others the Smap
Modify(c) ==
    /\ pc[c] = "idle" /\ prim /\ (KindOf[c] = "bmd" \/ ~SmapLocked)
    /\ LET tag == IF KindOf[c] = "bmd" THEN "BMD" ELSE "Smap"
           all == [cur EXCEPT ![tag] = @ + 1]
       IN  /\ cur' = all
           /\ made' = [made EXCEPT ![c] = IF KindOf[c] = "join" THEN all
                                          ELSE [t \in {tag} |-> all[t]]]
    /\ members' = CASE KindOf[c] = "join"  -> members \cup {NodeOf[c]}
                    [] KindOf[c] = "leave" -> members \ {NodeOf[c]}
                    [] OTHER               -> members
    /\ Goto(c, "sync")
    /\ UNCHANGED <<envvars, has, workCh, run, nodesRevs, lastSynced, timerOn>>

\* sync, notify: the isPrimary check
Check(c) ==
    /\ pc[c] \in {"sync", "notify"}
    /\ Goto(c, IF ~prim THEN "done" ELSE IF pc[c] = "sync" THEN "send" ELSE "sendnotify")
    /\ UNCHANGED <<cur, members, made, envvars, has, workCh, run, nodesRevs, lastSynced, timerOn>>

\* workCh <- req, and bmodSync waits for it; stop-gfn notifies after its sync is queued
Send(c) ==
    /\ pc[c] = "send" /\ Len(workCh) < WorkChanCap
    /\ workCh' = Append(workCh, [nil |-> FALSE, ty |-> "sync", pairs |-> made[c], by |-> c])
    /\ Goto(c, CASE KindOf[c] = "bmd" -> "wait" [] KindOf[c] = "gfn" -> "notify" [] OTHER -> "done")
    /\ UNCHANGED <<cur, members, made, envvars, has, run, nodesRevs, lastSynced, timerOn>>

SendNotify(c) ==
    /\ pc[c] = "sendnotify" /\ Len(workCh) < WorkChanCap
    /\ workCh' = Append(workCh, [nil |-> FALSE, ty |-> "notify", pairs |-> made[c], by |-> Nobody])
    /\ Goto(c, "done")
    /\ UNCHANGED <<cur, members, made, envvars, has, run, nodesRevs, lastSynced, timerOn>>

Caller(c) == Modify(c) \/ Check(c) \/ Send(c) \/ SendNotify(c)

\* wg.Done for the requests of a set of callers
WgDone(cs) == pc' = [c \in Callers |-> IF c \in cs /\ pc[c] = "wait" THEN "done" ELSE pc[c]]

\* ... of the requests in workCh
Waiters == {workCh[i].by : i \in {j \in 1..Len(workCh) : ~workCh[j].nil}}

-----------------------------------------------------------------------------
(* Run                                                                     *)

\* mutant: the version the caller had in hand is sent, whatever came since
jitStale(pairs) == pairs

\* the current instance when it is newer
jit(pairs) == [tag \in DOMAIN pairs |-> IF cur[tag] > pairs[tag] THEN cur[tag] ELSE pairs[tag]]

\* the nil request: forget everything, stop the timer
Reset ==
    /\ run = Select /\ workCh # <<>> /\ Head(workCh).nil
    /\ workCh' = Tail(workCh)
    /\ nodesRevs' = [n \in {} |-> NoVers]
    /\ lastSynced' = NoVers
    /\ timerOn' = FALSE
    /\ UNCHANGED <<callvars, envvars, has, run>>

\* do, up to its broadcast
Do ==
    /\ run = Select /\ workCh # <<>> /\ ~Head(workCh).nil
    /\ LET req  == Head(workCh)
           body == IF req.ty = "notify" THEN req.pairs ELSE jit(req.pairs)
       IN  /\ run' = [step |-> "bcast", ty |-> req.ty, by |-> req.by, pairs |-> req.pairs, body |-> body,
                      out |-> IF req.ty = "notify" THEN members \cap TargetNodes ELSE members,
                      refused |-> {}, failed |-> 0, left |-> Retries]
           /\ lastSynced' = IF req.ty = "notify" THEN lastSynced ELSE Merge(lastSynced, body)
    /\ workCh' = Tail(workCh)
    /\ UNCHANGED <<callvars, envvars, has, nodesRevs, timerOn>>

\* _pending: members that miss some last-synced version
Pending ==
    {n \in members : n \in DOMAIN nodesRevs =>
        \E tag \in DOMAIN lastSynced : tag \in DOMAIN nodesRevs[n] => nodesRevs[n][tag] < lastSynced[tag]}

\* mutant: the retry re-arms the timer for what is pending, and returns
HandlePendingRearms ==
    /\ run = Select /\ timerOn
    /\ timerOn' = (prim /\ Pending # {})
    /\ run' = IF prim THEN Select ELSE Draining(Nobody, FALSE)
    /\ UNCHANGED <<callvars, envvars, has, workCh, nodesRevs, lastSynced>>

\* retryTimer fires: handlePending, up to its broadcast
HandlePending ==
    /\ run = Select /\ timerOn
    /\ timerOn' = FALSE
    /\ IF ~prim
       THEN run' = Draining(Nobody, FALSE) /\ UNCHANGED nodesRevs
       ELSE /\ nodesRevs' = [n \in DOMAIN nodesRevs \cup members |->
                                IF n \in DOMAIN nodesRevs THEN nodesRevs[n] ELSE NoVers]
            /\ run' = IF Pending = {} THEN Select
                      ELSE [step |-> "pending", ty |-> "sync", by |-> Nobody, pairs |-> lastSynced,
                            body |-> lastSynced, out |-> Pending, refused |-> {}, failed |-> 0, left |-> 0]
    /\ UNCHANGED <<callvars, envvars, has, workCh, lastSynced>>

\* syncDone; a node that is no longer a member is forgotten
SyncDone(n) ==
    IF n \notin members
    THEN [m \in DOMAIN nodesRevs \ {n} |-> nodesRevs[m]]
    ELSE [m \in DOMAIN nodesRevs \cup {n} |->
             IF m # n THEN nodesRevs[m]
             ELSE Merge(IF n \in DOMAIN nodesRevs THEN nodesRevs[n] ELSE NoVers, run.pairs)]

\* a node's PUT handler installs newer versions (all of them, or some before an
\* error); the POST handler of a notification installs nothing
Install(n, tags) ==
    has' = IF run.ty = "notify" THEN has
           ELSE [has EXCEPT ![n] = [tag \in Tags |->
                    IF tag \in tags \cap DOMAIN run.body /\ run.body[tag] > has[n][tag]
                    THEN run.body[tag] ELSE has[n][tag]]]

Fault == faults < MaxFaults /\ faults' = faults + 1
Answered(n) == run.step \in {"bcast", "refused", "pending"} /\ n \in run.out

\* the node accepts.  The first broadcast records a sync, the retry of refused
\* nodes whatever the request was
AnswerOK(n) ==
    /\ Answered(n) /\ n \notin moved
    /\ Install(n, Tags)
    /\ nodesRevs' = IF run.step = "bcast" /\ run.ty = "notify" THEN nodesRevs ELSE SyncDone(n)
    /\ run' = [run EXCEPT !.out = @ \ {n}, !.refused = @ \ {n}]
    /\ UNCHANGED <<callvars, envvars, workCh, lastSynced, timerOn>>

\* mutant: a timed-out call is taken for delivered
AnswerLostDone(n) ==
    /\ Answered(n) /\ Fault
    /\ nodesRevs' = SyncDone(n)
    /\ run' = [run EXCEPT !.out = @ \ {n}]
    /\ UNCHANGED <<callvars, sc, prim, setp, moved, has, workCh, lastSynced, timerOn>>

\* connection refused, or no answer in time (it may have been delivered): retry
AnswerLost(n) ==
    /\ Answered(n) /\ Fault
    /\ UNCHANGED has \/ Install(n, Tags)
    /\ run' = [run EXCEPT !.out = @ \ {n},
                          !.refused = IF run.step = "bcast" THEN @ \cup {n} ELSE @,
                          !.failed = IF run.step = "pending" THEN @ + 1 ELSE @]
    /\ UNCHANGED <<callvars, sc, prim, setp, moved, workCh, nodesRevs, lastSynced, timerOn>>

\* any other error: a failed install, or a node that follows another primary
AnswerErr(n) ==
    /\ Answered(n)
    /\ IF n \in moved THEN UNCHANGED <<has, faults>>
                      ELSE Fault /\ \E tags \in SUBSET Tags : Install(n, tags)
    /\ run' = [run EXCEPT !.out = @ \ {n},
                          !.failed = IF run.step = "refused" THEN @ ELSE @ + 1]
    /\ UNCHANGED <<callvars, sc, prim, setp, moved, workCh, nodesRevs, lastSynced, timerOn>>

\* a 409 that tells of a newer Smap with another primary (remainPrimary): the
\* retries look at it, the first broadcast does not
AnswerConflict(n) ==
    /\ Answered(n) /\ n \in moved /\ run.step # "bcast"
    /\ run' = Draining(run.by, run.ty = "sync" /\ run.step = "refused")
    /\ UNCHANGED <<callvars, envvars, has, workCh, nodesRevs, lastSynced, timerOn>>

\* all have answered: retry the refused ones, unless no longer primary
RetryRefused ==
    /\ run.step \in {"bcast", "refused"} /\ run.out = {} /\ run.refused # {} /\ run.left > 0
    /\ run' = IF prim THEN [run EXCEPT !.step = "refused", !.out = run.refused, !.left = @ - 1]
                      ELSE Draining(run.by, FALSE)
    /\ UNCHANGED <<callvars, envvars, has, workCh, nodesRevs, lastSynced, timerOn>>

\* mutant: the waiter is not told
DoneNoWgDone ==
    /\ run.step \in {"bcast", "refused", "pending"} /\ run.out = {}
    /\ run.refused = {} \/ run.left = 0
    /\ nodesRevs' = [n \in DOMAIN nodesRevs \cap members |-> nodesRevs[n]]
    /\ timerOn' = (timerOn \/ (run.ty = "sync" /\ run.failed + Cardinality(run.refused) > 0))
    /\ run' = Select
    /\ UNCHANGED <<cur, members, pc, made, envvars, has, workCh, lastSynced>>

\* do or handlePending returns: forget non-members, tell the waiter, schedule a retry
\* (handlePending does not touch nodesRevs of non-members)
Done ==
    /\ run.step \in {"bcast", "refused", "pending"} /\ run.out = {}
    /\ run.refused = {} \/ run.left = 0
    /\ nodesRevs' = IF run.step = "pending" THEN nodesRevs
                    ELSE [n \in DOMAIN nodesRevs \cap members |-> nodesRevs[n]]
    /\ timerOn' = (timerOn \/ (run.ty = "sync" /\ run.failed + Cardinality(run.refused) > 0))
    /\ WgDone({run.by})
    /\ run' = Select
    /\ UNCHANGED <<cur, members, made, envvars, has, workCh, lastSynced>>

\* becomeNonPrimary from Run's own goroutine: drain workCh ...
Drain ==
    /\ run.step = "drain"
    /\ WgDone(Waiters)
    /\ workCh' = <<>>
    /\ run' = [run EXCEPT !.step = "push"]
    /\ UNCHANGED <<cur, members, made, envvars, has, nodesRevs, lastSynced, timerOn>>

\* ... then queue the nil request, which takes room in workCh.  A do interrupted
\* by a 409 still housekeeps and reports its refused nodes, else 0 is returned
PushNil ==
    /\ run.step = "push" /\ Len(workCh) < WorkChanCap
    /\ workCh' = Append(workCh, NilReq)
    /\ WgDone({run.by})
    /\ nodesRevs' = IF run.fails THEN [n \in DOMAIN nodesRevs \cap members |-> nodesRevs[n]] ELSE nodesRevs
    /\ timerOn' = (timerOn \/ run.fails)
    /\ run' = Select
    /\ UNCHANGED <<cur, members, made, envvars, has, lastSynced>>

-----------------------------------------------------------------------------
(* another primary                                                         *)

\* a node adopts the Smap of a newly elected primary
NewPrimary(n) ==
    /\ Elections /\ n \in members \ moved
    /\ moved' = moved \cup {n}
    /\ UNCHANGED <<callvars, sc, prim, setp, faults, has, workCh, run, nodesRevs, lastSynced, timerOn>>

\* so does this proxy
LosePrimary ==
    /\ prim /\ moved # {} /\ ~SmapLocked
    /\ prim' = FALSE
    /\ UNCHANGED <<callvars, sc, setp, moved, faults, has, workCh, run, nodesRevs, lastSynced, timerOn>>

\* set-primary: becomeNonPrimary from a request handler, within smap.modify and
\* before the Smap with the other primary is published
SetPrimary ==
    /\ Elections /\ prim
    /\ \/ /\ setp = "no" /\ setp' = "push"
          /\ WgDone(Waiters)
          /\ workCh' = <<>>
          /\ UNCHANGED prim
       \/ /\ setp = "push" /\ setp' = "publish"
          /\ Len(workCh) < WorkChanCap
          /\ workCh' = Append(workCh, NilReq)
          /\ UNCHANGED <<prim, pc>>
       \/ /\ setp = "publish" /\ setp' = "done"
          /\ prim' = FALSE
          /\ UNCHANGED <<workCh, pc>>
    /\ UNCHANGED <<cur, members, made, sc, moved, faults, has, run, nodesRevs, lastSynced, timerOn>>

-----------------------------------------------------------------------------
Runner == Reset \/ Do \/ HandlePending \/ RetryRefused \/ Done \/ Drain \/ PushNil
Answer(n) == AnswerOK(n) \/ AnswerLost(n) \/ AnswerErr(n) \/ AnswerConflict(n)

AtRest ==
    /\ run = Select /\ workCh = <<>> /\ ~timerOn
    /\ \A c \in Callers : pc[c] \in {"wait", "done"} \/ (pc[c] = "idle" /\ ~prim)

Next ==
    \/ \E c \in Callers : Caller(c)
    \/ Runner
    \/ \E n \in Others : Answer(n) \/ NewPrimary(n)
    \/ LosePrimary \/ SetPrimary
    \/ AtRest /\ UNCHANGED vars

Spec == Init /\ [][Next]_vars

\* goroutines run, the timer fires, and a call is answered or times out
Fairness ==
    /\ \A c \in Callers : WF_vars(Caller(c))
    /\ WF_vars(Runner)
    /\ WF_vars(SetPrimary)
    /\ \A n \in Others : WF_vars(Answer(n))

FairSpec == Spec /\ Fairness

-----------------------------------------------------------------------------
\* the types of the metasyncer's and its callers' state
TypeOK ==
    /\ cur \in [Tags -> Nat]
    /\ members \subseteq Others /\ moved \subseteq Others
    /\ has \in [Others -> [Tags -> Nat]]
    /\ \A i \in 1..Len(workCh) :
          workCh[i] = NilReq \/ (workCh[i].ty \in {"sync", "notify"} /\ DOMAIN workCh[i].pairs \subseteq Tags)
    /\ Len(workCh) <= WorkChanCap
    /\ run.step \in {"select", "bcast", "refused", "pending", "drain", "push"}
    /\ run.step \in {"bcast", "refused", "pending"} =>
          run.left \in 0..Retries /\ run.out \subseteq Others /\ run.refused \subseteq Others
    /\ DOMAIN nodesRevs \subseteq Others
    /\ \A n \in DOMAIN nodesRevs : DOMAIN nodesRevs[n] \subseteq Tags
    /\ DOMAIN lastSynced \subseteq Tags
    /\ timerOn \in BOOLEAN

\* nodesRevs never claims for a node a version the node does not have: it is all
\* that handlePending goes by (the retry of a refused notification records its
\* versions all the same: MetasyncNotify.cfg shows what comes of it)
NodesRevsSound ==
    /\ TypeOK
    /\ \A n \in DOMAIN nodesRevs : \A tag \in DOMAIN nodesRevs[n] : nodesRevs[n][tag] <= has[n][tag]

\* when the metasyncer of a primary has nothing queued and no retry scheduled,
\* every member has the current version of everything
QuietMeansSynced ==
    AtRest /\ prim /\ moved = {} /\ setp = "no" => \A n \in members : has[n] = cur

\* "all version updates are executed strictly in the non-decremental order":
\* what is sent for a tag is never older than what was sent before, in
\* whatever order callers queue the versions they made
NonDecremental ==
    [][lastSynced' = NoVers
       \/ \A tag \in DOMAIN lastSynced : tag \in DOMAIN lastSynced' /\ lastSynced'[tag] >= lastSynced[tag]]_vars

\* only the currently elected leader distributes REVS
OnlyPrimarySends == [][run.step = "select" /\ run'.step = "bcast" => prim]_vars

\* whoever waits for a sync is released, also when the proxy stops being primary (a
\* caller waits at most once, so that in the end nobody waits)
WaitersReleased == <>[](\A c \in Callers : pc[c] # "wait")

\* a primary that stays primary gets every member up to date
Converges == <>[](prim /\ moved = {} /\ setp = "no" => \A n \in members : has[n] = cur)
=============================================================================
