-------------------------------- MODULE Reb --------------------------------
(***************************************************************************)
(* Global rebalance (reb/): every new version of the rebalance metadata    *)
(* (RMD), a generation, makes each target run Reb.Run in a goroutine of    *)
(* its own.  A Run preempts the previous generation, renews the xaction,   *)
(* opens the data mover, waits for the peers to be ready, sends the        *)
(* misplaced objects, waits for the peers to have sent theirs, quiesces    *)
(* and tears everything down.  Peers follow one another's progress by      *)
(* polling (RebStatus) and by best-effort notifications.                   *)
(*                                                                         *)
(* Membership is fixed and buckets are not erasure coded; objects have one *)
(* version.  Not modelled: cleanup mode, EC stages, and get-from-neighbour *)
(* but for the false positives of its filter.                              *)
(***************************************************************************)
EXTENDS Naturals

CONSTANTS
    Targets,
    MaxGen,         \* bound: RMD versions
    UserGens,       \* generations requested by the user (ActRebalance)
    Overlaps,       \* whether a Run may begin while an earlier one is still starting
    Objs,
    HomeOf,         \* [Objs -> Targets], where an object is at the start
    HrwOf,          \* [Objs -> Targets], where it belongs
    Scenarios       \* what happens: gens (RMD versions), objs, faults (bound), kinds of faults, and
                    \* empty: <<t, g>> when the BMD of t has no bucket yet as the Run of g reads it

Gens == 1..MaxGen
Kinds == {"late", "marker", "walk", "send", "put", "drop", "lose", "stop", "crash"}

ASSUME RebAssumption ==
    /\ MaxGen \in Nat /\ UserGens \subseteq Gens /\ Overlaps \in BOOLEAN
    /\ HomeOf \in [Objs -> Targets] /\ HrwOf \in [Objs -> Targets]
    /\ Scenarios \subseteq [gens: Gens, objs: SUBSET Objs, faults: Nat, kinds: SUBSET Kinds,
                         empty: SUBSET (Targets \X Gens)]

\* rebStage*, without those of EC
Inactive == 0
StageInit == 1
Traverse == 2
PostTraverse == 3
Fin == 4
FinStreams == 5
Done == 6
StageAbort == 7

VARIABLES
    sc,             \* the scenario
    rmd,            \* rmd[t]: version of the target's RMD
    run,            \* run[t][g]: the Run of generation g: where it is, Oxid, what is left to do
    reb,            \* reb[t]: id, stage, the peers' stages, generation of dm, of the receiver, of xreb
    started,        \* started[t]: generations with an xaction in the registry ...
    aborted,        \* ... those aborted
    ended,          \* ... and those with an end time
    marker,         \* marker[t]: fname.RebalanceMarker
    has,            \* has[t]: objects of the target
    net,            \* objects in flight
    told,           \* <<t, g, stage>>: stage notifications sent
    stale,          \* <<t, p>>: t reads the status of p and has got a final stage of an earlier generation
    down,           \* targets that stopped
    faults,
    odd,            \* what the properties except: "late", a wait that timed out
    lost            \* <<g, o>>: generation g gave up object o with an entry in the log

xvars == <<started, aborted, ended>>
vars == <<sc, rmd, run, reb, xvars, marker, has, net, told, stale, down, faults, odd, lost>>

NoRun == [pc |-> "none", oxid |-> 0, left |-> {}]
NoPeers == [p \in Targets |-> Inactive]
Idle == [id |-> 0, stage |-> Inactive, peers |-> NoPeers, dm |-> 0, reg |-> 0, xreb |-> 0]

RebInit ==
    /\ sc \in Scenarios
    /\ rmd = [t \in Targets |-> 0]
    /\ run = [t \in Targets |-> [g \in Gens |-> NoRun]]
    /\ reb = [t \in Targets |-> Idle]
    /\ started = [t \in Targets |-> {}]
    /\ aborted = [t \in Targets |-> {}]
    /\ ended = [t \in Targets |-> {}]
    /\ marker = [t \in Targets |-> FALSE]
    /\ has = [t \in Targets |-> {o \in sc.objs : HomeOf[o] = t}]
    /\ net = {} /\ told = {} /\ stale = {} /\ down = {} /\ faults = 0 /\ odd = {} /\ lost = {}

-----------------------------------------------------------------------------
Up(t) == t \notin down
At(t, g, pc) == Up(t) /\ run[t][g].pc = pc
GotoWith(t, g, pc, left) == run' = [run EXCEPT ![t][g] = [pc |-> pc, oxid |-> @.oxid, left |-> left]]
Goto(t, g, pc) == GotoWith(t, g, pc, {})
Left(t, g, x) == run' = [run EXCEPT ![t][g].left = @ \ {x}]
Peers(t) == Targets \ {t}
Empty(t, g) == <<t, g>> \in sc.empty
Fault(k) == k \in sc.kinds /\ faults < sc.faults /\ faults' = faults + 1

\* timing: nobody waits in vain before something went wrong, be it only late: rxReady and
\* waitPostTraverse wait for minutes, _preempt for 16 seconds
TimeOut ==
    /\ IF faults > 0 THEN UNCHANGED faults ELSE Fault("late")
    /\ odd' = odd \cup {"late"}

\* Base.Abort: not of an xaction that ended
Aborting(t, gs) == aborted' = [aborted EXCEPT ![t] = @ \cup (gs \ ended[t])]
IsAborted(t, g) == g \in aborted[t]
Running(t) == started[t] \ (aborted[t] \cup ended[t])

\* changeStage, abortAll: the notification goes through reb.dm
Tell(t, g, s) == told' = IF reb[t].dm = 0 THEN told ELSE told \cup {<<t, g, s>>}
ChangeStage(t, g, s) == reb' = [reb EXCEPT ![t].stage = s] /\ Tell(t, g, s)

\* timing: the next generation comes when the Runs of the earlier ones have their xaction
Apart(t, g) == Overlaps \/ \A h \in 1..g - 1 : run[t][h].pc \notin {"start", "poll", "ping", "renew"}

-----------------------------------------------------------------------------
(* from the RMD to the data mover *)

\* receiveRMD, _runRe: a user's rebalance returns before rmd.put.  The metasyncer sends
\* versions in order, and may pass over one
RecvRMD(t, g) ==
    /\ Up(t) /\ g \in rmd[t] + 1..sc.gens /\ \A h \in g..MaxGen : run[t][h].pc = "none"
    /\ run' = [run EXCEPT ![t][g] = [pc |-> "start", oxid |-> rmd[t], left |-> {}]]
    /\ rmd' = IF g \in UserGens THEN rmd ELSE [rmd EXCEPT ![t] = g]
    /\ UNCHANGED <<sc, reb, xvars, marker, has, net, told, stale, down, faults, odd, lost>>

\* _preempt has nothing to wait for: no such xaction, or ended and uninstalled
Preempted(t, x) == x \notin started[t] \/ (x \in ended[t] /\ reb[t].xreb # x)

Preempt(t, g) ==
    /\ At(t, g, "start") /\ Apart(t, g)
    /\ LET x == run[t][g].oxid IN
       IF reb[t].id >= g THEN Goto(t, g, "ret") /\ UNCHANGED aborted
       ELSE IF Preempted(t, x)
       THEN Goto(t, g, "ping") /\ UNCHANGED aborted
       ELSE Goto(t, g, "poll") /\ Aborting(t, {x})
    /\ UNCHANGED <<sc, rmd, reb, started, ended, marker, has, net, told, stale, down, faults, odd, lost>>

\* ... polls
Poll(t, g) ==
    /\ At(t, g, "poll")
    /\ \/ /\ Preempted(t, run[t][g].oxid)
          /\ Goto(t, g, "ping")
          /\ UNCHANGED <<faults, odd>>
       \/ TimeOut /\ Goto(t, g, "ret")
    /\ UNCHANGED <<sc, rmd, reb, xvars, marker, has, net, told, stale, down, lost>>

\* pingall, skip
Pingall(t, g) ==
    /\ At(t, g, "ping")
    /\ Goto(t, g, IF down # {} \/ reb[t].id >= g THEN "ret" ELSE "renew")
    /\ UNCHANGED <<sc, rmd, reb, xvars, marker, has, net, told, stale, down, faults, odd, lost>>

\* RenewRebalance: abort whichever is running, then start
Renew(t, g) ==
    /\ At(t, g, "renew")
    /\ IF Running(t) # {}
       THEN /\ \E h \in Running(t) : Aborting(t, {h})
            /\ UNCHANGED <<run, started>>
       ELSE /\ UNCHANGED aborted
            /\ IF \E h \in started[t] : h >= g
               THEN Goto(t, g, "ret") /\ UNCHANGED started
               ELSE Goto(t, g, "lock") /\ started' = [started EXCEPT ![t] = @ \cup {g}]
    /\ UNCHANGED <<sc, rmd, reb, ended, marker, has, net, told, stale, down, faults, odd, lost>>

\* Abort and Finish by initRenew itself
Fails(t, g) ==
    /\ Aborting(t, {g})
    /\ ended' = [ended EXCEPT ![t] = @ \cup {g}]
    /\ Goto(t, g, "ret")

\* notifications somebody may still heed once t has ID g (all others are ignored)
Heeded(t, g) == {n \in told : \E q \in Peers(n[1]) : (IF q = t THEN g ELSE reb[q].id) <= n[2]}

\* _renew: NewDM, RegRecv, Open, PersistMarker, setXact
RenewDM(t, g) ==
    /\ At(t, g, "lock") /\ reb[t].id < g /\ reb[t].reg = 0 /\ ~Empty(t, g)
    /\ reb' = [reb EXCEPT ![t] = [id |-> g, stage |-> StageInit, peers |-> NoPeers, dm |-> g, reg |-> g, xreb |-> g]]
    /\ marker' = [marker EXCEPT ![t] = TRUE]
    /\ told' = Heeded(t, g)
    /\ Goto(t, g, "init")
    /\ UNCHANGED <<sc, rmd, xvars, has, net, stale, down, faults, odd, lost>>

\* initRenew returns an error: superseded by a newer generation, the transport name is
\* taken, or the marker cannot be written
InitRenewFails(t, g) ==
    /\ At(t, g, "lock")
    /\ IF reb[t].id > g \/ (reb[t].reg # 0 /\ ~Empty(t, g)) THEN UNCHANGED faults ELSE Fault("marker")
    /\ reb' = IF reb[t].id > g THEN reb
              ELSE [reb EXCEPT ![t] = [id |-> @.id, stage |-> @.stage, peers |-> @.peers, dm |-> 0,
                                       reg |-> IF Empty(t, g) /\ @.dm # 0 THEN 0 ELSE @.reg, xreb |-> @.xreb]]
    /\ Fails(t, g)
    /\ UNCHANGED <<sc, rmd, started, marker, has, net, told, stale, down, odd, lost>>

\* _renew and Run without streams: there is no bucket, so nothing to send or to receive
RenewEmpty(t, g) ==
    /\ At(t, g, "lock") /\ reb[t].id < g /\ Empty(t, g)
    /\ reb' = [reb EXCEPT ![t] = [id |-> g, stage |-> StageInit, peers |-> NoPeers, dm |-> @.dm, reg |-> @.reg, xreb |-> g]]
    /\ marker' = [marker EXCEPT ![t] = TRUE]
    /\ told' = Heeded(t, g)
    /\ Goto(t, g, "empty")
    /\ UNCHANGED <<sc, rmd, xvars, has, net, stale, down, faults, odd, lost>>

\* the peers see the last stage, take the target for ready, and what they send it is dropped
NothingToDo(t, g) ==
    /\ At(t, g, "empty") /\ Empty(t, g)
    /\ reb' = [reb EXCEPT ![t] = [id |-> @.id, stage |-> Done, peers |-> @.peers, dm |-> @.dm, reg |-> @.reg,
                                  xreb |-> IF @.xreb = g THEN 0 ELSE @.xreb]]
    /\ marker' = [marker EXCEPT ![t] = FALSE]
    /\ ended' = [ended EXCEPT ![t] = @ \cup {g}]
    /\ Goto(t, g, "ret")
    /\ UNCHANGED <<sc, rmd, started, aborted, has, net, told, stale, down, faults, odd, lost>>

-----------------------------------------------------------------------------
(* the stages *)

\* run, runNoEC
StartTraverse(t, g) ==
    /\ At(t, g, "init")
    /\ reb' = [reb EXCEPT ![t].stage = Traverse]
    /\ GotoWith(t, g, "rxready", Peers(t))
    /\ UNCHANGED <<sc, rmd, xvars, marker, has, net, told, stale, down, faults, odd, lost>>

\* RebStatus of p
StatusAborted(p) ==
    IF reb[p].xreb # 0 THEN IsAborted(p, reb[p].xreb) ELSE marker[p] /\ Running(p) = {}
StatusRunning(p) == reb[p].xreb # 0 /\ Running(p) = {reb[p].xreb}

\* the stage that rxReady and waitPostTraverse want of the peers
Want(pc) == IF pc = "rxready" THEN Traverse ELSE PostTraverse
Waiting(t, g, p) == (At(t, g, "rxready") \/ At(t, g, "post")) /\ p \in run[t][g].left

\* mutant: the peer's generation does not matter
CheckStageAnyID(t, g, p) ==
    /\ Up(p)
    /\ <<t, p>> \in stale \/ reb[p].stage >= Want(run[t][g].pc)

\* checkStage: the peer is there
CheckStage(t, g, p) ==
    /\ Up(p) /\ reb[p].id = g /\ ~StatusAborted(p)
    /\ <<t, p>> \in stale \/ reb[p].stage >= Want(run[t][g].pc)

\* rxReady, waitPostTraverse: told so, or polled
PeerReady(t, g, p) ==
    /\ Waiting(t, g, p) /\ ~IsAborted(t, g)
    /\ reb[t].peers[p] >= Want(run[t][g].pc) \/ CheckStage(t, g, p)
    /\ Left(t, g, p)
    /\ stale' = stale \ {<<t, p>>}
    /\ UNCHANGED <<sc, rmd, reb, xvars, marker, has, net, told, down, faults, odd, lost>>

\* ... timed out: a warning
PeerLate(t, g, p) ==
    /\ Waiting(t, g, p) /\ TimeOut
    /\ Left(t, g, p)
    /\ stale' = stale \ {<<t, p>>}
    /\ UNCHANGED <<sc, rmd, reb, xvars, marker, has, net, told, down, lost>>

\* RebStatus loads the stage and then the ID, without a lock.  It makes a difference
\* when the peer is between two generations
ReadStage(t, g, p) ==
    /\ Waiting(t, g, p) /\ ~IsAborted(t, g)
    /\ Up(p) /\ reb[p].id < g /\ reb[p].stage >= Want(run[t][g].pc)
    /\ stale' = stale \cup {<<t, p>>}
    /\ UNCHANGED <<sc, rmd, run, reb, xvars, marker, has, net, told, down, faults, odd, lost>>

\* checkStage: what makes t give up: the peer is gone or newer (abortAll), or aborted
GiveUpAll(p, g) == ~Up(p) \/ reb[p].id > g
GiveUp(p, g) == GiveUpAll(p, g) \/ (reb[p].id = g /\ StatusAborted(p))

AbortBy(t, g, p) ==
    /\ Aborting(t, {g})
    /\ IF GiveUpAll(p, g) THEN Tell(t, g, StageAbort) ELSE UNCHANGED told

PeerGone(t, g, p) ==
    /\ Waiting(t, g, p) /\ ~IsAborted(t, g) /\ GiveUp(p, g)
    /\ AbortBy(t, g, p)
    /\ UNCHANGED <<sc, rmd, run, reb, started, ended, marker, has, net, stale, down, faults, odd, lost>>

\* the barrier is over
Misplaced(t) == {o \in has[t] : HrwOf[o] # t}

RxReady(t, g) ==
    /\ At(t, g, "rxready") /\ (run[t][g].left = {} \/ IsAborted(t, g))
    /\ IF IsAborted(t, g)
       THEN ChangeStage(t, g, Fin) /\ Goto(t, g, "quiesce")
       ELSE GotoWith(t, g, "walk", Misplaced(t)) /\ UNCHANGED <<reb, told>>
    /\ UNCHANGED <<sc, rmd, xvars, marker, has, net, stale, down, faults, odd, lost>>

\* visitObj, doSend
DoSend(t, g, o) ==
    /\ At(t, g, "walk") /\ o \in run[t][g].left /\ ~IsAborted(t, g) /\ reb[t].dm # 0
    /\ \/ /\ net' = net \cup {[from |-> t, to |-> HrwOf[o], g |-> g, obj |-> o]}
          /\ Left(t, g, o)
          /\ UNCHANGED <<aborted, faults>>
       \/ Fault("send") /\ Aborting(t, {g}) /\ UNCHANGED <<run, net>>
    /\ UNCHANGED <<sc, rmd, reb, started, ended, marker, has, told, stale, down, odd, lost>>

\* _lwalk, walkBck, the worker's getROC: an object that cannot be loaded or looked up, or
\* that the filter of get-from-neighbour takes for sent, is passed over, alone or with
\* the rest of the bucket or the mountpath; the jogger logs it and ends as usual
WalkFails(t, g) ==
    /\ At(t, g, "walk") /\ ~IsAborted(t, g) /\ Fault("walk")
    /\ \E os \in SUBSET (run[t][g].left \cap Objs) \ {{}} :
          /\ GotoWith(t, g, "walk", run[t][g].left \ os)
          /\ lost' = lost \cup ({g} \X os)
    /\ UNCHANGED <<sc, rmd, reb, xvars, marker, has, net, told, stale, down, odd>>

\* the joggers are done, or stopped
Walked(t, g) ==
    /\ At(t, g, "walk") /\ (run[t][g].left = {} \/ IsAborted(t, g))
    /\ IF IsAborted(t, g)
       THEN ChangeStage(t, g, Fin) /\ Goto(t, g, "quiesce")
       ELSE ChangeStage(t, g, PostTraverse) /\ GotoWith(t, g, "post", Peers(t))
    /\ UNCHANGED <<sc, rmd, xvars, marker, has, net, stale, down, faults, odd, lost>>

PostTraversed(t, g) ==
    /\ At(t, g, "post") /\ (run[t][g].left = {} \/ IsAborted(t, g))
    /\ ChangeStage(t, g, Fin)
    /\ Goto(t, g, "quiesce")
    /\ UNCHANGED <<sc, rmd, xvars, marker, has, net, stale, down, faults, odd, lost>>

-----------------------------------------------------------------------------
(* fini *)

\* timing: an object takes less than the time of silence that Quiesce waits for
Arrived(t) == \A m \in net : m.to # t

\* mutant: a target that has reached the last stage counts
BusyFin(t) == ~Arrived(t) \/ \E p \in Targets : Up(p) /\ StatusRunning(p) /\ reb[p].stage <= Fin

\* quicb: receiving, or some target (this one too) is still sending
Busy(t) == ~Arrived(t) \/ \E p \in Targets : Up(p) /\ StatusRunning(p) /\ reb[p].stage < Fin

\* Quiesce returns, aborted or not; without abort the marker is removed
Quiesced(t, g) ==
    /\ At(t, g, "quiesce")
    /\ \/ /\ IsAborted(t, g)
          /\ UNCHANGED marker
       \/ /\ ~IsAborted(t, g) /\ ~Busy(t)
          /\ \A p \in Targets : ~GiveUp(p, g)
          /\ marker' = [marker EXCEPT ![t] = FALSE]
    /\ Goto(t, g, "close")
    /\ UNCHANGED <<sc, rmd, reb, xvars, has, net, told, stale, down, faults, odd, lost>>

\* quicb's checkStage aborts; when it was the last call, Quiesce returns as if it had not
QuiesceGone(t, g, p) ==
    /\ At(t, g, "quiesce") /\ ~IsAborted(t, g) /\ GiveUp(p, g)
    /\ AbortBy(t, g, p)
    /\ \/ UNCHANGED <<run, marker>>
       \/ Goto(t, g, "close") /\ marker' = [marker EXCEPT ![t] = FALSE]
    /\ UNCHANGED <<sc, rmd, reb, started, ended, has, net, stale, down, faults, odd, lost>>

\* mutant: the xaction is finished first, the data mover closed later
EndStreamsFinished(t, g) ==
    /\ At(t, g, "close")
    /\ ended' = [ended EXCEPT ![t] = @ \cup {g}]
    /\ reb' = [reb EXCEPT ![t] = [@ EXCEPT !.stage = FinStreams, !.xreb = 0]]
    /\ Goto(t, g, "fini")
    /\ UNCHANGED <<sc, rmd, started, aborted, marker, has, net, told, stale, down, faults, odd, lost>>

\* endStreams, without a lock: graceful unless aborted, then UnregRecv after more silence
EndStreams(t, g) ==
    /\ At(t, g, "close")
    /\ IF IsAborted(t, g) THEN net' = {m \in net : m.from # t}
                          ELSE (\A m \in net : m.from # t) /\ Arrived(t) /\ UNCHANGED net
    /\ reb' = [reb EXCEPT ![t] = [id |-> @.id, stage |-> IF @.stage = Fin THEN FinStreams ELSE @.stage, peers |-> @.peers,
                                  dm |-> @.dm, reg |-> IF @.dm = 0 THEN @.reg ELSE 0, xreb |-> @.xreb]]
    /\ Goto(t, g, "fini")
    /\ UNCHANGED <<sc, rmd, xvars, marker, has, told, stale, down, faults, odd, lost>>

\* fini's last part, under reb.mu
Fini(t, g) ==
    /\ At(t, g, "fini")
    /\ reb' = [reb EXCEPT ![t] = [id |-> @.id, stage |-> Done, peers |-> NoPeers, dm |-> 0, reg |-> @.reg, xreb |-> 0]]
    /\ ended' = [ended EXCEPT ![t] = @ \cup {g}]
    /\ Goto(t, g, "ret")
    /\ UNCHANGED <<sc, rmd, started, aborted, marker, has, net, told, stale, down, faults, odd, lost>>

-----------------------------------------------------------------------------
(* receiving *)

\* the guard of recvObj and recvAckNtfn: dropped unless the installed xaction is running
Receiving(t) ==
    LET x == reb[t].xreb IN Up(t) /\ reb[t].reg # 0 /\ x # 0 /\ x = reb[t].id /\ x \notin aborted[t] \cup ended[t]

\* what went wrong with object o is in the log, and the generation goes on
LogOnly(g, o) == lost' = lost \cup {<<g, o>>}

\* recvObj, recvObjRegular.  A PUT that fails aborts; a broken stream and a bucket that
\* cannot be initialized are logged.  Where nothing is registered the transport answers
\* without reading, which the sender does not notice, or its stream breaks
RecvObj(m) ==
    /\ m \in net
    /\ net' = net \ {m}
    /\ IF Receiving(m.to) /\ m.g = reb[m.to].id
       THEN \/ has' = [has EXCEPT ![m.to] = @ \cup {m.obj}] /\ UNCHANGED <<aborted, faults, lost>>
            \/ Fault("put") /\ Aborting(m.to, {m.g}) /\ UNCHANGED <<has, lost>>
            \/ Fault("drop") /\ LogOnly(m.g, m.obj) /\ UNCHANGED <<has, aborted>>
       ELSE /\ UNCHANGED aborted \/ (reb[m.to].reg = 0 /\ Aborting(m.from, {m.g}))
            /\ UNCHANGED <<has, faults, lost>>
    /\ UNCHANGED <<sc, rmd, run, reb, started, ended, marker, told, stale, down, odd>>

\* recvAckNtfn, _handleNtfn; the notification may come at any time or never
RecvNtfn(t, p, g, s) ==
    /\ <<p, g, s>> \in told /\ t # p /\ Receiving(t)
    /\ \/ g = reb[t].id /\ reb[t].peers[p] < s
       \/ g > reb[t].id
    /\ reb' = IF g = reb[t].id THEN [reb EXCEPT ![t].peers[p] = s] ELSE reb
    /\ IF g > reb[t].id \/ s = StageAbort THEN Aborting(t, {reb[t].id}) ELSE UNCHANGED aborted
    /\ UNCHANGED <<sc, rmd, run, started, ended, marker, has, net, told, stale, down, faults, odd, lost>>

-----------------------------------------------------------------------------
(* faults *)

\* objSentCallback: an object that could not be delivered; only a terminated stream aborts
Lose(m) ==
    /\ m \in net /\ Fault("lose")
    /\ net' = net \ {m}
    /\ LogOnly(m.g, m.obj)
    /\ UNCHANGED aborted \/ Aborting(m.from, {m.g})
    /\ UNCHANGED <<sc, rmd, run, reb, started, ended, marker, has, told, stale, down, odd>>

\* a user stops the xaction here
Stop(t) ==
    /\ Up(t) /\ Fault("stop")
    /\ \E g \in Running(t) : Aborting(t, {g})
    /\ UNCHANGED <<sc, rmd, run, reb, started, ended, marker, has, net, told, stale, down, odd, lost>>

\* a target stops for good, with what it had in memory
Crash(t) ==
    /\ Up(t) /\ Fault("crash")
    /\ down' = down \cup {t}
    /\ run' = [run EXCEPT ![t] = [g \in Gens |-> NoRun]]
    /\ reb' = [reb EXCEPT ![t] = Idle]
    /\ started' = [started EXCEPT ![t] = {}]
    /\ aborted' = [aborted EXCEPT ![t] = {}]
    /\ ended' = [ended EXCEPT ![t] = {}]
    /\ net' = {m \in net : m.from # t}
    /\ stale' = {s \in stale : s[1] # t}
    /\ UNCHANGED <<sc, rmd, marker, has, told, odd, lost>>

-----------------------------------------------------------------------------
\* a Run and what it starts
Run(t, g) ==
    \/ Preempt(t, g) \/ Poll(t, g) \/ Pingall(t, g) \/ Renew(t, g)
    \/ RenewDM(t, g) \/ InitRenewFails(t, g) \/ RenewEmpty(t, g) \/ NothingToDo(t, g)
    \/ StartTraverse(t, g) \/ RxReady(t, g) \/ WalkFails(t, g) \/ Walked(t, g) \/ PostTraversed(t, g)
    \/ \E p \in Peers(t) : PeerReady(t, g, p) \/ PeerLate(t, g, p) \/ PeerGone(t, g, p) \/ QuiesceGone(t, g, p)
    \/ \E o \in Objs : DoSend(t, g, o)
    \/ Quiesced(t, g) \/ EndStreams(t, g) \/ Fini(t, g)

RebNext ==
    \/ \E t \in Targets, g \in Gens : RecvRMD(t, g) \/ Run(t, g) \/ (\E p \in Peers(t) : ReadStage(t, g, p))
    \/ \E m \in net : RecvObj(m) \/ Lose(m)
    \/ \E n \in told, t \in Targets : RecvNtfn(t, n[1], n[2], n[3])
    \/ \E t \in Targets : Stop(t) \/ Crash(t)

RebSpec == RebInit /\ [][RebNext]_vars

\* goroutines run, waits are bounded, the network delivers, the newest RMD reaches everyone
RebFairSpec ==
    /\ RebSpec
    /\ \A t \in Targets : /\ WF_vars(RecvRMD(t, sc.gens))
                          /\ \A g \in Gens : WF_vars(Run(t, g))
    /\ WF_vars(\E m \in net : RecvObj(m))

-----------------------------------------------------------------------------
\* the types of the state
RebTypeOK ==
    /\ rmd \in [Targets -> 0..MaxGen]
    /\ run \in [Targets -> [Gens -> [pc: {"none", "start", "poll", "ping", "renew", "lock", "empty", "init", "rxready",
                                          "walk", "post", "quiesce", "close", "fini", "ret"},
                                     oxid: 0..MaxGen, left: SUBSET (Targets \cup Objs)]]]
    /\ reb \in [Targets -> [id: 0..MaxGen, stage: Inactive..Done, peers: [Targets -> Inactive..StageAbort],
                            dm: 0..MaxGen, reg: 0..MaxGen, xreb: 0..MaxGen]]
    /\ marker \in [Targets -> BOOLEAN] /\ has \in [Targets -> SUBSET Objs]
    /\ started \in [Targets -> SUBSET Gens] /\ aborted \in [Targets -> SUBSET Gens] /\ ended \in [Targets -> SUBSET Gens]

\* past _renew and not past fini, or the end of a Run without streams
Installed(t) ==
    {g \in Gens : run[t][g].pc \in {"empty", "init", "rxready", "walk", "post", "quiesce", "close", "fini"}}
OwnsAll(t, g) ==
    /\ reb[t].xreb = g /\ reb[t].id = g
    /\ reb[t].dm = IF run[t][g].pc = "empty" THEN 0 ELSE g
    /\ reb[t].reg = IF run[t][g].pc \in {"empty", "fini"} THEN 0 ELSE g

\* the data mover, its registration and the installed xaction belong to the one Run between
\* _renew and fini, and to nobody otherwise: invariants 1, 2 and 4 of reb/README.md as the
\* code has them.  (By invariants 1 and 3 endStreams clears reb.dm, under reb.mu; in the code
\* endStreams holds no lock, fini clears reb.dm later under reb.mu, and between the two reb.dm
\* is a data mover that is closed and unregistered.)  It takes that every generation comes
\* with an RMD and that none starts before the earlier ones have renewed their xaction:
\* without, RebUser.cfg and RebOverlap.cfg have counterexamples
SingleOwner ==
    /\ RebTypeOK
    /\ \A t \in Targets : /\ \A g \in Installed(t) : OwnsAll(t, g) /\ Installed(t) = {g}
                          /\ Installed(t) = {} => reb[t].dm = 0 /\ reb[t].reg = 0 /\ reb[t].xreb = 0

\* a generation that ended everywhere without abort has moved every misplaced object but
\* those it gave up with an entry in the log (a jogger, recvObj or objSentCallback that only
\* logs an error) and those of a target without a bucket, and never any other: none was sent
\* too early, or too late, and dropped by recvObj.  Excepted: a wait that timed out
Delivered ==
    odd = {} => \A g \in Gens : (\A t \in Targets : g \in ended[t] \ aborted[t]) =>
        \A o \in sc.objs : \/ o \in has[HrwOf[o]] \/ <<g, o>> \in lost
                           \/ Empty(HomeOf[o], g) \/ Empty(HrwOf[o], g)

\* every Run returns; with nothing failing or late the newest generation ends everywhere
\* without abort, however its start interleaves with the end of the previous one
NewestSucceeds ==
    /\ <>[](\A t \in Targets : Up(t) => \A g \in Gens : run[t][g].pc \in {"none", "ret"})
    /\ <>[](faults > 0 \/ \A t \in Targets : sc.gens \in ended[t] \ aborted[t])
=============================================================================
