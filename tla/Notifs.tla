------------------------------- MODULE Notifs -------------------------------
(***************************************************************************)
(* Notification listeners at one member of the Information Center          *)
(* (ais/prxnotif.go, nl/listener.go, ais/ic.go): how an IC proxy learns    *)
(* that one xaction has ended on all the targets that run it.              *)
(*                                                                         *)
(* The proxy holds at most two Go objects for the xaction's UUID: `own`,   *)
(* registered here with its callback F (registerEqual), and `copy`, the    *)
(* one decoded from another member's ownership table, which comes without  *)
(* F and without the recorded errors.  nls and fin are the two tables      *)
(* (running and finished), keyed by UUID: each holds one object or none.   *)
(*                                                                         *)
(* Goroutines: one handler of a `finished` message per target, the         *)
(* housekeeper's callback, the Smap listener, and the merge of an          *)
(* ownership table.  A step of a goroutine is what it does under one lock. *)
(***************************************************************************)
EXTENDS Naturals, FiniteSets

CONSTANTS
    Targets,     \* the notifiers of the listener (Srcs)
    MaxFaults    \* bound on lost messages, restarts and departures together

ASSUME NotifsAssumption == IsFiniteSet(Targets) /\ Targets # {} /\ MaxFaults \in Nat

VARIABLES
    xst,     \* the xaction on every target, as the target would answer
    msgs,    \* targets whose `finished` message is in flight to this proxy
    smap,    \* targets in the proxy's Smap
    seen,    \* the Smap the Smap listener has handled (notifs.smapVer)
    obj,     \* the listener objects
    nls,     \* the running table: "own", "copy" or "none"
    fin,     \* the finished table, likewise
    g,       \* goroutines
    env      \* reg: registered;
             \* late: registered after one of its notifiers had left the Smap;
             \* merged: a table was merged;
             \* calls: times F ran; faults: faults so far

vars == <<xst, msgs, smap, seen, obj, nls, fin, g, env>>

Objs == {"own", "copy"}
Ended == {"ok", "failed", "aborted"}
\* "gone": the target restarted and no longer knows the xaction
XStates == Ended \cup {"running", "gone"}

G == Targets \cup {"hk", "smap", "merge"}
PCs == {"idle", "check", "finished", "collect", "pull", "apply", "done", "finadd",
        "bcast", "callback", "store", "abort", "sfin", "sdel", "mnls", "mfin"}

Idle == [pc |-> "idle", o |-> "own", todo |-> {}, dn |-> FALSE]
At(x, pc) == g[x].pc = pc
Goto(x, pc) == g' = [g EXCEPT ![x].pc = pc]
Stop(x) == g' = [g EXCEPT ![x] = Idle]
O(x) == obj[g[x].o]

NewListener == [active |-> Targets, aborted |-> FALSE, errs |-> FALSE, end |-> 0]

NInit ==
    /\ xst = [t \in Targets |-> "running"]
    /\ msgs = {}
    /\ smap = Targets /\ seen = Targets
    /\ obj = [o \in Objs |-> NewListener]
    /\ nls = "none" /\ fin = "none"
    /\ g = [x \in G |-> Idle]
    /\ env = [reg |-> FALSE, late |-> FALSE, merged |-> FALSE, calls |-> 0, faults |-> 0]

NTypeOK ==
    /\ xst \in [Targets -> XStates]
    /\ msgs \subseteq Targets /\ smap \subseteq Targets /\ seen \subseteq Targets
    /\ obj \in [Objs -> [active: SUBSET Targets, aborted: BOOLEAN, errs: BOOLEAN, end: 0..2]]
    /\ nls \in Objs \cup {"none"} /\ fin \in Objs \cup {"none"}
    /\ g \in [G -> [pc: PCs, o: Objs, todo: SUBSET Targets, dn: BOOLEAN]]
    /\ env \in [reg: BOOLEAN, late: BOOLEAN, merged: BOOLEAN, calls: Nat, faults: 0..MaxFaults]

-----------------------------------------------------------------------------
(* The targets and the network *)

\* the xaction ends on a target, which sends `finished` to every IC member
XactEnd(t, how) ==
    /\ xst[t] = "running" /\ t \in smap
    /\ xst' = [xst EXCEPT ![t] = how]
    /\ msgs' = msgs \cup {t}
    /\ UNCHANGED <<smap, seen, obj, nls, fin, g, env>>

Fault ==
    /\ env.faults < MaxFaults
    /\ env' = [env EXCEPT !.faults = @ + 1]

Lose(t) ==
    /\ Fault /\ t \in msgs
    /\ msgs' = msgs \ {t}
    /\ UNCHANGED <<xst, smap, seen, obj, nls, fin, g>>

Restart(t) ==
    /\ Fault /\ xst[t] = "running" /\ t \in smap
    /\ xst' = [xst EXCEPT ![t] = "gone"]
    /\ UNCHANGED <<msgs, smap, seen, obj, nls, fin, g>>

Leave(t) ==
    /\ Fault /\ t \in smap
    /\ smap' = smap \ {t}
    /\ xst' = [xst EXCEPT ![t] = IF @ = "running" THEN "gone" ELSE @]
    /\ UNCHANGED <<msgs, seen, obj, nls, fin, g>>

-----------------------------------------------------------------------------
(* Registration and the handler of `finished` *)

\* notifs.add does not look into fin; when nls has the UUID it adds nothing
Add ==
    /\ ~env.reg
    /\ nls' = IF nls = "none" THEN "own" ELSE nls
    /\ env' = [env EXCEPT !.reg = TRUE,
                          !.late = seen # Targets]
    /\ UNCHANGED <<xst, msgs, smap, seen, obj, fin, g>>

Entry == IF nls # "none" THEN nls ELSE fin

\* the lookup is retried for a while; when it keeps failing the message is dropped
Recv(t) ==
    /\ t \in msgs /\ At(t, "idle")
    /\ msgs' = msgs \ {t}
    /\ g' = IF Entry = "none" THEN g
            ELSE [g EXCEPT ![t] = [Idle EXCEPT !.pc = "check", !.o = Entry]]
    /\ UNCHANGED <<xst, smap, seen, obj, nls, fin, env>>

HasFinished(ob, t) == t \notin ob.active

Check(t) ==
    /\ At(t, "check")
    /\ IF HasFinished(O(t), t) THEN Stop(t) ELSE Goto(t, "finished")
    /\ UNCHANGED <<xst, msgs, smap, seen, obj, nls, fin, env>>

\* a target's state as (error, aborted): 404 counts as an aborted xaction
SrcErr(t) == xst[t] \in {"failed", "aborted", "gone"}
SrcAborted(t) == xst[t] \in {"aborted", "gone"}

MarkFinishedNoErr(ob, t, err, ab) ==
    [ob EXCEPT !.active = @ \ {t}, !.aborted = @ \/ ab, !.errs = @ \/ ab]

markFinished(ob, t, err, ab) ==
    [ob EXCEPT !.active = @ \ {t}, !.aborted = @ \/ ab, !.errs = @ \/ err \/ ab]

NowDoneAll(ob, ab) == ob.active = {}

NowDone(ob, ab) == ob.active = {} \/ ab

Finished(t) ==
    LET ob == markFinished(O(t), t, SrcErr(t), SrcAborted(t))
    IN /\ At(t, "finished")
       /\ obj' = [obj EXCEPT ![g[t].o] = ob]
       /\ IF NowDone(ob, SrcAborted(t)) THEN Goto(t, "done") ELSE Stop(t)
       /\ UNCHANGED <<xst, msgs, smap, seen, nls, fin, env>>

-----------------------------------------------------------------------------
(* notifs.done: del from nls, add to fin, abort the others, call back *)

DoneDel(x) ==
    /\ At(x, "done")
    /\ nls' = "none"
    /\ IF nls = "none" THEN Stop(x) ELSE Goto(x, "finadd")
    /\ UNCHANGED <<xst, msgs, smap, seen, obj, fin, env>>

FinAdd(o) == IF fin = "none" THEN o ELSE fin

DoneFin(x) ==
    /\ At(x, "finadd")
    /\ fin' = FinAdd(g[x].o)
    /\ Goto(x, IF O(x).aborted THEN "bcast" ELSE "callback")
    /\ UNCHANGED <<xst, msgs, smap, seen, obj, nls, env>>

\* the primary asks every notifier to abort; any of the requests may be lost,
\* and a member that is not the primary sends none
DoneBcast(x) ==
    /\ At(x, "bcast")
    /\ \E S \in SUBSET {t \in smap : xst[t] = "running"} :
          /\ xst' = [t \in Targets |-> IF t \in S THEN "aborted" ELSE xst[t]]
          /\ msgs' = msgs \cup S
    /\ Goto(x, "callback")
    /\ UNCHANGED <<smap, seen, obj, nls, fin, env>>

\* ListenerBase.Callback: EndTimeX.CAS(0, 1), then the store of the time, then F
CallbackNoCAS(x) ==
    /\ At(x, "callback")
    /\ IF O(x).end = 0 THEN Goto(x, "store") ELSE Stop(x)
    /\ UNCHANGED <<xst, msgs, smap, seen, obj, nls, fin, env>>

Callback(x) ==
    /\ At(x, "callback")
    /\ IF O(x).end = 0
       THEN Goto(x, "store") /\ obj' = [obj EXCEPT ![g[x].o].end = 1]
       ELSE Stop(x) /\ UNCHANGED obj
    /\ UNCHANGED <<xst, msgs, smap, seen, nls, fin, env>>

CallbackStore(x) ==
    /\ At(x, "store")
    /\ obj' = [obj EXCEPT ![g[x].o].end = 2]
    /\ env' = [env EXCEPT !.calls = IF g[x].o = "own" THEN @ + 1 ELSE @]
    /\ Stop(x)
    /\ UNCHANGED <<xst, msgs, smap, seen, nls, fin>>

-----------------------------------------------------------------------------
(* Pulling: the housekeeper's callback *)

\* now - EndTime() > OldAgeNotif: an EndTime of 0 or 1 is decades old
HkSweep ==
    /\ At("hk", "idle")
    /\ \/ fin' = "none"
       \/ fin' = fin /\ (fin # "none" => obj[fin].end = 2)
    /\ Goto("hk", "collect")
    /\ UNCHANGED <<xst, msgs, smap, seen, obj, nls, env>>

HkCollect ==
    /\ At("hk", "collect")
    /\ g' = IF nls = "none" THEN [g EXCEPT !["hk"] = Idle]
            ELSE [g EXCEPT !["hk"] = [Idle EXCEPT !.pc = "pull", !.o = nls]]
    /\ UNCHANGED <<xst, msgs, smap, seen, obj, nls, fin, env>>

\* bcastGetStats: asks every active notifier and waits for all the answers; todo
\* are the ones that answered that the xaction has ended or is not known.  lost:
\* no answer, or a 404 that came less than progressInterval after the listener
\* was added
Pull(x) ==
    /\ At(x, "pull")
    /\ \E lost \in SUBSET (O(x).active \cap smap) :
          /\ IF lost = {} THEN UNCHANGED env ELSE Fault
          /\ g' = [g EXCEPT ![x].pc = "apply",
                            ![x].todo = {t \in (O(x).active \cap smap) \ lost :
                                            xst[t] # "running"}]
    /\ UNCHANGED <<xst, msgs, smap, seen, obj, nls, fin>>

\* one answer; a 404 is skipped once done is set
ApplyNoErr(x, t) ==
    LET skip == xst[t] = "gone" /\ g[x].dn
        ob == IF skip THEN O(x)
              ELSE MarkFinishedNoErr(O(x), t, SrcErr(t), SrcAborted(t))
    IN /\ At(x, "apply") /\ t \in g[x].todo
       /\ obj' = [obj EXCEPT ![g[x].o] = ob]
       /\ g' = [g EXCEPT ![x].todo = @ \ {t},
                         ![x].dn = @ \/ (~skip /\ NowDone(ob, SrcAborted(t)))]
       /\ UNCHANGED <<xst, msgs, smap, seen, nls, fin, env>>

Apply(x, t) ==
    LET skip == xst[t] = "gone" /\ g[x].dn
        ob == IF skip THEN O(x)
              ELSE markFinished(O(x), t, SrcErr(t), SrcAborted(t))
    IN /\ At(x, "apply") /\ t \in g[x].todo
       /\ obj' = [obj EXCEPT ![g[x].o] = ob]
       /\ g' = [g EXCEPT ![x].todo = @ \ {t},
                         ![x].dn = @ \/ (~skip /\ NowDone(ob, SrcAborted(t)))]
       /\ UNCHANGED <<xst, msgs, smap, seen, nls, fin, env>>

Applied(x) ==
    /\ At(x, "apply") /\ g[x].todo = {}
    /\ IF g[x].dn THEN Goto(x, "done") ELSE Stop(x)
    /\ UNCHANGED <<xst, msgs, smap, seen, obj, nls, fin, env>>

-----------------------------------------------------------------------------
(* ListenSmapChanged: adds to fin BEFORE it deletes from nls, and does not  *)
(* ask the other notifiers to abort                                         *)

SmapChangedForget ==
    /\ At("smap", "idle") /\ seen # smap
    /\ seen' = smap
    /\ UNCHANGED <<xst, msgs, smap, obj, nls, fin, g, env>>

SmapChanged ==
    /\ At("smap", "idle") /\ seen # smap
    /\ seen' = smap
    /\ g' = IF nls # "none" /\ ~(obj[nls].active \subseteq smap)
            THEN [g EXCEPT !["smap"] = [Idle EXCEPT !.pc = "abort", !.o = nls]]
            ELSE g
    /\ UNCHANGED <<xst, msgs, smap, obj, nls, fin, env>>

SmapAbort ==
    /\ At("smap", "abort")
    /\ obj' = [obj EXCEPT ![g["smap"].o].errs = TRUE, ![g["smap"].o].aborted = TRUE]
    /\ Goto("smap", "sfin")
    /\ UNCHANGED <<xst, msgs, smap, seen, nls, fin, env>>

SmapFin ==
    /\ At("smap", "sfin")
    /\ fin' = FinAdd(g["smap"].o)
    /\ Goto("smap", "sdel")
    /\ UNCHANGED <<xst, msgs, smap, seen, obj, nls, env>>

SmapDel ==
    /\ At("smap", "sdel")
    /\ nls' = "none"
    /\ Goto("smap", "callback")
    /\ UNCHANGED <<xst, msgs, smap, seen, obj, fin, env>>

-----------------------------------------------------------------------------
(* notifs.apply: merges another member's ownership table (at most once here) *)

\* the other member finished its listener: every xaction ended, or one aborted
MergeFinished ==
    /\ ~env.merged /\ At("merge", "idle")
    /\ \/ \E t \in Targets : SrcAborted(t)
       \/ \A t \in Targets : xst[t] # "running"
    /\ obj' = [obj EXCEPT !["copy"] =
                 [active |-> {t \in Targets : xst[t] = "running"},
                  aborted |-> \E t \in Targets : SrcAborted(t),
                  errs |-> FALSE, end |-> 2]]
    /\ g' = IF fin # "none" THEN g
            ELSE [g EXCEPT !["merge"] = [Idle EXCEPT !.pc = IF nls = "none" THEN "mfin" ELSE "mnls",
                                                     !.o = "copy"]]
    /\ env' = [env EXCEPT !.merged = (fin = "none")]
    /\ UNCHANGED <<xst, msgs, smap, seen, nls, fin>>

\* the other member still listens: its listener is added unless one is known here
MergeRunning ==
    /\ ~env.merged /\ At("merge", "idle") /\ nls = "none" /\ fin = "none"
    /\ \E t \in Targets : xst[t] = "running"
    /\ obj' = [obj EXCEPT !["copy"].active = {t \in Targets : xst[t] = "running" \/ SrcAborted(t)}]
    /\ nls' = "copy"
    /\ env' = [env EXCEPT !.merged = TRUE, !.late = @ \/ seen # Targets]
    /\ UNCHANGED <<xst, msgs, smap, seen, fin, g>>

MergeDel ==
    /\ At("merge", "mnls")
    /\ nls' = "none"
    /\ Goto("merge", "mfin")
    /\ UNCHANGED <<xst, msgs, smap, seen, obj, fin, env>>

MergeFin ==
    /\ At("merge", "mfin")
    /\ fin' = FinAdd("copy")
    /\ Goto("merge", "callback")
    /\ UNCHANGED <<xst, msgs, smap, seen, obj, nls, env>>

-----------------------------------------------------------------------------
Done(x) == DoneDel(x) \/ DoneFin(x) \/ DoneBcast(x) \/ Callback(x) \/ CallbackStore(x)

Handler(t) == Check(t) \/ Finished(t) \/ Done(t)

Puller(x) == Pull(x) \/ (\E t \in Targets : Apply(x, t)) \/ Applied(x) \/ Done(x)

Housekeep == HkSweep \/ HkCollect \/ Puller("hk")

ListenSmap == SmapChanged \/ SmapAbort \/ SmapFin \/ SmapDel \/ Done("smap")

Merge == MergeFinished \/ MergeRunning \/ MergeDel \/ MergeFin \/ Done("merge")

Env ==
    \E t \in Targets :
       \/ \E how \in Ended : XactEnd(t, how)
       \/ Lose(t) \/ Restart(t) \/ Leave(t)

NNext ==
    \/ Env \/ Add
    \/ \E t \in Targets : Recv(t) \/ Handler(t)
    \/ Housekeep \/ ListenSmap

NSpec == NInit /\ [][NNext]_vars

\* goroutines that have begun run to their end; the housekeeper calls back
\* periodically; the Smap owner calls its listeners on every change; time passes.
\* Nothing is assumed about messages and the targets.
NFairSpec ==
    /\ NSpec
    /\ \A t \in Targets : WF_vars(Handler(t))
    /\ WF_vars(Housekeep) /\ WF_vars(ListenSmap)

\* with merges
NMergeSpec == NInit /\ [][NNext \/ Merge]_vars

-----------------------------------------------------------------------------
(* Properties *)

\* The callback F runs at most once, whichever of the message handlers, the
\* housekeeper, the Smap listener and a merge get to Callback
CallbackOnce == env.calls <= 1

\* A finished listener with neither error nor abort means that the xaction
\* succeeded on every notifier: whichever of the pushed message and the pulled
\* stats comes first, an error reaches the listener before it is seen finished
\* (the listener registered here, not one decoded from another member's table)
NoFalseSuccess ==
    obj["own"].end > 0 /\ ~obj["own"].aborted /\ ~obj["own"].errs
       => \A t \in Targets : xst[t] = "ok"

\* Once the xaction has ended everywhere - success, failure, abort, a restarted or
\* a departed target - the listener is finished and F has run, also when every
\* `finished` message was lost.  The exception is the code's: a listener that is
\* registered after the Smap listener has handled the departure of one of its
\* notifiers waits for the next change of the Smap
Settles ==
    (env.reg /\ (\A t \in Targets : xst[t] # "running"))
       ~> (nls = "none" /\ env.calls = 1) \/ env.late

\* An aborted listener leaves the running table and its callback runs, even when
\* its other notifiers run on and never report
AbortFinishes == (nls = "own" /\ obj["own"].aborted) ~> (nls = "none" /\ env.calls = 1)

\* (violated with merges) docs/ic.md: the ownership table is replicated reliably.
\* A listener this member shows as finished, not aborted and without an error means
\* that the xaction succeeded everywhere: the errors are not part of the table
StatusSound ==
    Entry # "none" /\ obj[Entry].end > 0 /\ ~obj[Entry].aborted /\ ~obj[Entry].errs
       => \A t \in Targets : xst[t] = "ok"

=============================================================================
