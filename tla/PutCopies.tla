----------------------------- MODULE PutCopies ------------------------------
(***************************************************************************)
(* The xaction that mirrors what is PUT (mirror/put_copies.go) with its    *)
(* mountpath workers (fs/mpather/worker.go): an on-demand xaction, Demand, *)
(* whose work comes from the PUT requests of one bucket (ais/tgtobj.go,    *)
(* putMirror) and whose end may be asked for by the housekeeper's idle     *)
(* tick, by a user, and by a PUT that found no worker for its mountpath.   *)
(*                                                                         *)
(*   q[m]      the channel of the worker of mountpath m (capacity Burst)   *)
(*   stopCh[m] closed by worker.abort                                      *)
(*   ppc, wpc, rpc   where each PUT, each worker and Run are               *)
(*   wobj[m]   the object in the hands of worker m                         *)
(*   ndrop     what the drains of worker.abort returned                    *)
(*   todo      the workers that wkg.Stop has yet to abort                  *)
(*                                                                         *)
(* fate (what became of an object) and late (the objects posted after the  *)
(* drain of their worker) only record.  The calls of Abort and Finish are  *)
(* made by the same goroutines: pc[p] is "ret" while p makes none.         *)
(***************************************************************************)
EXTENDS Demand, FiniteSets

CONSTANTS Puts, Mpaths, MpathOf,     \* the PUT goroutines, one object each; where it lives
          Attached,                  \* the PUTs whose mountpath may have been attached since Start
          Run, User, Nobody,
          Burst                      \* the capacity of a worker's channel

ASSUME PCAssumption ==
    /\ Procs = Puts \cup Mpaths \cup {Run, User} /\ IsFiniteSet(Puts)
    /\ MpathOf \in [Puts -> Mpaths] /\ Attached \subseteq Puts
    /\ Burst \in Nat \ {0}
    /\ Nobody \notin Puts

VARIABLES q, stopCh, ppc, wpc, wobj, rpc, ndrop, todo, fate, late

workvars == <<q, stopCh, wpc, wobj>>
recordvars == <<fate, late>>
pcvars == <<workvars, ppc, rpc, ndrop, todo, recordvars>>
allvars == <<absvars, pc, demandvars, pcvars>>

\* Start; the user's abort waits to be made
PCInit ==
    /\ InitDemand
    /\ pc = [p \in Procs |-> IF p = User THEN "isdone" ELSE "ret"]
    /\ q = [m \in Mpaths |-> <<>>] /\ stopCh = [m \in Mpaths |-> FALSE]
    /\ ppc = [p \in Puts |-> "renew"]
    /\ wpc = [m \in Mpaths |-> "select"] /\ wobj = [m \in Mpaths |-> Nobody]
    /\ rpc = "select" /\ ndrop = 0 /\ todo = Mpaths
    /\ fate = [p \in Puts |-> "none"] /\ late = {}

\* p starts a call whose first step is l
Call(p, l) == pc' = [pc EXCEPT ![p] = l] /\ UNCHANGED absvars

Returned(p) == pc[p] = "ret"

-----------------------------------------------------------------------------
(* putMirror                                                               *)

PutAt(p, from, to) == ppc[p] = from /\ ppc' = [ppc EXCEPT ![p] = to]

\* xreg.RenewPutMirror gives this xaction while it is running, else a new one
PutRenew(p) ==
    /\ ppc[p] = "renew"
    /\ ppc' = [ppc EXCEPT ![p] = IF eutime = "running" /\ ~done THEN "inc" ELSE "ret"]
    /\ UNCHANGED <<absvars, pc, demandvars, workvars, rpc, ndrop, todo, recordvars>>

\* Repl: IncPending, in two steps
PutInc(p) ==
    /\ PutAt(p, "inc", "zero") /\ PendingInc
    /\ UNCHANGED <<absvars, pc, ticks, unregged, hkvars, workvars, rpc, ndrop, todo, recordvars>>

PutZero(p) ==
    /\ PutAt(p, "zero", "post") /\ LastZero
    /\ UNCHANGED <<absvars, pc, ticks, unregged, hkvars, workvars, rpc, ndrop, todo, recordvars>>

\* PostLIF, which blocks on a full channel
PutPost(p) ==
    LET m == MpathOf[p] IN
    /\ PutAt(p, "post", "ret")
    /\ Len(q[m]) < Burst
    /\ q' = [q EXCEPT ![m] = Append(@, p)]
    /\ fate' = [fate EXCEPT ![p] = "queued"]
    /\ late' = IF m \in todo THEN late ELSE late \cup {p}
    /\ UNCHANGED <<absvars, pc, demandvars, stopCh, wpc, wobj, rpc, ndrop, todo>>

\* mutant: the count is not taken back
PutNotFoundNoDec(p) ==
    /\ p \in Attached /\ PutAt(p, "post", "abort")
    /\ UNCHANGED <<absvars, pc, demandvars, workvars, rpc, ndrop, todo, recordvars>>

\* or fails: no worker, the mountpath was attached after Start; DecPending
PutNotFound(p) ==
    /\ p \in Attached
    /\ PutAt(p, "post", IF pending = 1 THEN "now" ELSE "abort")
    /\ PendingSub(1)
    /\ UNCHANGED <<absvars, pc, ticks, unregged, hkvars, workvars, rpc, ndrop, todo, recordvars>>

PutNow(p) ==
    /\ PutAt(p, "now", "abort") /\ LastNow
    /\ UNCHANGED <<absvars, pc, ticks, unregged, hkvars, workvars, rpc, ndrop, todo, recordvars>>

\* and Abort
PutAbort(p) ==
    /\ PutAt(p, "abort", "ret") /\ Call(p, "isdone")
    /\ UNCHANGED <<demandvars, workvars, rpc, ndrop, todo, recordvars>>

Put(p) == PutRenew(p) \/ PutInc(p) \/ PutZero(p) \/ PutPost(p) \/ PutNotFound(p) \/ PutNow(p) \/ PutAbort(p)

-----------------------------------------------------------------------------
(* worker.do                                                               *)

WorkAt(m, from, to) == wpc[m] = from /\ wpc' = [wpc EXCEPT ![m] = to]

\* the next object; one that is gone by now (lom.Load fails) is let go
WorkRecv(m) ==
    /\ wpc[m] = "select" /\ q[m] # <<>>
    /\ q' = [q EXCEPT ![m] = Tail(@)]
    /\ \/ /\ wpc' = [wpc EXCEPT ![m] = "copy"] /\ wobj' = [wobj EXCEPT ![m] = Head(q[m])]
          /\ UNCHANGED fate
       \/ /\ fate' = [fate EXCEPT ![Head(q[m])] = "gone"]
          /\ UNCHANGED <<wpc, wobj>>
    /\ UNCHANGED <<absvars, pc, demandvars, stopCh, ppc, rpc, ndrop, todo, late>>

\* r.do: addCopies; AddErr when it fails
WorkCopy(m) ==
    /\ WorkAt(m, "copy", "dec")
    /\ \/ fate' = [fate EXCEPT ![wobj[m]] = "copied"] /\ UNCHANGED absvars
       \/ fate' = [fate EXCEPT ![wobj[m]] = "failed"] /\ AddErr(m)
    /\ UNCHANGED <<pc, demandvars, q, stopCh, wobj, ppc, rpc, ndrop, todo, late>>

\* DecPending
WorkDec(m) ==
    /\ WorkAt(m, "dec", IF pending = 1 THEN "now" ELSE "select")
    /\ PendingSub(1)
    /\ wobj' = [wobj EXCEPT ![m] = Nobody]
    /\ UNCHANGED <<absvars, pc, ticks, unregged, hkvars, q, stopCh, ppc, rpc, ndrop, todo, recordvars>>

WorkNow(m) ==
    /\ WorkAt(m, "now", "select") /\ LastNow
    /\ UNCHANGED <<absvars, pc, ticks, unregged, hkvars, q, stopCh, wobj, ppc, rpc, ndrop, todo, recordvars>>

\* the fates of the objects in the channel of m
Drained(m, f) == [p \in Puts |-> IF \E i \in 1..Len(q[m]) : q[m][i] = p THEN f ELSE fate[p]]

\* stopCh: drain and exit
WorkStop(m) ==
    /\ WorkAt(m, "select", "exit") /\ stopCh[m]
    /\ q' = [q EXCEPT ![m] = <<>>]
    /\ fate' = Drained(m, "lost")
    /\ UNCHANGED <<absvars, pc, demandvars, stopCh, wobj, ppc, rpc, ndrop, todo, late>>

Work(m) == WorkRecv(m) \/ WorkCopy(m) \/ WorkDec(m) \/ WorkNow(m) \/ WorkStop(m)

-----------------------------------------------------------------------------
(* XactPut.Run                                                             *)

RunAt(from, to) == rpc = from /\ rpc' = to

\* mutant: Run waits for the idle timer alone
RunSelectIdle ==
    /\ RunAt("select", "stop") /\ ticks
    /\ UNCHANGED <<absvars, pc, demandvars, workvars, ppc, ndrop, todo, recordvars>>

\* IdleTimer, and waitPending, which looks at a channel that nobody posts to;
\* or ChanAbort
RunSelect ==
    /\ RunAt("select", "stop")
    /\ ticks \/ chClosed
    /\ UNCHANGED <<absvars, pc, demandvars, workvars, ppc, ndrop, todo, recordvars>>

\* stop: DemandBase.Stop
RunStop ==
    /\ \/ RunAt("stop", IF unregged THEN "drain" ELSE "stopping") /\ StopCAS
       \/ RunAt("stopping", "unreg") /\ StopStopping
       \/ RunAt("unreg", "ticks") /\ StopUnreg
       \/ RunAt("ticks", "drain") /\ StopTicks
    /\ UNCHANGED <<workvars, ppc, ndrop, todo, recordvars>>

\* mutant: a worker is told to stop before its channel is drained
RunDrainAfter(m) ==
    /\ rpc = "drain" /\ m \in todo
    /\ IF ~stopCh[m]
       THEN stopCh' = [stopCh EXCEPT ![m] = TRUE] /\ UNCHANGED <<rpc, q, fate, ndrop, todo>>
       ELSE /\ q' = [q EXCEPT ![m] = <<>>] /\ fate' = Drained(m, "dropped")
            /\ ndrop' = ndrop + Len(q[m]) /\ todo' = todo \ {m}
            /\ rpc' = IF todo = {m} THEN "wait" ELSE "drain"
            /\ UNCHANGED stopCh
    /\ UNCHANGED <<absvars, pc, demandvars, wpc, wobj, ppc, late>>

\* wkg.Stop, worker by worker: abort drains the channel ...
RunDrain(m) ==
    /\ rpc = "drain" /\ m \in todo
    /\ q' = [q EXCEPT ![m] = <<>>]
    /\ fate' = Drained(m, "dropped")
    /\ ndrop' = ndrop + Len(q[m])
    /\ todo' = todo \ {m}
    /\ rpc' = "close"
    /\ UNCHANGED <<absvars, pc, demandvars, stopCh, wpc, wobj, ppc, late>>

\* ... and closes stopCh
RunClose ==
    /\ RunAt("close", IF todo = {} THEN "wait" ELSE "drain")
    /\ stopCh' = [m \in Mpaths |-> m \notin todo]
    /\ UNCHANGED <<absvars, pc, demandvars, q, wpc, wobj, ppc, ndrop, todo, recordvars>>

\* wg.Wait; SubPending(n) and the error when there were any
RunWait ==
    /\ RunAt("wait", CASE ndrop = 0 -> "finish" [] ndrop > 0 /\ pending = ndrop -> "now" [] OTHER -> "adderr")
    /\ \A m \in Mpaths : wpc[m] = "exit"
    /\ PendingSub(ndrop)
    /\ UNCHANGED <<absvars, pc, ticks, unregged, hkvars, workvars, ppc, ndrop, todo, recordvars>>

RunNow ==
    /\ RunAt("now", "adderr") /\ LastNow
    /\ UNCHANGED <<absvars, pc, ticks, unregged, hkvars, workvars, ppc, ndrop, todo, recordvars>>

RunAddErr ==
    /\ RunAt("adderr", "finish") /\ AddErr(Run)
    /\ UNCHANGED <<pc, demandvars, workvars, ppc, ndrop, todo, recordvars>>

RunFinish ==
    /\ RunAt("finish", "ret") /\ Call(Run, "claim")
    /\ UNCHANGED <<demandvars, workvars, ppc, ndrop, todo, recordvars>>

RunStep == RunSelect \/ RunStop \/ (\E m \in Mpaths : RunDrain(m)) \/ RunClose
           \/ RunWait \/ RunNow \/ RunAddErr \/ RunFinish

-----------------------------------------------------------------------------
\* the PUTs that post to a worker that has exited, with no room left
Stranded == {p \in Puts : wpc[MpathOf[p]] = "exit" /\ Len(q[MpathOf[p]]) = Burst}

BaseStep(p) == Base(p) /\ UNCHANGED <<demandvars, pcvars>>
HkStep  == Hk /\ UNCHANGED pcvars
AgeStep == Age /\ UNCHANGED pcvars

\* all is over; a PUT may be left at the full channel of a worker that is gone
Quiet ==
    /\ rpc = "ret" /\ \A p \in Procs \ {User} : Returned(p)
    /\ \A p \in Puts : ppc[p] = "ret" \/ (ppc[p] = "post" /\ p \in Stranded)
    /\ UNCHANGED allvars

PCNext ==
    \/ \E p \in Puts : Put(p)
    \/ \E m \in Mpaths : Work(m)
    \/ RunStep
    \/ \E p \in Procs : BaseStep(p)
    \/ HkStep \/ AgeStep \/ Quiet

PCSpec == PCInit /\ [][PCNext]_allvars

\* the goroutines that must go on: all, but a user need not abort
GoOn ==
    \/ \E p \in Puts : Put(p)
    \/ \E m \in Mpaths : Work(m)
    \/ RunStep
    \/ \E p \in Procs : (p # User \/ pc[User] # "isdone") /\ BaseStep(p)

\* none of them loops without work, so that together they are fair when each is;
\* the housekeeper keeps calling, and time passes between its calls
PCFairSpec == PCSpec /\ WF_allvars(GoOn) /\ WF_allvars(HkStep) /\ SF_allvars(AgeStep)

-----------------------------------------------------------------------------
(* Properties                                                              *)

\* the types of the xaction's atomics, the housekeeper's entry and the goroutines' states
PCTypeOK ==
    /\ eutime \in {"running", "stopping", "ended"} /\ errs \subseteq Procs
    /\ done \in BOOLEAN /\ chClosed \in BOOLEAN /\ told \in {"no", "finished", "aborted"}
    /\ pending \in Int /\ last \in {"zero", "fresh", "old"}
    /\ ticks \in BOOLEAN /\ unregged \in BOOLEAN /\ hkreg \in BOOLEAN
    /\ hkops \in Seq({"reg", "unreg"})
    /\ hkpc \in {"wait", "loadpending", "loadlast"}
    /\ \A m \in Mpaths : Len(q[m]) <= Burst
    /\ todo \subseteq Mpaths /\ late \subseteq Puts
    /\ fate \in [Puts -> {"none", "queued", "gone", "copied", "failed", "dropped", "lost"}]

\* the objects that are counted: from IncPending on until the DecPending of the
\* PUT, of the worker or of stop
Counted ==
    {p \in Puts : \/ ppc[p] \in {"zero", "post"}
                  \/ fate[p] \in {"queued", "gone", "lost"}
                  \/ fate[p] = "dropped" /\ rpc \in {"drain", "close", "wait"}
                  \/ \E m \in Mpaths : wobj[m] = p}

\* when nobody is between the two halves of IncPending or SubPending, no pending
\* work means that idle.last is set: an idle xaction is always on its way out
IdleClockRuns ==
    /\ \A p \in Puts : ppc[p] \notin {"zero", "now"}
    /\ \A m \in Mpaths : wpc[m] # "now"
    /\ rpc # "now" /\ pending = 0
    => last # "zero"

\* the count is that of the accepted objects not done with, at every step of
\* every goroutine; it cannot be negative, as SubPending asserts.  (An object
\* that was gone when its worker loaded it, and one drained by the worker
\* itself, stay counted for good: nobody calls DecPending for them.)  And the idle
\* clock follows the count
PendingExact == PCTypeOK /\ pending = Cardinality(Counted) /\ IdleClockRuns

\* the housekeeper's tick never comes while an object is queued or being copied:
\* at most it overlaps with an IncPending that has not reset idle.last yet
TickOnlyIdle ==
    [][hkpc = "loadlast" /\ hkpc' = "wait" /\ ~ticks /\ ticks' =>
           \A p \in Puts : p \in Counted => ppc[p] = "zero"]_allvars

\* no object leaves without a trace: one posted before the drain of its worker is
\* copied, fails with an error, is found gone, or counts as dropped in the error of stop
DropsReported ==
    \A p \in Puts :
        /\ fate[p] = "lost" => p \in late
        /\ fate[p] = "queued" /\ wpc[MpathOf[p]] = "exit" => p \in late
        /\ fate[p] = "dropped" /\ rpc = "ret" => Run \in errs \/ done

\* an abort, whoever makes it and whenever, stops the workers and ends Run; and
\* "self-terminates after staying idle for a while": when no counted object was gone
\* by the time its worker got to it, the xaction finishes by itself.  Every PUT that
\* PostLIF blocks on a full channel is freed, but one that comes when the worker has
\* exited and others that came too late have filled the channel.  Neither the abort nor
\* what it leads to is ever taken back, hence <>[]
Ends ==
    <>[](/\ done => rpc = "ret" /\ \A m \in Mpaths : wpc[m] = "exit"
         /\ eutime = "ended" \/ \E p \in Puts : fate[p] = "gone"
         /\ \A p \in Puts : \/ ppc[p] = "ret"
                            \/ p \in Stranded /\ \A i \in 1..Burst : q[MpathOf[p]][i] \in late)

\* an "xaction that self-terminates after staying idle for a while": it finishes
SelfTerminates == <>(eutime = "ended")
=============================================================================
