------------------------------- MODULE Demand -------------------------------
(***************************************************************************)
(* xact.DemandBase (xact/demand.go): an xaction that counts its pending    *)
(* work and ends after staying idle, together with its entry in the        *)
(* housekeeper (hk/housekeeper.go).  The base part is XactAbs, which       *)
(* XactBase implements; whoever adds and completes work is left to the     *)
(* module that extends this one.                                           *)
(*                                                                         *)
(*   pending   the reference count                                         *)
(*   last      idle.last: "zero", or how old the time is: "fresh", "old"   *)
(*             (at least idle.d)                                           *)
(*   ticks     the idle channel is closed      unregged  the atomic flag   *)
(*   hkops     the housekeeper's pending ops of this xaction               *)
(*   hkreg     the callback is registered                                  *)
(*   hkpc      where the housekeeper is: "wait", or at the load of         *)
(*             pending or of last inside hkcb                              *)
(*                                                                         *)
(*   pc        where each goroutine is in a call of Abort or Finish         *)
(*                                                                         *)
(* IncPending and SubPending are two atomic operations each; the caller's  *)
(* steps name them one by one.                                             *)
(***************************************************************************)
EXTENDS XactAbs, Integers, Sequences

VARIABLES pending, last, ticks, unregged, hkops, hkreg, hkpc, pc

refcount   == <<pending, last>>
hkvars     == <<hkops, hkreg, hkpc>>
demandvars == <<refcount, ticks, unregged, hkvars>>

\* Init: idle from now on, and an op for the housekeeper
InitDemand ==
    /\ AbsInit
    /\ pending = 0 /\ last = "fresh"
    /\ ticks = FALSE /\ unregged = FALSE
    /\ hkops = <<"reg">> /\ hkreg = FALSE /\ hkpc = "wait"

\* IncPending: pending.Inc, and then idle.last.Store(0)
PendingInc == pending' = pending + 1 /\ UNCHANGED last
LastZero   == last' = "zero" /\ UNCHANGED pending

\* SubPending: pending.Sub, and when that makes it zero idle.last.Store(now)
PendingSub(n) == pending' = pending - n /\ UNCHANGED last
LastNow       == last' = "fresh" /\ UNCHANGED pending

-----------------------------------------------------------------------------
(* Stop                                                                    *)

\* unregged.CAS(false, true): the first caller goes on, the others return
StopCAS == unregged' = TRUE /\ UNCHANGED <<absvars, refcount, ticks, hkvars, pc>>

\* SetStopping
StopStopping == (SetStopping \/ (IsDone /\ UNCHANGED absvars)) /\ UNCHANGED <<demandvars, pc>>

\* hk.Unreg (enqueued, nobody waits)
StopUnreg == hkops' = Append(hkops, "unreg") /\ UNCHANGED <<absvars, refcount, ticks, unregged, hkreg, hkpc, pc>>

\* ticks.Close
StopTicks == ticks' = TRUE /\ UNCHANGED <<absvars, refcount, unregged, hkvars, pc>>

-----------------------------------------------------------------------------
(* Abort, which here goes on to Finish; and Finish by itself               *)

PcAt(p, from, to) == pc[p] = from /\ pc' = [pc EXCEPT ![p] = to]

AbortIsDone(p) == PcAt(p, "isdone", IF IsDone THEN "ret" ELSE "cas") /\ UNCHANGED absvars
AbortSetDone(p) == IF done THEN PcAt(p, "cas", "ret") /\ UNCHANGED absvars ELSE PcAt(p, "cas", "stop") /\ AbortCAS
AbortStopping(p) == PcAt(p, "stop", "release") /\ (SetStopping \/ (IsDone /\ UNCHANGED absvars))
AbortRelease(p) == PcAt(p, "release", "finish") /\ (Release \/ (chClosed /\ UNCHANGED absvars))

\* Finish: claim the end; close the channel unless an abort is about to
FinishClaim(p) == PcAt(p, "claim", "close") /\ (SetStopping \/ (IsDone /\ UNCHANGED absvars))
FinishClose(p) == PcAt(p, "close", "finish") /\ (Release \/ ((chClosed \/ done) /\ UNCHANGED absvars))
FinishEnd(p)   == PcAt(p, "finish", "ret") /\ (Finish \/ (eutime = "ended" /\ UNCHANGED absvars))

Base(p) == AbortIsDone(p) \/ AbortSetDone(p) \/ AbortStopping(p) \/ AbortRelease(p)
           \/ FinishClaim(p) \/ FinishClose(p) \/ FinishEnd(p)

-----------------------------------------------------------------------------
(* the housekeeper's goroutine                                             *)

\* drain and handle; registering with interval 0 calls the callback right away
HkHandle ==
    /\ hkpc = "wait" /\ hkops # <<>>
    /\ hkops' = Tail(hkops)
    /\ hkreg' = (Head(hkops) = "reg")
    /\ hkpc' = IF Head(hkops) = "reg" THEN "loadpending" ELSE "wait"
    /\ UNCHANGED <<absvars, pc, refcount, ticks, unregged>>

\* runDue: the callback's time has come
HkDue ==
    /\ hkpc = "wait" /\ hkreg
    /\ hkpc' = "loadpending"
    /\ UNCHANGED <<absvars, pc, refcount, ticks, unregged, hkops, hkreg>>

\* mutant: the callback goes by the time alone
HkcbPendingSkip ==
    /\ hkpc = "loadpending" /\ hkpc' = "loadlast"
    /\ UNCHANGED <<absvars, pc, refcount, ticks, unregged, hkops, hkreg>>

\* hkcb: nothing to do while there is pending work ...
HkcbPending ==
    /\ hkpc = "loadpending"
    /\ hkpc' = IF pending > 0 THEN "wait" ELSE "loadlast"
    /\ UNCHANGED <<absvars, pc, refcount, ticks, unregged, hkops, hkreg>>

\* ... else tick when the last of it was done long enough ago
HkcbLast ==
    /\ hkpc = "loadlast"
    /\ hkpc' = "wait"
    /\ ticks' = (ticks \/ last = "old")
    /\ UNCHANGED <<absvars, pc, refcount, unregged, hkops, hkreg>>

Hk == HkHandle \/ HkDue \/ HkcbPending \/ HkcbLast

\* time passes; hkcb compares with the time it was called at, so that a time
\* stored while it runs is not old to it
Age ==
    /\ last = "fresh" /\ hkpc = "wait"
    /\ last' = "old"
    /\ UNCHANGED <<absvars, pc, pending, ticks, unregged, hkvars>>
=============================================================================
