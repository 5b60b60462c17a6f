------------------------------ MODULE XactBase ------------------------------
(***************************************************************************)
(* The lifecycle of an xaction: xact.Base (xact/base.go) and the Abort of  *)
(* xact.DemandBase (xact/demand.go).  Nothing here holds a mutex: Abort,   *)
(* Finish, SetStopping and AddErr run in different goroutines (the         *)
(* xaction's own, an API handler's, the registry's, a target leaving) and  *)
(* meet in six atomics and one channel.  Each load, store, swap, CAS and   *)
(* channel operation is a step.                                            *)
(*                                                                         *)
(*   eutime   0 "running", MSB64 "stopping", 1 "finishing", a time "ended" *)
(*   done     abort.done          err      abort.err (the abort's caller)  *)
(*   closed   abort.closed: who closes the channel                         *)
(*   ch       what abort.ch (capacity 1) holds, chClosed whether closed    *)
(*   errs     xctn.err: the calls of AddErr whose error is in              *)
(*   notified the notifications that onFinished sent                       *)
(*                                                                         *)
(* A process is one call of one operation, Role[p] which; pc[p] is its     *)
(* next step; fin[p] the locals of Finish.  panicked, and what a call of    *)
(* Finish found when it started (atFinish), only record.                   *)
(***************************************************************************)
EXTENDS Naturals, Sequences

CONSTANTS Procs, Role,
          Nobody,              \* the nil error
          PollTimesOut         \* AbortErr may give up polling (1s) before abort.err is set

ASSUME XBAssumption ==
    /\ Role \in [Procs -> {"abort", "dabort", "finish", "stop", "adderr"}]
    /\ Nobody \notin Procs
    /\ PollTimesOut \in BOOLEAN

VARIABLES eutime, done, err, closed, ch, chClosed, canceled, errs, notified,
          pc, fin, panicked, atFinish

abortvars == <<done, err, closed, ch, chClosed>>
recvars   == <<panicked, atFinish>>
vars == <<eutime, abortvars, canceled, errs, notified, pc, fin, recvars>>

First(role) == CASE role \in {"abort", "dabort"} -> "isdone" [] role = "finish" -> "claim"
                 [] role = "stop" -> "stopping" [] role = "adderr" -> "isaborted"
NoFin == [n |-> {}, aborted |-> FALSE, err |-> Nobody]

\* a new xaction
InitBase ==
    /\ eutime = "running" /\ done = FALSE /\ err = Nobody
    /\ closed = FALSE /\ ch = <<>> /\ chClosed = FALSE
    /\ canceled = FALSE /\ errs = {} /\ notified = <<>>
    /\ fin = [p \in Procs |-> NoFin]
    /\ panicked = FALSE
    /\ atFinish = [err |-> Nobody, errs |-> {}, claimed |-> FALSE]

Init == InitBase /\ pc = [p \in Procs |-> First(Role[p])]

Goto(p, l) == pc' = [pc EXCEPT ![p] = l]

\* eutime.CAS(0, MSB64)
SetStopping == eutime' = IF eutime = "running" THEN "stopping" ELSE eutime

-----------------------------------------------------------------------------
(* Abort                                                                   *)

IsAbort(p) == Role[p] \in {"abort", "dabort"}

\* xctn.IsDone
AbortIsDone(p) ==
    /\ IsAbort(p) /\ pc[p] = "isdone"
    /\ Goto(p, IF eutime = "running" THEN "cas" ELSE "ret")
    /\ UNCHANGED <<eutime, abortvars, canceled, errs, notified, fin, recvars>>

\* abort.done.CAS(false, true)
AbortCAS(p) ==
    /\ pc[p] = "cas"
    /\ done' = TRUE
    /\ Goto(p, IF done THEN "ret" ELSE "abortstopping")
    /\ UNCHANGED <<eutime, err, closed, ch, chClosed, canceled, errs, notified, fin, recvars>>

AbortStopping(p) ==
    /\ pc[p] = "abortstopping" /\ SetStopping /\ Goto(p, "swap")
    /\ UNCHANGED <<abortvars, canceled, errs, notified, fin, recvars>>

\* abort.err.Swap
AbortSwap(p) ==
    /\ pc[p] = "swap" /\ err' = p /\ Goto(p, "cancel")
    /\ UNCHANGED <<eutime, done, closed, ch, chClosed, canceled, errs, notified, fin, recvars>>

AbortCancel(p) ==
    /\ pc[p] = "cancel" /\ canceled' = TRUE /\ Goto(p, "casclosed")
    /\ UNCHANGED <<eutime, abortvars, errs, notified, fin, recvars>>

\* abort.closed.CAS(false, true): the winner sends and closes
AbortCASClosed(p) ==
    /\ pc[p] = "casclosed"
    /\ closed' = TRUE
    /\ Goto(p, IF closed THEN "aborted" ELSE "send")
    /\ UNCHANGED <<eutime, done, err, ch, chClosed, canceled, errs, notified, fin, recvars>>

\* abort.ch <- err: a send on a closed channel panics, on a full one blocks
AbortSend(p) ==
    /\ pc[p] = "send" /\ (chClosed \/ ch = <<>>)
    /\ panicked' = (panicked \/ chClosed)
    /\ ch' = Append(ch, p)
    /\ Goto(p, "close")
    /\ UNCHANGED <<eutime, done, err, closed, chClosed, canceled, errs, notified, fin, atFinish>>

\* close(abort.ch), which panics when closed already
AbortClose(p) ==
    /\ pc[p] = "close"
    /\ panicked' = (panicked \/ chClosed)
    /\ chClosed' = TRUE
    /\ Goto(p, "aborted")
    /\ UNCHANGED <<eutime, done, err, closed, ch, canceled, errs, notified, fin, atFinish>>

\* return true; DemandBase.Abort then calls Finish
AbortRet(p) ==
    /\ pc[p] = "aborted"
    /\ Goto(p, IF Role[p] = "dabort" THEN "claim" ELSE "ret")
    /\ UNCHANGED <<eutime, abortvars, canceled, errs, notified, fin, recvars>>

Abort(p) == AbortIsDone(p) \/ AbortCAS(p) \/ AbortStopping(p) \/ AbortSwap(p)
            \/ AbortCancel(p) \/ AbortCASClosed(p) \/ AbortSend(p) \/ AbortClose(p) \/ AbortRet(p)

-----------------------------------------------------------------------------
(* Finish                                                                  *)

\* the winner of the two CAS'es goes on
Claim(p) ==
    /\ eutime' = "finishing"
    /\ atFinish' = [err |-> err, errs |-> errs, claimed |-> TRUE]
    /\ Goto(p, "fincancel")

\* mutant: whoever finds the xaction not ended yet goes on
FinishClaimLoose(p) ==
    /\ pc[p] = "claim"
    /\ IF eutime # "ended" THEN Claim(p)
       ELSE Goto(p, "claim2") /\ UNCHANGED <<eutime, atFinish>>
    /\ UNCHANGED <<abortvars, canceled, errs, notified, fin, panicked>>

\* eutime.CAS(0, finishSentinel)
FinishClaim(p) ==
    /\ pc[p] = "claim"
    /\ IF eutime = "running" THEN Claim(p)
       ELSE Goto(p, "claim2") /\ UNCHANGED <<eutime, atFinish>>
    /\ UNCHANGED <<abortvars, canceled, errs, notified, fin, panicked>>

\* mutant: a stopping xaction is left as it is
FinishClaim2Gone(p) ==
    /\ pc[p] = "claim2" /\ Goto(p, "ret")
    /\ UNCHANGED <<eutime, abortvars, canceled, errs, notified, fin, recvars>>

\* || eutime.CAS(MSB64, finishSentinel); otherwise there is nothing to do
FinishClaim2(p) ==
    /\ pc[p] = "claim2"
    /\ IF eutime = "stopping" THEN Claim(p)
       ELSE Goto(p, "ret") /\ UNCHANGED <<eutime, atFinish>>
    /\ UNCHANGED <<abortvars, canceled, errs, notified, fin, panicked>>

FinishCancel(p) ==
    /\ pc[p] = "fincancel" /\ canceled' = TRUE /\ Goto(p, "nerr")
    /\ UNCHANGED <<eutime, abortvars, errs, notified, fin, recvars>>

\* n, xerr = _nerr()
FinishNerr(p) ==
    /\ pc[p] = "nerr"
    /\ fin' = [fin EXCEPT ![p].n = errs]
    /\ Goto(p, "string")
    /\ UNCHANGED <<eutime, abortvars, canceled, errs, notified, recvars>>

\* xname = String(): when aborted, AbortErr polls for abort.err
FinishString(p) ==
    /\ pc[p] = "string" /\ (done => err # Nobody \/ PollTimesOut)
    /\ Goto(p, "end")
    /\ UNCHANGED <<eutime, abortvars, canceled, errs, notified, fin, recvars>>

FinishEnd(p) ==
    /\ pc[p] = "end" /\ eutime' = "ended" /\ Goto(p, "finaborted")
    /\ UNCHANGED <<abortvars, canceled, errs, notified, fin, recvars>>

\* mutant: an xaction that is not running any more counts as aborted
FinishIsAbortedDone(p) ==
    /\ pc[p] = "finaborted"
    /\ fin' = [fin EXCEPT ![p].aborted = (eutime # "running")]
    /\ Goto(p, IF done THEN "loaderr" ELSE "finclosed")
    /\ UNCHANGED <<eutime, abortvars, canceled, errs, notified, recvars>>

FinishIsAborted(p) ==
    /\ pc[p] = "finaborted"
    /\ fin' = [fin EXCEPT ![p].aborted = done]
    /\ Goto(p, IF done THEN "loaderr" ELSE "finclosed")
    /\ UNCHANGED <<eutime, abortvars, canceled, errs, notified, recvars>>

\* mutant: the error of the abort is not picked up
FinishLoadNoErr(p) ==
    /\ pc[p] = "loaderr" /\ Goto(p, "finclosed")
    /\ UNCHANGED <<eutime, abortvars, canceled, errs, notified, fin, recvars>>

\* abort.err.Load
FinishLoadErr(p) ==
    /\ pc[p] = "loaderr"
    /\ fin' = [fin EXCEPT ![p].err = err]
    /\ Goto(p, "finclosed")
    /\ UNCHANGED <<eutime, abortvars, canceled, errs, notified, recvars>>

\* mutant: Finish closes the channel whenever nobody has closed it yet
FinishCASClosedLoad(p) ==
    /\ pc[p] = "finclosed"
    /\ Goto(p, IF chClosed THEN "notify" ELSE "finclose")
    /\ UNCHANGED <<eutime, abortvars, canceled, errs, notified, fin, recvars>>

\* abort.closed.CAS(false, true)
FinishCASClosed(p) ==
    /\ pc[p] = "finclosed"
    /\ closed' = TRUE
    /\ Goto(p, IF closed THEN "notify" ELSE "finclose")
    /\ UNCHANGED <<eutime, done, err, ch, chClosed, canceled, errs, notified, fin, recvars>>

FinishClose(p) ==
    /\ pc[p] = "finclose"
    /\ panicked' = (panicked \/ chClosed)
    /\ chClosed' = TRUE
    /\ Goto(p, "notify")
    /\ UNCHANGED <<eutime, done, err, closed, ch, canceled, errs, notified, fin, atFinish>>

\* the abort's error, or else the xaction's own errors; onFinished
FinishNotify(p) ==
    /\ pc[p] = "notify"
    /\ notified' = Append(notified, [aborted |-> fin[p].aborted, err |-> fin[p].err,
                                     errs |-> IF fin[p].err = Nobody THEN fin[p].n ELSE {}])
    /\ Goto(p, "ret")
    /\ UNCHANGED <<eutime, abortvars, canceled, errs, fin, recvars>>

Finish(p) == FinishClaim(p) \/ FinishClaim2(p) \/ FinishCancel(p) \/ FinishNerr(p)
             \/ FinishString(p) \/ FinishEnd(p) \/ FinishIsAborted(p) \/ FinishLoadErr(p)
             \/ FinishCASClosed(p) \/ FinishClose(p) \/ FinishNotify(p)

-----------------------------------------------------------------------------
(* SetStopping, called on the way to a terminal cleanup, and AddErr        *)

Stop(p) ==
    /\ pc[p] = "stopping" /\ SetStopping /\ Goto(p, "ret")
    /\ UNCHANGED <<abortvars, canceled, errs, notified, fin, recvars>>

\* no more errors once aborted
AddErrIsAborted(p) ==
    /\ pc[p] = "isaborted"
    /\ Goto(p, IF done THEN "ret" ELSE "add")
    /\ UNCHANGED <<eutime, abortvars, canceled, errs, notified, fin, recvars>>

AddErrAdd(p) ==
    /\ pc[p] = "add"
    /\ errs' = errs \cup {p}
    /\ Goto(p, "ret")
    /\ UNCHANGED <<eutime, abortvars, canceled, notified, fin, recvars>>

AddErr(p) == AddErrIsAborted(p) \/ AddErrAdd(p)

-----------------------------------------------------------------------------
Step(p) == Abort(p) \/ Finish(p) \/ Stop(p) \/ AddErr(p)

Terminated == (\A p \in Procs : pc[p] = "ret") /\ UNCHANGED vars

Next == (\E p \in Procs : Step(p)) \/ Terminated

Spec == Init /\ [][Next]_vars

\* a goroutine that can take a step takes it
FairSpec == Spec /\ \A p \in Procs : WF_vars(Step(p))

-----------------------------------------------------------------------------
(* Properties                                                              *)

AbortPCs  == {"isdone", "cas", "abortstopping", "swap", "cancel", "casclosed", "send", "close", "aborted"}
FinPCs    == {"fincancel", "nerr", "string", "end", "finaborted", "loaderr", "finclosed", "finclose", "notify"}
PCs == AbortPCs \cup FinPCs \cup {"claim", "claim2", "stopping", "isaborted", "add", "ret"}

FinLocals == [n : SUBSET Procs, aborted : BOOLEAN, err : Procs \cup {Nobody}]

\* the types of the atomics, of the channel and of every call's locals
TypeOK ==
    /\ eutime \in {"running", "stopping", "finishing", "ended"}
    /\ done \in BOOLEAN /\ closed \in BOOLEAN /\ chClosed \in BOOLEAN
    /\ canceled \in BOOLEAN /\ panicked \in BOOLEAN
    /\ err \in Procs \cup {Nobody}
    /\ ch \in Seq(Procs) /\ errs \subseteq Procs
    /\ notified \in Seq([aborted : BOOLEAN, err : Procs \cup {Nobody}, errs : SUBSET Procs])
    /\ pc \in [Procs -> PCs] /\ fin \in [Procs -> FinLocals]
    /\ atFinish \in [err : Procs \cup {Nobody}, errs : SUBSET Procs, claimed : BOOLEAN]

\* abort.ch is closed by one call of Abort or Finish and nothing is sent to it
\* afterwards, whichever calls run together: neither can panic
NoPanic == ~panicked

\* onFinished runs once for an xaction, however many calls of Finish race (its
\* own goroutine's, those of DemandBase.Abort): the listeners are told once
NotifiedOnce == Len(notified) <= 1

\* an abort whose error was in place when Finish started, and an error that
\* AddErr had added by then, are in the notification
OutcomeReported ==
    \A i \in 1..Len(notified) :
        /\ atFinish.err # Nobody =>
               notified[i].aborted /\ notified[i].err = atFinish.err
        /\ ~notified[i].aborted => atFinish.errs \subseteq notified[i].errs

Rank == [running |-> 0, stopping |-> 1, finishing |-> 2, ended |-> 3]

\* running, stopping, finishing, ended: no call takes eutime back, so a done
\* xaction never accepts work again and an end time never disappears
NeverRevived == [][Rank[eutime'] >= Rank[eutime]]_vars

\* a call of Finish that started ends in a notification
FinishNotifies == (\E p \in Procs : pc[p] \in {"claim"} \cup FinPCs) ~> (notified # <<>>)

\* the xaction as its users see it: it is ended when it has said how it ended
AbsEutime ==
    IF notified # <<>> THEN "ended" ELSE IF eutime = "running" THEN "running" ELSE "stopping"
Told ==
    IF notified = <<>> THEN "no" ELSE IF notified[1].aborted THEN "aborted" ELSE "finished"

Abs == INSTANCE XactAbs WITH eutime <- AbsEutime, told <- Told

\* every interleaving of the atomic operations is one of the five steps that the
\* users of an xaction can see, or none, and ChanAbort's readers are released
ImplementsAbs == Abs!AbsFairSpec

\* Finish's own assertion, "expecting xctn.abort.err": when it found the
\* xaction aborted it also found the error of the abort
AbortErrThere == \A p \in Procs : pc[p] = "finclosed" /\ fin[p].aborted => fin[p].err # Nobody
=============================================================================
