------------------------------ MODULE XactAbs -------------------------------
(***************************************************************************)
(* What the code that uses an xaction relies on (core.Xact, as xact.Base   *)
(* provides it): it runs, is stopping, has ended; it can be aborted once;  *)
(* whoever waits on ChanAbort is released only when it was aborted or is   *)
(* on its way out, and then for sure; it reports how it ended, once.       *)
(* XactBase, with every atomic operation a step, implements this.          *)
(*                                                                         *)
(*   eutime    "running", "stopping", "ended"                              *)
(*   done      aborted             chClosed  ChanAbort's readers released  *)
(*   errs      the errors added    told      what onFinished was given     *)
(***************************************************************************)
CONSTANT Procs

VARIABLES eutime, done, chClosed, errs, told

absvars == <<eutime, done, chClosed, errs, told>>

AbsInit == eutime = "running" /\ done = FALSE /\ chClosed = FALSE /\ errs = {} /\ told = "no"

IsDone    == eutime # "running"
\* abort.done.CAS(false, true)
AbortCAS == ~done /\ done' = TRUE /\ UNCHANGED <<eutime, chClosed, errs, told>>

SetStopping == eutime = "running" /\ eutime' = "stopping" /\ UNCHANGED <<done, chClosed, errs, told>>

Release == (done \/ IsDone) /\ ~chClosed /\ chClosed' = TRUE /\ UNCHANGED <<eutime, done, errs, told>>

\* dropped, when aborted
AddErr(p) == (errs' = errs \cup {p} \/ (done /\ errs' = errs)) /\ UNCHANGED <<eutime, done, chClosed, told>>

\* the end, with its report: only what was aborted is said to be
Finish ==
    /\ eutime = "stopping" /\ (chClosed \/ done)
    /\ eutime' = "ended" /\ (told' = "finished" \/ (done /\ told' = "aborted"))
    /\ UNCHANGED <<done, chClosed, errs>>

AbsNext == AbortCAS \/ SetStopping \/ Release \/ Finish \/ \E p \in Procs : AddErr(p)

AbsSpec == AbsInit /\ [][AbsNext]_absvars

\* whoever set abort.done goes on to close the channel
AbsFairSpec == AbsSpec /\ WF_absvars(done /\ Release)
=============================================================================
