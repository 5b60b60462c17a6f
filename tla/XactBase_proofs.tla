--------------------------- MODULE XactBase_proofs ---------------------------
(***************************************************************************)
(* For any number of calls of Abort, Finish, SetStopping and AddErr: the   *)
(* abort channel is closed once, the xaction notifies once, and it says    *)
(* what happened.                                                          *)
(*                                                                         *)
(* NoPanic and NotifiedOnce are not inductive.  What makes them so is who  *)
(* may be where: the call that won abort.closed is the only one about to   *)
(* send or close, and the channel is open until it has (Closer); the call  *)
(* that won eutime is the only one inside Finish, and nothing has been     *)
(* notified until it has (Finisher).  OutcomeReported needs, in addition,  *)
(* that the error of the abort is stored once (Aborter) and what the call  *)
(* inside Finish has already picked up (Picked).  That Base implements     *)
(* XactAbs adds what the steps its users see rest on (Visible).            *)
(***************************************************************************)
EXTENDS XactBase, TLAPS

ClosePCs == {"send", "close", "finclose"}
SwapPCs  == {"abortstopping", "swap"}
LatePCs  == {"finclosed", "finclose", "notify"}

Closer ==
    /\ chClosed => closed
    /\ \A p \in Procs : pc[p] \in ClosePCs => closed /\ ~chClosed
    /\ \A p, q \in Procs : pc[p] \in ClosePCs /\ pc[q] \in ClosePCs => p = q

Finisher ==
    /\ Len(notified) <= 1
    /\ eutime \in {"running", "stopping"} => notified = <<>>
    /\ \A p \in Procs : pc[p] \in FinPCs => eutime \in {"finishing", "ended"} /\ notified = <<>>
    /\ \A p, q \in Procs : pc[p] \in FinPCs /\ pc[q] \in FinPCs => p = q

Aborter ==
    /\ err # Nobody => done
    /\ \A p \in Procs : pc[p] \in SwapPCs => done /\ err = Nobody
    /\ \A p, q \in Procs : pc[p] \in SwapPCs /\ pc[q] \in SwapPCs => p = q

Picked ==
    /\ atFinish.err # Nobody => err = atFinish.err
    /\ atFinish.errs \subseteq errs
    /\ \A p \in Procs :
          /\ pc[p] \in FinPCs \ {"fincancel", "nerr"} => atFinish.errs \subseteq fin[p].n
          /\ pc[p] \notin LatePCs \cup {"ret"} => fin[p].err = Nobody
          /\ pc[p] = "loaderr" => fin[p].aborted = TRUE
          /\ pc[p] \in LatePCs =>
                 /\ atFinish.err # Nobody => fin[p].aborted = TRUE /\ fin[p].err = atFinish.err
                 /\ fin[p].aborted = FALSE => fin[p].err = Nobody

XBInv == TypeOK /\ NoPanic /\ Closer /\ Finisher /\ Aborter /\ Picked /\ OutcomeReported

USE XBAssumption DEF XBAssumption

\* initially no call is anywhere near the channel or the end time
LEMMA InitInv == Init => XBInv
<1> SUFFICES ASSUME Init PROVE XBInv
  OBVIOUS
<1> USE DEF Init, InitBase, First, NoFin
<1>1. \A p \in Procs : pc[p] \in {"isdone", "claim", "stopping", "isaborted"}
  BY ZenonT(30)
<1>2. fin \in [Procs -> FinLocals]
  BY DEF FinLocals
<1>3. pc \in [Procs -> PCs]
  BY <1>1 DEF PCs, AbortPCs
<1>4. TypeOK
  <2>1. atFinish \in [err : Procs \cup {Nobody}, errs : SUBSET Procs, claimed : BOOLEAN]
    OBVIOUS
  <2>2. notified \in Seq([aborted : BOOLEAN, err : Procs \cup {Nobody}, errs : SUBSET Procs])
    OBVIOUS
  <2>3. ch \in Seq(Procs) /\ errs \subseteq Procs
    OBVIOUS
  <2>4. done \in BOOLEAN /\ closed \in BOOLEAN /\ chClosed \in BOOLEAN /\ canceled \in BOOLEAN /\ panicked \in BOOLEAN
    BY Zenon
  <2> HIDE DEF Init, InitBase
  <2>5. err \in Procs \cup {Nobody} /\ eutime \in {"running", "stopping", "finishing", "ended"}
    BY DEF Init, InitBase
  <2> QED BY <1>2, <1>3, <2>1, <2>2, <2>3, <2>4, <2>5 DEF TypeOK
<1>5. NoPanic /\ Closer /\ Finisher
  BY <1>1 DEF NoPanic, Closer, Finisher, ClosePCs, FinPCs
<1>6. Aborter /\ Picked /\ OutcomeReported
  BY <1>1 DEF Aborter, Picked, OutcomeReported, SwapPCs, FinPCs, LatePCs
<1> QED BY <1>4, <1>5, <1>6 DEF XBInv

\* every step keeps the types
LEMMA TypeStep == ASSUME TypeOK, NEW p \in Procs, Step(p) PROVE TypeOK'
<1> USE DEF TypeOK, PCs, AbortPCs, FinPCs, Goto, abortvars, recvars
<1>1. CASE AbortIsDone(p)
  BY <1>1 DEF AbortIsDone
<1>2. CASE AbortCAS(p)
  BY <1>2 DEF AbortCAS
<1>3. CASE AbortStopping(p)
  BY <1>3 DEF AbortStopping, SetStopping
<1>4. CASE AbortSwap(p)
  BY <1>4 DEF AbortSwap
<1>5. CASE AbortCancel(p)
  BY <1>5 DEF AbortCancel
<1>6. CASE AbortCASClosed(p)
  BY <1>6 DEF AbortCASClosed
<1>7. CASE AbortSend(p)
  BY <1>7 DEF AbortSend
<1>8. CASE AbortClose(p)
  BY <1>8 DEF AbortClose
<1>9. CASE AbortRet(p)
  BY <1>9 DEF AbortRet
<1>10. CASE FinishClaim(p)
  <2>1. [err |-> err, errs |-> errs, claimed |-> TRUE] \in [err : Procs \cup {Nobody}, errs : SUBSET Procs, claimed : BOOLEAN]
    OBVIOUS
  <2>2. atFinish' \in [err : Procs \cup {Nobody}, errs : SUBSET Procs, claimed : BOOLEAN]
    BY <1>10, <2>1, ZenonT(30) DEF FinishClaim, Claim
  <2>3. pc' \in [Procs -> PCs] /\ eutime' \in {"running", "stopping", "finishing", "ended"}
    BY <1>10 DEF FinishClaim, Claim
  <2> QED BY <1>10, <2>2, <2>3 DEF FinishClaim
<1>11. CASE FinishClaim2(p)
  <2>1. [err |-> err, errs |-> errs, claimed |-> TRUE] \in [err : Procs \cup {Nobody}, errs : SUBSET Procs, claimed : BOOLEAN]
    OBVIOUS
  <2>2. atFinish' \in [err : Procs \cup {Nobody}, errs : SUBSET Procs, claimed : BOOLEAN]
    BY <1>11, <2>1, ZenonT(30) DEF FinishClaim2, Claim
  <2>3. pc' \in [Procs -> PCs] /\ eutime' \in {"running", "stopping", "finishing", "ended"}
    BY <1>11 DEF FinishClaim2, Claim
  <2> QED BY <1>11, <2>2, <2>3 DEF FinishClaim2
<1>12. CASE FinishCancel(p)
  BY <1>12 DEF FinishCancel
<1>13. CASE FinishNerr(p)
  <2>1. fin' \in [Procs -> FinLocals]
    <3>0. fin[p] \in FinLocals /\ errs \subseteq Procs
      OBVIOUS
    <3>1. [fin[p] EXCEPT !.n = errs] \in FinLocals
      BY <3>0, SMTT(30) DEF FinLocals
    <3> QED BY <1>13, <3>1 DEF FinishNerr
  <2> QED BY <1>13, <2>1 DEF FinishNerr
<1>14. CASE FinishString(p)
  BY <1>14 DEF FinishString
<1>15. CASE FinishEnd(p)
  BY <1>15 DEF FinishEnd
<1>16. CASE FinishIsAborted(p)
  <2>1. fin' \in [Procs -> FinLocals]
    <3>1. [fin[p] EXCEPT !.aborted = done] \in FinLocals
      <4>1. ASSUME NEW b \in BOOLEAN, NEW f \in FinLocals
            PROVE  [f EXCEPT !.aborted = b] \in FinLocals
        BY Zenon DEF FinLocals
      <4> QED BY <4>1
    <3> QED BY <1>16, <3>1 DEF FinishIsAborted
  <2> QED BY <1>16, <2>1 DEF FinishIsAborted
<1>17. CASE FinishLoadErr(p)
  <2>1. fin' \in [Procs -> FinLocals]
    BY <1>17, SMTT(30) DEF FinishLoadErr, FinLocals
  <2> QED BY <1>17, <2>1 DEF FinishLoadErr
<1>18. CASE FinishCASClosed(p)
  BY <1>18 DEF FinishCASClosed
<1>19. CASE FinishClose(p)
  BY <1>19 DEF FinishClose
<1>20. CASE FinishNotify(p)
  <2> DEFINE Note == [aborted : BOOLEAN, err : Procs \cup {Nobody}, errs : SUBSET Procs]
             note == [aborted |-> fin[p].aborted, err |-> fin[p].err,
                      errs |-> IF fin[p].err = Nobody THEN fin[p].n ELSE {}]
  <2>1. note \in Note
    BY DEF FinLocals
  <2>2. Append(notified, note) \in Seq(Note)
    BY <2>1
  <2> QED BY <1>20, <2>2 DEF FinishNotify
<1>21. CASE Stop(p)
  BY <1>21 DEF Stop, SetStopping
<1>22. CASE AddErrIsAborted(p)
  BY <1>22 DEF AddErrIsAborted
<1>23. CASE AddErrAdd(p)
  BY <1>23 DEF AddErrAdd
<1> QED
  BY <1>1, <1>2, <1>3, <1>4, <1>5, <1>6, <1>7, <1>8, <1>9, <1>10, <1>11, <1>12, <1>13, <1>14, <1>15, <1>16, <1>17,
     <1>18, <1>19, <1>20, <1>21, <1>22, <1>23, ZenonT(30) DEF Step, Abort, Finish, AddErr

\* the winner of abort.closed stays alone with the channel
LEMMA CloserStep == ASSUME TypeOK, NoPanic, Closer, NEW p \in Procs, Step(p) PROVE (NoPanic /\ Closer)'
<1> USE DEF TypeOK, NoPanic, Closer, ClosePCs, Goto, abortvars, recvars
<1>1. CASE AbortIsDone(p)
  BY <1>1 DEF AbortIsDone
<1>2. CASE AbortCAS(p)
  BY <1>2 DEF AbortCAS
<1>3. CASE AbortStopping(p)
  BY <1>3 DEF AbortStopping, SetStopping
<1>4. CASE AbortSwap(p)
  BY <1>4 DEF AbortSwap
<1>5. CASE AbortCancel(p)
  BY <1>5 DEF AbortCancel
<1>6. CASE AbortCASClosed(p)
  BY <1>6 DEF AbortCASClosed
<1>7. CASE AbortSend(p)
  BY <1>7 DEF AbortSend
<1>8. CASE AbortClose(p)
  BY <1>8 DEF AbortClose
<1>9. CASE AbortRet(p)
  BY <1>9 DEF AbortRet
<1>10. CASE FinishClaim(p)
  BY <1>10 DEF FinishClaim, Claim
<1>11. CASE FinishClaim2(p)
  BY <1>11 DEF FinishClaim2, Claim
<1>12. CASE FinishCancel(p)
  BY <1>12 DEF FinishCancel
<1>13. CASE FinishNerr(p)
  BY <1>13 DEF FinishNerr
<1>14. CASE FinishString(p)
  BY <1>14 DEF FinishString
<1>15. CASE FinishEnd(p)
  BY <1>15 DEF FinishEnd
<1>16. CASE FinishIsAborted(p)
  BY <1>16 DEF FinishIsAborted
<1>17. CASE FinishLoadErr(p)
  BY <1>17 DEF FinishLoadErr
<1>18. CASE FinishCASClosed(p)
  BY <1>18 DEF FinishCASClosed
<1>19. CASE FinishClose(p)
  BY <1>19 DEF FinishClose
<1>20. CASE FinishNotify(p)
  BY <1>20 DEF FinishNotify
<1>21. CASE Stop(p)
  BY <1>21 DEF Stop, SetStopping
<1>22. CASE AddErrIsAborted(p)
  BY <1>22 DEF AddErrIsAborted
<1>23. CASE AddErrAdd(p)
  BY <1>23 DEF AddErrAdd
<1> QED
  BY <1>1, <1>2, <1>3, <1>4, <1>5, <1>6, <1>7, <1>8, <1>9, <1>10, <1>11, <1>12, <1>13, <1>14, <1>15, <1>16, <1>17,
     <1>18, <1>19, <1>20, <1>21, <1>22, <1>23, ZenonT(30) DEF Step, Abort, Finish, AddErr

\* the winner of eutime stays alone in Finish
LEMMA FinisherStep == ASSUME TypeOK, Finisher, NEW p \in Procs, Step(p) PROVE Finisher'
<1> USE DEF TypeOK, Finisher, FinPCs, Goto, abortvars, recvars
<1>1. CASE AbortIsDone(p)
  BY <1>1 DEF AbortIsDone
<1>2. CASE AbortCAS(p)
  BY <1>2 DEF AbortCAS
<1>3. CASE AbortStopping(p)
  BY <1>3 DEF AbortStopping, SetStopping
<1>4. CASE AbortSwap(p)
  BY <1>4 DEF AbortSwap
<1>5. CASE AbortCancel(p)
  BY <1>5 DEF AbortCancel
<1>6. CASE AbortCASClosed(p)
  BY <1>6 DEF AbortCASClosed
<1>7. CASE AbortSend(p)
  BY <1>7 DEF AbortSend
<1>8. CASE AbortClose(p)
  BY <1>8 DEF AbortClose
<1>9. CASE AbortRet(p)
  BY <1>9 DEF AbortRet
<1>10. CASE FinishClaim(p)
  BY <1>10 DEF FinishClaim, Claim
<1>11. CASE FinishClaim2(p)
  BY <1>11 DEF FinishClaim2, Claim
<1>12. CASE FinishCancel(p)
  BY <1>12 DEF FinishCancel
<1>13. CASE FinishNerr(p)
  BY <1>13 DEF FinishNerr
<1>14. CASE FinishString(p)
  BY <1>14 DEF FinishString
<1>15. CASE FinishEnd(p)
  BY <1>15 DEF FinishEnd
<1>16. CASE FinishIsAborted(p)
  BY <1>16 DEF FinishIsAborted
<1>17. CASE FinishLoadErr(p)
  BY <1>17 DEF FinishLoadErr
<1>18. CASE FinishCASClosed(p)
  BY <1>18 DEF FinishCASClosed
<1>19. CASE FinishClose(p)
  BY <1>19 DEF FinishClose
<1>20. CASE FinishNotify(p)
  BY <1>20 DEF FinishNotify
<1>21. CASE Stop(p)
  BY <1>21 DEF Stop, SetStopping
<1>22. CASE AddErrIsAborted(p)
  BY <1>22 DEF AddErrIsAborted
<1>23. CASE AddErrAdd(p)
  BY <1>23 DEF AddErrAdd
<1> QED
  BY <1>1, <1>2, <1>3, <1>4, <1>5, <1>6, <1>7, <1>8, <1>9, <1>10, <1>11, <1>12, <1>13, <1>14, <1>15, <1>16, <1>17,
     <1>18, <1>19, <1>20, <1>21, <1>22, <1>23, ZenonT(30) DEF Step, Abort, Finish, AddErr

\* the winner of abort.done stores the error, once
LEMMA AborterStep == ASSUME TypeOK, Aborter, NEW p \in Procs, Step(p) PROVE Aborter'
<1> USE DEF TypeOK, Aborter, SwapPCs, Goto, abortvars, recvars
<1>1. CASE AbortIsDone(p)
  BY <1>1 DEF AbortIsDone
<1>2. CASE AbortCAS(p)
  BY <1>2 DEF AbortCAS
<1>3. CASE AbortStopping(p)
  BY <1>3 DEF AbortStopping, SetStopping
<1>4. CASE AbortSwap(p)
  BY <1>4 DEF AbortSwap
<1>5. CASE AbortCancel(p)
  BY <1>5 DEF AbortCancel
<1>6. CASE AbortCASClosed(p)
  BY <1>6 DEF AbortCASClosed
<1>7. CASE AbortSend(p)
  BY <1>7 DEF AbortSend
<1>8. CASE AbortClose(p)
  BY <1>8 DEF AbortClose
<1>9. CASE AbortRet(p)
  BY <1>9 DEF AbortRet
<1>10. CASE FinishClaim(p)
  BY <1>10 DEF FinishClaim, Claim
<1>11. CASE FinishClaim2(p)
  BY <1>11 DEF FinishClaim2, Claim
<1>12. CASE FinishCancel(p)
  BY <1>12 DEF FinishCancel
<1>13. CASE FinishNerr(p)
  BY <1>13 DEF FinishNerr
<1>14. CASE FinishString(p)
  BY <1>14 DEF FinishString
<1>15. CASE FinishEnd(p)
  BY <1>15 DEF FinishEnd
<1>16. CASE FinishIsAborted(p)
  BY <1>16 DEF FinishIsAborted
<1>17. CASE FinishLoadErr(p)
  BY <1>17 DEF FinishLoadErr
<1>18. CASE FinishCASClosed(p)
  BY <1>18 DEF FinishCASClosed
<1>19. CASE FinishClose(p)
  BY <1>19 DEF FinishClose
<1>20. CASE FinishNotify(p)
  BY <1>20 DEF FinishNotify
<1>21. CASE Stop(p)
  BY <1>21 DEF Stop, SetStopping
<1>22. CASE AddErrIsAborted(p)
  BY <1>22 DEF AddErrIsAborted
<1>23. CASE AddErrAdd(p)
  BY <1>23 DEF AddErrAdd
<1> QED
  BY <1>1, <1>2, <1>3, <1>4, <1>5, <1>6, <1>7, <1>8, <1>9, <1>10, <1>11, <1>12, <1>13, <1>14, <1>15, <1>16, <1>17,
     <1>18, <1>19, <1>20, <1>21, <1>22, <1>23, ZenonT(30) DEF Step, Abort, Finish, AddErr

\* what Finish picks up is what was there when it started
LEMMA PickedStep == ASSUME TypeOK, Finisher, Aborter, Picked, NEW p \in Procs, Step(p) PROVE Picked'
<1> USE DEF TypeOK, Finisher, Aborter, Picked, SwapPCs, FinPCs, LatePCs, FinLocals, Goto, abortvars, recvars
<1>1. CASE AbortIsDone(p)
  BY <1>1 DEF AbortIsDone
<1>2. CASE AbortCAS(p)
  BY <1>2 DEF AbortCAS
<1>3. CASE AbortStopping(p)
  BY <1>3 DEF AbortStopping, SetStopping
<1>4. CASE AbortSwap(p)
  BY <1>4 DEF AbortSwap
<1>5. CASE AbortCancel(p)
  BY <1>5 DEF AbortCancel
<1>6. CASE AbortCASClosed(p)
  BY <1>6 DEF AbortCASClosed
<1>7. CASE AbortSend(p)
  BY <1>7 DEF AbortSend
<1>8. CASE AbortClose(p)
  BY <1>8 DEF AbortClose
<1>9. CASE AbortRet(p)
  BY <1>9 DEF AbortRet
<1>10. CASE FinishClaim(p)
  BY <1>10 DEF FinishClaim, Claim
<1>11. CASE FinishClaim2(p)
  BY <1>11 DEF FinishClaim2, Claim
<1>12. CASE FinishCancel(p)
  BY <1>12 DEF FinishCancel
<1>13. CASE FinishNerr(p)
  BY <1>13 DEF FinishNerr
<1>14. CASE FinishString(p)
  BY <1>14 DEF FinishString
<1>15. CASE FinishEnd(p)
  BY <1>15 DEF FinishEnd
<1>16. CASE FinishIsAborted(p)
  BY <1>16 DEF FinishIsAborted
<1>17. CASE FinishLoadErr(p)
  BY <1>17 DEF FinishLoadErr
<1>18. CASE FinishCASClosed(p)
  BY <1>18 DEF FinishCASClosed
<1>19. CASE FinishClose(p)
  BY <1>19 DEF FinishClose
<1>20. CASE FinishNotify(p)
  BY <1>20 DEF FinishNotify
<1>21. CASE Stop(p)
  BY <1>21 DEF Stop, SetStopping
<1>22. CASE AddErrIsAborted(p)
  BY <1>22 DEF AddErrIsAborted
<1>23. CASE AddErrAdd(p)
  BY <1>23 DEF AddErrAdd
<1> QED
  BY <1>1, <1>2, <1>3, <1>4, <1>5, <1>6, <1>7, <1>8, <1>9, <1>10, <1>11, <1>12, <1>13, <1>14, <1>15, <1>16, <1>17,
     <1>18, <1>19, <1>20, <1>21, <1>22, <1>23, ZenonT(30) DEF Step, Abort, Finish, AddErr

\* the notification is made of what Finish picked up
LEMMA OutcomeStep == ASSUME TypeOK, Finisher, Picked, OutcomeReported, NEW p \in Procs, Step(p) PROVE OutcomeReported'
<1> USE DEF TypeOK, Finisher, Picked, OutcomeReported, FinPCs, LatePCs, FinLocals, Goto, abortvars, recvars
<1>1. CASE AbortIsDone(p)
  BY <1>1 DEF AbortIsDone
<1>2. CASE AbortCAS(p)
  BY <1>2 DEF AbortCAS
<1>3. CASE AbortStopping(p)
  BY <1>3 DEF AbortStopping, SetStopping
<1>4. CASE AbortSwap(p)
  BY <1>4 DEF AbortSwap
<1>5. CASE AbortCancel(p)
  BY <1>5 DEF AbortCancel
<1>6. CASE AbortCASClosed(p)
  BY <1>6 DEF AbortCASClosed
<1>7. CASE AbortSend(p)
  BY <1>7 DEF AbortSend
<1>8. CASE AbortClose(p)
  BY <1>8 DEF AbortClose
<1>9. CASE AbortRet(p)
  BY <1>9 DEF AbortRet
<1>10. CASE FinishClaim(p)
  BY <1>10 DEF FinishClaim, Claim
<1>11. CASE FinishClaim2(p)
  BY <1>11 DEF FinishClaim2, Claim
<1>12. CASE FinishCancel(p)
  BY <1>12 DEF FinishCancel
<1>13. CASE FinishNerr(p)
  BY <1>13 DEF FinishNerr
<1>14. CASE FinishString(p)
  BY <1>14 DEF FinishString
<1>15. CASE FinishEnd(p)
  BY <1>15 DEF FinishEnd
<1>16. CASE FinishIsAborted(p)
  BY <1>16 DEF FinishIsAborted
<1>17. CASE FinishLoadErr(p)
  BY <1>17 DEF FinishLoadErr
<1>18. CASE FinishCASClosed(p)
  BY <1>18 DEF FinishCASClosed
<1>19. CASE FinishClose(p)
  BY <1>19 DEF FinishClose
<1>20. CASE FinishNotify(p)
  BY <1>20 DEF FinishNotify
<1>21. CASE Stop(p)
  BY <1>21 DEF Stop, SetStopping
<1>22. CASE AddErrIsAborted(p)
  BY <1>22 DEF AddErrIsAborted
<1>23. CASE AddErrAdd(p)
  BY <1>23 DEF AddErrAdd
<1> QED
  BY <1>1, <1>2, <1>3, <1>4, <1>5, <1>6, <1>7, <1>8, <1>9, <1>10, <1>11, <1>12, <1>13, <1>14, <1>15, <1>16, <1>17,
     <1>18, <1>19, <1>20, <1>21, <1>22, <1>23, ZenonT(30) DEF Step, Abort, Finish, AddErr

\* XBInv is inductive, for any number of concurrent calls
THEOREM XBInvariance == Spec => []XBInv
<1>1. Init => XBInv
  BY InitInv
<1>2. XBInv /\ [Next]_vars => XBInv'
  <2> SUFFICES ASSUME XBInv, [Next]_vars PROVE XBInv'
    BY ZenonT(30)
  <2>1. CASE UNCHANGED vars
    BY <2>1 DEF vars, abortvars, recvars, XBInv, TypeOK, NoPanic, Closer, Finisher, Aborter, Picked, OutcomeReported
  <2>2. ASSUME NEW p \in Procs, Step(p) PROVE XBInv'
    BY <2>2, TypeStep, CloserStep, FinisherStep, AborterStep, PickedStep, OutcomeStep DEF XBInv
  <2> QED BY <2>1, <2>2 DEF Next, Terminated
<1> QED BY <1>1, <1>2, PTL DEF Spec

\* the atomics, the channel and the locals of every call keep their types
THEOREM TypeCorrect == Spec => []TypeOK
<1>1. XBInv => TypeOK
  BY DEF XBInv
<1> QED BY <1>1, XBInvariance, PTL

\* no interleaving of Abort and Finish closes abort.ch twice or sends to it closed
THEOREM NeverPanics == Spec => []NoPanic
<1>1. XBInv => NoPanic
  BY DEF XBInv
<1> QED BY <1>1, XBInvariance, PTL

\* onFinished runs at most once, however many calls of Finish there are
THEOREM NotifiesOnce == Spec => []NotifiedOnce
<1>1. XBInv => NotifiedOnce
  BY DEF XBInv, Finisher, NotifiedOnce
<1> QED BY <1>1, XBInvariance, PTL

\* the notification carries the abort, or the errors, that preceded Finish
THEOREM ReportsOutcome == Spec => []OutcomeReported
<1>1. XBInv => OutcomeReported
  BY DEF XBInv
<1> QED BY <1>1, XBInvariance, PTL

\* the end time only moves from running towards ended
THEOREM EndIsFinal == Spec => NeverRevived
<1>1. TypeOK /\ [Next]_vars => [Rank[eutime'] >= Rank[eutime]]_vars
  <2> SUFFICES ASSUME TypeOK, NEW p \in Procs, Step(p) PROVE Rank[eutime'] >= Rank[eutime]
    BY SMTT(30) DEF Next, Terminated
  <2>1. \/ eutime' = eutime
        \/ eutime = "running" /\ eutime' = "stopping"
        \/ eutime \in {"running", "stopping"} /\ eutime' = "finishing"
        \/ eutime' = "ended"
    BY DEF Step, Abort, Finish, AddErr, SetStopping, Claim, abortvars, recvars,
           AbortIsDone, AbortCAS, AbortStopping, AbortSwap, AbortCancel,
           AbortCASClosed, AbortSend, AbortClose, AbortRet, FinishClaim,
           FinishClaim2, FinishCancel, FinishNerr, FinishString, FinishEnd,
           FinishIsAborted, FinishLoadErr, FinishCASClosed, FinishClose, FinishNotify,
           Stop, AddErrIsAborted, AddErrAdd
  <2> QED BY <2>1 DEF Rank, TypeOK
<1> QED BY <1>1, TypeCorrect, PTL DEF Spec, NeverRevived

-----------------------------------------------------------------------------
(* The refinement of XactAbs *)

HoldPCs == {"abortstopping", "swap", "cancel", "casclosed", "send", "close"}

\* what the steps that the users of an xaction see rest on: Abort is past its CAS, what
\* Finish took for an abort was one, and whoever leaves the channel to another call knows
\* that it will be closed
Visible ==
    /\ \A p \in Procs : pc[p] \in HoldPCs \/ fin[p].aborted = TRUE => done
    /\ closed => done \/ chClosed \/ \E q \in Procs : pc[q] = "finclose"
    /\ \A p \in Procs : pc[p] = "notify" => chClosed \/ done

\* Visible is inductive, given that Finish has one winner
LEMMA VisibleStep == ASSUME TypeOK, Finisher, Visible, NEW p \in Procs, Step(p) PROVE Visible'
<1> USE DEF TypeOK, Visible, HoldPCs, Goto, abortvars, recvars
<1>1. CASE AbortIsDone(p)
  BY <1>1 DEF AbortIsDone
<1>2. CASE AbortCAS(p)
  BY <1>2 DEF AbortCAS
<1>3. CASE AbortStopping(p)
  BY <1>3 DEF AbortStopping
<1>4. CASE AbortSwap(p)
  BY <1>4 DEF AbortSwap
<1>5. CASE AbortCancel(p)
  BY <1>5 DEF AbortCancel
<1>6. CASE AbortCASClosed(p)
  BY <1>6 DEF AbortCASClosed
<1>7. CASE AbortSend(p)
  BY <1>7 DEF AbortSend
<1>8. CASE AbortClose(p)
  BY <1>8 DEF AbortClose
<1>9. CASE AbortRet(p)
  BY <1>9 DEF AbortRet
<1>10. CASE FinishClaim(p)
  BY <1>10 DEF FinishClaim, Claim
<1>11. CASE FinishClaim2(p)
  BY <1>11 DEF FinishClaim2, Claim
<1>12. CASE FinishCancel(p)
  BY <1>12 DEF FinishCancel
<1>13. CASE FinishNerr(p)
  BY <1>13 DEF FinishNerr
<1>14. CASE FinishString(p)
  BY <1>14 DEF FinishString
<1>15. CASE FinishEnd(p)
  BY <1>15 DEF FinishEnd
<1>16. CASE FinishIsAborted(p)
  BY <1>16 DEF FinishIsAborted
<1>17. CASE FinishLoadErr(p)
  BY <1>17 DEF FinishLoadErr
<1>18. CASE FinishCASClosed(p)
  BY <1>18 DEF FinishCASClosed, Finisher, FinPCs
<1>19. CASE FinishClose(p)
  BY <1>19 DEF FinishClose
<1>20. CASE FinishNotify(p)
  BY <1>20 DEF FinishNotify
<1>21. CASE Stop(p)
  BY <1>21 DEF Stop
<1>22. CASE AddErrIsAborted(p)
  BY <1>22 DEF AddErrIsAborted
<1>23. CASE AddErrAdd(p)
  BY <1>23 DEF AddErrAdd
<1> QED
  BY <1>1, <1>2, <1>3, <1>4, <1>5, <1>6, <1>7, <1>8, <1>9, <1>10, <1>11, <1>12, <1>13, <1>14, <1>15, <1>16, <1>17,
     <1>18, <1>19, <1>20, <1>21, <1>22, <1>23, ZenonT(30) DEF Step, Abort, Finish, AddErr

\* a step of a call is one of the five steps that the users see, or none of them
LEMMA AbsStep == ASSUME TypeOK, Closer, Finisher, Visible, NEW p \in Procs, Step(p) PROVE [Abs!AbsNext]_(Abs!absvars)
<1> USE DEF TypeOK, Finisher, AbsEutime, Told, Goto, abortvars, recvars
<1>1. CASE UNCHANGED <<eutime, done, chClosed, errs, notified>>
  BY <1>1 DEF Abs!absvars
<1>2. CASE AbortCAS(p)
  BY <1>2, <1>1, ZenonT(30) DEF AbortCAS, Abs!AbsNext, Abs!AbortCAS
<1>3. CASE AbortStopping(p) \/ Stop(p)
  BY <1>3, <1>1 DEF AbortStopping, Stop, SetStopping, Abs!AbsNext, Abs!SetStopping
<1>4. CASE AbortClose(p)
  BY <1>4 DEF AbortClose, Closer, ClosePCs, Visible, HoldPCs, Abs!AbsNext, Abs!Release
<1>5. CASE FinishClaim(p) \/ FinishClaim2(p)
  BY <1>5, <1>1 DEF FinishClaim, FinishClaim2, Claim, Abs!AbsNext, Abs!SetStopping, Abs!absvars
<1>6. CASE FinishEnd(p)
  BY <1>6, <1>1 DEF FinishEnd, FinPCs, Abs!absvars
<1>7. CASE FinishClose(p)
  BY <1>7 DEF FinishClose, Closer, ClosePCs, FinPCs, Abs!AbsNext, Abs!Release, Abs!IsDone
<1>8. CASE FinishNotify(p)
  <2>1. notified = <<>> /\ eutime \in {"finishing", "ended"} /\ (chClosed \/ done)
    BY <1>8 DEF FinishNotify, FinPCs, Visible
  <2>2. notified' # <<>> /\ notified'[1].aborted = fin[p].aborted /\ UNCHANGED <<eutime, done, chClosed, errs>>
    BY <1>8, <2>1, SMTT(30) DEF FinishNotify
  <2>3. fin[p].aborted \in BOOLEAN /\ (fin[p].aborted = TRUE => done)
    BY DEF Visible, FinLocals
  <2> QED
    BY <2>1, <2>2, <2>3 DEF Abs!AbsNext, Abs!Finish
<1>9. CASE AddErrAdd(p)
  BY <1>9, <1>1 DEF AddErrAdd, Abs!AbsNext, Abs!AddErr
<1>10. CASE AbortIsDone(p) \/ AbortSwap(p) \/ AbortCancel(p) \/ AbortCASClosed(p) \/ AbortSend(p) \/ AbortRet(p)
  BY <1>10, <1>1 DEF AbortIsDone, AbortSwap, AbortCancel, AbortCASClosed, AbortSend, AbortRet
<1>11. CASE FinishCancel(p) \/ FinishNerr(p) \/ FinishString(p) \/ FinishIsAborted(p) \/ FinishLoadErr(p)
            \/ FinishCASClosed(p) \/ AddErrIsAborted(p)
  BY <1>11, <1>1 DEF FinishCancel, FinishNerr, FinishString, FinishIsAborted, FinishLoadErr, FinishCASClosed,
     AddErrIsAborted
<1> QED
  BY <1>2, <1>3, <1>4, <1>5, <1>6, <1>7, <1>8, <1>9, <1>10, <1>11, ZenonT(30) DEF Step, Abort, Finish, AddErr

\* xact.Base is the xaction that its users rely on, however the atomic operations of
\* Abort, Finish, Stop and AddErr interleave: it is aborted once, ChanAbort's readers are
\* released only on its way out, and it reports once, as aborted only if it was
THEOREM RefinesAbs == Spec => Abs!AbsSpec
<1>1. Init => Abs!AbsInit /\ Visible
  <2> SUFFICES ASSUME Init PROVE Abs!AbsInit /\ Visible
    OBVIOUS
  <2>1. \A p \in Procs : pc[p] \in {"isdone", "claim", "stopping", "isaborted"}
    BY ZenonT(30) DEF Init, First
  <2>2. Visible
    BY <2>1 DEF Visible, HoldPCs, Init, InitBase, NoFin
  <2> QED
    BY <2>2 DEF Init, InitBase, Abs!AbsInit, AbsEutime, Told
<1>2. XBInv /\ Visible /\ [Next]_vars => Visible' /\ [Abs!AbsNext]_(Abs!absvars)
  <2> SUFFICES ASSUME XBInv, Visible, [Next]_vars PROVE Visible' /\ [Abs!AbsNext]_(Abs!absvars)
    OBVIOUS
  <2>1. CASE UNCHANGED vars
    BY <2>1 DEF vars, abortvars, recvars, Visible, Abs!absvars, AbsEutime, Told
  <2>2. ASSUME NEW p \in Procs, Step(p) PROVE Visible' /\ [Abs!AbsNext]_(Abs!absvars)
    BY <2>2, VisibleStep, AbsStep DEF XBInv
  <2> QED
    BY <2>1, <2>2 DEF Next, Terminated
<1> QED
  BY <1>1, <1>2, XBInvariance, PTL DEF Spec, Abs!AbsSpec
==============================================================================
