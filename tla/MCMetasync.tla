----------------------------- MODULE MCMetasync -----------------------------
(***************************************************************************)
(* A primary with a target and a proxy; a second target may join and the   *)
(* first may leave, while bucket metadata changes.  Scenarios: membership  *)
(* and bucket changes race with a short workCh and two faults; or the      *)
(* proxy may lose its role at any time, with one fault, or with a          *)
(* notification in the queue.                                              *)
(***************************************************************************)
EXTENDS Metasync, TLC

CONSTANTS t1, t2, p1

MCTags == {"Smap", "BMD"}
MCNodeOf == <<t1, t2, t1>>
Of(kinds, cap, maxf, elections) ==
    [kindOf |-> kinds, workChanCap |-> cap, maxFaults |-> maxf, elections |-> elections]

Changes == Of(<<"bmd", "join", "leave">>, 2, 2, FALSE)
Elected == Of(<<"bmd", "none", "leave">>, 5, 1, TRUE)
Notified == Of(<<"bmd", "gfn", "none">>, 5, 0, TRUE)
MCScenarios == {Changes, Elected, Notified}
LeaderScenarios == {Of(<<"bmd", "join", "none">>, 2, 0, TRUE)}
NotifyScenarios == {Of(<<"bmd", "gfn", "none">>, 2, 4, FALSE)}
=============================================================================
