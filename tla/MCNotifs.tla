------------------------------ MODULE MCNotifs ------------------------------
(* Two notifiers and one fault: lost message, lost answer, restart or departure *)
EXTENDS Notifs
CONSTANTS t1, t2
MCTargets == {t1, t2}
=============================================================================
