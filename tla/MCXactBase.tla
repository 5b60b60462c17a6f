----------------------------- MODULE MCXactBase -----------------------------
(* Two aborts (one of a demand xaction, which also finishes), the xaction's  *)
(* own Finish, one SetStopping and one AddErr, all at once.                  *)
EXTENDS XactBase

CONSTANTS a1, d1, f1, s1, e1

MCProcs == {a1, d1, f1, s1, e1}
MCRole == [p \in MCProcs |-> CASE p = a1 -> "abort" [] p = d1 -> "dabort"
                               [] p = f1 -> "finish" [] p = s1 -> "stop" [] OTHER -> "adderr"]
=============================================================================
