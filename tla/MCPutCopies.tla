---------------------------- MODULE MCPutCopies -----------------------------
(* Two PUTs, one mountpath, the xaction's own goroutine, the housekeeper and *)
(* a user who may abort.                                                     *)
EXTENDS PutCopies

CONSTANTS p1, p2, m1

MCPuts == {p1, p2}
MCMpaths == {m1}
MCProcs == {p1, p2, m1, Run, User}
MCAttached == {p2}
MCMpathOf == [p \in MCPuts |-> m1]
=============================================================================
