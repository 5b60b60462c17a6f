------------------------------ MODULE MCBckTxn ------------------------------
(***************************************************************************)
(* One or two targets, one bucket name, up to four requests on it.         *)
(* The requests of each run are chosen by its configuration.               *)
(***************************************************************************)
EXTENDS BckTxn, TLC

CONSTANTS b1

MaxVer == 8      \* bound: no behaviour of four requests makes more versions

MCBMDs == [ver : 1..MaxVer,
           bcks : [{} -> {}] \cup [{b1} -> [bid : 1..MaxVer, val : Uuids \cup {NoTxn}]]]

MCUuids2 == {1, 2}
MCUuids4 == 1..4
CreateDestroy == <<"create", "destroy">>
MncDestroy == <<"mnc", "destroy">>
AllFour == <<"mnc", "setprops", "destroy", "create">>
SameBck2 == <<b1, b1>>
SameBck4 == <<b1, b1, b1, b1>>

Symmetry == Permutations(Targets)
=============================================================================
