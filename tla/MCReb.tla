------------------------------- MODULE MCReb -------------------------------
(***************************************************************************)
(* Two targets with a misplaced object each and two generations without    *)
(* faults; one generation with any fault; two generations with a crash;    *)
(* two generations, a target having no bucket in the first.                *)
(***************************************************************************)
EXTENDS Reb

CONSTANTS t1, t2, o1, o2

MCHomeOf == [o \in Objs |-> IF o = o1 THEN t1 ELSE t2]
MCHrwOf == [o \in Objs |-> IF o = o1 THEN t2 ELSE t1]

Successive == [gens |-> 2, objs |-> Objs, faults |-> 0, kinds |-> {}, empty |-> {}]
Faulty == [gens |-> 1, objs |-> Objs, faults |-> 2, kinds |-> Kinds, empty |-> {}]
Both(k) == [gens |-> 2, objs |-> {o1}, faults |-> 1, kinds |-> {k}, empty |-> {}]
BucketLater == [gens |-> 2, objs |-> {o1}, faults |-> 0, kinds |-> {}, empty |-> {<<t2, 1>>}]

MCScenarios == {Successive, Faulty, Both("crash"), BucketLater}
OneAfterOther == {Successive}
=============================================================================
