----------------------------- MODULE Reb_proofs -----------------------------
(***************************************************************************)
(* One Run at a time owns the data mover and the installed xaction of a    *)
(* target, for any number of targets, generations and faults, as long as   *)
(* every generation comes with an RMD (UserGens), no Run begins while an   *)
(* earlier one is still starting (Overlaps), and no wait timed out.        *)
(*                                                                         *)
(* The argument: Order, what _preempt keeps true of the Runs of a target   *)
(* (when one is past it, the earlier ones have returned), and Owned, what  *)
(* belongs to the one that is between _renew and fini.                     *)
(*                                                                         *)
(* A generation that nobody gave up delivers: a target sends only to       *)
(* targets that receive (rxReady), none stops receiving before all have    *)
(* sent everything (Quiesce, whose callback finds a target busy until it   *)
(* has), and what is in flight to a target that receives arrives or is     *)
(* given up in the log.  A target that found no bucket takes no part: it   *)
(* counts as ready and as done, and what is sent to it is dropped.         *)
(***************************************************************************)
EXTENDS Reb, TLAPS

\* leaves are for Zenon, those with arithmetic or records for SMT
USE ZenonT(30)

PCs == {"none", "start", "poll", "ping", "renew", "lock", "empty", "init", "rxready", "walk", "post", "quiesce", "close",
        "fini", "ret"}
Inst == {"empty", "init", "rxready", "walk", "post", "quiesce", "close", "fini"}
Live == Inst \cup {"lock"}
Resting == {"none", "ret"}

Msgs == [from: Targets, to: Targets, g: Gens, obj: Objs]

RunType == [Targets -> [Gens -> [pc: PCs, oxid: 0..MaxGen, left: SUBSET (Targets \cup Objs)]]]
RebRec == [id: 0..MaxGen, stage: Inactive..Done, peers: [Targets -> Inactive..StageAbort],
           dm: 0..MaxGen, reg: 0..MaxGen, xreb: 0..MaxGen]
RebType == [Targets -> RebRec]

\* the types, with those of the scenario and of what is in flight
RebTypes ==
    /\ rmd \in [Targets -> 0..MaxGen]
    /\ run \in RunType
    /\ reb \in RebType
    /\ marker \in [Targets -> BOOLEAN] /\ has \in [Targets -> SUBSET Objs]
    /\ started \in [Targets -> SUBSET Gens] /\ aborted \in [Targets -> SUBSET Gens] /\ ended \in [Targets -> SUBSET Gens]
    /\ sc \in Scenarios
    /\ net \subseteq Msgs
    /\ told \subseteq Targets \X Gens \X (Inactive..StageAbort)

PC(t, g) == run[t][g].pc
Oxid(t, g) == run[t][g].oxid
Begun(t, g) == PC(t, g) \notin {"none", "start", "poll"}

\* what a Run knows of the earlier ones: Oxid is the latest of them
Chain(t, g) ==
    PC(t, g) # "none" =>
        /\ g <= rmd[t] /\ Oxid(t, g) < g
        /\ Oxid(t, g) # 0 => PC(t, Oxid(t, g)) # "none"
        /\ \A h \in Gens : Oxid(t, g) < h /\ h < g => PC(t, h) = "none"

\* what _preempt establishes: when a Run is past it, every earlier Run has returned
Turn(t, g) == Begun(t, g) => \A h \in Gens : h < g => PC(t, h) \in Resting

\* where a Run is, its xaction and reb.rebID
Place(t, g) ==
    /\ PC(t, g) = "poll" => Oxid(t, g) \in started[t]
    /\ g \in ended[t] => PC(t, g) = "ret"
    /\ g \in started[t] => Begun(t, g)
    /\ PC(t, g) \in Live => g \in started[t]
    /\ PC(t, g) \in {"start", "poll", "ping", "renew", "lock"} => reb[t].id < g

Order(t) ==
    /\ reb[t].id <= rmd[t]
    /\ rmd[t] # 0 => PC(t, rmd[t]) # "none"
    /\ \A g \in Gens : Chain(t, g) /\ Turn(t, g) /\ Place(t, g)

Owned(t) ==
    /\ \A g \in Gens : PC(t, g) \in Inst =>
         /\ reb[t].xreb = g /\ reb[t].id = g
         /\ reb[t].dm = IF PC(t, g) = "empty" THEN 0 ELSE g
         /\ reb[t].reg = IF PC(t, g) \in {"empty", "fini"} THEN 0 ELSE g
    /\ (\A g \in Gens : PC(t, g) \notin Inst) => reb[t].dm = 0 /\ reb[t].reg = 0 /\ reb[t].xreb = 0

\* a target that stopped has nothing
Gone(t) == run[t] = [g \in Gens |-> NoRun] /\ reb[t] = Idle

Sound(t) == IF Up(t) THEN Order(t) /\ Owned(t) ELSE Gone(t)
OwnerInv == "late" \in odd \/ \A t \in Targets : Sound(t)

-----------------------------------------------------------------------------
\* the Run of t and g, and no other, goes to q
Moved(t, g, q) ==
    /\ \A u \in Targets \ {t} : run'[u] = run[u]
    /\ \A h \in Gens \ {g} : run'[t][h] = run[t][h]
    /\ run'[t][g].pc = q
    /\ run'[t][g].oxid = run[t][g].oxid

-----------------------------------------------------------------------------
(* order *)

\* the Run of g begins
NewRun(t, g) ==
    /\ \A h \in Gens : h # g => run'[t][h] = run[t][h]
    /\ run'[t][g].pc = "start" /\ run'[t][g].oxid = rmd[t]
    /\ rmd'[t] = g /\ reb'[t] = reb[t] /\ started'[t] = started[t] /\ ended'[t] = ended[t]

\* receiveRMD: the generation is newer than the RMD that the target has
LEMMA RecvRMDStep ==
    ASSUME RebTypes, UserGens = {}, NEW t \in Targets, NEW g \in Gens, RecvRMD(t, g)
    PROVE  NewRun(t, g) /\ rmd[t] < g /\ \A h \in Gens : h >= g => PC(t, h) = "none"
<1>1. g \in Nat /\ rmd[t] \in Nat /\ rmd[t] < g
  BY RebAssumption, SMTT(30) DEF RecvRMD, RebTypes, Gens
<1>2. \A h \in Gens : h >= g => PC(t, h) = "none"
  BY RebAssumption, <1>1, SMTT(30) DEF RecvRMD, Gens, PC
<1>3. rmd'[t] = g /\ reb'[t] = reb[t] /\ started'[t] = started[t] /\ ended'[t] = ended[t]
  BY DEF RecvRMD, RebTypes, xvars
<1>4. /\ \A h \in Gens : h # g => run'[t][h] = run[t][h]
      /\ run'[t][g].pc = "start" /\ run'[t][g].oxid = rmd[t]
  BY DEF RecvRMD, RebTypes, RunType
<1> QED  BY <1>1, <1>2, <1>3, <1>4 DEF NewRun

\* a new Run
LEMMA NewRunOrder ==
    ASSUME RebTypes, NEW t \in Targets, NEW g \in Gens, Order(t), Owned(t), NewRun(t, g), rmd[t] < g,
           \A h \in Gens : h >= g => PC(t, h) = "none"
    PROVE  Order(t)' /\ Owned(t)'
<1>0. /\ \A h \in Gens : h # g => run'[t][h] = run[t][h]
      /\ run'[t][g].pc = "start" /\ run'[t][g].oxid = rmd[t]
      /\ rmd'[t] = g
  BY DEF NewRun
<1>1. /\ g \in Nat /\ rmd[t] \in Nat /\ rmd[t] < g /\ reb[t].id \in Nat /\ (rmd[t] # 0 => rmd[t] \in Gens)
      /\ reb'[t] = reb[t] /\ started'[t] = started[t] /\ ended'[t] = ended[t]
  BY RebAssumption, SMTT(30) DEF NewRun, RebTypes, RebType, RebRec, Gens
<1>2. \A h \in Gens : h >= g => PC(t, h) = "none"
  OBVIOUS
<1>3. \A h \in Gens : PC(t, h) # "none" => h <= rmd[t]
  BY DEF Order, Chain
<1>4. \A h \in Gens : /\ PC(t, h)' = IF h = g THEN "start" ELSE PC(t, h)
                      /\ Oxid(t, h)' = IF h = g THEN rmd[t] ELSE Oxid(t, h)
  BY <1>0 DEF PC, Oxid
<1>5. reb'[t].id <= rmd'[t] /\ PC(t, g)' # "none" /\ reb[t].id <= rmd[t]
  BY <1>0, <1>1, <1>4, SMTT(30) DEF Order
<1>6. ASSUME NEW h \in Gens
      PROVE  Chain(t, h)'
  <2>0. h \in Nat /\ Chain(t, h)
    BY SMTT(30) DEF Gens, Order
  <2>1. CASE h = g
    <3>1. rmd[t] # 0 => run'[t][rmd[t]].pc # "none"
      BY <1>0, <1>1 DEF Order, PC
    <3>2. \A k \in Gens : rmd[t] < k /\ k < g => PC(t, k)' = "none"
      <4> SUFFICES ASSUME NEW k \in Gens, rmd[t] < k, k < g
                   PROVE  PC(t, k) = "none"
        BY <1>1, <1>4, SMTT(30) DEF Gens
      <4> QED  BY <1>1, <1>3, SMTT(30) DEF Gens
    <3>3. Oxid(t, h)' = rmd[t] /\ run'[t][h].oxid = rmd[t]
      BY <1>0, <1>4, <2>1
    <3> QED  BY <1>0, <1>1, <2>1, <3>1, <3>2, <3>3, SMTT(30) DEF Chain, PC, Oxid
  <2>2. CASE h # g
    <3> DEFINE x == run[t][h].oxid
    <3>1. (x # 0 => x \in Gens) /\ x \in Nat /\ x = Oxid(t, h) /\ run'[t][h].oxid = x
      BY RebAssumption, <1>0, <2>2, SMTT(30) DEF RebTypes, RunType, Gens, Oxid
    <3> SUFFICES ASSUME PC(t, h) # "none"
                 PROVE  Chain(t, h)'
      BY <1>4, <2>2 DEF Chain
    <3>2. h <= rmd[t] /\ h < g /\ x < h /\ (x # 0 => PC(t, x) # "none")
      BY <1>1, <1>3, <2>0, <3>1, SMTT(30) DEF Chain
    <3>3. x # 0 => run'[t][x].pc # "none"
      BY <1>0, <1>1, <2>0, <3>1, <3>2 DEF PC
    <3>4. \A k \in Gens : x < k /\ k < h => PC(t, k)' = "none"
      <4> SUFFICES ASSUME NEW k \in Gens, x < k, k < h
                   PROVE  PC(t, k) = "none" /\ k # g
        BY <1>4
      <4> QED  BY <1>1, <2>0, <3>1, <3>2, SMTT(30) DEF Chain, Gens
    <3>5. h <= rmd'[t]
      BY <1>0, <1>1, <2>0, <3>2, SMTT(30)
    <3> HIDE DEF x
    <3> QED  BY <3>1, <3>2, <3>3, <3>4, <3>5 DEF Chain, PC, Oxid
  <2> QED  BY <2>1, <2>2
<1>7. ASSUME NEW h \in Gens
      PROVE  Turn(t, h)'
  <2>1. ASSUME Begun(t, h)', NEW k \in Gens, k < h
        PROVE  PC(t, k)' \in Resting
    <3>1. h # g /\ Begun(t, h)
      BY <1>4, <2>1 DEF Begun
    <3>2. h < g
      BY <1>1, <1>2, <3>1, SMTT(30) DEF Begun, Gens
    <3>3. PC(t, k) \in Resting /\ k # g
      BY <1>1, <2>1, <3>1, <3>2, SMTT(30) DEF Order, Turn, Gens
    <3> QED  BY <1>4, <3>3
  <2> QED  BY <2>1 DEF Turn
<1>8. ASSUME NEW h \in Gens
      PROVE  Place(t, h)'
  <2>1. Place(t, h) /\ PC(t, g) = "none"
    BY <1>1, <1>2, SMTT(30) DEF Order
  <2>2. CASE h = g
    <3>1. g \notin ended[t] /\ g \notin started[t]
      BY <2>1, <2>2 DEF Place, Begun
    <3> QED  BY <1>1, <1>4, <1>5, <2>2, <3>1, SMTT(30) DEF Place, Begun, Live, Inst
  <2>3. CASE h # g
    BY <1>1, <1>4, <2>1, <2>3 DEF Place, Begun
  <2> QED  BY <2>2, <2>3
<1>9. Order(t)'
  BY <1>0, <1>5, <1>6, <1>7, <1>8 DEF Order, PC
<1>10. Owned(t)'
  <2>1. PC(t, g) \notin Inst /\ "start" \notin Inst
    BY <1>1, <1>2, SMTT(30) DEF Inst
  <2> QED  BY <1>1, <1>4, <2>1, SMTT(30) DEF Owned
<1> QED
  BY <1>9, <1>10

\* what a step leaves alone stays in order
LEMMA Frame ==
    ASSUME NEW t \in Targets, run'[t] = run[t], rmd'[t] = rmd[t], started'[t] = started[t], ended'[t] = ended[t],
           reb'[t].id = reb[t].id, reb'[t].dm = reb[t].dm, reb'[t].reg = reb[t].reg, reb'[t].xreb = reb[t].xreb,
           Order(t), Owned(t)
    PROVE  Order(t)' /\ Owned(t)'
<1>1. \A h \in Gens : PC(t, h)' = PC(t, h) /\ Oxid(t, h)' = Oxid(t, h) /\ Begun(t, h)' = Begun(t, h)
  BY DEF PC, Oxid, Begun
<1>2. PC(t, rmd[t])' = PC(t, rmd[t])
  BY DEF PC
<1>3. ASSUME NEW h \in Gens
      PROVE  Chain(t, h)' /\ Turn(t, h)' /\ Place(t, h)'
  <2>1. PC(t, Oxid(t, h))' = PC(t, Oxid(t, h))
    BY <1>1 DEF PC
  <2>2. Chain(t, h)'
    BY <1>1, <2>1 DEF Order, Chain
  <2>3. Turn(t, h)'
    BY <1>1 DEF Order, Turn
  <2>4. Place(t, h)'
    BY <1>1, SMTT(30) DEF Order, Place
  <2> QED  BY <2>2, <2>3, <2>4
<1>4. Order(t)'
  BY <1>2, <1>3 DEF Order
<1> QED  BY <1>1, <1>4 DEF Owned

\* where the Runs are after a step of one of them
LEMMA MovedPC ==
    ASSUME NEW t \in Targets, NEW g \in Gens, NEW q, Moved(t, g, q)
    PROVE  \A h \in Gens : PC(t, h)' = (IF h = g THEN q ELSE PC(t, h)) /\ Oxid(t, h)' = Oxid(t, h)
  BY DEF Moved, PC, Oxid

\* a step that starts no Run keeps the chain
LEMMA ChainKept ==
    ASSUME RebTypes, NEW t \in Targets, Order(t), rmd'[t] = rmd[t],
           \A h \in Gens : (PC(t, h)' = "none" <=> PC(t, h) = "none") /\ Oxid(t, h)' = Oxid(t, h),
           NEW h \in Gens
    PROVE  Chain(t, h)'
<1> DEFINE x == run[t][h].oxid
<1>0. Chain(t, h) /\ run'[t][h].oxid = x
  BY DEF Order, Oxid
<1>1. x # 0 => x \in Gens
  BY RebAssumption, SMTT(30) DEF RebTypes, RunType, Gens
<1>2. PC(t, h)' # "none" => h <= rmd'[t] /\ Oxid(t, h)' < h
  BY <1>0 DEF Chain
<1>3. PC(t, h)' # "none" /\ x # 0 => run'[t][x].pc # "none"
  BY <1>0, <1>1 DEF Chain, PC, Oxid
<1>4. PC(t, h)' # "none" => \A k \in Gens : x < k /\ k < h => PC(t, k)' = "none"
  BY <1>0 DEF Chain, Oxid
<1> HIDE DEF x
<1> QED
  BY <1>0, <1>2, <1>3, <1>4 DEF Chain, PC, Oxid

\* reb.rebID and the newest Run, when a step starts none
LEMMA NewestKept ==
    ASSUME RebTypes, NEW t \in Targets, Order(t), rmd'[t] = rmd[t],
           \A h \in Gens : PC(t, h)' = "none" <=> PC(t, h) = "none"
    PROVE  rmd'[t] # 0 => run'[t][rmd'[t]].pc # "none"
<1>1. rmd[t] # 0 => rmd[t] \in Gens
  BY RebAssumption, SMTT(30) DEF RebTypes, Gens
<1>2. rmd[t] # 0 => PC(t, rmd[t]) # "none"
  BY DEF Order
<1> QED  BY <1>1, <1>2 DEF PC

\* a Run past _preempt takes a step
LEMMA AdvanceOrder ==
    ASSUME RebTypes, NEW t \in Targets, NEW g \in Gens, NEW q \in PCs, Order(t), Moved(t, g, q),
           Begun(t, g), PC(t, g) # "ret", q \notin {"none", "start", "poll"},
           q \in {"ping", "renew", "lock"} => PC(t, g) \in {"ping", "renew", "lock"} /\ reb'[t].id = reb[t].id,
           rmd'[t] = rmd[t], reb'[t].id = reb[t].id \/ reb'[t].id = g,
           started[t] \subseteq started'[t], started'[t] \subseteq started[t] \cup {g},
           ended'[t] \subseteq ended[t] \cup {g}, g \in ended'[t] => q = "ret",
           q \in Live => g \in started'[t]
    PROVE  Order(t)'
<1>0. \A h \in Gens : PC(t, h)' = (IF h = g THEN q ELSE PC(t, h)) /\ Oxid(t, h)' = Oxid(t, h)
  BY MovedPC
<1>1. g <= rmd[t] /\ g \in Nat /\ rmd[t] \in Nat /\ reb[t].id \in Nat
  <2>1. g <= rmd[t]
    BY DEF Order, Chain, Begun
  <2>2. g \in Nat /\ rmd[t] \in 0..MaxGen /\ reb[t].id \in 0..MaxGen
    BY RebAssumption, SMTT(30) DEF RebTypes, RebType, RebRec, Gens
  <2> QED  BY <2>1, <2>2, RebAssumption, SMTT(30)
<1>2. reb'[t].id <= rmd'[t]
  BY <1>1 DEF Order
<1>3. \A h \in Gens : PC(t, h)' = "none" <=> PC(t, h) = "none"
  BY <1>0 DEF Begun
<1>4. \A h \in Gens : Chain(t, h)'
  BY <1>0, <1>3, ChainKept
<1>5. ASSUME NEW h \in Gens
      PROVE  Turn(t, h)'
  <2>1. Turn(t, h) /\ (Begun(t, h)' => Begun(t, h))
    BY <1>0 DEF Order, Begun
  <2>2. ASSUME Begun(t, h), NEW k \in Gens, k < h
        PROVE  PC(t, k)' \in Resting
    <3>1. PC(t, k) \in Resting
      BY <2>1, <2>2 DEF Turn
    <3>2. k # g
      BY <3>1 DEF Resting, Begun
    <3> QED  BY <1>0, <3>1, <3>2
  <2> QED  BY <2>1, <2>2 DEF Turn
<1>6. ASSUME NEW h \in Gens
      PROVE  Place(t, h)'
  <2>1. Place(t, h) /\ h \in Nat
    BY SMTT(30) DEF Order, Gens
  <2>2. CASE h = g
    <3>1. g \in ended'[t] => q = "ret"
      OBVIOUS
    <3>2. q \in {"ping", "renew", "lock"} => reb'[t].id < g
      BY <2>1, <2>2 DEF Place
    <3> QED  BY <1>0, <2>2, <3>1, <3>2 DEF Place, Begun
  <2>3. CASE h # g
    <3>1. PC(t, h)' = PC(t, h) /\ Oxid(t, h)' = Oxid(t, h) /\ (h \in started'[t] <=> h \in started[t])
          /\ (h \in ended'[t] => h \in ended[t]) /\ (Begun(t, h)' <=> Begun(t, h))
      BY <1>0, <2>3 DEF Begun
    <3>2. PC(t, h) \in {"start", "poll", "ping", "renew", "lock"} => reb'[t].id < h
      <4>1. CASE h < g
        <5>1. PC(t, h) \in Resting
          BY <4>1 DEF Order, Turn
        <5> QED  BY <5>1 DEF Resting
      <4>2. CASE g < h
        BY <1>1, <2>1, <4>2 DEF Place
      <4> QED  BY <1>1, <2>1, <2>3, <4>1, <4>2, SMTT(30)
    <3> QED  BY <2>1, <3>1, <3>2 DEF Place
  <2> QED  BY <2>2, <2>3
<1>7. rmd'[t] # 0 => run'[t][rmd'[t]].pc # "none"
  BY <1>3, NewestKept
<1> QED
  BY <1>2, <1>4, <1>5, <1>6, <1>7 DEF Order, PC

\* _preempt is over: every earlier Run has returned
LEMMA EarlierReturned ==
    ASSUME RebTypes, NEW t \in Targets, NEW g \in Gens, Order(t), PC(t, g) # "none",
           Preempted(t, Oxid(t, g)),
           \/ PC(t, g) = "poll"
           \/ \A h \in 1..g - 1 : PC(t, h) \notin {"start", "poll", "ping", "renew"}
    PROVE  \A h \in Gens : h < g => PC(t, h) \in Resting
<1> DEFINE x == Oxid(t, g)
<1>1. g \in Nat /\ x \in Nat /\ x < g /\ (x # 0 => x \in Gens)
  BY RebAssumption, SMTT(30) DEF Order, Chain, RebTypes, RunType, Gens, PC, Oxid
<1>2. \A h \in Gens : x < h /\ h < g => PC(t, h) = "none"
  BY DEF Order, Chain
<1>3. CASE x = 0
  BY <1>1, <1>2, <1>3, SMTT(30) DEF Gens, Resting
<1>4. CASE x # 0
  <2>1. x \in Gens /\ PC(t, x) # "none"
    BY <1>1, <1>4 DEF Order, Chain
  <2>2. PC(t, x) \in PCs
    BY <2>1, SMTT(30) DEF RebTypes, RunType, PC
  <2>3. x \in 1..g - 1
    BY <1>1, <2>1, SMTT(30) DEF Gens
  <2>4. Begun(t, x)
    BY <2>1, <2>3 DEF Order, Place, Begun
  <2>5. PC(t, x) = "ret"
    <3>1. CASE x \in ended[t]
      BY <3>1, <2>1 DEF Order, Place
    <3>2. CASE x \notin started[t]
      <4>1. PC(t, g) # "poll"
        BY <3>2 DEF Order, Place
      <4>2. PC(t, x) \notin {"none", "start", "poll", "ping", "renew"} /\ PC(t, x) \notin Live
        BY <4>1, <3>2, <2>1, <2>3 DEF Order, Place
      <4> QED  BY <4>2, <2>2 DEF PCs, Live, Inst
    <3> QED  BY <3>1, <3>2 DEF Preempted
  <2>6. \A h \in Gens : h < x => PC(t, h) \in Resting
    BY <2>1, <2>4 DEF Order, Turn
  <2> QED
    BY <1>1, <1>2, <2>5, <2>6, SMTT(30) DEF Resting, Gens
<1> QED  BY <1>3, <1>4

\* a Run before or in _preempt goes on
LEMMA PreemptOrder ==
    ASSUME RebTypes, NEW t \in Targets, NEW g \in Gens, NEW q \in {"ping", "poll"}, Order(t), Moved(t, g, q),
           PC(t, g) \in {"start", "poll"},
           q = "ping" => \A h \in Gens : h < g => PC(t, h) \in Resting,
           q = "poll" => Oxid(t, g) \in started[t],
           rmd'[t] = rmd[t], reb'[t] = reb[t], started'[t] = started[t], ended'[t] = ended[t]
    PROVE  Order(t)'
<1>0. \A h \in Gens : PC(t, h)' = (IF h = g THEN q ELSE PC(t, h)) /\ Oxid(t, h)' = Oxid(t, h)
  BY MovedPC
<1>1. \A h \in Gens : PC(t, h)' = "none" <=> PC(t, h) = "none"
  BY <1>0
<1>2. \A h \in Gens : Chain(t, h)'
  BY <1>0, <1>1, ChainKept
<1>3. ASSUME NEW h \in Gens
      PROVE  Turn(t, h)'
  <2>1. ASSUME Begun(t, h)', NEW k \in Gens, k < h
        PROVE  PC(t, k)' \in Resting
    <3>1. PC(t, k) \in Resting
      <4>1. CASE h = g
        BY <1>0, <2>1, <4>1 DEF Begun
      <4>2. CASE h # g
        BY <1>0, <2>1, <4>2 DEF Order, Turn, Begun
      <4> QED  BY <4>1, <4>2
    <3>2. k # g
      BY <3>1 DEF Resting
    <3> QED  BY <1>0, <3>1, <3>2
  <2> QED  BY <2>1 DEF Turn
<1>4. ASSUME NEW h \in Gens
      PROVE  Place(t, h)'
  <2>1. Place(t, h)
    BY DEF Order
  <2>2. CASE h = g
    BY <1>0, <2>1, <2>2 DEF Place, Begun, Live, Inst
  <2>3. CASE h # g
    BY <1>0, <2>1, <2>3 DEF Place, Begun
  <2> QED  BY <2>2, <2>3
<1>5. reb'[t].id <= rmd'[t]
  BY DEF Order
<1>6. rmd'[t] # 0 => run'[t][rmd'[t]].pc # "none"
  BY <1>1, NewestKept
<1> QED
  BY <1>2, <1>3, <1>4, <1>5, <1>6 DEF Order, PC

-----------------------------------------------------------------------------
(* types *)

\* Goto and GotoWith, however they are written
LEMMA MoveStep ==
    ASSUME NEW t \in Targets, NEW g \in Gens, NEW q \in PCs, NEW ls \in SUBSET (Targets \cup Objs),
           run \in RunType, GotoWith(t, g, q, ls)
    PROVE  run' \in RunType /\ Moved(t, g, q)
<1> DEFINE new == [pc |-> q, oxid |-> run[t][g].oxid, left |-> ls]
<1>0. run[t][g].oxid \in 0..MaxGen
  BY DEF RunType
<1>1. new \in [pc: PCs, oxid: 0..MaxGen, left: SUBSET (Targets \cup Objs)]
  BY <1>0
<1>2. new.pc = q /\ new.oxid = run[t][g].oxid
  OBVIOUS
<1>3. run' = [run EXCEPT ![t] = [run[t] EXCEPT ![g] = new]]
  BY DEF GotoWith, RunType
<1> HIDE DEF new
<1> QED
  BY <1>1, <1>2, <1>3 DEF RunType, Moved

\* rxReady, waitPostTraverse and doSend cross one item off: the Run stays where it is
LEMMA LeftStep ==
    ASSUME NEW t \in Targets, NEW g \in Gens, NEW x, run \in RunType, Left(t, g, x)
    PROVE  run' \in RunType /\ Moved(t, g, run[t][g].pc)
<1> DEFINE new == [run[t][g] EXCEPT !.left = @ \ {x}]
<1>1. new \in [pc: PCs, oxid: 0..MaxGen, left: SUBSET (Targets \cup Objs)]
  BY SMTT(30) DEF RunType
<1>2. new.pc = run[t][g].pc /\ new.oxid = run[t][g].oxid
  BY SMTT(30) DEF RunType
<1>3. run' = [run EXCEPT ![t] = [run[t] EXCEPT ![g] = new]]
  BY DEF Left, RunType
<1> HIDE DEF new
<1> QED
  BY <1>1, <1>2, <1>3 DEF RunType, Moved

\* passing objects over leaves a list
LEMMA LeftType ==
    ASSUME run \in RunType, NEW t \in Targets, NEW g \in Gens
    PROVE  \A os : run[t][g].left \ os \in SUBSET (Targets \cup Objs)
  BY DEF RunType

-----------------------------------------------------------------------------
(* types *)

\* Base.Abort keeps the type of what is aborted
LEMMA AbortingType ==
    ASSUME NEW t \in Targets, NEW gs \in SUBSET Gens, aborted \in [Targets -> SUBSET Gens], Aborting(t, gs)
    PROVE  aborted' \in [Targets -> SUBSET Gens]
  BY DEF Aborting

\* a stage notification is one of a target, a generation and a stage
LEMMA TellType ==
    ASSUME NEW t \in Targets, NEW g \in Gens, NEW s \in Inactive..StageAbort,
           told \subseteq Targets \X Gens \X (Inactive..StageAbort), Tell(t, g, s)
    PROVE  told' \subseteq Targets \X Gens \X (Inactive..StageAbort)
  BY SMTT(30) DEF Tell

\* setting reb.stages.stage keeps the type of reb
LEMMA StageType ==
    ASSUME NEW t \in Targets, NEW s \in Inactive..Done, reb \in RebType, reb' = [reb EXCEPT ![t].stage = s]
    PROVE  reb' \in RebType
  BY ZenonT(30) DEF RebType, RebRec

\* clearing reb.dm, and its registration or not
LEMMA DmCleared ==
    ASSUME RebTypes, NEW t \in Targets, NEW g \in Gens, InitRenewFails(t, g)
    PROVE  /\ reb' \in RebType
           /\ reb'[t].id = reb[t].id /\ reb'[t].peers = reb[t].peers /\ reb'[t].xreb = reb[t].xreb
           /\ reb'[t].dm \in {0, reb[t].dm} /\ reb'[t].reg \in {0, reb[t].reg}
           /\ \A u \in Targets : u # t => reb'[u] = reb[u]
<1>0. 0 \in 0..MaxGen /\ reb \in RebType
  BY RebAssumption, SMTT(30) DEF RebTypes
<1>1. CASE reb' = reb
  BY <1>0, <1>1
<1>2. CASE reb' # reb
  <2>1. /\ reb[t].id \in 0..MaxGen /\ reb[t].stage \in Inactive..Done /\ reb[t].peers \in [Targets -> Inactive..StageAbort]
        /\ reb[t].reg \in 0..MaxGen /\ reb[t].xreb \in 0..MaxGen
    BY <1>0 DEF RebType, RebRec
  <2> DEFINE r == IF Empty(t, g) /\ reb[t].dm # 0 THEN 0 ELSE reb[t].reg
             new == [id |-> reb[t].id, stage |-> reb[t].stage, peers |-> reb[t].peers, dm |-> 0, reg |-> r,
                     xreb |-> reb[t].xreb]
  <2>2. r \in {0, reb[t].reg}
    OBVIOUS
  <2>3. reb' = [reb EXCEPT ![t] = new]
    BY <1>0, <1>2 DEF InitRenewFails, RebType
  <2> HIDE DEF r
  <2>4. /\ new \in RebRec /\ new.id = reb[t].id /\ new.peers = reb[t].peers /\ new.xreb = reb[t].xreb
        /\ new.dm = 0 /\ new.reg = r
    BY <1>0, <2>1, <2>2 DEF RebRec
  <2> HIDE DEF new
  <2> QED  BY <1>0, <2>2, <2>3, <2>4 DEF RebType
<1> QED  BY <1>1, <1>2

\* the values of rebStage*, for the arithmetic of ranges
LEMMA Stages ==
    /\ Inactive = 0 /\ StageInit = 1 /\ Traverse = 2 /\ PostTraverse = 3 /\ Fin = 4 /\ FinStreams = 5 /\ Done = 6
    /\ StageAbort = 7
  BY DEF Inactive, StageInit, Traverse, PostTraverse, Fin, FinStreams, Done, StageAbort

\* receiveRMD keeps the types
LEMMA RecvRMDType ==
    ASSUME RebTypes, NEW t \in Targets, NEW g \in Gens, RecvRMD(t, g)
    PROVE  RebTypes'
<1>1. run' \in RunType
  <2> DEFINE new == [pc |-> "start", oxid |-> rmd[t], left |-> {}]
  <2>1. new \in [pc: PCs, oxid: 0..MaxGen, left: SUBSET (Targets \cup Objs)]
    BY DEF RebTypes, PCs
  <2>2. run' = [run EXCEPT ![t] = [run[t] EXCEPT ![g] = new]]
    BY DEF RecvRMD, RebTypes, RunType
  <2> HIDE DEF new
  <2> QED  BY <2>1, <2>2 DEF RunType, RebTypes
<1>2. rmd' \in [Targets -> 0..MaxGen]
  BY RebAssumption, SMTT(30) DEF RecvRMD, RebTypes, Gens
<1> QED
  BY <1>1, <1>2 DEF RecvRMD, RebTypes, xvars

\* _preempt, pingall and RenewRebalance keep the types
LEMMA StartType ==
    ASSUME RebTypes, NEW t \in Targets, NEW g \in Gens,
           Preempt(t, g) \/ Poll(t, g) \/ Pingall(t, g) \/ Renew(t, g)
    PROVE  RebTypes'
<1> USE DEF Goto
<1>0. {"ret", "ping", "poll", "renew", "lock"} \subseteq PCs
  BY DEF PCs
<1>1. run' \in RunType
  BY <1>0, MoveStep DEF Preempt, Poll, Pingall, Renew, RebTypes
<1>2. aborted' \in [Targets -> SUBSET Gens]
  BY AbortingType DEF Preempt, Poll, Pingall, Renew, RebTypes, Preempted, Running, xvars
<1>3. started' \in [Targets -> SUBSET Gens]
  BY SMTT(30) DEF Preempt, Poll, Pingall, Renew, RebTypes, xvars
<1> QED
  BY <1>1, <1>2, <1>3 DEF Preempt, Poll, Pingall, Renew, RebTypes, xvars

\* initRenew and _renew keep the types
LEMMA InitType ==
    ASSUME RebTypes, NEW t \in Targets, NEW g \in Gens, RenewDM(t, g) \/ InitRenewFails(t, g)
    PROVE  RebTypes'
<1> USE DEF Goto
<1>0. {"ret", "init"} \subseteq PCs
  BY DEF PCs
<1>1. run' \in RunType
  BY <1>0, MoveStep DEF RenewDM, InitRenewFails, Fails, RebTypes
<1>2. reb' \in RebType
  <2>1. CASE RenewDM(t, g)
    <3> DEFINE new == [id |-> g, stage |-> StageInit, peers |-> NoPeers, dm |-> g, reg |-> g, xreb |-> g]
    <3>1. g \in 0..MaxGen /\ StageInit \in Inactive..Done /\ NoPeers \in [Targets -> Inactive..StageAbort]
      BY RebAssumption, Stages, SMTT(30) DEF NoPeers, Gens
    <3>2. new \in RebRec
      BY <3>1 DEF RebRec
    <3>3. reb' = [reb EXCEPT ![t] = new]
      BY <2>1 DEF RenewDM
    <3> HIDE DEF new
    <3> QED  BY <3>2, <3>3 DEF RebType, RebTypes
  <2>2. CASE InitRenewFails(t, g)
    BY <2>2, DmCleared
  <2> QED  BY <2>1, <2>2
<1>3. aborted' \in [Targets -> SUBSET Gens] /\ ended' \in [Targets -> SUBSET Gens]
  BY AbortingType, SMTT(30) DEF RenewDM, InitRenewFails, Fails, RebTypes, xvars
<1>4. told' \subseteq Targets \X Gens \X (Inactive..StageAbort) /\ marker' \in [Targets -> BOOLEAN]
  BY DEF RenewDM, InitRenewFails, RebTypes, Heeded
<1> QED
  BY <1>1, <1>2, <1>3, <1>4 DEF RenewDM, InitRenewFails, RebTypes, xvars

\* a Run without streams, and a walk that passes objects over, keep the types
LEMMA EmptyType ==
    ASSUME RebTypes, NEW t \in Targets, NEW g \in Gens, RenewEmpty(t, g) \/ NothingToDo(t, g) \/ WalkFails(t, g)
    PROVE  RebTypes'
<1> USE DEF Goto
<1>0. {"ret", "empty", "walk"} \subseteq PCs /\ {} \in SUBSET (Targets \cup Objs)
  BY DEF PCs
<1>1. run' \in RunType
  <2>1. \A os : run[t][g].left \ os \in SUBSET (Targets \cup Objs)
    BY LeftType DEF RebTypes
  <2> QED  BY <1>0, <2>1, MoveStep DEF RenewEmpty, NothingToDo, WalkFails, RebTypes
<1>2. reb' \in RebType
  <2>0. /\ reb[t].id \in 0..MaxGen /\ reb[t].peers \in [Targets -> Inactive..StageAbort] /\ reb[t].dm \in 0..MaxGen
        /\ reb[t].reg \in 0..MaxGen /\ reb[t].xreb \in 0..MaxGen
    BY DEF RebTypes, RebType, RebRec
  <2>1. /\ g \in 0..MaxGen /\ 0 \in 0..MaxGen /\ StageInit \in Inactive..Done /\ Done \in Inactive..Done
        /\ NoPeers \in [Targets -> Inactive..StageAbort]
    BY RebAssumption, Stages, SMTT(30) DEF NoPeers, Gens
  <2>2. CASE RenewEmpty(t, g)
    <3> DEFINE new == [id |-> g, stage |-> StageInit, peers |-> NoPeers, dm |-> reb[t].dm, reg |-> reb[t].reg, xreb |-> g]
    <3>1. new \in RebRec
      BY <2>0, <2>1 DEF RebRec
    <3>2. reb' = [reb EXCEPT ![t] = new]
      BY <2>2 DEF RenewEmpty, RebTypes, RebType
    <3> HIDE DEF new
    <3> QED  BY <3>1, <3>2 DEF RebType, RebTypes
  <2>3. CASE NothingToDo(t, g)
    <3> DEFINE new == [id |-> reb[t].id, stage |-> Done, peers |-> reb[t].peers, dm |-> reb[t].dm, reg |-> reb[t].reg,
                       xreb |-> IF reb[t].xreb = g THEN 0 ELSE reb[t].xreb]
    <3>1. new \in RebRec
      BY <2>0, <2>1 DEF RebRec
    <3>2. reb' = [reb EXCEPT ![t] = new]
      BY <2>3 DEF NothingToDo, RebTypes, RebType
    <3> HIDE DEF new
    <3> QED  BY <3>1, <3>2 DEF RebType, RebTypes
  <2> QED  BY <2>2, <2>3 DEF WalkFails, RebTypes
<1>3. ended' \in [Targets -> SUBSET Gens] /\ marker' \in [Targets -> BOOLEAN]
  <2>1. ended' \in [Targets -> SUBSET Gens]
    BY SMTT(30) DEF RenewEmpty, NothingToDo, WalkFails, RebTypes, xvars
  <2>2. marker' \in [Targets -> BOOLEAN]
    BY DEF RenewEmpty, NothingToDo, WalkFails, RebTypes
  <2> QED  BY <2>1, <2>2
<1>4. told' \subseteq Targets \X Gens \X (Inactive..StageAbort)
  BY DEF RenewEmpty, NothingToDo, WalkFails, RebTypes, Heeded
<1> QED
  BY <1>1, <1>2, <1>3, <1>4 DEF RenewEmpty, NothingToDo, WalkFails, RebTypes, xvars

\* the waits for the peers keep the types
LEMMA WaitType ==
    ASSUME RebTypes, NEW t \in Targets, NEW g \in Gens, NEW p \in Targets,
           PeerReady(t, g, p) \/ PeerLate(t, g, p) \/ PeerGone(t, g, p) \/ ReadStage(t, g, p)
    PROVE  RebTypes'
<1>1. run' \in RunType
  BY LeftStep DEF PeerReady, PeerLate, PeerGone, ReadStage, RebTypes
<1>2. aborted' \in [Targets -> SUBSET Gens]
  BY AbortingType, ZenonT(30) DEF PeerReady, PeerLate, PeerGone, ReadStage, AbortBy, RebTypes, xvars
<1>3. told' \subseteq Targets \X Gens \X (Inactive..StageAbort)
  BY TellType, Stages, SMTT(30) DEF PeerReady, PeerLate, PeerGone, ReadStage, AbortBy, RebTypes
<1> QED
  BY <1>1, <1>2, <1>3 DEF PeerReady, PeerLate, PeerGone, ReadStage, RebTypes, xvars

\* the changes of stage keep the types
LEMMA StageStepType ==
    ASSUME RebTypes, NEW t \in Targets, NEW g \in Gens,
           StartTraverse(t, g) \/ RxReady(t, g) \/ Walked(t, g) \/ PostTraversed(t, g)
    PROVE  RebTypes'
<1> USE DEF Goto
<1>0. /\ {"rxready", "walk", "post", "quiesce"} \subseteq PCs
      /\ Peers(t) \in SUBSET (Targets \cup Objs) /\ Misplaced(t) \in SUBSET (Targets \cup Objs)
  BY DEF PCs, Peers, Misplaced, RebTypes
<1>1. run' \in RunType
  BY <1>0, MoveStep DEF StartTraverse, RxReady, Walked, PostTraversed, RebTypes
<1>2. reb' \in RebType
  <2>0. {Traverse, PostTraverse, Fin} \subseteq Inactive..Done
    BY Stages, SMTT(30)
  <2> QED  BY <2>0, StageType DEF StartTraverse, RxReady, Walked, PostTraversed, ChangeStage, RebTypes
<1>3. told' \subseteq Targets \X Gens \X (Inactive..StageAbort)
  <2>0. {Traverse, PostTraverse, Fin} \subseteq Inactive..StageAbort
    BY Stages, SMTT(30)
  <2> QED  BY <2>0, TellType DEF StartTraverse, RxReady, Walked, PostTraversed, ChangeStage, RebTypes
<1> QED
  BY <1>1, <1>2, <1>3 DEF StartTraverse, RxReady, Walked, PostTraversed, RebTypes, xvars

\* doSend keeps the types
LEMMA SendType ==
    ASSUME RebTypes, NEW t \in Targets, NEW g \in Gens, NEW o \in Objs, DoSend(t, g, o)
    PROVE  RebTypes'
<1>1. run' \in RunType
  BY LeftStep DEF DoSend, RebTypes
<1>2. net' \subseteq Msgs
  <2>1. [from |-> t, to |-> HrwOf[o], g |-> g, obj |-> o] \in Msgs
    BY RebAssumption DEF Msgs
  <2> QED  BY <2>1 DEF DoSend, RebTypes
<1>3. aborted' \in [Targets -> SUBSET Gens]
  BY AbortingType DEF DoSend, RebTypes
<1> QED
  BY <1>1, <1>2, <1>3 DEF DoSend, RebTypes

\* quiesce, endStreams and fini keep the types
LEMMA FiniType ==
    ASSUME RebTypes, NEW t \in Targets, NEW g \in Gens,
           Quiesced(t, g) \/ (\E p \in Peers(t) : QuiesceGone(t, g, p)) \/ EndStreams(t, g) \/ Fini(t, g)
    PROVE  RebTypes'
<1> USE DEF Goto
<1>0. {"close", "fini", "ret"} \subseteq PCs
  BY DEF PCs
<1>1. run' \in RunType
  BY <1>0, MoveStep DEF Quiesced, QuiesceGone, EndStreams, Fini, RebTypes
<1>2. reb' \in RebType
  <2>1. CASE EndStreams(t, g)
    <3> DEFINE new == [id |-> reb[t].id, stage |-> IF reb[t].stage = Fin THEN FinStreams ELSE reb[t].stage,
                       peers |-> reb[t].peers, dm |-> reb[t].dm, reg |-> IF reb[t].dm = 0 THEN reb[t].reg ELSE 0,
                       xreb |-> reb[t].xreb]
    <3>0. /\ reb[t].id \in 0..MaxGen /\ reb[t].stage \in Inactive..Done /\ reb[t].peers \in [Targets -> Inactive..StageAbort]
          /\ reb[t].dm \in 0..MaxGen /\ reb[t].reg \in 0..MaxGen /\ reb[t].xreb \in 0..MaxGen
      BY DEF RebTypes, RebType, RebRec
    <3>1. FinStreams \in Inactive..Done /\ 0 \in 0..MaxGen
      BY Stages, RebAssumption, SMTT(30)
    <3>2. new \in RebRec
      BY <3>0, <3>1 DEF RebRec
    <3>3. reb' = [reb EXCEPT ![t] = new]
      BY <2>1 DEF EndStreams, RebTypes, RebType
    <3> HIDE DEF new
    <3> QED  BY <3>2, <3>3 DEF RebType, RebTypes
  <2>2. CASE Fini(t, g)
    <3> DEFINE new == [id |-> reb[t].id, stage |-> Done, peers |-> NoPeers, dm |-> 0, reg |-> reb[t].reg, xreb |-> 0]
    <3>0. reb[t].id \in 0..MaxGen /\ reb[t].reg \in 0..MaxGen
      BY DEF RebTypes, RebType, RebRec
    <3>1. Done \in Inactive..Done /\ 0 \in 0..MaxGen /\ NoPeers \in [Targets -> Inactive..StageAbort]
      BY Stages, RebAssumption, SMTT(30) DEF NoPeers
    <3>2. new \in RebRec
      BY <3>0, <3>1 DEF RebRec
    <3>3. reb' = [reb EXCEPT ![t] = new]
      BY <2>2 DEF Fini, RebTypes, RebType
    <3> HIDE DEF new
    <3> QED  BY <3>2, <3>3 DEF RebType, RebTypes
  <2> QED  BY <2>1, <2>2 DEF Quiesced, QuiesceGone, RebTypes
<1>3. aborted' \in [Targets -> SUBSET Gens]
  BY AbortingType, ZenonT(30) DEF Quiesced, QuiesceGone, AbortBy, EndStreams, Fini, RebTypes, xvars
<1>4. told' \subseteq Targets \X Gens \X (Inactive..StageAbort)
  BY TellType, Stages, SMTT(30) DEF Quiesced, QuiesceGone, AbortBy, EndStreams, Fini, RebTypes
<1>5. marker' \in [Targets -> BOOLEAN]
  BY ZenonT(30) DEF Quiesced, QuiesceGone, EndStreams, Fini, RebTypes
<1>6. ended' \in [Targets -> SUBSET Gens]
  BY SMTT(30) DEF Quiesced, QuiesceGone, EndStreams, Fini, RebTypes, xvars
<1>7. net' \subseteq Msgs
  BY DEF Quiesced, QuiesceGone, EndStreams, Fini, RebTypes
<1> QED
  BY <1>1, <1>2, <1>3, <1>4, <1>5, <1>6, <1>7 DEF Quiesced, QuiesceGone, EndStreams, Fini, RebTypes, xvars

\* receiving, losing, stopping and crashing keep the types
LEMMA EnvType ==
    ASSUME RebTypes,
           \/ \E m \in net : RecvObj(m) \/ Lose(m)
           \/ \E n \in told, t \in Targets : RecvNtfn(t, n[1], n[2], n[3])
           \/ \E t \in Targets : Stop(t) \/ Crash(t)
    PROVE  RebTypes'
<1>1. CASE \E m \in net : RecvObj(m) \/ Lose(m)
  <2>1. PICK m \in net : RecvObj(m) \/ Lose(m)
    BY <1>1
  <2>2. m.from \in Targets /\ m.to \in Targets /\ m.g \in Gens /\ m.obj \in Objs
    BY DEF RebTypes, Msgs
  <2>3. aborted' \in [Targets -> SUBSET Gens]
    <3>0. aborted \in [Targets -> SUBSET Gens]
      BY DEF RebTypes
    <3>1. UNCHANGED aborted \/ Aborting(m.to, {m.g}) \/ Aborting(m.from, {m.g})
      BY <2>1 DEF RecvObj, Lose
    <3> QED  BY <2>2, <3>0, <3>1, AbortingType, SMTT(30)
  <2>4. has' \in [Targets -> SUBSET Objs]
    <3>0. has \in [Targets -> SUBSET Objs]
      BY DEF RebTypes
    <3>1. UNCHANGED has \/ has' = [has EXCEPT ![m.to] = @ \cup {m.obj}]
      BY <2>1 DEF RecvObj, Lose
    <3> QED  BY <2>2, <3>0, <3>1, SMTT(30)
  <2> QED
    BY <2>1, <2>3, <2>4 DEF RecvObj, Lose, RebTypes
<1>2. CASE \E n \in told, t \in Targets : RecvNtfn(t, n[1], n[2], n[3])
  <2>1. PICK n \in told, t \in Targets : RecvNtfn(t, n[1], n[2], n[3])
    BY <1>2
  <2>0. told \subseteq Targets \X Gens \X (Inactive..StageAbort)
    BY DEF RebTypes
  <2>2. n[1] \in Targets /\ n[2] \in Gens /\ n[3] \in Inactive..StageAbort
    BY <2>0
  <2>3. reb' \in RebType
    <3>0. reb \in RebType
      BY DEF RebTypes
    <3>1. UNCHANGED reb \/ reb' = [reb EXCEPT ![t].peers[n[1]] = n[3]]
      BY <2>1 DEF RecvNtfn
    <3>2. [reb[t] EXCEPT !.peers = [reb[t].peers EXCEPT ![n[1]] = n[3]]] \in RebRec
      BY <2>2, <3>0, ZenonT(30) DEF RebType, RebRec
    <3>3. [reb EXCEPT ![t].peers[n[1]] = n[3]]
             = [reb EXCEPT ![t] = [reb[t] EXCEPT !.peers = [reb[t].peers EXCEPT ![n[1]] = n[3]]]]
      OBVIOUS
    <3> QED  BY <3>0, <3>1, <3>2, <3>3 DEF RebType
  <2>4. aborted' \in [Targets -> SUBSET Gens]
    <3>0. reb[t].id \in 0..MaxGen
      BY DEF RebTypes, RebType, RebRec
    <3>1. reb[t].id \in Gens
      BY <2>1, <3>0, RebAssumption, SMTT(30) DEF RecvNtfn, Receiving, Gens
    <3> QED  BY <3>1, <2>1, AbortingType DEF RecvNtfn, RebTypes
  <2> QED
    BY <2>1, <2>3, <2>4 DEF RecvNtfn, RebTypes
<1>3. CASE \E t \in Targets : Stop(t)
  <2>0. PICK t \in Targets : \E g \in Running(t) : Aborting(t, {g})
    BY <1>3 DEF Stop
  <2>1. PICK g \in Running(t) : Aborting(t, {g})
    BY <2>0
  <2>2. g \in Gens /\ aborted \in [Targets -> SUBSET Gens]
    BY DEF Running, RebTypes
  <2>3. aborted' \in [Targets -> SUBSET Gens]
    BY <2>1, <2>2, AbortingType
  <2> QED  BY <1>3, <2>3 DEF Stop, RebTypes
<1>4. ASSUME NEW t \in Targets, Crash(t)
      PROVE  RebTypes'
  <2>1. run' \in RunType
    <3>1. NoRun \in [pc: PCs, oxid: 0..MaxGen, left: SUBSET (Targets \cup Objs)]
      BY RebAssumption, SMTT(30) DEF NoRun, PCs
    <3> QED  BY <3>1, <1>4 DEF Crash, RebTypes, RunType
  <2>2. reb' \in RebType
    <3>0. Inactive \in Inactive..Done /\ 0 \in 0..MaxGen /\ NoPeers \in [Targets -> Inactive..StageAbort]
      BY Stages, RebAssumption, SMTT(30) DEF NoPeers
    <3>1. Idle \in RebRec
      BY <3>0 DEF Idle, RebRec
    <3> QED  BY <3>1, <1>4 DEF Crash, RebTypes, RebType
  <2> QED
    BY <2>1, <2>2, <1>4 DEF Crash, RebTypes
<1> QED
  BY <1>1, <1>2, <1>3, <1>4

\* every step keeps the types
LEMMA TypeStep == RebTypes /\ [RebNext]_vars => RebTypes'
<1> SUFFICES ASSUME RebTypes, [RebNext]_vars
             PROVE  RebTypes'
  OBVIOUS
<1>1. CASE UNCHANGED vars
  BY <1>1 DEF vars, xvars, RebTypes
<1>2. ASSUME NEW t \in Targets, NEW g \in Gens,
             RecvRMD(t, g) \/ Run(t, g) \/ (\E p \in Peers(t) : ReadStage(t, g, p))
      PROVE  RebTypes'
  <2>1. CASE RecvRMD(t, g)
    BY <2>1, RecvRMDType
  <2>2. CASE \E p \in Peers(t) : ReadStage(t, g, p)
    BY <2>2, WaitType DEF Peers
  <2>3. CASE Run(t, g)
    BY <2>3, StartType, InitType, EmptyType, StageStepType, WaitType, SendType, FiniType DEF Run, Peers
  <2> QED  BY <1>2, <2>1, <2>2, <2>3
<1> QED
  BY <1>1, <1>2, EnvType DEF RebNext

-----------------------------------------------------------------------------
(* ownership *)

\* only one Run is past _preempt and has not returned
LEMMA Alone ==
    ASSUME RebTypes, NEW t \in Targets, NEW g \in Gens, Order(t), Begun(t, g), PC(t, g) # "ret",
           NEW h \in Gens, h # g
    PROVE  PC(t, h) \notin Inst
<1>1. g \in Nat /\ h \in Nat
  BY SMTT(30) DEF Gens
<1>2. CASE h < g
  BY <1>2 DEF Order, Turn, Resting, Inst
<1>3. CASE g < h
  BY <1>3 DEF Order, Turn, Resting, Begun, Inst
<1> QED  BY <1>1, <1>2, <1>3, SMTT(30)

\* ownership, by the kind of step
LEMMA OwnedOutside ==
    ASSUME NEW t \in Targets, NEW g \in Gens, NEW q, Owned(t), Moved(t, g, q), PC(t, g) \notin Inst, q \notin Inst,
           reb'[t].id = reb[t].id, reb'[t].dm = reb[t].dm, reb'[t].reg = reb[t].reg, reb'[t].xreb = reb[t].xreb
    PROVE  Owned(t)'
<1>1. \A h \in Gens : PC(t, h)' = IF h = g THEN q ELSE PC(t, h)
  BY DEF Moved, PC
<1> QED
  BY <1>1 DEF Owned

\* a Run that stays between _renew and fini keeps what it owns; endStreams gives up the receiver
LEMMA OwnedInside ==
    ASSUME NEW t \in Targets, NEW g \in Gens, NEW q \in Inst \ {"empty"}, Owned(t), Moved(t, g, q),
           PC(t, g) \in Inst \ {"empty"},
           reb'[t].id = reb[t].id, reb'[t].dm = reb[t].dm, reb'[t].xreb = reb[t].xreb,
           reb'[t].reg = IF q = "fini" THEN 0 ELSE g
    PROVE  Owned(t)'
<1>1. \A h \in Gens : PC(t, h)' = IF h = g THEN q ELSE PC(t, h)
  BY DEF Moved, PC
<1>2. reb[t].dm = g /\ reb[t].xreb = g /\ reb[t].id = g
  BY DEF Owned
<1>3. \A h \in Gens : h # g => PC(t, h) \notin Inst
  BY <1>2 DEF Owned
<1> QED
  BY <1>1, <1>2, <1>3 DEF Owned

\* _renew gives everything to the Run, when no other is installed
LEMMA OwnedEnter ==
    ASSUME NEW t \in Targets, NEW g \in Gens, Moved(t, g, "init"), \A h \in Gens : h # g => PC(t, h) \notin Inst,
           reb'[t].id = g, reb'[t].dm = g, reb'[t].xreb = g, reb'[t].reg = g
    PROVE  Owned(t)'
<1>1. \A h \in Gens : PC(t, h)' = IF h = g THEN "init" ELSE PC(t, h)
  BY DEF Moved, PC
<1> QED
  BY <1>1 DEF Owned, Inst

\* ... or the xaction alone, when there are no streams
LEMMA OwnedEmpty ==
    ASSUME NEW t \in Targets, NEW g \in Gens, Moved(t, g, "empty"), \A h \in Gens : h # g => PC(t, h) \notin Inst,
           reb'[t].id = g, reb'[t].dm = 0, reb'[t].xreb = g, reb'[t].reg = 0
    PROVE  Owned(t)'
<1>1. \A h \in Gens : PC(t, h)' = IF h = g THEN "empty" ELSE PC(t, h)
  BY DEF Moved, PC
<1> QED
  BY <1>1 DEF Owned, Inst

\* fini takes everything from the Run, when no other is installed
LEMMA OwnedLeave ==
    ASSUME NEW t \in Targets, NEW g \in Gens, Moved(t, g, "ret"), \A h \in Gens : h # g => PC(t, h) \notin Inst,
           reb'[t].dm = 0, reb'[t].xreb = 0, reb'[t].reg = 0
    PROVE  Owned(t)'
<1>1. \A h \in Gens : PC(t, h)' = IF h = g THEN "ret" ELSE PC(t, h)
  BY DEF Moved, PC
<1> QED
  BY <1>1 DEF Owned, Inst

\* a Run, up to its xaction
LEMMA StartSound ==
    ASSUME RebTypes, ~Overlaps, NEW t \in Targets, NEW g \in Gens, Order(t), Owned(t), "late" \notin odd',
           Preempt(t, g) \/ Poll(t, g) \/ Pingall(t, g) \/ Renew(t, g)
    PROVE  Order(t)' /\ Owned(t)'
<1> USE DEF Goto
<1>0. /\ reb' = reb /\ rmd' = rmd /\ ended' = ended
      /\ {"ret", "ping", "poll", "renew", "lock"} \subseteq PCs
      /\ {} \in SUBSET (Targets \cup Objs)
  BY DEF Preempt, Poll, Pingall, Renew, xvars, PCs
<1>1. CASE Preempt(t, g)
  <2>1. PC(t, g) = "start" /\ started' = started
    BY <1>1 DEF Preempt, At, PC
  <2>2. ~(reb[t].id >= g)
    BY <2>1, RebAssumption, SMTT(30) DEF Order, Place, RebTypes, RebType, RebRec, Gens
  <2>3. CASE Preempted(t, Oxid(t, g))
    <3>1. Moved(t, g, "ping")
      BY <1>0, <1>1, <2>2, <2>3, MoveStep DEF Preempt, Oxid, RebTypes
    <3>2. \A h \in 1..g - 1 : PC(t, h) \notin {"start", "poll", "ping", "renew"}
      BY <1>1 DEF Preempt, Apart, PC
    <3>3. \A h \in Gens : h < g => PC(t, h) \in Resting
      BY <2>1, <2>3, <3>2, EarlierReturned
    <3>4. Order(t)'
      BY <1>0, <2>1, <3>1, <3>3, PreemptOrder
    <3> QED  BY <1>0, <2>1, <3>1, <3>4, OwnedOutside DEF Inst
  <2>4. CASE ~Preempted(t, Oxid(t, g))
    <3>1. Moved(t, g, "poll")
      BY <1>0, <1>1, <2>2, <2>4, MoveStep DEF Preempt, Oxid, RebTypes
    <3>2. Oxid(t, g) \in started[t]
      BY <2>4 DEF Preempted
    <3>3. Order(t)'
      BY <1>0, <2>1, <3>1, <3>2, PreemptOrder
    <3> QED  BY <1>0, <2>1, <3>1, <3>3, OwnedOutside DEF Inst
  <2> QED  BY <2>3, <2>4
<1>2. CASE Poll(t, g)
  <2>1. PC(t, g) = "poll" /\ started' = started
    BY <1>2 DEF Poll, At, PC, xvars
  <2>2. Preempted(t, Oxid(t, g)) /\ Goto(t, g, "ping")
    BY <1>2 DEF Poll, TimeOut, Oxid
  <2>3. Moved(t, g, "ping")
    BY <1>0, <2>2, MoveStep DEF RebTypes
  <2>4. \A h \in Gens : h < g => PC(t, h) \in Resting
    BY <2>1, <2>2, EarlierReturned
  <2>5. Order(t)'
    BY <1>0, <2>1, <2>3, <2>4, PreemptOrder
  <2> QED  BY <1>0, <2>1, <2>3, <2>5, OwnedOutside DEF Inst
<1>3. CASE Pingall(t, g)
  <2>1. PC(t, g) = "ping" /\ started' = started
    BY <1>3 DEF Pingall, At, PC, xvars
  <2>2. PICK q \in {"ret", "renew"} : Moved(t, g, q)
    BY <1>0, <1>3, MoveStep DEF Pingall, RebTypes
  <2>3. Begun(t, g) /\ g \notin ended[t] /\ q \in PCs /\ q \notin Live
    BY <2>1, <1>0 DEF Begun, Order, Place, Live, Inst
  <2>4. Order(t)'
    BY <1>0, <2>1, <2>2, <2>3, AdvanceOrder
  <2> QED  BY <1>0, <2>1, <2>2, <2>4, OwnedOutside DEF Inst
<1>4. CASE Renew(t, g)
  <2>1. PC(t, g) = "renew"
    BY <1>4 DEF Renew, At, PC
  <2>2. Begun(t, g) /\ g \notin ended[t]
    BY <2>1 DEF Begun, Order, Place
  <2>3. CASE Running(t) # {}
    BY <1>0, <1>4, <2>3, Frame DEF Renew
  <2>4. CASE Running(t) = {} /\ Goto(t, g, "ret") /\ started' = started
    <3>1. Moved(t, g, "ret")
      BY <1>0, <2>4, MoveStep DEF RebTypes
    <3>2. Order(t)'
      BY <1>0, <2>1, <2>2, <2>4, <3>1, AdvanceOrder DEF Live, Inst
    <3> QED  BY <1>0, <2>1, <3>1, <3>2, OwnedOutside DEF Inst
  <2>5. CASE Running(t) = {} /\ Goto(t, g, "lock") /\ started' = [started EXCEPT ![t] = @ \cup {g}]
    <3>1. Moved(t, g, "lock")
      BY <1>0, <2>5, MoveStep DEF RebTypes
    <3>2. started'[t] = started[t] \cup {g}
      BY <2>5 DEF RebTypes
    <3>3. Order(t)'
      BY <1>0, <2>1, <2>2, <3>1, <3>2, AdvanceOrder
    <3> QED  BY <1>0, <2>1, <3>1, <3>3, OwnedOutside DEF Inst
  <2> QED  BY <1>4, <2>3, <2>4, <2>5 DEF Renew
<1> QED  BY <1>1, <1>2, <1>3, <1>4

\* initRenew
LEMMA InitSound ==
    ASSUME RebTypes, NEW t \in Targets, NEW g \in Gens, Order(t), Owned(t), RenewDM(t, g) \/ InitRenewFails(t, g)
    PROVE  Order(t)' /\ Owned(t)'
<1> USE DEF Goto
<1>1. /\ PC(t, g) = "lock" /\ rmd' = rmd /\ started' = started
      /\ {"ret", "init"} \subseteq PCs /\ {} \in SUBSET (Targets \cup Objs)
  BY DEF RenewDM, InitRenewFails, At, PC, xvars, PCs
<1>2. Begun(t, g) /\ g \in started[t] /\ g \notin ended[t]
  BY <1>1 DEF Begun, Order, Place, Live
<1>3. \A h \in Gens : PC(t, h) \notin Inst
  BY <1>1, <1>2, Alone DEF Inst
<1>4. reb[t].dm = 0 /\ reb[t].reg = 0 /\ reb[t].xreb = 0
  BY <1>3 DEF Owned
<1>5. CASE RenewDM(t, g)
  <2>1. Moved(t, g, "init")
    BY <1>1, <1>5, MoveStep DEF RenewDM, RebTypes
  <2> DEFINE new == [id |-> g, stage |-> StageInit, peers |-> NoPeers, dm |-> g, reg |-> g, xreb |-> g]
  <2>0. new.id = g /\ new.dm = g /\ new.reg = g /\ new.xreb = g
    OBVIOUS
  <2>2. reb'[t] = new /\ ended' = ended
    BY <1>5 DEF RenewDM, RebTypes, RebType, xvars
  <2> HIDE DEF new
  <2>3. reb'[t].id = g /\ reb'[t].dm = g /\ reb'[t].reg = g /\ reb'[t].xreb = g
    BY <2>0, <2>2
  <2>4. Order(t)'
    BY <1>1, <1>2, <2>1, <2>2, <2>3, AdvanceOrder
  <2> QED  BY <1>3, <2>1, <2>3, <2>4, OwnedEnter
<1>6. CASE InitRenewFails(t, g)
  <2>1. Moved(t, g, "ret")
    BY <1>1, <1>6, MoveStep DEF InitRenewFails, Fails, RebTypes
  <2>2. ended'[t] = ended[t] \cup {g}
    BY <1>6 DEF InitRenewFails, Fails, RebTypes
  <2>3. reb'[t].id = reb[t].id /\ reb'[t].dm = 0 /\ reb'[t].reg = 0 /\ reb'[t].xreb = 0
    BY <1>4, <1>6, DmCleared
  <2>4. Order(t)'
    BY <1>1, <1>2, <2>1, <2>2, <2>3, AdvanceOrder DEF Live, Inst
  <2> QED  BY <1>3, <2>1, <2>3, <2>4, OwnedLeave
<1> QED  BY <1>5, <1>6

\* a stage is left for the next
LEMMA InsideStep ==
    ASSUME RebTypes, NEW t \in Targets, NEW g \in Gens, NEW q \in Inst \ {"empty"}, Order(t), Owned(t), Moved(t, g, q),
           PC(t, g) \in Inst \ {"empty"}, rmd' = rmd, started' = started, ended' = ended,
           reb'[t].id = reb[t].id, reb'[t].dm = reb[t].dm, reb'[t].xreb = reb[t].xreb,
           reb'[t].reg = IF q = "fini" THEN 0 ELSE g
    PROVE  Order(t)' /\ Owned(t)'
<1>1. Begun(t, g) /\ PC(t, g) # "ret" /\ g \in started[t] /\ g \notin ended[t]
  BY DEF Begun, Order, Place, Live, Inst
<1>2. q \in PCs /\ q \notin {"none", "start", "poll", "ping", "renew", "lock", "ret"}
  BY DEF Inst, PCs
<1>3. Order(t)'
  BY <1>1, <1>2, AdvanceOrder
<1> QED
  BY <1>3, OwnedInside

\* the changes of stage keep Order and Owned
LEMMA StageSound ==
    ASSUME RebTypes, NEW t \in Targets, NEW g \in Gens, Order(t), Owned(t),
           StartTraverse(t, g) \/ RxReady(t, g) \/ Walked(t, g) \/ PostTraversed(t, g)
    PROVE  Order(t)' /\ Owned(t)'
<1> USE DEF Goto
<1>0. /\ {"rxready", "walk", "post", "quiesce"} \subseteq PCs /\ {} \in SUBSET (Targets \cup Objs)
      /\ Peers(t) \in SUBSET (Targets \cup Objs) /\ Misplaced(t) \in SUBSET (Targets \cup Objs)
  BY DEF PCs, Peers, Misplaced, RebTypes
<1>1. PC(t, g) \in {"init", "rxready", "walk", "post"}
  BY DEF StartTraverse, RxReady, Walked, PostTraversed, At, PC
<1>2. PICK q \in {"rxready", "walk", "post", "quiesce"} : Moved(t, g, q)
  BY <1>0, MoveStep DEF StartTraverse, RxReady, Walked, PostTraversed, RebTypes
<1>3. rmd' = rmd /\ started' = started /\ ended' = ended
  BY DEF StartTraverse, RxReady, Walked, PostTraversed, xvars
<1>4. reb'[t].id = reb[t].id /\ reb'[t].dm = reb[t].dm /\ reb'[t].xreb = reb[t].xreb /\ reb'[t].reg = reb[t].reg
  <2>1. reb' = reb \/ \E st \in {Traverse, PostTraverse, Fin} : reb' = [reb EXCEPT ![t].stage = st]
    BY DEF StartTraverse, RxReady, Walked, PostTraversed, ChangeStage
  <2> QED  BY <2>1, SMTT(30) DEF RebTypes, RebType, RebRec
<1>5. reb[t].reg = g
  BY <1>1 DEF Owned, Inst
<1>6. q \in Inst \ {"empty"} /\ q # "fini" /\ PC(t, g) \in Inst \ {"empty"}
  BY <1>1 DEF Inst
<1> QED
  BY <1>2, <1>3, <1>4, <1>5, <1>6, InsideStep

\* so do a Run without streams, and a walk that passes objects over
LEMMA EmptySound ==
    ASSUME RebTypes, NEW t \in Targets, NEW g \in Gens, Order(t), Owned(t),
           RenewEmpty(t, g) \/ NothingToDo(t, g) \/ WalkFails(t, g)
    PROVE  Order(t)' /\ Owned(t)'
<1> USE DEF Goto
<1>0. /\ {"ret", "empty", "walk"} \subseteq PCs /\ {} \in SUBSET (Targets \cup Objs)
      /\ rmd' = rmd /\ started' = started /\ run \in RunType
  BY DEF RenewEmpty, NothingToDo, WalkFails, xvars, PCs, RebTypes
<1>1. PC(t, g) \in {"lock", "empty", "walk"}
  BY DEF RenewEmpty, NothingToDo, WalkFails, At, PC
<1>2. Begun(t, g) /\ g \in started[t] /\ g \notin ended[t]
  BY <1>1 DEF Begun, Order, Place, Live, Inst
<1>3. \A h \in Gens : h # g => PC(t, h) \notin Inst
  BY <1>1, <1>2, Alone
<1>4. CASE RenewEmpty(t, g)
  <2>0. PC(t, g) = "lock" /\ ended' = ended
    BY <1>4 DEF RenewEmpty, At, PC, xvars
  <2>1. reb[t].dm = 0 /\ reb[t].reg = 0
    BY <1>3, <2>0 DEF Owned, Inst
  <2>2. Moved(t, g, "empty")
    BY <1>0, <1>4, MoveStep DEF RenewEmpty
  <2> DEFINE new == [id |-> g, stage |-> StageInit, peers |-> NoPeers, dm |-> reb[t].dm, reg |-> reb[t].reg, xreb |-> g]
  <2>3. new.id = g /\ new.dm = reb[t].dm /\ new.reg = reb[t].reg /\ new.xreb = g
    OBVIOUS
  <2>4. reb'[t] = new
    BY <1>4 DEF RenewEmpty, RebTypes, RebType
  <2> HIDE DEF new
  <2>5. reb'[t].id = g /\ reb'[t].dm = 0 /\ reb'[t].reg = 0 /\ reb'[t].xreb = g
    BY <2>1, <2>3, <2>4
  <2>6. Order(t)'
    BY <1>0, <1>2, <2>0, <2>2, <2>5, AdvanceOrder
  <2> QED  BY <1>3, <2>2, <2>5, <2>6, OwnedEmpty
<1>5. CASE NothingToDo(t, g)
  <2>0. PC(t, g) = "empty" /\ ended'[t] = ended[t] \cup {g}
    BY <1>5 DEF NothingToDo, At, PC, RebTypes
  <2>1. reb[t].dm = 0 /\ reb[t].reg = 0 /\ reb[t].xreb = g
    BY <2>0 DEF Owned, Inst
  <2>2. Moved(t, g, "ret")
    BY <1>0, <1>5, MoveStep DEF NothingToDo
  <2> DEFINE new == [id |-> reb[t].id, stage |-> Done, peers |-> reb[t].peers, dm |-> reb[t].dm, reg |-> reb[t].reg,
                     xreb |-> IF reb[t].xreb = g THEN 0 ELSE reb[t].xreb]
  <2>3. new.id = reb[t].id /\ new.dm = reb[t].dm /\ new.reg = reb[t].reg /\ new.xreb = IF reb[t].xreb = g THEN 0 ELSE reb[t].xreb
    OBVIOUS
  <2>4. reb'[t] = new
    BY <1>5 DEF NothingToDo, RebTypes, RebType
  <2> HIDE DEF new
  <2>5. reb'[t].id = reb[t].id /\ reb'[t].dm = 0 /\ reb'[t].reg = 0 /\ reb'[t].xreb = 0
    BY <2>1, <2>3, <2>4
  <2>6. Order(t)'
    BY <1>0, <1>2, <2>0, <2>2, <2>5, AdvanceOrder DEF Live, Inst
  <2> QED  BY <1>3, <2>2, <2>5, <2>6, OwnedLeave
<1>6. CASE WalkFails(t, g)
  <2>0. PC(t, g) = "walk" /\ ended' = ended /\ reb' = reb
    BY <1>6 DEF WalkFails, At, PC, xvars
  <2>1. \A os : run[t][g].left \ os \in SUBSET (Targets \cup Objs)
    BY <1>0, LeftType
  <2>2. Moved(t, g, "walk")
    BY <1>0, <1>6, <2>1, MoveStep DEF WalkFails
  <2>3. reb[t].reg = g /\ "walk" \in Inst \ {"empty"} /\ PC(t, g) \in Inst \ {"empty"}
    BY <2>0 DEF Owned, Inst
  <2> QED  BY <1>0, <2>0, <2>2, <2>3, InsideStep
<1> QED  BY <1>4, <1>5, <1>6

\* so do the waits for the peers, and sending
LEMMA WaitSound ==
    ASSUME RebTypes, NEW t \in Targets, NEW g \in Gens, Order(t), Owned(t), "late" \notin odd',
           \/ \E p \in Targets : PeerReady(t, g, p) \/ PeerLate(t, g, p) \/ PeerGone(t, g, p) \/ ReadStage(t, g, p)
           \/ \E o \in Objs : DoSend(t, g, o)
    PROVE  Order(t)' /\ Owned(t)'
<1>0. rmd' = rmd /\ started' = started /\ ended' = ended /\ reb' = reb
  BY DEF PeerReady, PeerLate, PeerGone, ReadStage, DoSend, xvars
<1>1. CASE run' = run
  BY <1>0, <1>1, Frame
<1>2. CASE run' # run
  <2>1. PC(t, g) \in {"rxready", "post", "walk"} /\ \E x : Left(t, g, x)
    BY <1>2 DEF PeerReady, PeerLate, TimeOut, PeerGone, ReadStage, DoSend, Waiting, At, PC
  <2>2. Moved(t, g, PC(t, g))
    BY <2>1, LeftStep DEF PC, RebTypes
  <2>3. PC(t, g) \in Inst \ {"empty"} /\ PC(t, g) # "fini"
    BY <2>1 DEF Inst
  <2>4. reb[t].reg = g
    BY <2>3 DEF Owned
  <2> QED  BY <1>0, <2>2, <2>3, <2>4, InsideStep
<1> QED  BY <1>1, <1>2

\* so do quiesce, endStreams and fini
LEMMA FiniSound ==
    ASSUME RebTypes, NEW t \in Targets, NEW g \in Gens, Order(t), Owned(t),
           Quiesced(t, g) \/ (\E p \in Peers(t) : QuiesceGone(t, g, p)) \/ EndStreams(t, g) \/ Fini(t, g)
    PROVE  Order(t)' /\ Owned(t)'
<1> USE DEF Goto
<1>0. {"close", "fini", "ret"} \subseteq PCs /\ {} \in SUBSET (Targets \cup Objs) /\ rmd' = rmd /\ started' = started
  BY DEF PCs, Quiesced, QuiesceGone, EndStreams, Fini, xvars
<1>1. CASE Quiesced(t, g) \/ \E p \in Peers(t) : QuiesceGone(t, g, p)
  <2>1. PC(t, g) = "quiesce" /\ ended' = ended /\ reb' = reb
    BY <1>1 DEF Quiesced, QuiesceGone, At, PC, xvars
  <2>2. run' = run \/ Goto(t, g, "close")
    BY <1>1 DEF Quiesced, QuiesceGone
  <2>3. CASE run' = run
    BY <1>0, <2>1, <2>3, Frame
  <2>4. CASE Goto(t, g, "close")
    <3>1. Moved(t, g, "close")
      BY <1>0, <2>4, MoveStep DEF RebTypes
    <3>2. reb[t].reg = g /\ PC(t, g) \in Inst \ {"empty"} /\ "close" \in Inst \ {"empty"}
      BY <2>1 DEF Owned, Inst
    <3> QED  BY <1>0, <2>1, <3>1, <3>2, InsideStep
  <2> QED  BY <2>2, <2>3, <2>4
<1>2. CASE EndStreams(t, g)
  <2>1. PC(t, g) = "close" /\ ended' = ended
    BY <1>2 DEF EndStreams, At, PC, xvars
  <2>2. Moved(t, g, "fini") /\ PC(t, g) \in Inst \ {"empty"} /\ "fini" \in Inst \ {"empty"}
    BY <1>0, <1>2, <2>1, MoveStep DEF EndStreams, RebTypes, Inst
  <2>3. reb[t].dm = g /\ g # 0
    <3>1. reb[t].dm = g
      BY <2>2 DEF Owned
    <3> QED  BY <3>1, SMTT(30) DEF Gens
  <2> DEFINE new == [id |-> reb[t].id, stage |-> IF reb[t].stage = Fin THEN FinStreams ELSE reb[t].stage,
                     peers |-> reb[t].peers, dm |-> reb[t].dm, reg |-> IF reb[t].dm = 0 THEN reb[t].reg ELSE 0,
                     xreb |-> reb[t].xreb]
  <2>4. new.id = reb[t].id /\ new.dm = reb[t].dm /\ new.xreb = reb[t].xreb /\ new.reg = IF reb[t].dm = 0 THEN reb[t].reg ELSE 0
    OBVIOUS
  <2>6. reb'[t] = new
    BY <1>2 DEF EndStreams, RebTypes, RebType
  <2> HIDE DEF new
  <2>5. reb'[t].id = reb[t].id /\ reb'[t].dm = reb[t].dm /\ reb'[t].xreb = reb[t].xreb /\ reb'[t].reg = 0
    BY <2>3, <2>4, <2>6
  <2> QED  BY <1>0, <2>1, <2>2, <2>5, InsideStep
<1>3. CASE Fini(t, g)
  <2>0. PC(t, g) = "fini"
    BY <1>3 DEF Fini, At, PC
  <2>1. PC(t, g) = "fini" /\ Begun(t, g) /\ g \in started[t] /\ g \notin ended[t]
    BY <2>0 DEF Begun, Order, Place, Live, Inst
  <2>2. Moved(t, g, "ret")
    BY <1>0, <1>3, MoveStep DEF Fini, RebTypes
  <2>3. reb[t].reg = 0
    BY <2>1 DEF Owned, Inst
  <2> DEFINE new == [id |-> reb[t].id, stage |-> Done, peers |-> NoPeers, dm |-> 0, reg |-> reb[t].reg, xreb |-> 0]
  <2>4. new.id = reb[t].id /\ new.dm = 0 /\ new.xreb = 0 /\ new.reg = reb[t].reg
    OBVIOUS
  <2>9. reb'[t] = new
    BY <1>3 DEF Fini, RebTypes, RebType
  <2> HIDE DEF new
  <2>5. reb'[t].id = reb[t].id /\ reb'[t].dm = 0 /\ reb'[t].xreb = 0 /\ reb'[t].reg = 0
    BY <2>3, <2>4, <2>9
  <2>6. ended'[t] = ended[t] \cup {g}
    BY <1>3 DEF Fini, RebTypes
  <2>7. Order(t)'
    BY <1>0, <2>1, <2>2, <2>5, <2>6, AdvanceOrder DEF Live, Inst
  <2>8. \A h \in Gens : h # g => PC(t, h) \notin Inst
    BY <2>1, Alone
  <2> QED  BY <2>2, <2>5, <2>7, <2>8, OwnedLeave
<1> QED  BY <1>1, <1>2, <1>3

-----------------------------------------------------------------------------
(* the other targets, the network and the faults *)

\* nothing of target u that matters changes
Same(u) ==
    /\ run'[u] = run[u] /\ rmd'[u] = rmd[u] /\ started'[u] = started[u] /\ ended'[u] = ended[u]
    /\ reb'[u] = reb[u]

\* a target that nothing happens to
LEMMA SameSound ==
    ASSUME NEW u \in Targets, Same(u), Sound(u), u \in down' <=> u \in down
    PROVE  Sound(u)'
<1>1. CASE u \in down
  BY <1>1 DEF Sound, Up, Gone, Same
<1>2. CASE u \notin down
  BY <1>2, Frame DEF Sound, Up, Same
<1> QED  BY <1>1, <1>2

\* the steps that start a Run touch one target
LEMMA StartLocal ==
    ASSUME RebTypes, NEW t \in Targets, NEW g \in Gens,
           \/ RecvRMD(t, g) \/ Preempt(t, g) \/ Poll(t, g) \/ Pingall(t, g) \/ Renew(t, g)
           \/ RenewDM(t, g) \/ InitRenewFails(t, g)
    PROVE  Up(t) /\ down' = down /\ odd \subseteq odd' /\ \A u \in Targets : u # t => Same(u)
<1>1. Up(t) /\ down' = down /\ odd \subseteq odd'
  BY DEF RecvRMD, Preempt, Poll, Pingall, Renew, RenewDM, InitRenewFails, At, TimeOut
<1>2. \A u \in Targets : u # t => run'[u] = run[u]
  BY DEF RecvRMD, Preempt, Poll, Pingall, Renew, RenewDM, InitRenewFails, Fails, Goto, GotoWith, RebTypes, RunType
<1>3. \A u \in Targets : u # t => reb'[u] = reb[u]
  BY DmCleared DEF RecvRMD, Preempt, Poll, Pingall, Renew, RenewDM, RebTypes, RebType
<1>4. \A u \in Targets : u # t => rmd'[u] = rmd[u] /\ started'[u] = started[u] /\ ended'[u] = ended[u]
  BY DEF RecvRMD, Preempt, Poll, Pingall, Renew, RenewDM, InitRenewFails, Fails, RebTypes, xvars
<1> QED  BY <1>1, <1>2, <1>3, <1>4 DEF Same

\* so do those of a Run without streams, and a walk that passes objects over
LEMMA EmptyLocal ==
    ASSUME RebTypes, NEW t \in Targets, NEW g \in Gens, RenewEmpty(t, g) \/ NothingToDo(t, g) \/ WalkFails(t, g)
    PROVE  Up(t) /\ down' = down /\ odd \subseteq odd' /\ \A u \in Targets : u # t => Same(u)
<1>1. Up(t) /\ down' = down /\ odd \subseteq odd'
  BY DEF RenewEmpty, NothingToDo, WalkFails, At
<1>2. \A u \in Targets : u # t => run'[u] = run[u]
  BY DEF RenewEmpty, NothingToDo, WalkFails, Goto, GotoWith, RebTypes, RunType
<1>3. \A u \in Targets : u # t => reb'[u] = reb[u]
  BY DEF RenewEmpty, NothingToDo, WalkFails, RebTypes, RebType
<1>4. \A u \in Targets : u # t => rmd'[u] = rmd[u] /\ started'[u] = started[u] /\ ended'[u] = ended[u]
  BY DEF RenewEmpty, NothingToDo, WalkFails, RebTypes, xvars
<1> QED  BY <1>1, <1>2, <1>3, <1>4 DEF Same

\* so do the steps of its stages
LEMMA StageLocal ==
    ASSUME RebTypes, NEW t \in Targets, NEW g \in Gens,
           \/ StartTraverse(t, g) \/ RxReady(t, g) \/ Walked(t, g) \/ PostTraversed(t, g)
           \/ \E p \in Targets : PeerReady(t, g, p) \/ PeerLate(t, g, p) \/ PeerGone(t, g, p) \/ ReadStage(t, g, p)
           \/ \E o \in Objs : DoSend(t, g, o)
    PROVE  Up(t) /\ down' = down /\ odd \subseteq odd' /\ \A u \in Targets : u # t => Same(u)
<1>1. Up(t) /\ down' = down /\ odd \subseteq odd'
  BY DEF StartTraverse, RxReady, Walked, PostTraversed, PeerReady, PeerLate, PeerGone, ReadStage, DoSend, Waiting, At,
         TimeOut
<1>2. \A u \in Targets : u # t => run'[u] = run[u]
  BY DEF StartTraverse, RxReady, Walked, PostTraversed, PeerReady, PeerLate, PeerGone, ReadStage, DoSend, Left, Goto,
         GotoWith, RebTypes, RunType
<1>3. \A u \in Targets : u # t => reb'[u] = reb[u]
  BY DEF StartTraverse, RxReady, Walked, PostTraversed, PeerReady, PeerLate, PeerGone, ReadStage, DoSend, ChangeStage,
         RebTypes, RebType
<1>4. rmd' = rmd /\ started' = started /\ ended' = ended
  BY DEF StartTraverse, RxReady, Walked, PostTraversed, PeerReady, PeerLate, PeerGone, ReadStage, DoSend, xvars
<1> QED  BY <1>1, <1>2, <1>3, <1>4 DEF Same

\* and those of its end
LEMMA FiniLocal ==
    ASSUME RebTypes, NEW t \in Targets, NEW g \in Gens,
           Quiesced(t, g) \/ (\E p \in Peers(t) : QuiesceGone(t, g, p)) \/ EndStreams(t, g) \/ Fini(t, g)
    PROVE  Up(t) /\ down' = down /\ odd \subseteq odd' /\ \A u \in Targets : u # t => Same(u)
<1>1. Up(t) /\ down' = down /\ odd \subseteq odd'
  BY DEF Quiesced, QuiesceGone, EndStreams, Fini, At
<1>2. \A u \in Targets : u # t => run'[u] = run[u]
  BY DEF Quiesced, QuiesceGone, EndStreams, Fini, Goto, GotoWith, RebTypes, RunType
<1>3. \A u \in Targets : u # t => reb'[u] = reb[u]
  BY DEF Quiesced, QuiesceGone, EndStreams, Fini, RebTypes, RebType
<1>4. \A u \in Targets : u # t => rmd'[u] = rmd[u] /\ started'[u] = started[u] /\ ended'[u] = ended[u]
  BY DEF Quiesced, QuiesceGone, EndStreams, Fini, RebTypes, xvars
<1> QED  BY <1>1, <1>2, <1>3, <1>4 DEF Same

\* receiving, losing and stopping change nothing that Sound is about; a crash leaves nothing
LEMMA EnvSound ==
    ASSUME RebTypes, \A u \in Targets : Sound(u),
           \/ \E m \in net : RecvObj(m) \/ Lose(m)
           \/ \E n \in told, t \in Targets : RecvNtfn(t, n[1], n[2], n[3])
           \/ \E t \in Targets : Stop(t) \/ Crash(t)
    PROVE  \A u \in Targets : Sound(u)'
<1>1. CASE (\E m \in net : RecvObj(m) \/ Lose(m)) \/ (\E t \in Targets : Stop(t))
  <2>1. (\A u \in Targets : Same(u)) /\ down' = down
    BY <1>1 DEF RecvObj, Lose, Stop, Same
  <2> QED  BY <2>1, SameSound
<1>2. ASSUME NEW n \in told, NEW t \in Targets, RecvNtfn(t, n[1], n[2], n[3])
      PROVE  \A u \in Targets : Sound(u)'
  <2>0. told \subseteq Targets \X Gens \X (Inactive..StageAbort)
    BY DEF RebTypes
  <2>1. n[1] \in Targets /\ n[3] \in Inactive..StageAbort
    BY <2>0
  <2>2. run' = run /\ rmd' = rmd /\ started' = started /\ ended' = ended /\ down' = down /\ Up(t)
    BY <1>2 DEF RecvNtfn, Receiving
  <2>3. reb' = reb \/ reb' = [reb EXCEPT ![t].peers[n[1]] = n[3]]
    BY <1>2 DEF RecvNtfn
  <2>4. /\ \A u \in Targets : u # t => reb'[u] = reb[u]
        /\ reb'[t].id = reb[t].id /\ reb'[t].dm = reb[t].dm /\ reb'[t].reg = reb[t].reg /\ reb'[t].xreb = reb[t].xreb
    BY <2>1, <2>3, SMTT(30) DEF RebTypes, RebType, RebRec
  <2>5. Sound(t)'
    BY <2>2, <2>4, Frame DEF Sound, Up
  <2>6. ASSUME NEW u \in Targets, u # t
        PROVE  Sound(u)'
    BY <2>2, <2>4, <2>6, SameSound DEF Same
  <2> QED  BY <2>5, <2>6
<1>3. ASSUME NEW t \in Targets, Crash(t)
      PROVE  \A u \in Targets : Sound(u)'
  <2>1. t \in down' /\ run'[t] = [g \in Gens |-> NoRun] /\ reb'[t] = Idle
    BY <1>3, SMTT(30) DEF Crash, RebTypes, RunType, RebType
  <2>2. Sound(t)'
    BY <2>1 DEF Sound, Up, Gone, Idle, NoRun, NoPeers
  <2>3. ASSUME NEW u \in Targets, u # t
        PROVE  Sound(u)'
    <3>1. Same(u) /\ (u \in down' <=> u \in down)
      BY <1>3, <2>3, SMTT(30) DEF Crash, RebTypes, RunType, RebType, Same
    <3> QED  BY <3>1, SameSound
  <2> QED  BY <2>2, <2>3
<1> QED  BY <1>1, <1>2, <1>3

-----------------------------------------------------------------------------
(* the invariant and the theorems *)

\* a step of a Run keeps its own target sound
LEMMA OwnSound ==
    ASSUME RebTypes, ~Overlaps, UserGens = {}, NEW t \in Targets, NEW g \in Gens, Order(t), Owned(t), "late" \notin odd',
           RecvRMD(t, g) \/ Run(t, g) \/ (\E p \in Peers(t) : ReadStage(t, g, p))
    PROVE  Order(t)' /\ Owned(t)'
<1>1. CASE RecvRMD(t, g)
  BY <1>1, RecvRMDStep, NewRunOrder
<1>2. CASE Preempt(t, g) \/ Poll(t, g) \/ Pingall(t, g) \/ Renew(t, g)
  BY <1>2, StartSound
<1>3. CASE RenewDM(t, g) \/ InitRenewFails(t, g)
  BY <1>3, InitSound
<1>4. CASE StartTraverse(t, g) \/ RxReady(t, g) \/ Walked(t, g) \/ PostTraversed(t, g)
  BY <1>4, StageSound
<1>5. CASE \/ \E p \in Peers(t) : PeerReady(t, g, p) \/ PeerLate(t, g, p) \/ PeerGone(t, g, p) \/ ReadStage(t, g, p)
           \/ \E o \in Objs : DoSend(t, g, o)
  BY <1>5, WaitSound DEF Peers
<1>6. CASE Quiesced(t, g) \/ (\E p \in Peers(t) : QuiesceGone(t, g, p)) \/ EndStreams(t, g) \/ Fini(t, g)
  BY <1>6, FiniSound
<1>7. CASE RenewEmpty(t, g) \/ NothingToDo(t, g) \/ WalkFails(t, g)
  BY <1>7, EmptySound
<1> QED  BY <1>1, <1>2, <1>3, <1>4, <1>5, <1>6, <1>7 DEF Run

\* and touches no other
LEMMA Local ==
    ASSUME RebTypes, NEW t \in Targets, NEW g \in Gens,
           RecvRMD(t, g) \/ Run(t, g) \/ (\E p \in Peers(t) : ReadStage(t, g, p))
    PROVE  Up(t) /\ down' = down /\ odd \subseteq odd' /\ \A u \in Targets : u # t => Same(u)
<1>1. CASE \/ RecvRMD(t, g) \/ Preempt(t, g) \/ Poll(t, g) \/ Pingall(t, g) \/ Renew(t, g)
           \/ RenewDM(t, g) \/ InitRenewFails(t, g)
  BY <1>1, StartLocal
<1>2. CASE \/ StartTraverse(t, g) \/ RxReady(t, g) \/ Walked(t, g) \/ PostTraversed(t, g)
           \/ \E p \in Peers(t) : PeerReady(t, g, p) \/ PeerLate(t, g, p) \/ PeerGone(t, g, p) \/ ReadStage(t, g, p)
           \/ \E o \in Objs : DoSend(t, g, o)
  BY <1>2, StageLocal DEF Peers
<1>3. CASE Quiesced(t, g) \/ (\E p \in Peers(t) : QuiesceGone(t, g, p)) \/ EndStreams(t, g) \/ Fini(t, g)
  BY <1>3, FiniLocal
<1>4. CASE RenewEmpty(t, g) \/ NothingToDo(t, g) \/ WalkFails(t, g)
  BY <1>4, EmptyLocal
<1> QED  BY <1>1, <1>2, <1>3, <1>4 DEF Run

\* OwnerInv is inductive
LEMMA OwnerStep ==
    ASSUME ~Overlaps, UserGens = {}
    PROVE  RebTypes /\ OwnerInv /\ [RebNext]_vars => OwnerInv'
<1> SUFFICES ASSUME RebTypes, OwnerInv, [RebNext]_vars, "late" \notin odd'
             PROVE  \A u \in Targets : Sound(u)'
  BY DEF OwnerInv
<1>1. CASE UNCHANGED vars
  <2>1. (\A u \in Targets : Same(u)) /\ down' = down /\ odd' = odd
    BY <1>1 DEF vars, xvars, Same
  <2> QED  BY <2>1, SameSound DEF OwnerInv
<1>2. ASSUME NEW t \in Targets, NEW g \in Gens,
             RecvRMD(t, g) \/ Run(t, g) \/ (\E p \in Peers(t) : ReadStage(t, g, p))
      PROVE  \A u \in Targets : Sound(u)'
  <2>1. Up(t) /\ down' = down /\ odd \subseteq odd' /\ \A u \in Targets : u # t => Same(u)
    BY <1>2, Local
  <2>2. \A u \in Targets : Sound(u)
    BY <2>1 DEF OwnerInv
  <2>3. Order(t) /\ Owned(t)
    BY <2>1, <2>2 DEF Sound
  <2>4. Order(t)' /\ Owned(t)'
    BY <1>2, <2>3, OwnSound
  <2>5. Sound(t)'
    BY <2>1, <2>4 DEF Sound, Up
  <2>6. ASSUME NEW u \in Targets, u # t
        PROVE  Sound(u)'
    BY <2>1, <2>2, <2>6, SameSound
  <2> QED  BY <2>5, <2>6
<1>3. CASE \/ \E m \in net : RecvObj(m) \/ Lose(m)
           \/ \E n \in told, t \in Targets : RecvNtfn(t, n[1], n[2], n[3])
           \/ \E t \in Targets : Stop(t) \/ Crash(t)
  <2>1. odd \subseteq odd'
    BY <1>3 DEF RecvObj, Lose, RecvNtfn, Stop, Crash
  <2> QED  BY <1>3, <2>1, EnvSound DEF OwnerInv
<1> QED  BY <1>1, <1>2, <1>3 DEF RebNext

\* the invariant holds when the targets start (New)
LEMMA OwnerInit == RebInit => RebTypes /\ OwnerInv
<1> SUFFICES ASSUME RebInit
             PROVE  RebTypes /\ OwnerInv
  OBVIOUS
<1>0. MaxGen \in Nat /\ 0 \in 0..MaxGen
  BY RebAssumption, SMTT(30)
<1>1. NoRun \in [pc: PCs, oxid: 0..MaxGen, left: SUBSET (Targets \cup Objs)]
  BY <1>0 DEF NoRun, PCs
<1>2. Idle \in RebRec
  BY <1>0, Stages, SMTT(30) DEF Idle, NoPeers, RebRec
<1>3. has \in [Targets -> SUBSET Objs]
  BY RebAssumption DEF RebInit
<1>4. RebTypes
  <2> HIDE DEF NoRun, Idle, RebRec, PCs
  <2> QED  BY <1>0, <1>1, <1>2, <1>3 DEF RebInit, RebTypes, RunType, RebType
<1>5. ASSUME NEW t \in Targets
      PROVE  Order(t) /\ Owned(t) /\ Up(t)
  <2>1. /\ \A g \in Gens : PC(t, g) = "none"
        /\ rmd[t] = 0 /\ started[t] = {} /\ ended[t] = {} /\ down = {}
        /\ reb[t].id = 0 /\ reb[t].dm = 0 /\ reb[t].reg = 0 /\ reb[t].xreb = 0
    BY DEF RebInit, PC, NoRun, Idle
  <2>2. \A g \in Gens : Chain(t, g) /\ Turn(t, g) /\ Place(t, g)
    BY <2>1 DEF Chain, Turn, Place, Begun, Live, Inst
  <2> QED  BY <2>1, <2>2, SMTT(30) DEF Order, Owned, Up, Inst
<1> QED  BY <1>4, <1>5 DEF OwnerInv, Sound

\* what the invariant says of the state
LEMMA OwnerMeans == RebTypes /\ OwnerInv /\ "late" \notin odd => SingleOwner
<1> SUFFICES ASSUME RebTypes, \A t \in Targets : Sound(t)
             PROVE  SingleOwner
  BY DEF OwnerInv
<1>1. RebTypeOK
  BY DEF RebTypes, RebTypeOK, RunType, RebType, RebRec, PCs
<1>2. ASSUME NEW t \in Targets
      PROVE  /\ \A g \in Installed(t) : OwnsAll(t, g) /\ Installed(t) = {g}
             /\ Installed(t) = {} => reb[t].dm = 0 /\ reb[t].reg = 0 /\ reb[t].xreb = 0
  <2>1. Installed(t) = {g \in Gens : PC(t, g) \in Inst}
    BY DEF Installed, PC, Inst
  <2>2. CASE Up(t)
    <3>1. Order(t) /\ Owned(t)
      BY <2>2 DEF Sound
    <3>2. ASSUME NEW g \in Installed(t)
          PROVE  OwnsAll(t, g) /\ Installed(t) = {g}
      <4>1. g \in Gens /\ PC(t, g) \in Inst
        BY <2>1
      <4>2. Begun(t, g) /\ PC(t, g) # "ret"
        BY <4>1 DEF Begun, Inst
      <4>3. \A h \in Gens : h # g => PC(t, h) \notin Inst
        BY <3>1, <4>1, <4>2, Alone
      <4>4. OwnsAll(t, g)
        BY <3>1, <4>1 DEF Owned, OwnsAll, PC
      <4> QED  BY <2>1, <4>1, <4>3, <4>4
    <3>3. Installed(t) = {} => reb[t].dm = 0 /\ reb[t].reg = 0 /\ reb[t].xreb = 0
      BY <2>1, <3>1 DEF Owned
    <3> QED  BY <3>2, <3>3
  <2>3. CASE ~Up(t)
    <3>1. \A g \in Gens : PC(t, g) = "none"
      BY <2>3, SMTT(30) DEF Sound, Gone, PC, NoRun
    <3>2. reb[t].dm = 0 /\ reb[t].reg = 0 /\ reb[t].xreb = 0
      BY <2>3, SMTT(30) DEF Sound, Gone, Idle
    <3> QED  BY <2>1, <3>1, <3>2 DEF Inst
  <2> QED  BY <2>2, <2>3
<1> QED  BY <1>1, <1>2 DEF SingleOwner

\* reb/README.md, invariants 1, 2 and 4 (1 as the code has it: fini clears reb.dm), for any
\* number of targets, generations, objects and faults: until a wait timed out, the data
\* mover, its registration and the installed xaction belong to the one Run between _renew
\* and fini, and to nobody otherwise
THEOREM OneRunOwns ==
    ASSUME ~Overlaps, UserGens = {}
    PROVE  RebSpec => []("late" \notin odd => SingleOwner)
<1>1. RebInit => RebTypes /\ OwnerInv
  BY OwnerInit
<1>2. RebTypes /\ OwnerInv /\ [RebNext]_vars => (RebTypes /\ OwnerInv)'
  BY TypeStep, OwnerStep
<1>3. RebTypes /\ OwnerInv => ("late" \notin odd => SingleOwner)
  BY OwnerMeans
<1> QED  BY <1>1, <1>2, <1>3, PTL DEF RebSpec

-----------------------------------------------------------------------------
(* delivery: the invariant *)

\* nobody gave generation g up, and nothing that Delivered excepts happened
Intact(g) == odd = {} /\ \A t \in Targets : Up(t) /\ g \notin aborted[t]

\* how far the Run of g has come on p: it receives, or has (or has no streams); it has sent
\* everything; it is past the last stage that counts as busy; it does not receive any more
Here(p, g) == PC(p, g) \in Inst \/ g \in ended[p]
Sent(p, g) == PC(p, g) \in {"post", "quiesce", "close", "fini"} \/ (g \in ended[p] /\ ~Empty(p, g))
Still(p, g) == PC(p, g) \in {"quiesce", "close", "fini"} \/ g \in ended[p]
Shut(p, g) == PC(p, g) \in {"close", "fini"} \/ (g \in ended[p] /\ ~Empty(p, g))

Astray(t) == {o \in sc.objs : HomeOf[o] = t /\ HrwOf[o] # t}

\* o is where it belongs, or generation g is about to bring it there, has logged that it
\* does not, or would bring it to a target without streams
Moving(o, g) ==
    \/ o \in has[HrwOf[o]]
    \/ \E m \in net : m.obj = o /\ m.to = HrwOf[o] /\ m.g = g
    \/ <<g, o>> \in lost
    \/ Empty(HrwOf[o], g)

\* what a Run knows of the others (rxReady: they receive; Quiesce: they have sent
\* everything) and what became of its objects
WalkOK(t, g) ==
    /\ PC(t, g) = "rxready" => \A p \in Peers(t) \ run[t][g].left : Here(p, g)
    /\ PC(t, g) = "walk" \/ Sent(t, g) => \A p \in Targets : Here(p, g)
    /\ PC(t, g) = "walk" => \A o \in Astray(t) : o \in run[t][g].left \/ Moving(o, g)
    /\ Sent(t, g) => \A o \in Astray(t) : Moving(o, g)
    /\ Shut(t, g) => \A p \in Targets : Still(p, g)

\* what the others see of a Run: its stage and its ID, by status and by notification
SeenOK(t, g) ==
    /\ PC(t, g) \in {"empty", "init", "rxready", "walk", "post"} => reb[t].stage < Fin
    /\ reb[t].id = g => Here(t, g) /\ \A p \in Peers(t) : reb[t].peers[p] # Inactive => Here(p, g)

\* an object in flight comes from a Run that has not closed its streams, and finds one that
\* receives or that never had streams
Sending == {"walk", "post", "quiesce", "close"}
Taking == {"init", "rxready", "walk", "post", "quiesce"}
NetOK(g) == \A m \in net : m.g = g => PC(m.from, g) \in Sending /\ (PC(m.to, g) \in Taking \/ Empty(m.to, g))

ToldOK(g) == \A n \in told : n[2] = g => Here(n[1], g)

GenOK(g) == (\A t \in Targets : WalkOK(t, g) /\ SeenOK(t, g)) /\ NetOK(g) /\ ToldOK(g)

\* RenewRebalance: one xaction at a time is running
OneRunning(t) == \A g, h \in Running(t) : g = h

\* objects are copied, never moved; what a target that stopped had in memory is gone; a Run
\* without streams found no bucket
KeptOK ==
    /\ \A t \in Targets : OneRunning(t) /\ (~Up(t) => ended[t] = {})
    /\ \A o \in sc.objs : o \in has[HomeOf[o]]
    /\ \A t \in Targets, g \in Gens : PC(t, g) = "empty" => Empty(t, g)

DeliveryInv == KeptOK /\ \A g \in Gens : Intact(g) => GenOK(g)

-----------------------------------------------------------------------------
(* delivery: what a step of a Run may change *)

\* a step of the Run of h on t: it takes no abort back, leaves the other generations and
\* the objects where they are, and says something of itself only when it is installed
Effects(t, h) ==
    /\ \A u \in Targets : aborted[u] \subseteq aborted'[u]
    /\ \A k \in Gens : k # h => run'[t][k] = run[t][k]
    /\ ended[t] \subseteq ended'[t] /\ ended'[t] \subseteq ended[t] \cup {h}
    /\ has' = has /\ sc' = sc /\ lost \subseteq lost'
    /\ \A n \in told' : n \in told \/ (n[1] = t /\ n[2] = h /\ PC(t, h) \in Inst)
    /\ \/ reb'[t].id = reb[t].id /\ (reb'[t].peers = reb[t].peers \/ reb'[t].peers = NoPeers)
       \/ reb'[t].id = h /\ reb'[t].peers = NoPeers /\ PC(t, h)' \in {"empty", "init"}
    /\ started'[t] = started[t] \/ (started'[t] = started[t] \cup {h} /\ Running(t) = {})

\* Base.Abort aborts what has not ended
LEMMA AbortingAdds ==
    ASSUME NEW t \in Targets, NEW gs, aborted \in [Targets -> SUBSET Gens], Aborting(t, gs)
    PROVE  /\ \A u \in Targets : aborted[u] \subseteq aborted'[u]
           /\ \A g \in gs : g \notin ended[t] => g \in aborted'[t]
  BY DEF Aborting

\* a notification is of the Run that sends it
LEMMA TellSays ==
    ASSUME NEW t, NEW h, NEW s, Tell(t, h, s)
    PROVE  \A n \in told' : n \in told \/ (n[1] = t /\ n[2] = h)
<1> SUFFICES ASSUME NEW n \in told', n \notin told
             PROVE  n[1] = t /\ n[2] = h
  OBVIOUS
<1>1. n = <<t, h, s>>
  BY DEF Tell
<1> QED  BY <1>1

\* the steps of one Run leave the other generations' alone
LEMMA OthersKept ==
    ASSUME run \in RunType, NEW t \in Targets, NEW h \in Gens,
           \/ UNCHANGED run
           \/ \E q, ls : GotoWith(t, h, q, ls)
           \/ \E x : Left(t, h, x)
    PROVE  \A k \in Gens : k # h => run'[t][k] = run[t][k]
  BY DEF GotoWith, Left, RunType

\* up to the xaction
LEMMA StartEffects ==
    ASSUME RebTypes, NEW t \in Targets, NEW h \in Gens,
           RecvRMD(t, h) \/ Preempt(t, h) \/ Poll(t, h) \/ Pingall(t, h) \/ Renew(t, h)
    PROVE  Effects(t, h)
<1>0. aborted \in [Targets -> SUBSET Gens] /\ run \in RunType
  BY DEF RebTypes
<1>1. UNCHANGED aborted \/ \E gs : Aborting(t, gs)
  BY DEF RecvRMD, Preempt, Poll, Pingall, Renew, xvars
<1>2. \A u \in Targets : aborted[u] \subseteq aborted'[u]
  BY <1>0, <1>1, AbortingAdds
<1>3. \A k \in Gens : k # h => run'[t][k] = run[t][k]
  <2>1. CASE RecvRMD(t, h)
    BY <1>0, <2>1 DEF RecvRMD, RunType
  <2>2. CASE Preempt(t, h) \/ Poll(t, h) \/ Pingall(t, h) \/ Renew(t, h)
    <3>1. UNCHANGED run \/ \E q, ls : GotoWith(t, h, q, ls)
      BY <2>2 DEF Preempt, Poll, Pingall, Renew, Goto
    <3> QED  BY <1>0, <3>1, OthersKept
  <2> QED  BY <2>1, <2>2
<1>4. ended' = ended /\ has' = has /\ sc' = sc /\ lost' = lost /\ told' = told /\ reb' = reb
  BY DEF RecvRMD, Preempt, Poll, Pingall, Renew, xvars
<1>5. started'[t] = started[t] \/ (started'[t] = started[t] \cup {h} /\ Running(t) = {})
  <2>1. UNCHANGED started \/ (started' = [started EXCEPT ![t] = @ \cup {h}] /\ Running(t) = {})
    BY DEF RecvRMD, Preempt, Poll, Pingall, Renew, xvars
  <2> QED  BY <2>1 DEF RebTypes
<1> QED  BY <1>2, <1>3, <1>4, <1>5 DEF Effects

\* initRenew
LEMMA InitEffects ==
    ASSUME RebTypes, NEW t \in Targets, NEW h \in Gens, RenewDM(t, h) \/ InitRenewFails(t, h)
    PROVE  Effects(t, h)
<1>0. /\ aborted \in [Targets -> SUBSET Gens] /\ run \in RunType /\ ended \in [Targets -> SUBSET Gens] /\ reb \in RebType
      /\ {"ret", "init"} \subseteq PCs
  BY DEF RebTypes, PCs
<1>1. UNCHANGED aborted \/ \E gs : Aborting(t, gs)
  BY DEF RenewDM, InitRenewFails, Fails, xvars
<1>2. \A u \in Targets : aborted[u] \subseteq aborted'[u]
  BY <1>0, <1>1, AbortingAdds
<1>3. \A k \in Gens : k # h => run'[t][k] = run[t][k]
  <2>1. \E q, ls : GotoWith(t, h, q, ls)
    BY DEF RenewDM, InitRenewFails, Fails, Goto
  <2> QED  BY <1>0, <2>1, OthersKept
<1>4. has' = has /\ sc' = sc /\ lost' = lost /\ told' \subseteq told /\ started' = started
  BY DEF RenewDM, InitRenewFails, Heeded, xvars
<1>5. ended[t] \subseteq ended'[t] /\ ended'[t] \subseteq ended[t] \cup {h}
  BY <1>0 DEF RenewDM, InitRenewFails, Fails, xvars
<1>6. \/ reb'[t].id = reb[t].id /\ (reb'[t].peers = reb[t].peers \/ reb'[t].peers = NoPeers)
      \/ reb'[t].id = h /\ reb'[t].peers = NoPeers /\ PC(t, h)' \in {"empty", "init"}
  <2>1. CASE RenewDM(t, h)
    <3>1. Moved(t, h, "init")
      BY <1>0, <2>1, MoveStep DEF RenewDM, Goto
    <3>2. reb'[t].id = h /\ reb'[t].peers = NoPeers
      BY <1>0, <2>1, SMTT(30) DEF RenewDM, RebType
    <3> QED  BY <3>1, <3>2 DEF Moved, PC
  <2>2. CASE InitRenewFails(t, h)
    BY <2>2, DmCleared
  <2> QED  BY <2>1, <2>2
<1> QED  BY <1>2, <1>3, <1>4, <1>5, <1>6 DEF Effects

\* the stages
LEMMA StageEffects ==
    ASSUME RebTypes, NEW t \in Targets, NEW h \in Gens,
           \/ StartTraverse(t, h) \/ RxReady(t, h) \/ Walked(t, h) \/ PostTraversed(t, h)
           \/ \E p \in Targets : PeerReady(t, h, p) \/ PeerLate(t, h, p) \/ PeerGone(t, h, p) \/ ReadStage(t, h, p)
           \/ \E o \in Objs : DoSend(t, h, o)
    PROVE  Effects(t, h)
<1>0. aborted \in [Targets -> SUBSET Gens] /\ run \in RunType /\ reb \in RebType
  BY DEF RebTypes
<1>1. UNCHANGED aborted \/ \E gs : Aborting(t, gs)
  BY DEF StartTraverse, RxReady, Walked, PostTraversed, PeerReady, PeerLate, PeerGone, ReadStage, DoSend, AbortBy, xvars
<1>2. \A u \in Targets : aborted[u] \subseteq aborted'[u]
  BY <1>0, <1>1, AbortingAdds
<1>3. \A k \in Gens : k # h => run'[t][k] = run[t][k]
  <2>1. UNCHANGED run \/ (\E q, ls : GotoWith(t, h, q, ls)) \/ (\E x : Left(t, h, x))
    BY DEF StartTraverse, RxReady, Walked, PostTraversed, PeerReady, PeerLate, PeerGone, ReadStage, DoSend, Goto
  <2> QED  BY <1>0, <2>1, OthersKept
<1>4. ended' = ended /\ has' = has /\ sc' = sc /\ lost' = lost /\ started' = started
  BY DEF StartTraverse, RxReady, Walked, PostTraversed, PeerReady, PeerLate, PeerGone, ReadStage, DoSend, xvars
<1>5. PC(t, h) \in Inst
  BY DEF StartTraverse, RxReady, Walked, PostTraversed, PeerReady, PeerLate, PeerGone, ReadStage, DoSend, Waiting, At, PC,
         Inst
<1>6. UNCHANGED told \/ \E s : Tell(t, h, s)
  BY DEF StartTraverse, RxReady, Walked, PostTraversed, PeerReady, PeerLate, PeerGone, ReadStage, DoSend, ChangeStage,
         AbortBy
<1>7. \A n \in told' : n \in told \/ (n[1] = t /\ n[2] = h /\ PC(t, h) \in Inst)
  BY <1>5, <1>6, TellSays
<1>8. reb'[t].id = reb[t].id /\ reb'[t].peers = reb[t].peers
  <2>1. reb' = reb \/ \E st \in {Traverse, PostTraverse, Fin} : reb' = [reb EXCEPT ![t].stage = st]
    BY DEF StartTraverse, RxReady, Walked, PostTraversed, PeerReady, PeerLate, PeerGone, ReadStage, DoSend, ChangeStage
  <2> QED  BY <1>0, <2>1, SMTT(30) DEF RebType, RebRec
<1> QED  BY <1>2, <1>3, <1>4, <1>7, <1>8 DEF Effects

\* the end
LEMMA FiniEffects ==
    ASSUME RebTypes, NEW t \in Targets, NEW h \in Gens,
           Quiesced(t, h) \/ (\E p \in Peers(t) : QuiesceGone(t, h, p)) \/ EndStreams(t, h) \/ Fini(t, h)
    PROVE  Effects(t, h)
<1>0. aborted \in [Targets -> SUBSET Gens] /\ run \in RunType /\ ended \in [Targets -> SUBSET Gens] /\ reb \in RebType
  BY DEF RebTypes
<1>1. UNCHANGED aborted \/ \E gs : Aborting(t, gs)
  BY DEF Quiesced, QuiesceGone, EndStreams, Fini, AbortBy, xvars
<1>2. \A u \in Targets : aborted[u] \subseteq aborted'[u]
  BY <1>0, <1>1, AbortingAdds
<1>3. \A k \in Gens : k # h => run'[t][k] = run[t][k]
  <2>1. UNCHANGED run \/ \E q, ls : GotoWith(t, h, q, ls)
    BY DEF Quiesced, QuiesceGone, EndStreams, Fini, Goto
  <2> QED  BY <1>0, <2>1, OthersKept
<1>4. has' = has /\ sc' = sc /\ lost' = lost /\ started' = started
  BY DEF Quiesced, QuiesceGone, EndStreams, Fini, xvars
<1>5. PC(t, h) \in Inst
  BY DEF Quiesced, QuiesceGone, EndStreams, Fini, At, PC, Inst
<1>6. UNCHANGED told \/ \E s : Tell(t, h, s)
  BY DEF Quiesced, QuiesceGone, EndStreams, Fini, AbortBy
<1>7. \A n \in told' : n \in told \/ (n[1] = t /\ n[2] = h /\ PC(t, h) \in Inst)
  BY <1>5, <1>6, TellSays
<1>8. ended[t] \subseteq ended'[t] /\ ended'[t] \subseteq ended[t] \cup {h}
  BY <1>0 DEF Quiesced, QuiesceGone, EndStreams, Fini, xvars
<1>9. reb'[t].id = reb[t].id /\ (reb'[t].peers = reb[t].peers \/ reb'[t].peers = NoPeers)
  <2>1. CASE Quiesced(t, h) \/ \E p \in Peers(t) : QuiesceGone(t, h, p)
    <3>1. reb' = reb
      BY <2>1 DEF Quiesced, QuiesceGone
    <3> QED  BY <3>1
  <2>2. CASE EndStreams(t, h)
    BY <1>0, <2>2, SMTT(30) DEF EndStreams, RebType
  <2>3. CASE Fini(t, h)
    BY <1>0, <2>3, SMTT(30) DEF Fini, RebType
  <2> QED  BY <2>1, <2>2, <2>3
<1> QED  BY <1>2, <1>3, <1>4, <1>7, <1>8, <1>9 DEF Effects

\* a Run without streams, and a walk that passes objects over
LEMMA EmptyEffects ==
    ASSUME RebTypes, NEW t \in Targets, NEW h \in Gens, RenewEmpty(t, h) \/ NothingToDo(t, h) \/ WalkFails(t, h)
    PROVE  Effects(t, h)
<1>0. /\ run \in RunType /\ ended \in [Targets -> SUBSET Gens] /\ reb \in RebType
      /\ "empty" \in PCs /\ {} \in SUBSET (Targets \cup Objs)
  BY DEF RebTypes, PCs
<1>1. \A k \in Gens : k # h => run'[t][k] = run[t][k]
  <2>1. \E q, ls : GotoWith(t, h, q, ls)
    BY DEF RenewEmpty, NothingToDo, WalkFails, Goto
  <2> QED  BY <1>0, <2>1, OthersKept
<1>2. /\ has' = has /\ sc' = sc /\ lost \subseteq lost' /\ told' \subseteq told /\ started' = started
      /\ aborted' = aborted
  BY DEF RenewEmpty, NothingToDo, WalkFails, Heeded, xvars
<1>3. ended[t] \subseteq ended'[t] /\ ended'[t] \subseteq ended[t] \cup {h}
  BY <1>0 DEF RenewEmpty, NothingToDo, WalkFails, xvars
<1>4. \/ reb'[t].id = reb[t].id /\ reb'[t].peers = reb[t].peers
      \/ reb'[t].id = h /\ reb'[t].peers = NoPeers /\ PC(t, h)' \in {"empty", "init"}
  <2>1. CASE RenewEmpty(t, h)
    <3>1. Moved(t, h, "empty")
      BY <1>0, <2>1, MoveStep DEF RenewEmpty, Goto
    <3>2. reb'[t].id = h /\ reb'[t].peers = NoPeers
      BY <1>0, <2>1, SMTT(30) DEF RenewEmpty, RebType
    <3> QED  BY <3>1, <3>2 DEF Moved, PC
  <2>2. CASE NothingToDo(t, h)
    BY <1>0, <2>2, SMTT(30) DEF NothingToDo, RebType
  <2>3. CASE WalkFails(t, h)
    BY <2>3 DEF WalkFails
  <2> QED  BY <2>1, <2>2, <2>3
<1> QED  BY <1>1, <1>2, <1>3, <1>4 DEF Effects

\* all together
LEMMA RunEffects ==
    ASSUME RebTypes, NEW t \in Targets, NEW h \in Gens,
           RecvRMD(t, h) \/ Run(t, h) \/ (\E p \in Peers(t) : ReadStage(t, h, p))
    PROVE  Effects(t, h)
<1>1. CASE RecvRMD(t, h) \/ Preempt(t, h) \/ Poll(t, h) \/ Pingall(t, h) \/ Renew(t, h)
  BY <1>1, StartEffects
<1>2. CASE RenewDM(t, h) \/ InitRenewFails(t, h)
  BY <1>2, InitEffects
<1>3. CASE \/ StartTraverse(t, h) \/ RxReady(t, h) \/ Walked(t, h) \/ PostTraversed(t, h)
           \/ \E p \in Peers(t) : PeerReady(t, h, p) \/ PeerLate(t, h, p) \/ PeerGone(t, h, p) \/ ReadStage(t, h, p)
           \/ \E o \in Objs : DoSend(t, h, o)
  BY <1>3, StageEffects DEF Peers
<1>4. CASE Quiesced(t, h) \/ (\E p \in Peers(t) : QuiesceGone(t, h, p)) \/ EndStreams(t, h) \/ Fini(t, h)
  BY <1>4, FiniEffects
<1>5. CASE RenewEmpty(t, h) \/ NothingToDo(t, h) \/ WalkFails(t, h)
  BY <1>5, EmptyEffects
<1> QED  BY <1>1, <1>2, <1>3, <1>4, <1>5 DEF Run

\* messages, losses and a user's stop change no Run, and take neither an abort nor an object back
Outside ==
    /\ run' = run /\ ended' = ended /\ started' = started /\ sc' = sc /\ down' = down /\ odd \subseteq odd'
    /\ \A u \in Targets : aborted[u] \subseteq aborted'[u] /\ has[u] \subseteq has'[u]
    /\ lost \subseteq lost'

\* Outside is what RecvObj, Lose, RecvNtfn and Stop do
LEMMA OutsideStep ==
    ASSUME RebTypes,
           \/ \E m \in net : RecvObj(m) \/ Lose(m)
           \/ \E n \in told, t \in Targets : RecvNtfn(t, n[1], n[2], n[3])
           \/ \E t \in Targets : Stop(t)
    PROVE  Outside
<1>0. aborted \in [Targets -> SUBSET Gens] /\ has \in [Targets -> SUBSET Objs]
  BY DEF RebTypes
<1>1. ASSUME NEW m \in net, RecvObj(m) \/ Lose(m)
      PROVE  Outside
  <2>1. m.from \in Targets /\ m.to \in Targets
    BY DEF RebTypes, Msgs
  <2>2. UNCHANGED aborted \/ Aborting(m.to, {m.g}) \/ Aborting(m.from, {m.g})
    BY <1>1 DEF RecvObj, Lose
  <2>3. UNCHANGED has \/ has' = [has EXCEPT ![m.to] = @ \cup {m.obj}]
    BY <1>1 DEF RecvObj, Lose
  <2>4. \A u \in Targets : aborted[u] \subseteq aborted'[u]
    BY <1>0, <2>1, <2>2, AbortingAdds
  <2>5. \A u \in Targets : has[u] \subseteq has'[u]
    BY <1>0, <2>1, <2>3
  <2>6. /\ run' = run /\ ended' = ended /\ started' = started /\ sc' = sc /\ down' = down /\ odd \subseteq odd'
        /\ lost \subseteq lost'
    BY <1>1 DEF RecvObj, Lose, LogOnly
  <2> QED  BY <2>4, <2>5, <2>6 DEF Outside
<1>2. ASSUME NEW n \in told, NEW t \in Targets, RecvNtfn(t, n[1], n[2], n[3])
      PROVE  Outside
  <2>1. UNCHANGED aborted \/ Aborting(t, {reb[t].id})
    BY <1>2 DEF RecvNtfn
  <2>2. \A u \in Targets : aborted[u] \subseteq aborted'[u]
    BY <1>0, <2>1, AbortingAdds
  <2> QED  BY <1>2, <2>2 DEF RecvNtfn, Outside
<1>3. ASSUME NEW t \in Targets, Stop(t)
      PROVE  Outside
  <2>1. \E g : Aborting(t, {g})
    BY <1>3 DEF Stop
  <2>2. \A u \in Targets : aborted[u] \subseteq aborted'[u]
    BY <1>0, <2>1, AbortingAdds
  <2> QED  BY <1>3, <2>2 DEF Stop, Outside
<1> QED  BY <1>1, <1>2, <1>3

\* whatever happens, a generation that is intact was intact
LEMMA IntactBefore ==
    ASSUME RebTypes, [RebNext]_vars, NEW g \in Gens, Intact(g)'
    PROVE  Intact(g)
<1>1. CASE UNCHANGED vars
  BY <1>1 DEF vars, xvars, Intact, Up
<1>2. ASSUME NEW t \in Targets, NEW h \in Gens,
             RecvRMD(t, h) \/ Run(t, h) \/ (\E p \in Peers(t) : ReadStage(t, h, p))
      PROVE  Intact(g)
  <2>1. down' = down /\ odd \subseteq odd'
    BY <1>2, Local
  <2>2. \A u \in Targets : aborted[u] \subseteq aborted'[u]
    BY <1>2, RunEffects DEF Effects
  <2> QED  BY <2>1, <2>2 DEF Intact, Up
<1>3. CASE \/ \E m \in net : RecvObj(m) \/ Lose(m)
           \/ \E n \in told, t \in Targets : RecvNtfn(t, n[1], n[2], n[3])
           \/ \E t \in Targets : Stop(t)
  <2>1. Outside
    BY <1>3, OutsideStep
  <2> QED  BY <2>1 DEF Outside, Intact, Up
<1>4. CASE \E t \in Targets : Crash(t)
  BY <1>4 DEF Crash, Intact, Up
<1> QED  BY <1>1, <1>2, <1>3, <1>4 DEF RebNext

\* one xaction is running, as long as xactions only end or are aborted
LEMMA FewerRunning ==
    ASSUME NEW u, OneRunning(u), started'[u] = started[u], ended[u] \subseteq ended'[u], aborted[u] \subseteq aborted'[u]
    PROVE  OneRunning(u)'
<1>1. Running(u)' \subseteq Running(u)
  BY DEF Running
<1> QED  BY <1>1 DEF OneRunning

\* a Run is without streams because it found no bucket
LEMMA Entered ==
    ASSUME RebTypes, NEW t \in Targets, NEW h \in Gens,
           RecvRMD(t, h) \/ Run(t, h) \/ (\E p \in Peers(t) : ReadStage(t, h, p)), PC(t, h)' = "empty"
    PROVE  PC(t, h) = "empty" \/ Empty(t, h)
<1> DEFINE Past == PCs \ {"empty"}
           Stays == run' = run \/ (\E x : Left(t, h, x))
           Goes == \E q \in Past, ls \in SUBSET (Targets \cup Objs) : GotoWith(t, h, q, ls)
<1>0. /\ run \in RunType /\ {} \in SUBSET (Targets \cup Objs)
      /\ {"ret", "ping", "poll", "renew", "lock", "init", "rxready", "walk", "post", "quiesce", "close", "fini"} \subseteq Past
      /\ Peers(t) \in SUBSET (Targets \cup Objs) /\ Misplaced(t) \in SUBSET (Targets \cup Objs)
      /\ \A os : run[t][h].left \ os \in SUBSET (Targets \cup Objs)
  BY LeftType DEF RebTypes, PCs, Peers, Misplaced
<1>1. CASE RecvRMD(t, h)
  BY <1>0, <1>1 DEF RecvRMD, RunType, PC
<1>2. CASE Stays
  BY <1>0, <1>2, LeftStep DEF Moved, PC
<1>3. CASE Goes
  <2>1. PICK q \in Past, ls \in SUBSET (Targets \cup Objs) : GotoWith(t, h, q, ls)
    BY <1>3
  <2>2. Moved(t, h, q)
    BY <1>0, <2>1, MoveStep
  <2> QED  BY <2>2 DEF Moved, PC
<1>4. CASE RenewEmpty(t, h)
  BY <1>4 DEF RenewEmpty
<1> HIDE DEF Past
<1>5. CASE Preempt(t, h) \/ Poll(t, h) \/ Pingall(t, h) \/ Renew(t, h)
  <2>1. Stays \/ Goes
    BY <1>0, <1>5 DEF Preempt, Poll, Pingall, Renew, Goto
  <2> QED  BY <1>2, <1>3, <2>1
<1>6. CASE RenewDM(t, h) \/ InitRenewFails(t, h) \/ NothingToDo(t, h) \/ StartTraverse(t, h)
  <2>1. Goes
    BY <1>0, <1>6 DEF RenewDM, InitRenewFails, Fails, NothingToDo, StartTraverse, Goto
  <2> QED  BY <1>3, <2>1
<1>7. CASE RxReady(t, h) \/ WalkFails(t, h) \/ Walked(t, h) \/ PostTraversed(t, h)
  <2>1. Goes
    BY <1>0, <1>7 DEF RxReady, WalkFails, Walked, PostTraversed, Goto
  <2> QED  BY <1>3, <2>1
<1>8. CASE \/ \E p \in Peers(t) : PeerReady(t, h, p) \/ PeerLate(t, h, p) \/ PeerGone(t, h, p) \/ ReadStage(t, h, p)
           \/ \E o \in Objs : DoSend(t, h, o)
  <2>1. Stays
    BY <1>8 DEF PeerReady, PeerLate, PeerGone, ReadStage, DoSend
  <2> QED  BY <1>2, <2>1
<1>9. CASE Quiesced(t, h) \/ (\E p \in Peers(t) : QuiesceGone(t, h, p)) \/ EndStreams(t, h) \/ Fini(t, h)
  <2>1. Stays \/ Goes
    BY <1>0, <1>9 DEF Quiesced, QuiesceGone, EndStreams, Fini, Goto
  <2> QED  BY <1>2, <1>3, <2>1
<1> QED  BY <1>1, <1>4, <1>5, <1>6, <1>7, <1>8, <1>9 DEF Run

\* KeptOK is inductive
LEMMA KeptStep ==
    ASSUME RebTypes, KeptOK, [RebNext]_vars
    PROVE  KeptOK'
<1>0. \A o \in sc.objs : HomeOf[o] \in Targets
  BY RebAssumption DEF RebTypes
<1>1. CASE UNCHANGED vars
  BY <1>1 DEF vars, xvars, KeptOK, OneRunning, Running, Up, PC, Empty
<1>2. ASSUME NEW t \in Targets, NEW h \in Gens,
             RecvRMD(t, h) \/ Run(t, h) \/ (\E p \in Peers(t) : ReadStage(t, h, p))
      PROVE  KeptOK'
  <2>1. Up(t) /\ down' = down /\ \A u \in Targets : u # t => Same(u)
    BY <1>2, Local
  <2>2. Effects(t, h)
    BY <1>2, RunEffects
  <2>3. ASSUME NEW u \in Targets
        PROVE  OneRunning(u)'
    <3>0. OneRunning(u)
      BY DEF KeptOK
    <3>1. CASE u # t
      BY <2>1, <2>2, <3>0, <3>1, FewerRunning DEF Effects, Same
    <3>2. CASE u = t /\ started'[t] = started[t]
      BY <2>2, <3>0, <3>2, FewerRunning DEF Effects
    <3>3. CASE u = t /\ started'[t] = started[t] \cup {h} /\ Running(t) = {}
      <4>1. Running(t)' \subseteq {h}
        BY <2>2, <3>3 DEF Effects, Running
      <4> QED  BY <3>3, <4>1 DEF OneRunning
    <3> QED  BY <2>2, <3>1, <3>2, <3>3 DEF Effects
  <2>4. ASSUME NEW u \in Targets, ~Up(u)'
        PROVE  ended'[u] = {}
    <3>1. ~Up(u) /\ u # t
      BY <2>1, <2>4 DEF Up
    <3> QED  BY <2>1, <3>1 DEF KeptOK, Same
  <2>5. ASSUME NEW u \in Targets, NEW k \in Gens, PC(u, k)' = "empty"
        PROVE  Empty(u, k)'
    <3>1. CASE u = t /\ k = h
      <4>0. PC(t, h)' = "empty"
        BY <2>5, <3>1
      <4>1. PC(t, h) = "empty" \/ Empty(t, h)
        BY <1>2, <4>0, Entered
      <4>2. Empty(t, h)
        BY <4>1 DEF KeptOK
      <4> QED  BY <2>2, <3>1, <4>2 DEF Effects, Empty
    <3>2. CASE ~(u = t /\ k = h)
      <4>1. run'[u][k] = run[u][k]
        BY <2>1, <2>2, <3>2 DEF Effects, Same
      <4> QED  BY <2>2, <2>5, <4>1 DEF Effects, Empty, KeptOK, PC
    <3> QED  BY <3>1, <3>2
  <2> QED  BY <2>2, <2>3, <2>4, <2>5 DEF KeptOK, Effects
<1>3. CASE \/ \E m \in net : RecvObj(m) \/ Lose(m)
           \/ \E n \in told, t \in Targets : RecvNtfn(t, n[1], n[2], n[3])
           \/ \E t \in Targets : Stop(t)
  <2>1. Outside
    BY <1>3, OutsideStep
  <2>2. \A u \in Targets : OneRunning(u)'
    BY <2>1, FewerRunning DEF Outside, KeptOK
  <2>3. \A u \in Targets : ~Up(u)' => ended'[u] = {}
    BY <2>1 DEF Outside, KeptOK, Up
  <2>4. \A o \in sc'.objs : o \in has'[HomeOf[o]]
    BY <1>0, <2>1 DEF Outside, KeptOK
  <2>5. \A u \in Targets, k \in Gens : PC(u, k)' = "empty" => Empty(u, k)'
    BY <2>1 DEF Outside, KeptOK, PC, Empty
  <2> QED  BY <2>2, <2>3, <2>4, <2>5 DEF KeptOK
<1>4. ASSUME NEW t \in Targets, Crash(t)
      PROVE  KeptOK'
  <2>1. started'[t] = {} /\ ended'[t] = {} /\ sc' = sc /\ has' = has /\ down' = down \cup {t}
    BY <1>4 DEF Crash, RebTypes
  <2>2. \A u \in Targets : u # t => started'[u] = started[u] /\ ended'[u] = ended[u] /\ aborted'[u] = aborted[u]
    BY <1>4 DEF Crash, RebTypes
  <2>3. OneRunning(t)'
    BY <2>1 DEF OneRunning, Running
  <2>4. \A u \in Targets : u # t => OneRunning(u)'
    BY <2>2, FewerRunning DEF KeptOK
  <2>5. \A u \in Targets : ~Up(u)' => ended'[u] = {}
    BY <2>1, <2>2 DEF KeptOK, Up
  <2>6. ASSUME NEW u \in Targets, NEW k \in Gens, PC(u, k)' = "empty"
        PROVE  Empty(u, k)'
    <3>1. u # t /\ run'[u] = run[u]
      BY <1>4, <2>6 DEF Crash, RebTypes, RunType, PC, NoRun
    <3> QED  BY <2>1, <2>6, <3>1 DEF KeptOK, PC, Empty
  <2> QED  BY <2>1, <2>3, <2>4, <2>5, <2>6 DEF KeptOK
<1> QED  BY <1>1, <1>2, <1>3, <1>4 DEF RebNext

-----------------------------------------------------------------------------
(* delivery: generation g, while something else happens *)

\* the Run of g on p is where it was
Kept(p, g) == run'[p][g] = run[p][g] /\ (g \in ended'[p] <=> g \in ended[p])

\* what has been reached for generation g stays reached
Onward(g) ==
    /\ sc' = sc
    /\ \A p \in Targets : (Here(p, g) => Here(p, g)') /\ (Still(p, g) => Still(p, g)')
    /\ \A o \in sc.objs : Moving(o, g) => Moving(o, g)'

\* a Run that is where it was has come as far as it had
LEMMA KeptPhases ==
    ASSUME NEW p, NEW g, Kept(p, g), sc' = sc
    PROVE  /\ PC(p, g)' = PC(p, g) /\ run'[p][g].left = run[p][g].left
           /\ Here(p, g)' <=> Here(p, g)
           /\ Sent(p, g)' <=> Sent(p, g)
           /\ Still(p, g)' <=> Still(p, g)
           /\ Shut(p, g)' <=> Shut(p, g)
<1>1. PC(p, g)' = PC(p, g) /\ run'[p][g].left = run[p][g].left
  BY DEF Kept, PC
<1> QED  BY <1>1 DEF Kept, Here, Sent, Still, Shut, Empty

\* what a Run that stays where it is knows stays true
LEMMA KeptWalk ==
    ASSUME NEW t \in Targets, NEW g, Kept(t, g), Onward(g), WalkOK(t, g)
    PROVE  WalkOK(t, g)'
<1>0. /\ PC(t, g)' = PC(t, g) /\ run'[t][g].left = run[t][g].left
      /\ Sent(t, g)' <=> Sent(t, g)
      /\ Shut(t, g)' <=> Shut(t, g)
  BY KeptPhases DEF Onward
<1>1. Astray(t)' = Astray(t) /\ \A o \in Astray(t) : Moving(o, g) => Moving(o, g)'
  BY DEF Onward, Astray
<1>2. \A p \in Targets : (Here(p, g) => Here(p, g)') /\ (Still(p, g) => Still(p, g)')
  BY DEF Onward
<1>3. PC(t, g)' = "rxready" => \A p \in Peers(t) \ run'[t][g].left : Here(p, g)'
  BY <1>0, <1>2 DEF WalkOK, Peers
<1>4. PC(t, g)' = "walk" \/ Sent(t, g)' => \A p \in Targets : Here(p, g)'
  BY <1>0, <1>2 DEF WalkOK
<1>5. PC(t, g)' = "walk" => \A o \in Astray(t)' : o \in run'[t][g].left \/ Moving(o, g)'
  BY <1>0, <1>1 DEF WalkOK
<1>6. Sent(t, g)' => \A o \in Astray(t)' : Moving(o, g)'
  BY <1>0, <1>1 DEF WalkOK
<1>7. Shut(t, g)' => \A p \in Targets : Still(p, g)'
  BY <1>0, <1>2 DEF WalkOK
<1> QED  BY <1>3, <1>4, <1>5, <1>6, <1>7 DEF WalkOK

\* an object is on its way as long as nothing of generation g is taken from the network
LEMMA MovingKept ==
    ASSUME NEW g, has' = has, sc' = sc, lost \subseteq lost', \A m \in net : m.g = g => m \in net', NEW o
    PROVE  Moving(o, g) => Moving(o, g)'
  BY DEF Moving, Empty

\* a step of the Run of h on t keeps GenOK(g), when it moves g on and does what is due on t
LEMMA RunKeepsGen ==
    ASSUME RebTypes, NEW t \in Targets, NEW h \in Gens, NEW g \in Gens, GenOK(g), Effects(t, h),
           \A u \in Targets : u # t => Same(u), Onward(g),
           WalkOK(t, g)', PC(t, g)' \in {"empty", "init", "rxready", "walk", "post"} => reb'[t].stage < Fin, NetOK(g)'
    PROVE  GenOK(g)'
<1>0. \A p \in Targets : Here(p, g) => Here(p, g)'
  BY DEF Onward
<1>1. ASSUME NEW u \in Targets, u # t
      PROVE  WalkOK(u, g)' /\ SeenOK(u, g)'
  <2>1. Same(u) /\ WalkOK(u, g) /\ SeenOK(u, g)
    BY <1>1 DEF GenOK
  <2>2. Kept(u, g)
    BY <2>1 DEF Same, Kept
  <2>3. WalkOK(u, g)'
    BY <2>1, <2>2, KeptWalk
  <2>4. PC(u, g)' = PC(u, g) /\ reb'[u] = reb[u]
    BY <2>1 DEF Same, PC
  <2>5. PC(u, g)' \in {"empty", "init", "rxready", "walk", "post"} => reb'[u].stage < Fin
    BY <2>1, <2>4 DEF SeenOK
  <2>6. reb'[u].id = g => Here(u, g)' /\ \A p \in Peers(u) : reb'[u].peers[p] # Inactive => Here(p, g)'
    BY <1>0, <2>1, <2>4 DEF SeenOK, Peers
  <2> QED  BY <2>3, <2>5, <2>6 DEF SeenOK
<1>2. SeenOK(t, g)'
  <2>1. SeenOK(t, g)
    BY DEF GenOK
  <2>2. ASSUME reb'[t].id = g
        PROVE  Here(t, g)' /\ \A p \in Peers(t) : reb'[t].peers[p] # Inactive => Here(p, g)'
    <3>0. \A p \in Targets : NoPeers[p] = Inactive
      BY DEF NoPeers
    <3>1. CASE reb'[t].id = reb[t].id /\ (reb'[t].peers = reb[t].peers \/ reb'[t].peers = NoPeers)
      BY <1>0, <2>1, <2>2, <3>0, <3>1 DEF SeenOK, Peers
    <3>2. CASE reb'[t].id = h /\ reb'[t].peers = NoPeers /\ PC(t, h)' \in {"empty", "init"}
      BY <2>2, <3>0, <3>2 DEF Peers, Here, Inst
    <3> QED  BY <3>1, <3>2 DEF Effects
  <2> QED  BY <2>2 DEF SeenOK
<1>3. ToldOK(g)'
  <2> SUFFICES ASSUME NEW n \in told', n[2] = g
               PROVE  Here(n[1], g)'
    BY DEF ToldOK
  <2>1. CASE n \in told
    <3>0. told \subseteq Targets \X Gens \X (Inactive..StageAbort)
      BY DEF RebTypes
    <3>1. n[1] \in Targets
      BY <2>1, <3>0
    <3> QED  BY <1>0, <2>1, <3>1 DEF GenOK, ToldOK
  <2>2. CASE n[1] = t /\ n[2] = h /\ PC(t, h) \in Inst
    BY <1>0, <2>2 DEF Here
  <2> QED  BY <2>1, <2>2 DEF Effects
<1> QED  BY <1>1, <1>2, <1>3 DEF GenOK

\* where the Run of h is when it takes a step that others can see
LEMMA Visible ==
    ASSUME NEW t \in Targets, NEW h \in Gens,
           RecvRMD(t, h) \/ Run(t, h) \/ (\E p \in Peers(t) : ReadStage(t, h, p))
    PROVE  (reb' = reb /\ net' = net) \/ (Begun(t, h) /\ PC(t, h) # "ret")
<1>1. CASE RecvRMD(t, h) \/ Preempt(t, h) \/ Poll(t, h) \/ Pingall(t, h) \/ Renew(t, h)
  BY <1>1 DEF RecvRMD, Preempt, Poll, Pingall, Renew
<1>2. CASE RenewDM(t, h) \/ InitRenewFails(t, h) \/ RenewEmpty(t, h) \/ NothingToDo(t, h) \/ StartTraverse(t, h)
           \/ RxReady(t, h) \/ WalkFails(t, h)
  BY <1>2 DEF RenewDM, InitRenewFails, RenewEmpty, NothingToDo, WalkFails, StartTraverse, RxReady, At, Begun, PC
<1>3. CASE Walked(t, h) \/ PostTraversed(t, h) \/ Quiesced(t, h) \/ EndStreams(t, h) \/ Fini(t, h)
  BY <1>3 DEF Walked, PostTraversed, Quiesced, EndStreams, Fini, At, Begun, PC
<1>4. CASE \/ \E p \in Peers(t) : \/ PeerReady(t, h, p) \/ PeerLate(t, h, p) \/ PeerGone(t, h, p) \/ ReadStage(t, h, p)
                                  \/ QuiesceGone(t, h, p)
           \/ \E o \in Objs : DoSend(t, h, o)
  BY <1>4 DEF PeerReady, PeerLate, PeerGone, ReadStage, QuiesceGone, DoSend, Waiting, At, Begun, PC
<1> QED  BY <1>1, <1>2, <1>3, <1>4 DEF Run

\* what a Run does to the network: it sends its own, and closes its own streams
LEMMA OwnNet ==
    ASSUME NEW t \in Targets, NEW h \in Gens,
           RecvRMD(t, h) \/ Run(t, h) \/ (\E p \in Peers(t) : ReadStage(t, h, p)), NEW m, m.g # h
    PROVE  (m \in net' => m \in net) /\ (m \in net /\ m.from # t => m \in net')
<1>1. CASE RecvRMD(t, h) \/ Preempt(t, h) \/ Poll(t, h) \/ Pingall(t, h) \/ Renew(t, h) \/ RenewDM(t, h)
           \/ InitRenewFails(t, h) \/ RenewEmpty(t, h) \/ NothingToDo(t, h) \/ WalkFails(t, h)
  BY <1>1 DEF RecvRMD, Preempt, Poll, Pingall, Renew, RenewDM, InitRenewFails, RenewEmpty, NothingToDo, WalkFails
<1>2. CASE StartTraverse(t, h) \/ RxReady(t, h) \/ Walked(t, h) \/ PostTraversed(t, h) \/ Quiesced(t, h) \/ Fini(t, h)
  BY <1>2 DEF StartTraverse, RxReady, Walked, PostTraversed, Quiesced, Fini
<1>3. CASE \E p \in Peers(t) : \/ PeerReady(t, h, p) \/ PeerLate(t, h, p) \/ PeerGone(t, h, p) \/ ReadStage(t, h, p)
                               \/ QuiesceGone(t, h, p)
  BY <1>3 DEF PeerReady, PeerLate, PeerGone, ReadStage, QuiesceGone
<1>4. CASE EndStreams(t, h)
  BY <1>4 DEF EndStreams
<1>5. ASSUME NEW o \in Objs, DoSend(t, h, o)
      PROVE  (m \in net' => m \in net) /\ (m \in net => m \in net')
  <2>1. net' = net \/ net' = net \cup {[from |-> t, to |-> HrwOf[o], g |-> h, obj |-> o]}
    BY <1>5 DEF DoSend
  <2>2. m # [from |-> t, to |-> HrwOf[o], g |-> h, obj |-> o]
    BY SMTT(30)
  <2> QED  BY <2>1, <2>2
<1> QED  BY <1>1, <1>2, <1>3, <1>4, <1>5 DEF Run

\* the Run of another generation on t takes a step
LEMMA OtherGen ==
    ASSUME RebTypes, NEW t \in Targets, NEW h \in Gens, NEW g \in Gens, h # g, Order(t), GenOK(g),
           RecvRMD(t, h) \/ Run(t, h) \/ (\E p \in Peers(t) : ReadStage(t, h, p))
    PROVE  GenOK(g)'
<1>1. Effects(t, h) /\ \A u \in Targets : u # t => Same(u)
  BY RunEffects, Local
<1>2. \A p \in Targets : Kept(p, g)
  BY <1>1 DEF Effects, Same, Kept
<1>3. CASE (reb' = reb /\ net' = net)
  <2>1. Onward(g)
    BY <1>1, <1>2, <1>3, KeptPhases, MovingKept DEF Onward, Effects
  <2>2. WalkOK(t, g)'
    BY <1>2, <2>1, KeptWalk DEF GenOK
  <2>3. \A p \in Targets : PC(p, g)' = PC(p, g) /\ (Empty(p, g)' <=> Empty(p, g))
    BY <1>1, <1>2, KeptPhases DEF Effects, Empty
  <2>4. NetOK(g)'
    <3>1. \A m \in net : m.from \in Targets /\ m.to \in Targets
      BY DEF RebTypes, Msgs
    <3> QED  BY <1>3, <2>3, <3>1 DEF GenOK, NetOK
  <2>5. PC(t, g)' \in {"empty", "init", "rxready", "walk", "post"} => reb'[t].stage < Fin
    BY <1>3, <2>3 DEF GenOK, SeenOK
  <2> QED  BY <1>1, <2>1, <2>2, <2>4, <2>5, RunKeepsGen
<1>4. CASE Begun(t, h) /\ PC(t, h) # "ret"
  <2>0. PC(t, g) \notin Inst
    BY <1>4, Alone
  <2>1. \A m \in net : m.from \in Targets /\ m.to \in Targets
    BY DEF RebTypes, Msgs
  <2>2. \A m \in net : m.g = g => m.from # t
    BY <2>0 DEF GenOK, NetOK, Sending, Inst
  <2>3. \A m \in net : m.g = g => m \in net'
    BY <2>2, OwnNet
  <2>4. \A m \in net' : m.g = g => m \in net
    BY OwnNet
  <2>5. Onward(g)
    BY <1>1, <1>2, <2>3, KeptPhases, MovingKept DEF Onward, Effects
  <2>6. WalkOK(t, g)'
    BY <1>2, <2>5, KeptWalk DEF GenOK
  <2>7. \A p \in Targets : PC(p, g)' = PC(p, g) /\ (Empty(p, g)' <=> Empty(p, g))
    BY <1>1, <1>2, KeptPhases DEF Effects, Empty
  <2>8. NetOK(g)'
    BY <2>1, <2>4, <2>7 DEF GenOK, NetOK
  <2>9. PC(t, g)' \notin {"empty", "init", "rxready", "walk", "post"}
    BY <2>0, <2>7 DEF Inst
  <2> QED  BY <1>1, <2>5, <2>6, <2>8, <2>9, RunKeepsGen
<1> QED  BY <1>3, <1>4, Visible

-----------------------------------------------------------------------------
(* delivery: the steps of generation g itself *)

\* where an object of g may be in flight when the Run on t goes from one place to another
LEMMA NetMoved ==
    ASSUME RebTypes, NEW t \in Targets, NEW g \in Gens, NetOK(g), net' \subseteq net,
           \A u \in Targets : u # t => Same(u), Effects(t, g),
           \A m \in net' : m.g = g /\ m.from = t => PC(t, g)' \in Sending,
           \A m \in net' : m.g = g /\ m.to = t => PC(t, g)' \in Taking \/ Empty(t, g)
    PROVE  NetOK(g)'
<1>1. \A m \in net : m.from \in Targets /\ m.to \in Targets
  BY DEF RebTypes, Msgs
<1>2. \A u \in Targets : u # t => PC(u, g)' = PC(u, g)
  BY DEF Same, PC
<1>3. \A u : Empty(u, g)' <=> Empty(u, g)
  BY DEF Effects, Empty
<1> QED  BY <1>1, <1>2, <1>3 DEF NetOK

\* generation g goes on when the Run on t does
LEMMA OnwardBy ==
    ASSUME NEW t \in Targets, NEW g \in Gens, \A u \in Targets : u # t => Same(u), Effects(t, g),
           Here(t, g) => Here(t, g)', Still(t, g) => Still(t, g)', \A m \in net : m.g = g => m \in net'
    PROVE  Onward(g)
<1>1. \A u \in Targets : u # t => Kept(u, g)
  BY DEF Same, Kept
<1>2. \A p \in Targets : (Here(p, g) => Here(p, g)') /\ (Still(p, g) => Still(p, g)')
  BY <1>1, KeptPhases DEF Effects
<1> QED  BY <1>2, MovingKept DEF Onward, Effects

\* a step of the Run on t that is not installed, before or after
LEMMA BeforeGen ==
    ASSUME RebTypes, NEW t \in Targets, NEW g \in Gens, Order(t), Order(t)', GenOK(g),
           \A u \in Targets : u # t => Same(u), Effects(t, g),
           RecvRMD(t, g) \/ Preempt(t, g) \/ Poll(t, g) \/ Pingall(t, g) \/ Renew(t, g)
    PROVE  GenOK(g)'
<1>0. net' = net /\ reb' = reb /\ ended' = ended /\ run \in RunType
  BY DEF RecvRMD, Preempt, Poll, Pingall, Renew, xvars, RebTypes
<1>1. PC(t, g) \in {"none", "start", "poll", "ping", "renew"}
  <2>1. CASE RecvRMD(t, g)
    <3>1. g \in g..MaxGen
      BY RebAssumption, SMTT(30) DEF Gens
    <3> QED  BY <2>1, <3>1 DEF RecvRMD, PC
  <2> QED  BY <2>1 DEF Preempt, Poll, Pingall, Renew, At, PC
<1>2. PC(t, g)' \in {"start", "poll", "ping", "renew", "lock", "ret"}
  <2>0. {"ret", "ping", "poll", "renew", "lock"} \subseteq PCs
    BY DEF PCs
  <2>1. CASE RecvRMD(t, g)
    BY <1>0, <2>1 DEF RecvRMD, PC, RunType
  <2>2. CASE run' = run
    BY <1>1, <2>2, <2>1 DEF PC, Preempt, Poll, Pingall, Renew, At
  <2>3. CASE \E q \in {"ret", "ping", "poll", "renew", "lock"} : Goto(t, g, q)
    BY <1>0, <2>0, <2>3, MoveStep DEF Goto, Moved, PC
  <2> QED  BY <2>1, <2>2, <2>3 DEF Preempt, Poll, Pingall, Renew
<1>3. g \notin ended[t]
  BY <1>1 DEF Order, Place
<1>4. ~Here(t, g) /\ ~Still(t, g) /\ ~Here(t, g)' /\ ~Sent(t, g)' /\ ~Shut(t, g)' /\ PC(t, g)' \notin Inst
  BY <1>0, <1>1, <1>2, <1>3 DEF Here, Still, Sent, Shut, Inst
<1>5. Onward(g)
  BY <1>0, <1>4, OnwardBy
<1>6. WalkOK(t, g)'
  BY <1>2, <1>4 DEF WalkOK
<1>7. NetOK(g)'
  <2>1. \A m \in net : m.g = g => m.from # t /\ (m.to = t => Empty(t, g))
    BY <1>1 DEF GenOK, NetOK, Sending, Taking
  <2> QED  BY <1>0, <2>1, NetMoved DEF GenOK
<1>8. PC(t, g)' \notin {"empty", "init", "rxready", "walk", "post"}
  BY <1>2
<1> QED  BY <1>5, <1>6, <1>7, <1>8, RunKeepsGen

\* _renew: the Run is there
LEMMA RenewDMGen ==
    ASSUME RebTypes, NEW t \in Targets, NEW g \in Gens, Order(t), GenOK(g),
           \A u \in Targets : u # t => Same(u), Effects(t, g), RenewDM(t, g)
    PROVE  GenOK(g)'
<1>0. net' = net /\ ended' = ended /\ run \in RunType /\ reb \in RebType /\ "init" \in PCs
  BY DEF RenewDM, xvars, RebTypes, PCs
<1>1. PC(t, g) = "lock" /\ PC(t, g)' = "init"
  BY <1>0, MoveStep DEF RenewDM, At, Goto, Moved, PC
<1>2. g \notin ended[t]
  BY <1>1 DEF Order, Place
<1>3. ~Still(t, g) /\ Here(t, g)' /\ ~Sent(t, g)' /\ ~Shut(t, g)'
  BY <1>0, <1>1, <1>2 DEF Here, Still, Sent, Shut, Inst
<1>4. Onward(g)
  BY <1>0, <1>3, OnwardBy
<1>5. WalkOK(t, g)'
  BY <1>1, <1>3 DEF WalkOK
<1>6. NetOK(g)'
  <2>1. \A m \in net : m.g = g => m.from # t /\ m.to # t
    BY <1>1 DEF GenOK, NetOK, Sending, Taking, RenewDM
  <2> QED  BY <1>0, <2>1, NetMoved DEF GenOK
<1>7. reb'[t].stage < Fin
  <2>1. reb'[t].stage = StageInit
    BY <1>0, SMTT(30) DEF RenewDM, RebType
  <2> QED  BY <2>1, Stages, SMTT(30)
<1> QED  BY <1>4, <1>5, <1>6, <1>7, RunKeepsGen

\* _renew without streams: the Run is there, and neither sends nor receives
LEMMA RenewEmptyGen ==
    ASSUME RebTypes, NEW t \in Targets, NEW g \in Gens, Order(t), GenOK(g),
           \A u \in Targets : u # t => Same(u), Effects(t, g), RenewEmpty(t, g)
    PROVE  GenOK(g)'
<1>0. /\ net' = net /\ ended' = ended /\ run \in RunType /\ reb \in RebType /\ "empty" \in PCs
      /\ {} \in SUBSET (Targets \cup Objs)
  BY DEF RenewEmpty, xvars, RebTypes, PCs
<1>1. PC(t, g) = "lock" /\ PC(t, g)' = "empty" /\ Empty(t, g)
  BY <1>0, MoveStep DEF RenewEmpty, At, Goto, Moved, PC
<1>2. g \notin ended[t]
  BY <1>1 DEF Order, Place
<1>3. ~Still(t, g) /\ Here(t, g)' /\ ~Sent(t, g)' /\ ~Shut(t, g)'
  BY <1>0, <1>1, <1>2 DEF Here, Still, Sent, Shut, Inst
<1>4. Onward(g)
  BY <1>0, <1>3, OnwardBy
<1>5. WalkOK(t, g)'
  BY <1>1, <1>3 DEF WalkOK
<1>6. NetOK(g)'
  <2>1. \A m \in net : m.g = g => m.from # t
    BY <1>1 DEF GenOK, NetOK, Sending
  <2> QED  BY <1>0, <1>1, <2>1, NetMoved DEF GenOK
<1>7. reb'[t].stage < Fin
  <2>1. reb'[t].stage = StageInit
    BY <1>0, SMTT(30) DEF RenewEmpty, RebType
  <2> QED  BY <2>1, Stages, SMTT(30)
<1> QED  BY <1>4, <1>5, <1>6, <1>7, RunKeepsGen

\* a Run without streams has ended
LEMMA NothingToDoGen ==
    ASSUME RebTypes, NEW t \in Targets, NEW g \in Gens, GenOK(g),
           \A u \in Targets : u # t => Same(u), Effects(t, g), NothingToDo(t, g)
    PROVE  GenOK(g)'
<1>0. /\ net' = net /\ g \in ended'[t] /\ run \in RunType /\ "ret" \in PCs /\ {} \in SUBSET (Targets \cup Objs)
      /\ Empty(t, g) /\ Empty(t, g)'
  BY DEF NothingToDo, RebTypes, PCs, Empty
<1>1. PC(t, g) = "empty" /\ PC(t, g)' = "ret"
  BY <1>0, MoveStep DEF NothingToDo, At, Goto, Moved, PC
<1>2. Here(t, g)' /\ Still(t, g)' /\ ~Sent(t, g)' /\ ~Shut(t, g)'
  BY <1>0, <1>1 DEF Here, Still, Sent, Shut
<1>3. Onward(g)
  BY <1>0, <1>2, OnwardBy
<1>4. WalkOK(t, g)'
  BY <1>1, <1>2 DEF WalkOK
<1>5. NetOK(g)'
  <2>1. \A m \in net : m.g = g => m.from # t
    BY <1>1 DEF GenOK, NetOK, Sending
  <2> QED  BY <1>0, <2>1, NetMoved DEF GenOK
<1>6. PC(t, g)' \notin {"empty", "init", "rxready", "walk", "post"}
  BY <1>1
<1> QED  BY <1>3, <1>4, <1>5, <1>6, RunKeepsGen

\* run: StageInit is over, and the Run waits for every peer
LEMMA StartTraverseGen ==
    ASSUME RebTypes, NEW t \in Targets, NEW g \in Gens, Order(t), GenOK(g),
           \A u \in Targets : u # t => Same(u), Effects(t, g), StartTraverse(t, g)
    PROVE  GenOK(g)'
<1>0. /\ net' = net /\ ended' = ended /\ run \in RunType /\ reb \in RebType /\ "rxready" \in PCs
      /\ Peers(t) \in SUBSET (Targets \cup Objs)
  BY DEF StartTraverse, xvars, RebTypes, PCs, Peers
<1>1. PC(t, g) = "init" /\ PC(t, g)' = "rxready"
  BY <1>0, MoveStep DEF StartTraverse, At, Moved, PC
<1>2. run'[t][g].left = Peers(t)
  BY <1>0, SMTT(30) DEF StartTraverse, GotoWith, RunType
<1>3. g \notin ended[t]
  BY <1>1 DEF Order, Place
<1>4. ~Still(t, g) /\ Here(t, g)' /\ ~Sent(t, g)' /\ ~Shut(t, g)'
  BY <1>0, <1>1, <1>3 DEF Here, Still, Sent, Shut, Inst
<1>5. Onward(g)
  BY <1>0, <1>4, OnwardBy
<1>6. WalkOK(t, g)'
  BY <1>1, <1>2, <1>4 DEF WalkOK
<1>7. NetOK(g)'
  <2>1. \A m \in net : m.g = g => m.from # t
    BY <1>1 DEF GenOK, NetOK, Sending
  <2>2. "rxready" \in Taking
    BY DEF Taking
  <2> QED  BY <1>0, <1>1, <2>1, <2>2, NetMoved DEF GenOK
<1>8. reb'[t].stage < Fin
  <2>1. reb'[t].stage = Traverse
    BY <1>0, SMTT(30) DEF StartTraverse, RebType, RebRec
  <2> QED  BY <2>1, Stages, SMTT(30)
<1> QED  BY <1>5, <1>6, <1>7, <1>8, RunKeepsGen

\* rxReady is over: every peer is there, and every object to be sent is on the list
LEMMA RxReadyGen ==
    ASSUME RebTypes, NEW t \in Targets, NEW g \in Gens, Order(t), GenOK(g), KeptOK, ~IsAborted(t, g),
           \A u \in Targets : u # t => Same(u), Effects(t, g), RxReady(t, g)
    PROVE  GenOK(g)'
<1>0. /\ net' = net /\ ended' = ended /\ run \in RunType /\ "walk" \in PCs /\ reb' = reb
      /\ Misplaced(t) \in SUBSET (Targets \cup Objs) /\ GotoWith(t, g, "walk", Misplaced(t))
  BY DEF RxReady, xvars, RebTypes, PCs, Misplaced
<1>1. PC(t, g) = "rxready" /\ PC(t, g)' = "walk" /\ run[t][g].left = {}
  <2>1. Moved(t, g, "walk")
    BY <1>0, MoveStep
  <2>2. PC(t, g) = "rxready" /\ run[t][g].left = {}
    BY DEF RxReady, At, PC
  <2> QED  BY <2>1, <2>2 DEF Moved, PC
<1>2. run'[t][g].left = Misplaced(t)
  BY <1>0, SMTT(30) DEF GotoWith, RunType
<1>3. g \notin ended[t]
  BY <1>1 DEF Order, Place
<1>4. ~Still(t, g) /\ Here(t, g)' /\ ~Sent(t, g)' /\ ~Shut(t, g)'
  BY <1>0, <1>1, <1>3 DEF Here, Still, Sent, Shut, Inst
<1>5. Onward(g)
  BY <1>0, <1>4, OnwardBy
<1>6. WalkOK(t, g)'
  <2>1. \A p \in Peers(t) : Here(p, g)
    BY <1>1 DEF GenOK, WalkOK
  <2>2. \A p \in Targets : Here(p, g)'
    BY <1>4, <1>5, <2>1 DEF Peers, Onward
  <2>3. \A o \in Astray(t)' : o \in run'[t][g].left
    BY <1>2 DEF Effects, Astray, Misplaced, KeptOK
  <2> QED  BY <1>1, <1>4, <2>2, <2>3 DEF WalkOK
<1>7. NetOK(g)'
  <2>1. \A m \in net : m.g = g => m.from # t
    BY <1>1 DEF GenOK, NetOK, Sending
  <2>2. "walk" \in Taking
    BY DEF Taking
  <2> QED  BY <1>0, <1>1, <2>1, <2>2, NetMoved DEF GenOK
<1>8. reb'[t].stage < Fin
  BY <1>0, <1>1 DEF GenOK, SeenOK
<1> QED  BY <1>5, <1>6, <1>7, <1>8, RunKeepsGen

\* crossing an item off changes the list alone
LEMMA LeftOnly ==
    ASSUME run \in RunType, NEW t \in Targets, NEW g \in Gens, NEW x, Left(t, g, x)
    PROVE  PC(t, g)' = PC(t, g) /\ run'[t][g].left = run[t][g].left \ {x}
  BY SMTT(30) DEF Left, RunType, PC

\* a Run that stays where it is, but for its list
LEMMA InPlace ==
    ASSUME NEW t, NEW g, PC(t, g)' = PC(t, g), ended'[t] = ended[t], sc' = sc
    PROVE  /\ Here(t, g)' <=> Here(t, g)
           /\ Sent(t, g)' <=> Sent(t, g)
           /\ Still(t, g)' <=> Still(t, g)
           /\ Shut(t, g)' <=> Shut(t, g)
  BY DEF Here, Sent, Still, Shut, Empty

\* a peer that is ready is there: it said so, or reports this generation's ID
LEMMA PeerReadyGen ==
    ASSUME RebTypes, NEW t \in Targets, NEW g \in Gens, NEW p \in Peers(t), Owned(t), GenOK(g),
           \A u \in Targets : u # t => Same(u), Effects(t, g), PeerReady(t, g, p)
    PROVE  GenOK(g)'
<1>0. net' = net /\ ended' = ended /\ reb' = reb /\ run \in RunType /\ Left(t, g, p) /\ p \in Targets
  BY DEF PeerReady, xvars, RebTypes, Peers
<1>1. PC(t, g)' = PC(t, g) /\ run'[t][g].left = run[t][g].left \ {p} /\ PC(t, g) \in {"rxready", "post"}
  <2>1. PC(t, g) \in {"rxready", "post"}
    BY DEF PeerReady, Waiting, At, PC
  <2>2. PC(t, g)' = PC(t, g) /\ run'[t][g].left = run[t][g].left \ {p}
    BY <1>0, LeftOnly, SMTT(30)
  <2> QED  BY <2>1, <2>2, SMTT(30)
<1>2. /\ Here(t, g)' <=> Here(t, g)
      /\ Sent(t, g)' <=> Sent(t, g)
      /\ Still(t, g)' <=> Still(t, g)
      /\ Shut(t, g)' <=> Shut(t, g)
  BY <1>0, <1>1, InPlace DEF Effects
<1>3. Onward(g)
  BY <1>0, <1>2, OnwardBy
<1>4. Here(p, g)
  <2>1. CASE reb[t].peers[p] >= Want(run[t][g].pc)
    <3>1. reb[t].peers[p] # Inactive
      <4>1. Want(run[t][g].pc) \in {2, 3}
        BY Stages DEF Want
      <4> QED  BY <2>1, <4>1, Stages, SMTT(30)
    <3>2. reb[t].id = g
      BY <1>1 DEF Owned, Inst
    <3> QED  BY <3>1, <3>2 DEF GenOK, SeenOK
  <2>2. CASE CheckStage(t, g, p)
    BY <1>0, <2>2 DEF CheckStage, GenOK, SeenOK
  <2> QED  BY <2>1, <2>2 DEF PeerReady
<1>5. WalkOK(t, g)'
  <2>0. WalkOK(t, g)
    BY DEF GenOK
  <2>1. \A q \in Targets : (Here(q, g) => Here(q, g)') /\ (Still(q, g) => Still(q, g)')
    BY <1>3 DEF Onward
  <2>2. PC(t, g)' = "rxready" => \A q \in Peers(t) \ run'[t][g].left : Here(q, g)'
    BY <1>1, <1>4, <2>0, <2>1 DEF WalkOK, Peers
  <2>3. PC(t, g)' # "walk"
    BY <1>1
  <2>4. Sent(t, g)' => \A q \in Targets : Here(q, g)'
    BY <1>2, <2>0, <2>1 DEF WalkOK
  <2>5. Sent(t, g)' => \A o \in Astray(t)' : Moving(o, g)'
    BY <1>2, <1>3, <2>0 DEF WalkOK, Onward, Astray
  <2>6. Shut(t, g)' => \A q \in Targets : Still(q, g)'
    BY <1>2, <2>0, <2>1 DEF WalkOK
  <2> QED  BY <2>2, <2>3, <2>4, <2>5, <2>6 DEF WalkOK
<1>6. NetOK(g)'
  <2>1. \A m \in net : m.g = g /\ m.from = t => PC(t, g)' \in Sending
    BY <1>1 DEF GenOK, NetOK
  <2>2. \A m \in net : m.g = g /\ m.to = t => PC(t, g)' \in Taking \/ Empty(t, g)
    BY <1>1 DEF GenOK, NetOK
  <2> QED  BY <1>0, <2>1, <2>2, NetMoved DEF GenOK
<1>7. PC(t, g)' \in {"empty", "init", "rxready", "walk", "post"} => reb'[t].stage < Fin
  BY <1>0, <1>1 DEF GenOK, SeenOK
<1> QED  BY <1>3, <1>5, <1>6, <1>7, RunKeepsGen

\* RebStatus: nothing happens to g
LEMMA ReadStageGen ==
    ASSUME RebTypes, NEW t \in Targets, NEW g \in Gens, GenOK(g),
           \A u \in Targets : u # t => Same(u), Effects(t, g), \E p \in Peers(t) : ReadStage(t, g, p)
    PROVE  GenOK(g)'
<1>0. net' = net /\ ended' = ended /\ reb' = reb /\ run' = run
  BY DEF ReadStage, xvars
<1>1. \A u \in Targets : Kept(u, g) /\ PC(u, g)' = PC(u, g) /\ (Empty(u, g)' <=> Empty(u, g))
  BY <1>0 DEF Kept, PC, Effects, Empty
<1>2. Onward(g)
  BY <1>0, <1>1, KeptPhases, OnwardBy DEF Effects
<1>3. WalkOK(t, g)'
  BY <1>1, <1>2, KeptWalk DEF GenOK
<1>4. NetOK(g)'
  <2>1. \A m \in net : m.from \in Targets /\ m.to \in Targets
    BY DEF RebTypes, Msgs
  <2> QED  BY <1>0, <1>1, <2>1 DEF GenOK, NetOK
<1>5. PC(t, g)' \in {"empty", "init", "rxready", "walk", "post"} => reb'[t].stage < Fin
  BY <1>0, <1>1 DEF GenOK, SeenOK
<1> QED  BY <1>2, <1>3, <1>4, <1>5, RunKeepsGen

\* doSend: the object is in flight to a target that receives it, since none stops before the
\* sender is past its walk
LEMMA DoSendGen ==
    ASSUME RebTypes, NEW t \in Targets, NEW g \in Gens, NEW o \in Objs, Order(t), GenOK(g), KeptOK, Left(t, g, o),
           \A u \in Targets : u # t => Same(u), Effects(t, g), DoSend(t, g, o),
           net' = net \cup {[from |-> t, to |-> HrwOf[o], g |-> g, obj |-> o]}
    PROVE  GenOK(g)'
<1> DEFINE new == [from |-> t, to |-> HrwOf[o], g |-> g, obj |-> o]
<1>0. /\ ended' = ended /\ reb' = reb /\ run \in RunType /\ net' = net \cup {new}
      /\ HrwOf[o] \in Targets /\ new.from = t /\ new.to = HrwOf[o] /\ new.g = g /\ new.obj = o
  BY RebAssumption DEF DoSend, RebTypes
<1> HIDE DEF new
<1>1. PC(t, g)' = PC(t, g) /\ run'[t][g].left = run[t][g].left \ {o} /\ PC(t, g) = "walk"
  <2>1. PC(t, g) = "walk"
    BY DEF DoSend, At, PC
  <2>2. PC(t, g)' = PC(t, g) /\ run'[t][g].left = run[t][g].left \ {o}
    BY <1>0, LeftOnly, SMTT(30)
  <2> QED  BY <2>1, <2>2, SMTT(30)
<1>2. g \notin ended[t]
  BY <1>1 DEF Order, Place
<1>3. ~Still(t, g) /\ Here(t, g)' /\ ~Sent(t, g)' /\ ~Shut(t, g)'
  BY <1>0, <1>1, <1>2 DEF Here, Still, Sent, Shut, Inst
<1>4. Onward(g)
  BY <1>0, <1>3, OnwardBy
<1>5. WalkOK(t, g)
  BY DEF GenOK
<1>6. WalkOK(t, g)'
  <2>1. \A p \in Targets : Here(p, g)'
    BY <1>1, <1>4, <1>5 DEF WalkOK, Onward
  <2>2. \A x \in Astray(t) : x \in run[t][g].left \/ Moving(x, g)
    BY <1>1, <1>5 DEF WalkOK
  <2>3. \A x \in Astray(t) : Moving(x, g) => Moving(x, g)'
    BY <1>4 DEF Onward, Astray
  <2>4. Moving(o, g)'
    BY <1>0 DEF Moving
  <2>5. Astray(t)' = Astray(t)
    BY <1>4 DEF Onward, Astray
  <2>6. \A x \in Astray(t)' : x \in run'[t][g].left \/ Moving(x, g)'
    BY <1>1, <2>2, <2>3, <2>4, <2>5
  <2> QED  BY <1>1, <1>3, <2>1, <2>6 DEF WalkOK
<1>7. NetOK(g)'
  <2>0. \A m \in net : m.from \in Targets /\ m.to \in Targets
    BY DEF RebTypes, Msgs
  <2>1. \A u \in Targets : PC(u, g)' = PC(u, g) /\ (Empty(u, g)' <=> Empty(u, g))
    BY <1>1 DEF Same, PC, Effects, Empty
  <2>2. PC(HrwOf[o], g) \in Taking \/ Empty(HrwOf[o], g)
    <3>1. Here(HrwOf[o], g)
      BY <1>0, <1>1, <1>5 DEF WalkOK
    <3>2. ~Shut(HrwOf[o], g)
      BY <1>0, <1>3 DEF GenOK, WalkOK
    <3> QED  BY <1>0, <3>1, <3>2 DEF Here, Shut, Inst, Taking, KeptOK
  <2>3. PC(t, g) \in Sending
    BY <1>1 DEF Sending
  <2> QED  BY <1>0, <2>0, <2>1, <2>2, <2>3 DEF GenOK, NetOK
<1>8. PC(t, g)' \in {"empty", "init", "rxready", "walk", "post"} => reb'[t].stage < Fin
  BY <1>0, <1>1 DEF GenOK, SeenOK
<1> QED  BY <1>4, <1>6, <1>7, <1>8, RunKeepsGen

\* objects are passed over, with an entry in the log
LEMMA WalkFailsGen ==
    ASSUME RebTypes, NEW t \in Targets, NEW g \in Gens, Order(t), GenOK(g),
           \A u \in Targets : u # t => Same(u), Effects(t, g), WalkFails(t, g)
    PROVE  GenOK(g)'
<1>0. /\ net' = net /\ ended' = ended /\ reb' = reb /\ run \in RunType /\ "walk" \in PCs
      /\ \A os : run[t][g].left \ os \in SUBSET (Targets \cup Objs)
  BY LeftType DEF WalkFails, xvars, RebTypes, PCs
<1>1. PICK os \in SUBSET (run[t][g].left \cap Objs) :
         GotoWith(t, g, "walk", run[t][g].left \ os) /\ lost' = lost \cup ({g} \X os)
  BY DEF WalkFails
<1>2. PC(t, g) = "walk" /\ PC(t, g)' = "walk"
  <2>1. Moved(t, g, "walk")
    BY <1>0, <1>1, MoveStep
  <2> QED  BY <2>1 DEF WalkFails, At, Moved, PC
<1>3. run'[t][g].left = run[t][g].left \ os
  BY <1>0, <1>1, SMTT(30) DEF GotoWith, RunType
<1>4. g \notin ended[t]
  BY <1>2 DEF Order, Place
<1>5. ~Still(t, g) /\ Here(t, g)' /\ ~Sent(t, g)' /\ ~Shut(t, g)'
  BY <1>0, <1>2, <1>4 DEF Here, Still, Sent, Shut, Inst
<1>6. Onward(g)
  BY <1>0, <1>5, OnwardBy
<1>7. WalkOK(t, g)'
  <2>0. WalkOK(t, g)
    BY DEF GenOK
  <2>1. \A p \in Targets : Here(p, g)'
    BY <1>2, <1>6, <2>0 DEF WalkOK, Onward
  <2>2. \A x \in os : Moving(x, g)'
    BY <1>1 DEF Moving
  <2>3. \A x \in Astray(t)' : x \in run'[t][g].left \/ Moving(x, g)'
    BY <1>2, <1>3, <1>6, <2>0, <2>2 DEF WalkOK, Onward, Astray
  <2> QED  BY <1>2, <1>5, <2>1, <2>3 DEF WalkOK
<1>8. NetOK(g)'
  <2>1. PC(t, g)' \in Sending /\ PC(t, g)' \in Taking
    BY <1>2 DEF Sending, Taking
  <2>2. net' \subseteq net /\ NetOK(g)
    BY <1>0 DEF GenOK
  <2> QED  BY <2>1, <2>2, NetMoved
<1>9. reb'[t].stage < Fin
  BY <1>0, <1>2 DEF GenOK, SeenOK
<1> QED  BY <1>6, <1>7, <1>8, <1>9, RunKeepsGen

\* the walk is over: every object to be sent is delivered or in flight
LEMMA WalkedGen ==
    ASSUME RebTypes, NEW t \in Targets, NEW g \in Gens, Order(t), GenOK(g), ~IsAborted(t, g),
           \A u \in Targets : u # t => Same(u), Effects(t, g), Walked(t, g)
    PROVE  GenOK(g)'
<1>0. /\ net' = net /\ ended' = ended /\ run \in RunType /\ reb \in RebType /\ "post" \in PCs
      /\ Peers(t) \in SUBSET (Targets \cup Objs) /\ GotoWith(t, g, "post", Peers(t)) /\ ChangeStage(t, g, PostTraverse)
  BY DEF Walked, xvars, RebTypes, PCs, Peers
<1>1. PC(t, g) = "walk" /\ PC(t, g)' = "post" /\ run[t][g].left = {}
  <2>1. Moved(t, g, "post")
    BY <1>0, MoveStep
  <2>2. PC(t, g) = "walk" /\ run[t][g].left = {}
    BY DEF Walked, At, PC
  <2> QED  BY <2>1, <2>2 DEF Moved, PC
<1>2. g \notin ended[t]
  BY <1>1 DEF Order, Place
<1>3. ~Still(t, g) /\ Here(t, g)' /\ ~Shut(t, g)'
  BY <1>0, <1>1, <1>2 DEF Here, Still, Shut, Inst
<1>4. Onward(g)
  BY <1>0, <1>3, OnwardBy
<1>5. WalkOK(t, g)'
  <2>0. WalkOK(t, g)
    BY DEF GenOK
  <2>1. \A p \in Targets : Here(p, g)'
    BY <1>1, <1>4, <2>0 DEF WalkOK, Onward
  <2>2. \A o \in Astray(t)' : Moving(o, g)'
    BY <1>1, <1>4, <2>0 DEF WalkOK, Onward, Astray
  <2> QED  BY <1>1, <1>3, <2>1, <2>2 DEF WalkOK
<1>6. NetOK(g)'
  <2>1. PC(t, g)' \in Sending /\ PC(t, g)' \in Taking
    BY <1>1 DEF Sending, Taking
  <2>2. net' \subseteq net /\ NetOK(g)
    BY <1>0 DEF GenOK
  <2> QED  BY <2>1, <2>2, NetMoved
<1>7. reb'[t].stage < Fin
  <2>1. reb'[t].stage = PostTraverse
    BY <1>0, SMTT(30) DEF ChangeStage, RebType, RebRec
  <2> QED  BY <2>1, Stages, SMTT(30)
<1> QED  BY <1>4, <1>5, <1>6, <1>7, RunKeepsGen

\* waitPostTraverse is over
LEMMA PostTraversedGen ==
    ASSUME RebTypes, NEW t \in Targets, NEW g \in Gens, Order(t), GenOK(g),
           \A u \in Targets : u # t => Same(u), Effects(t, g), PostTraversed(t, g)
    PROVE  GenOK(g)'
<1>0. net' = net /\ ended' = ended /\ run \in RunType /\ "quiesce" \in PCs /\ Goto(t, g, "quiesce")
  BY DEF PostTraversed, xvars, RebTypes, PCs
<1>1. PC(t, g) = "post" /\ PC(t, g)' = "quiesce"
  <2>1. Moved(t, g, "quiesce")
    BY <1>0, MoveStep DEF Goto
  <2> QED  BY <2>1 DEF PostTraversed, At, Moved, PC
<1>2. g \notin ended[t]
  BY <1>1 DEF Order, Place
<1>3. ~Still(t, g) /\ Here(t, g)' /\ ~Shut(t, g)' /\ Sent(t, g)
  BY <1>0, <1>1, <1>2 DEF Here, Still, Shut, Sent, Inst
<1>4. Onward(g)
  BY <1>0, <1>3, OnwardBy
<1>5. WalkOK(t, g)'
  <2>0. WalkOK(t, g)
    BY DEF GenOK
  <2>1. \A p \in Targets : Here(p, g)'
    BY <1>3, <1>4, <2>0 DEF WalkOK, Onward
  <2>2. \A o \in Astray(t)' : Moving(o, g)'
    BY <1>3, <1>4, <2>0 DEF WalkOK, Onward, Astray
  <2> QED  BY <1>1, <1>3, <2>1, <2>2 DEF WalkOK
<1>6. NetOK(g)'
  <2>1. PC(t, g)' \in Sending /\ PC(t, g)' \in Taking
    BY <1>1 DEF Sending, Taking
  <2>2. net' \subseteq net /\ NetOK(g)
    BY <1>0 DEF GenOK
  <2> QED  BY <2>1, <2>2, NetMoved
<1>7. PC(t, g)' \notin {"empty", "init", "rxready", "walk", "post"}
  BY <1>1
<1> QED  BY <1>4, <1>5, <1>6, <1>7, RunKeepsGen

\* quicb: a target that has not sent everything is busy
LEMMA NotBusy ==
    ASSUME NEW t \in Targets, NEW g \in Gens, NEW p \in Targets, Order(p), Owned(p), GenOK(g), OneRunning(p), Intact(g),
           ~Busy(t), Here(p, g)
    PROVE  Still(p, g)
<1> SUFFICES ASSUME PC(p, g) \in {"empty", "init", "rxready", "walk", "post"}
             PROVE  FALSE
  BY DEF Here, Still, Inst
<1>1. g \in started[p] /\ g \notin ended[p] /\ g \notin aborted[p] /\ Up(p)
  BY DEF Order, Place, Live, Inst, Intact
<1>2. Running(p) = {g}
  BY <1>1 DEF Running, OneRunning
<1>3. reb[p].xreb = g
  BY DEF Owned, Inst
<1>4. g # 0
  BY SMTT(30) DEF Gens
<1>5. StatusRunning(p)
  BY <1>2, <1>3, <1>4 DEF StatusRunning
<1>6. reb[p].stage < Fin
  BY DEF GenOK, SeenOK
<1> QED  BY <1>1, <1>5, <1>6 DEF Busy

\* Quiesce is over: nothing is in flight to this target, and nobody sends any more
LEMMA QuiescedGen ==
    ASSUME RebTypes, NEW t \in Targets, NEW g \in Gens, \A u \in Targets : Order(u) /\ Owned(u), GenOK(g), KeptOK,
           Intact(g), \A u \in Targets : u # t => Same(u), Effects(t, g), Quiesced(t, g)
    PROVE  GenOK(g)'
<1>0. /\ net' = net /\ ended' = ended /\ run \in RunType /\ "close" \in PCs /\ Goto(t, g, "close")
      /\ ~Busy(t) /\ Arrived(t)
  BY DEF Quiesced, xvars, RebTypes, PCs, Intact, IsAborted, Busy
<1>1. PC(t, g) = "quiesce" /\ PC(t, g)' = "close"
  <2>1. Moved(t, g, "close")
    BY <1>0, MoveStep DEF Goto
  <2> QED  BY <2>1 DEF Quiesced, At, Moved, PC
<1>2. Here(t, g)' /\ Sent(t, g) /\ Still(t, g)'
  BY <1>0, <1>1 DEF Here, Still, Sent, Inst
<1>3. Onward(g)
  BY <1>0, <1>2, OnwardBy
<1>4. WalkOK(t, g)'
  <2>0. WalkOK(t, g)
    BY DEF GenOK
  <2>1. \A p \in Targets : Here(p, g) /\ Here(p, g)'
    BY <1>2, <1>3, <2>0 DEF WalkOK, Onward
  <2>2. \A o \in Astray(t)' : Moving(o, g)'
    BY <1>2, <1>3, <2>0 DEF WalkOK, Onward, Astray
  <2>3. \A p \in Targets : Still(p, g)
    BY <1>0, <2>1, NotBusy DEF KeptOK
  <2>4. \A p \in Targets : Still(p, g)'
    BY <1>3, <2>3 DEF Onward
  <2> QED  BY <1>1, <2>1, <2>2, <2>4 DEF WalkOK
<1>5. NetOK(g)'
  <2>1. PC(t, g)' \in Sending
    BY <1>1 DEF Sending
  <2>2. net' \subseteq net /\ NetOK(g) /\ \A m \in net' : m.to # t
    BY <1>0 DEF GenOK, Arrived
  <2> QED  BY <2>1, <2>2, NetMoved
<1>6. PC(t, g)' \notin {"empty", "init", "rxready", "walk", "post"}
  BY <1>1
<1> QED  BY <1>3, <1>4, <1>5, <1>6, RunKeepsGen

\* endStreams waits for what it has in flight; fini ends the xaction
LEMMA CloseGen ==
    ASSUME RebTypes, NEW t \in Targets, NEW g \in Gens, GenOK(g), ~IsAborted(t, g),
           \A u \in Targets : u # t => Same(u), Effects(t, g), EndStreams(t, g) \/ Fini(t, g)
    PROVE  GenOK(g)'
<1>0. net' = net /\ run \in RunType /\ {"fini", "ret"} \subseteq PCs /\ {} \in SUBSET (Targets \cup Objs)
  BY DEF EndStreams, Fini, RebTypes, PCs
<1>1. /\ PC(t, g) \in {"close", "fini"} /\ PC(t, g)' \in {"fini", "ret"} /\ Still(t, g)' /\ Here(t, g)'
      /\ \A m \in net : m.g = g => m.from # t
  <2>1. CASE EndStreams(t, g)
    <3>1. Moved(t, g, "fini")
      BY <1>0, <2>1, MoveStep DEF EndStreams, Goto
    <3>2. PC(t, g) = "close" /\ \A m \in net : m.from # t
      BY <2>1 DEF EndStreams, At, PC
    <3>3. PC(t, g)' = "fini"
      BY <3>1 DEF Moved, PC
    <3> QED  BY <3>2, <3>3 DEF Still, Here, Inst
  <2>2. CASE Fini(t, g)
    <3>1. Moved(t, g, "ret")
      BY <1>0, <2>2, MoveStep DEF Fini, Goto
    <3>2. PC(t, g) = "fini" /\ g \in ended'[t]
      BY <2>2 DEF Fini, At, PC, RebTypes
    <3>3. PC(t, g)' = "ret"
      BY <3>1 DEF Moved, PC
    <3>4. \A m \in net : m.g = g => m.from # t
      BY <3>2 DEF GenOK, NetOK, Sending
    <3> QED  BY <3>2, <3>3, <3>4 DEF Still, Here
  <2> QED  BY <2>1, <2>2
<1>2. Here(t, g)' /\ Sent(t, g) /\ Still(t, g)' /\ Shut(t, g)
  BY <1>1 DEF Sent, Shut
<1>3. Onward(g)
  BY <1>0, <1>2, OnwardBy
<1>4. WalkOK(t, g)'
  <2>0. WalkOK(t, g)
    BY DEF GenOK
  <2>1. \A p \in Targets : Here(p, g)'
    BY <1>2, <1>3, <2>0 DEF WalkOK, Onward
  <2>2. \A o \in Astray(t)' : Moving(o, g)'
    BY <1>2, <1>3, <2>0 DEF WalkOK, Onward, Astray
  <2>3. \A p \in Targets : Still(p, g)'
    BY <1>2, <1>3, <2>0 DEF WalkOK, Onward
  <2> QED  BY <1>1, <2>1, <2>2, <2>3 DEF WalkOK
<1>5. NetOK(g)'
  <2>1. \A m \in net : m.g = g /\ m.to = t => Empty(t, g)
    BY <1>1 DEF GenOK, NetOK, Taking
  <2>2. net' \subseteq net /\ NetOK(g)
    BY <1>0 DEF GenOK
  <2> QED  BY <1>0, <1>1, <2>1, <2>2, NetMoved
<1>6. PC(t, g)' \notin {"empty", "init", "rxready", "walk", "post"}
  BY <1>1
<1> QED  BY <1>3, <1>4, <1>5, <1>6, RunKeepsGen

\* the steps that give generation g up
LEMMA GivenUp ==
    ASSUME RebTypes, NEW t \in Targets, NEW g \in Gens, Order(t), Intact(g)',
           \/ InitRenewFails(t, g)
           \/ \E p \in Targets : PeerLate(t, g, p) \/ PeerGone(t, g, p) \/ QuiesceGone(t, g, p)
    PROVE  FALSE
<1>0. aborted \in [Targets -> SUBSET Gens] /\ "late" \notin odd' /\ g \notin aborted'[t]
  BY DEF RebTypes, Intact
<1>1. CASE \E p \in Targets : PeerLate(t, g, p)
  BY <1>0, <1>1 DEF PeerLate, TimeOut
<1>2. CASE \/ InitRenewFails(t, g)
           \/ \E p \in Targets : PeerGone(t, g, p) \/ QuiesceGone(t, g, p)
  <2>1. Aborting(t, {g})
    BY <1>2 DEF InitRenewFails, Fails, PeerGone, QuiesceGone, AbortBy
  <2>2. PC(t, g) # "ret"
    BY <1>2 DEF InitRenewFails, PeerGone, QuiesceGone, Waiting, At, PC
  <2>3. g \notin ended[t]
    BY <2>2 DEF Order, Place
  <2> QED  BY <1>0, <2>1, <2>3, AbortingAdds
<1> QED  BY <1>1, <1>2

\* the Run of g on t takes a step
LEMMA OwnGen ==
    ASSUME RebTypes, NEW t \in Targets, NEW g \in Gens, \A u \in Targets : Order(u) /\ Owned(u), GenOK(g), KeptOK,
           Order(t)', Intact(g), Intact(g)',
           RecvRMD(t, g) \/ Run(t, g) \/ (\E p \in Peers(t) : ReadStage(t, g, p))
    PROVE  GenOK(g)'
<1>0. Effects(t, g) /\ (\A u \in Targets : u # t => Same(u)) /\ Order(t) /\ Owned(t) /\ ~IsAborted(t, g)
  BY RunEffects, Local DEF Intact, IsAborted
<1>1. CASE RecvRMD(t, g) \/ Preempt(t, g) \/ Poll(t, g) \/ Pingall(t, g) \/ Renew(t, g)
  BY <1>0, <1>1, BeforeGen
<1>2. CASE RenewDM(t, g)
  BY <1>0, <1>2, RenewDMGen
<1>3. CASE StartTraverse(t, g)
  BY <1>0, <1>3, StartTraverseGen
<1>4. CASE RxReady(t, g)
  BY <1>0, <1>4, RxReadyGen
<1>5. CASE Walked(t, g)
  BY <1>0, <1>5, WalkedGen
<1>6. CASE PostTraversed(t, g)
  BY <1>0, <1>6, PostTraversedGen
<1>7. CASE Quiesced(t, g)
  BY <1>0, <1>7, QuiescedGen
<1>8. CASE EndStreams(t, g) \/ Fini(t, g)
  BY <1>0, <1>8, CloseGen
<1>9. CASE \E p \in Peers(t) : PeerReady(t, g, p)
  BY <1>0, <1>9, PeerReadyGen
<1>10. CASE \E p \in Peers(t) : ReadStage(t, g, p)
  BY <1>0, <1>10, ReadStageGen
<1>11. ASSUME NEW o \in Objs, DoSend(t, g, o)
       PROVE  GenOK(g)'
  <2>1. CASE Left(t, g, o) /\ net' = net \cup {[from |-> t, to |-> HrwOf[o], g |-> g, obj |-> o]}
    BY <1>0, <1>11, <2>1, DoSendGen
  <2>2. CASE Aborting(t, {g})
    <3>1. g \notin ended[t]
      BY <1>0, <1>11 DEF DoSend, At, PC, Order, Place
    <3> QED  BY <2>2, <3>1, AbortingAdds DEF RebTypes, Intact
  <2> QED  BY <1>11, <2>1, <2>2 DEF DoSend
<1>12. CASE InitRenewFails(t, g) \/ \E p \in Peers(t) : PeerLate(t, g, p) \/ PeerGone(t, g, p) \/ QuiesceGone(t, g, p)
  BY <1>0, <1>12, GivenUp DEF Peers
<1>13. CASE RenewEmpty(t, g)
  BY <1>0, <1>13, RenewEmptyGen
<1>14. CASE NothingToDo(t, g)
  BY <1>0, <1>14, NothingToDoGen
<1>15. CASE WalkFails(t, g)
  BY <1>0, <1>15, WalkFailsGen
<1> QED
  BY <1>1, <1>2, <1>3, <1>4, <1>5, <1>6, <1>7, <1>8, <1>9, <1>10, <1>11, <1>12, <1>13, <1>14, <1>15 DEF Run

-----------------------------------------------------------------------------
(* delivery: the network, and the theorem *)

\* an object leaves the network, and if it is of generation g, it has come as far as it will
LEMMA TakenGen ==
    ASSUME RebTypes, NEW g \in Gens, GenOK(g), Outside, NEW m \in net, net' = net \ {m}, reb' = reb, told' = told,
           m.g = g /\ m.to = HrwOf[m.obj] => Moving(m.obj, g)'
    PROVE  GenOK(g)'
<1>0. run' = run /\ ended' = ended /\ sc' = sc /\ lost \subseteq lost' /\ \A u \in Targets : has[u] \subseteq has'[u]
  BY DEF Outside
<1>1. \A p \in Targets : Kept(p, g) /\ PC(p, g)' = PC(p, g)
  BY <1>0 DEF Kept, PC
<1>2. ASSUME NEW o \in sc.objs, Moving(o, g)
      PROVE  Moving(o, g)'
  <2>0. HrwOf[o] \in Targets
    BY RebAssumption DEF RebTypes
  <2>1. CASE o \in has[HrwOf[o]]
    BY <1>0, <2>0, <2>1 DEF Moving
  <2>2. CASE <<g, o>> \in lost \/ Empty(HrwOf[o], g)
    BY <1>0, <2>2 DEF Moving, Empty
  <2>3. CASE \E x \in net : x.obj = o /\ x.to = HrwOf[o] /\ x.g = g
    <3>1. PICK x \in net : x.obj = o /\ x.to = HrwOf[o] /\ x.g = g
      BY <2>3
    <3>2. CASE x = m
      BY <3>1, <3>2
    <3>3. CASE x # m
      BY <3>1, <3>3 DEF Moving
    <3> QED  BY <3>2, <3>3
  <2> QED  BY <1>2, <2>1, <2>2, <2>3 DEF Moving
<1>3. Onward(g)
  BY <1>0, <1>1, <1>2, KeptPhases DEF Onward
<1>4. \A u \in Targets : WalkOK(u, g)'
  BY <1>1, <1>3, KeptWalk DEF GenOK
<1>5. \A u \in Targets : SeenOK(u, g)'
  BY <1>0 DEF GenOK, SeenOK, Here, PC
<1>6. NetOK(g)' /\ ToldOK(g)'
  BY <1>0 DEF GenOK, NetOK, ToldOK, Here, PC, Empty
<1> QED  BY <1>4, <1>5, <1>6 DEF GenOK

\* recvObj: an object of an intact generation finds its receiver, if that has streams
LEMMA RecvObjGen ==
    ASSUME RebTypes, NEW g \in Gens, \A u \in Targets : Order(u) /\ Owned(u), GenOK(g), Intact(g), Intact(g)',
           NEW m \in net, RecvObj(m)
    PROVE  GenOK(g)'
<1>0. /\ reb' = reb /\ told' = told /\ sc' = sc /\ net' = net \ {m}
      /\ has \in [Targets -> SUBSET Objs] /\ aborted \in [Targets -> SUBSET Gens] /\ m.to \in Targets
  BY DEF RecvObj, RebTypes, Msgs
<1>1. Outside
  BY OutsideStep
<1>2. ASSUME m.g = g, m.to = HrwOf[m.obj]
      PROVE  Moving(m.obj, g)'
  <2>0. CASE Empty(m.to, g)
    BY <1>0, <1>2, <2>0 DEF Moving, Empty
  <2>1. CASE PC(m.to, g) \in Taking
    <3>2. reb[m.to].id = g /\ reb[m.to].xreb = g /\ reb[m.to].reg = g
      BY <1>0, <2>1 DEF Owned, Taking, Inst
    <3>3. g \notin ended[m.to] /\ g \notin aborted[m.to] /\ Up(m.to)
      BY <1>0, <2>1 DEF Order, Place, Taking, Intact
    <3>4. g # 0
      BY SMTT(30) DEF Gens
    <3>5. Receiving(m.to) /\ m.g = reb[m.to].id
      BY <1>2, <3>2, <3>3, <3>4 DEF Receiving
    <3>6. has' = [has EXCEPT ![m.to] = @ \cup {m.obj}] \/ Aborting(m.to, {m.g}) \/ LogOnly(m.g, m.obj)
      BY <3>5 DEF RecvObj
    <3>7. ~Aborting(m.to, {m.g})
      BY <1>0, <1>2, <3>3, AbortingAdds DEF Intact
    <3>8. m.obj \in has'[m.to] \/ <<g, m.obj>> \in lost'
      BY <1>0, <1>2, <3>6, <3>7 DEF LogOnly
    <3> QED  BY <1>2, <3>8 DEF Moving
  <2> QED  BY <1>2, <2>0, <2>1 DEF GenOK, NetOK
<1> QED  BY <1>0, <1>1, <1>2, TakenGen

\* objSentCallback: a lost object is in the log
LEMMA LoseGen ==
    ASSUME RebTypes, NEW g \in Gens, GenOK(g), NEW m \in net, Lose(m)
    PROVE  GenOK(g)'
<1>1. Outside
  BY OutsideStep
<1>2. reb' = reb /\ told' = told /\ net' = net \ {m}
  BY DEF Lose
<1>3. m.g = g => Moving(m.obj, g)'
  BY DEF Lose, LogOnly, Moving
<1> QED  BY <1>1, <1>2, <1>3, TakenGen

\* recvAckNtfn: what a peer says of itself is true
LEMMA RecvNtfnGen ==
    ASSUME RebTypes, NEW g \in Gens, GenOK(g), NEW n \in told, NEW t \in Targets, RecvNtfn(t, n[1], n[2], n[3])
    PROVE  GenOK(g)'
<1>0. /\ run' = run /\ ended' = ended /\ told' = told /\ sc' = sc /\ net' = net /\ has' = has /\ lost' = lost
      /\ reb \in RebType
      /\ told \subseteq Targets \X Gens \X (Inactive..StageAbort)
  BY DEF RecvNtfn, RebTypes
<1>1. n[1] \in Targets /\ n[3] \in Inactive..StageAbort
  BY <1>0
<1>2. \A p \in Targets : Kept(p, g) /\ PC(p, g)' = PC(p, g) /\ (Here(p, g)' <=> Here(p, g))
  BY <1>0 DEF Kept, PC, Here
<1>3. Onward(g)
  BY <1>0, <1>2, KeptPhases, MovingKept DEF Onward
<1>4. \A u \in Targets : WalkOK(u, g)'
  BY <1>2, <1>3, KeptWalk DEF GenOK
<1>5. NetOK(g)' /\ ToldOK(g)'
  BY <1>0 DEF GenOK, NetOK, ToldOK, Here, PC, Empty
<1>6. ASSUME NEW u \in Targets
      PROVE  SeenOK(u, g)'
  <2>0. SeenOK(u, g)
    BY DEF GenOK
  <2>1. CASE reb'[u] = reb[u]
    BY <1>2, <2>0, <2>1 DEF SeenOK, Peers
  <2>2. CASE u = t /\ n[2] = reb[t].id /\ reb' = [reb EXCEPT ![t].peers[n[1]] = n[3]]
    <3>1. reb'[t].id = reb[t].id /\ reb'[t].stage = reb[t].stage
      BY <1>0, <1>1, <2>2, SMTT(30) DEF RebType, RebRec
    <3>2. \A p \in Targets : p # n[1] => reb'[t].peers[p] = reb[t].peers[p]
      BY <1>0, <1>1, <2>2, SMTT(30) DEF RebType, RebRec
    <3>3. reb[t].id = g => Here(n[1], g)
      BY <2>2 DEF GenOK, ToldOK
    <3>4. PC(t, g)' \in {"empty", "init", "rxready", "walk", "post"} => reb'[t].stage < Fin
      BY <1>2, <2>0, <2>2, <3>1 DEF SeenOK
    <3>5. reb'[t].id = g => Here(t, g)' /\ \A p \in Peers(t) : reb'[t].peers[p] # Inactive => Here(p, g)'
      BY <1>1, <1>2, <2>0, <2>2, <3>1, <3>2, <3>3 DEF SeenOK, Peers
    <3> QED  BY <2>2, <3>4, <3>5 DEF SeenOK
  <2>3. reb'[u] = reb[u] \/ (u = t /\ n[2] = reb[t].id /\ reb' = [reb EXCEPT ![t].peers[n[1]] = n[3]])
    BY <1>0 DEF RecvNtfn, RebType
  <2> QED  BY <2>1, <2>2, <2>3
<1> QED  BY <1>4, <1>5, <1>6 DEF GenOK

\* nothing of what the invariant is about changes
LEMMA IdleGen ==
    ASSUME NEW g \in Gens, GenOK(g), run' = run, reb' = reb, ended' = ended, told' = told, net' = net, has' = has, sc' = sc,
           lost' = lost
    PROVE  GenOK(g)'
<1>1. \A p \in Targets : Kept(p, g)
  BY DEF Kept
<1>2. Onward(g)
  BY <1>1, KeptPhases, MovingKept DEF Onward
<1>3. \A t \in Targets : WalkOK(t, g)'
  BY <1>1, <1>2, KeptWalk DEF GenOK
<1>4. \A t \in Targets : SeenOK(t, g)'
  BY DEF GenOK, SeenOK, Here, PC
<1>5. NetOK(g)' /\ ToldOK(g)'
  BY DEF GenOK, NetOK, ToldOK, Here, PC, Empty
<1> QED  BY <1>3, <1>4, <1>5 DEF GenOK

\* DeliveryInv is inductive
LEMMA DeliveryStep ==
    ASSUME ~Overlaps, UserGens = {}, RebTypes, OwnerInv, OwnerInv', DeliveryInv, [RebNext]_vars
    PROVE  DeliveryInv'
<1>1. KeptOK'
  BY KeptStep DEF DeliveryInv
<1>2. ASSUME NEW g \in Gens, Intact(g)'
      PROVE  GenOK(g)'
  <2>0. Intact(g) /\ GenOK(g) /\ KeptOK
    BY <1>2, IntactBefore DEF DeliveryInv
  <2>1. \A u \in Targets : Order(u) /\ Owned(u)
    BY <2>0 DEF OwnerInv, Sound, Intact
  <2>2. \A u \in Targets : Order(u)'
    BY <1>2 DEF OwnerInv, Sound, Intact
  <2>3. CASE UNCHANGED vars
    BY <2>0, <2>3, IdleGen DEF vars, xvars
  <2>4. ASSUME NEW t \in Targets, NEW h \in Gens,
               RecvRMD(t, h) \/ Run(t, h) \/ (\E p \in Peers(t) : ReadStage(t, h, p))
        PROVE  GenOK(g)'
    <3>1. CASE h = g
      BY <1>2, <2>0, <2>1, <2>2, <2>4, <3>1, OwnGen
    <3>2. CASE h # g
      BY <2>0, <2>1, <2>4, <3>2, OtherGen
    <3> QED  BY <3>1, <3>2
  <2>5. CASE \E m \in net : RecvObj(m)
    BY <1>2, <2>0, <2>1, <2>5, RecvObjGen
  <2>6. CASE \E n \in told, t \in Targets : RecvNtfn(t, n[1], n[2], n[3])
    BY <2>0, <2>6, RecvNtfnGen
  <2>7. CASE \E t \in Targets : Stop(t)
    BY <2>0, <2>7, IdleGen DEF Stop
  <2>8. CASE \E m \in net : Lose(m)
    BY <2>0, <2>8, LoseGen
  <2>9. CASE \E t \in Targets : Crash(t)
    BY <1>2, <2>9 DEF Crash, Intact, Up
  <2> QED  BY <2>3, <2>4, <2>5, <2>6, <2>7, <2>8, <2>9 DEF RebNext
<1> QED  BY <1>1, <1>2 DEF DeliveryInv

\* nothing has begun
LEMMA DeliveryInit == RebInit => DeliveryInv
<1> SUFFICES ASSUME RebInit
             PROVE  DeliveryInv
  OBVIOUS
<1>1. \A t \in Targets : ended[t] = {} /\ started[t] = {} /\ net = {} /\ told = {} /\ down = {}
  BY DEF RebInit
<1>2. \A o \in sc.objs : o \in has[HomeOf[o]]
  BY RebAssumption DEF RebInit
<1>3. KeptOK
  BY <1>1, <1>2 DEF KeptOK, OneRunning, Running, Up, RebInit, PC, NoRun
<1>4. ASSUME NEW g \in Gens
      PROVE  GenOK(g)
  <2>1. \A t \in Targets : PC(t, g) = "none"
    BY DEF RebInit, PC, NoRun
  <2>2. \A t \in Targets : reb[t].id # g
    <3>1. \A t \in Targets : reb[t].id = 0
      BY DEF RebInit, Idle
    <3>2. g # 0
      BY SMTT(30) DEF Gens
    <3> QED  BY <3>1, <3>2
  <2>3. \A t \in Targets : WalkOK(t, g)
    BY <1>1, <2>1 DEF WalkOK, Sent, Shut
  <2>4. \A t \in Targets : SeenOK(t, g)
    BY <2>1, <2>2 DEF SeenOK
  <2> QED  BY <2>3, <2>4 DEF GenOK, NetOK, ToldOK, RebInit
<1> QED  BY <1>3, <1>4 DEF DeliveryInv

\* what the invariant says once a generation has ended everywhere
LEMMA DeliveryMeans == RebTypes /\ OwnerInv /\ DeliveryInv => Delivered
<1> SUFFICES ASSUME RebTypes, OwnerInv, DeliveryInv, odd = {},
                    NEW g \in Gens, \A t \in Targets : g \in ended[t] \ aborted[t],
                    NEW o \in sc.objs, <<g, o>> \notin lost, ~Empty(HomeOf[o], g), ~Empty(HrwOf[o], g)
             PROVE  o \in has[HrwOf[o]]
  BY DEF Delivered
<1>0. HomeOf[o] \in Targets /\ HrwOf[o] \in Targets
  BY RebAssumption DEF RebTypes
<1>1. Intact(g)
  BY DEF DeliveryInv, KeptOK, Intact
<1>2. GenOK(g)
  BY <1>1 DEF DeliveryInv
<1>3. CASE HrwOf[o] = HomeOf[o]
  BY <1>3 DEF DeliveryInv, KeptOK
<1>4. CASE HrwOf[o] # HomeOf[o]
  <2>1. o \in Astray(HomeOf[o]) /\ Sent(HomeOf[o], g)
    BY <1>0, <1>4 DEF Astray, Sent
  <2>2. Moving(o, g)
    BY <1>0, <1>2, <2>1 DEF GenOK, WalkOK
  <2>3. PC(HrwOf[o], g) = "ret"
    BY <1>0, <1>1 DEF OwnerInv, Sound, Intact, Order, Place
  <2>4. ~\E m \in net : m.to = HrwOf[o] /\ m.g = g
    BY <1>2, <2>3 DEF GenOK, NetOK, Taking
  <2> QED  BY <2>2, <2>4 DEF Moving
<1> QED  BY <1>3, <1>4

\* rebalancing delivers, for any number of targets, generations, objects and faults: as long
\* as no wait timed out, a generation that ended everywhere without abort has moved every
\* misplaced object but those that it gave up with an entry in the log (the errors that a
\* jogger, recvObj and objSentCallback only log) and those of a target without a bucket
THEOREM AllDelivered ==
    ASSUME ~Overlaps, UserGens = {}
    PROVE  RebSpec => []Delivered
<1>1. RebInit => RebTypes /\ OwnerInv /\ DeliveryInv
  BY OwnerInit, DeliveryInit
<1>2. RebTypes /\ OwnerInv /\ DeliveryInv /\ [RebNext]_vars => (RebTypes /\ OwnerInv /\ DeliveryInv)'
  <2>1. RebTypes /\ OwnerInv /\ [RebNext]_vars => RebTypes' /\ OwnerInv'
    BY TypeStep, OwnerStep
  <2> QED  BY <2>1, DeliveryStep
<1>3. RebTypes /\ OwnerInv /\ DeliveryInv => Delivered
  BY DeliveryMeans
<1> QED  BY <1>1, <1>2, <1>3, PTL DEF RebSpec
=============================================================================
