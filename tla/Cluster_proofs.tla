--------------------------- MODULE Cluster_proofs ---------------------------
(***************************************************************************)
(* The cluster's metadata, and who is in charge of it.                     *)
(*                                                                         *)
(* Metasync, for any number of nodes, tags, callers, retries and faults:   *)
(* what the metasyncer sends for a tag is never older than what it sent    *)
(* before, and nodesRevs claims for a node only what the node has, unless  *)
(* a refused notification is retried.  Both rest on the same fact:         *)
(* whatever a caller made, a request carries or lastSynced holds is at     *)
(* most the current version (Ordered), so that jit replaces it by exactly  *)
(* that one.                                                               *)
(*                                                                         *)
(* Vote, for any number of proxies and targets, crashes, lost connections  *)
(* and lost answers: no node ever goes back to an older Smap               *)
(* (the invariant is that every Smap a node, an onPrimaryDown or an        *)
(* election works with is one), and OneLeader.                             *)
(*                                                                         *)
(* OneLeader rests on two invariants.  Settled: while the first primary is *)
(* up and every proxy can reach it, nobody knows another one and every     *)
(* election ends at its ping.  Orderly: while nothing is lost, nobody who  *)
(* is up is missing from an Smap, so that all agree on who is the next in  *)
(* line; an election that gets beyond its ping is run by the highest proxy *)
(* that is up (Top), and Top is one.  The votes play no part in it: they   *)
(* matter only once connections are lost.                                  *)
(***************************************************************************)
EXTENDS Metasync, Vote, FiniteSetTheorems, WellFoundedInduction, TLAPS

\* leaves are for Zenon, those with arithmetic or records for SMT
USE ZenonT(30)

-----------------------------------------------------------------------------
(* Metasync: versions *)

\* versions of some of the tags
Vers == UNION {[D -> Nat] : D \in SUBSET Tags}

Req == {NilReq} \cup [nil: {FALSE}, ty: {"sync", "notify"}, pairs: Vers, by: Callers \cup {Nobody}]

Below(v) == \A tag \in DOMAIN v : v[tag] <= cur[tag]

Ordered ==
    /\ cur \in [Tags -> Nat]
    /\ made \in [Callers -> Vers] /\ \A c \in Callers : Below(made[c])
    /\ workCh \in Seq(Req)
    /\ \A i \in 1..Len(workCh) : workCh[i] # NilReq => Below(workCh[i].pairs)
    /\ lastSynced \in Vers /\ Below(lastSynced)

\* what Vers means
LEMMA VersOf == ASSUME NEW v \in Vers
                PROVE /\ DOMAIN v \subseteq Tags /\ v \in [DOMAIN v -> Nat]
                      /\ \A tag \in DOMAIN v : v[tag] \in Nat
<1>1. PICK D \in SUBSET Tags : v \in [D -> Nat]
  BY DEF Vers
<1> QED
  BY <1>1

\* a map of versions over some of the tags is one of Vers
LEMMA VersIntro == ASSUME NEW D \in SUBSET Tags, NEW v \in [D -> Nat] PROVE v \in Vers
  BY DEF Vers

\* the later versions win
LEMMA MergeVers == ASSUME NEW f \in Vers, NEW g \in Vers
                   PROVE /\ Merge(f, g) \in Vers /\ DOMAIN Merge(f, g) = DOMAIN f \cup DOMAIN g
                         /\ \A tag \in DOMAIN g : Merge(f, g)[tag] = g[tag]
                         /\ \A tag \in DOMAIN f \ DOMAIN g : Merge(f, g)[tag] = f[tag]
<1>1. DOMAIN f \cup DOMAIN g \in SUBSET Tags
  BY VersOf
<1>2. Merge(f, g) \in [DOMAIN f \cup DOMAIN g -> Nat]
  BY VersOf DEF Merge
<1> QED
  BY <1>1, <1>2, VersIntro DEF Merge

\* merging two sets of payloads takes each version from one of them
LEMMA MergeBelow == ASSUME NEW f \in Vers, NEW g \in Vers, Below(f), Below(g)
                    PROVE Merge(f, g) \in Vers /\ Below(Merge(f, g))
<1>1. Merge(f, g) \in Vers
  BY MergeVers
<1>2. ASSUME NEW tag \in DOMAIN Merge(f, g) PROVE Merge(f, g)[tag] <= cur[tag]
  <2>0. tag \in DOMAIN f \cup DOMAIN g
    BY <1>2 DEF Merge
  <2>1. CASE tag \in DOMAIN g
    BY <2>1 DEF Below, Merge
  <2>2. CASE tag \in DOMAIN f \ DOMAIN g
    BY <2>2 DEF Below, Merge
  <2> QED
    BY <2>0, <2>1, <2>2
<1> QED
  BY <1>1, <1>2 DEF Below

\* no version is at most the current one
LEMMA NoVersBelow == NoVers \in Vers /\ Below(NoVers) /\ DOMAIN NoVers = {}
  BY VersIntro DEF NoVers, Below, Vers

\* jit sends the current version of what is not newer than it
LEMMA JitCurrent == ASSUME cur \in [Tags -> Nat], NEW v \in Vers
                    PROVE /\ jit(v) \in Vers /\ DOMAIN jit(v) = DOMAIN v
                          /\ \A tag \in DOMAIN v : v[tag] <= jit(v)[tag]
                          /\ Below(v) => \A tag \in DOMAIN v : jit(v)[tag] = cur[tag]
<1>1. /\ DOMAIN v \in SUBSET Tags /\ \A tag \in DOMAIN v : v[tag] \in Nat /\ cur[tag] \in Nat
  BY VersOf
<1>2. jit(v) = [tag \in DOMAIN v |-> IF cur[tag] > v[tag] THEN cur[tag] ELSE v[tag]]
  BY DEF jit
<1>3. jit(v) \in [DOMAIN v -> Nat]
  BY <1>1, <1>2
<1>4. ASSUME NEW tag \in DOMAIN v PROVE v[tag] <= jit(v)[tag] /\ (v[tag] <= cur[tag] => jit(v)[tag] = cur[tag])
  <2>1. jit(v)[tag] = IF cur[tag] > v[tag] THEN cur[tag] ELSE v[tag]
    BY <1>2
  <2>2. v[tag] \in Nat /\ cur[tag] \in Nat
    BY <1>1
  <2> QED
    BY <2>1, <2>2, SMTT(30)
<1> QED
  BY <1>1, <1>2, <1>3, <1>4, VersIntro DEF Below

\* a queue with one request more
LEMMA Queued == ASSUME Ordered, NEW r \in Req, r # NilReq => Below(r.pairs)
                PROVE /\ Append(workCh, r) \in Seq(Req)
                      /\ \A i \in 1..Len(Append(workCh, r)) :
                            Append(workCh, r)[i] # NilReq => Below(Append(workCh, r)[i].pairs)
<1>1. workCh \in Seq(Req)
  BY DEF Ordered
<1>2. Append(workCh, r) \in Seq(Req)
  BY <1>1, SMTT(30)
<1>3. \A i \in 1..Len(Append(workCh, r)) :
         (i \in 1..Len(workCh) /\ Append(workCh, r)[i] = workCh[i]) \/ Append(workCh, r)[i] = r
  BY <1>1, SMTT(30)
<1> QED
  BY <1>2, <1>3 DEF Ordered

\* ... and one less
LEMMA Dequeued == ASSUME Ordered, workCh # <<>>
                  PROVE /\ Tail(workCh) \in Seq(Req)
                        /\ \A i \in 1..Len(Tail(workCh)) : Tail(workCh)[i] # NilReq => Below(Tail(workCh)[i].pairs)
                        /\ Head(workCh) \in Req /\ (Head(workCh) # NilReq => Below(Head(workCh).pairs))
<1>1. workCh \in Seq(Req)
  BY DEF Ordered
<1>2. Tail(workCh) \in Seq(Req) /\ Head(workCh) \in Req /\ Head(workCh) = workCh[1] /\ 1 \in 1..Len(workCh)
  BY <1>1, SMTT(30)
<1>3. \A i \in 1..Len(Tail(workCh)) : i + 1 \in 1..Len(workCh) /\ Tail(workCh)[i] = workCh[i + 1]
  BY <1>1, SMTT(30)
<1> QED
  BY <1>2, <1>3 DEF Ordered

\* owner.X.modify: the versions made are the current ones, which only grow
LEMMA ModifyOrdered == ASSUME Ordered, NEW c \in Callers, Modify(c) PROVE Ordered'
<1> DEFINE tag == IF KindOf[c] = "bmd" THEN "BMD" ELSE "Smap"
           all == [cur EXCEPT ![tag] = @ + 1]
           new == IF KindOf[c] = "join" THEN all ELSE [t \in {tag} |-> all[t]]
<1>1. cur' = all /\ made' = [made EXCEPT ![c] = new] /\ UNCHANGED <<workCh, lastSynced>>
  BY DEF Modify
<1>2. tag \in Tags
  BY MSAssumption DEF MSAssumption
<1> HIDE DEF tag
<1>3. all \in [Tags -> Nat] /\ \A t \in Tags : cur[t] <= all[t]
  BY <1>2, SMTT(30) DEF Ordered
<1>4. new \in Vers /\ \A t \in DOMAIN new : new[t] <= all[t]
  <2>1. \A t \in Tags : all[t] \in Nat /\ all[t] <= all[t]
    BY <1>3, SMTT(30)
  <2> HIDE DEF all
  <2>2. CASE KindOf[c] = "join"
    BY <1>3, <2>1, <2>2, VersIntro DEF Ordered
  <2>3. CASE KindOf[c] # "join"
    <3>1. [t \in {tag} |-> all[t]] \in [{tag} -> Nat] /\ {tag} \in SUBSET Tags
      BY <1>2, <2>1
    <3> QED
      BY <1>2, <2>1, <2>3, <3>1, VersIntro
  <2> QED
    BY <2>2, <2>3
<1> HIDE DEF all, new
<1>5. ASSUME NEW v \in Vers, Below(v) PROVE \A t \in DOMAIN v : v[t] <= cur'[t]
  <2>1. \A t \in DOMAIN v : v[t] \in Nat /\ cur[t] \in Nat /\ all[t] \in Nat /\ v[t] <= cur[t] /\ cur[t] <= all[t]
    BY <1>3, <1>5, VersOf DEF Ordered, Below
  <2> QED
    BY <1>1, <2>1, SMTT(30)
<1>6. made' \in [Callers -> Vers] /\ \A d \in Callers : Below(made[d])'
  BY <1>1, <1>4, <1>5 DEF Ordered, Below
<1>7. \A i \in 1..Len(workCh) : workCh[i] # NilReq => workCh[i].pairs \in Vers
  <2>1. \A i \in 1..Len(workCh) : workCh[i] \in Req
    BY SMTT(30) DEF Ordered
  <2> QED
    BY <2>1 DEF Req
<1> QED
  BY <1>1, <1>3, <1>5, <1>6, <1>7 DEF Ordered, Below

\* so do the other steps; do merges current versions into lastSynced
LEMMA OrderedStep == ASSUME Ordered, Next PROVE Ordered'
<1> USE DEF callvars, envvars
<1>1. ASSUME NEW c \in Callers, Caller(c) PROVE Ordered'
  <2>1. CASE Check(c)
    BY <2>1 DEF Check, Ordered, Below
  <2>2. CASE Send(c)
    <3> DEFINE r == [nil |-> FALSE, ty |-> "sync", pairs |-> made[c], by |-> c]
    <3>1. r \in Req /\ r # NilReq /\ Below(r.pairs)
      BY DEF Req, NilReq, Ordered
    <3>2. workCh' = Append(workCh, r) /\ UNCHANGED <<cur, made, lastSynced>>
      BY <2>2 DEF Send
    <3> HIDE DEF r
    <3> QED
      BY <3>1, <3>2, Queued DEF Ordered, Below
  <2>3. CASE SendNotify(c)
    <3> DEFINE r == [nil |-> FALSE, ty |-> "notify", pairs |-> made[c], by |-> Nobody]
    <3>1. r \in Req /\ r # NilReq /\ Below(r.pairs)
      BY DEF Req, NilReq, Ordered
    <3>2. workCh' = Append(workCh, r) /\ UNCHANGED <<cur, made, lastSynced>>
      BY <2>3 DEF SendNotify
    <3> HIDE DEF r
    <3> QED
      BY <3>1, <3>2, Queued DEF Ordered, Below
  <2> QED
    BY <1>1, <2>1, <2>2, <2>3, ModifyOrdered DEF Caller
<1>2. CASE Reset
  BY <1>2, Dequeued, NoVersBelow DEF Reset, Ordered, Below
<1>3. CASE Do
  <2> DEFINE req == Head(workCh)
  <2>0. ~req.nil /\ NilReq.nil
    BY <1>3 DEF Do, NilReq
  <2>1. /\ req \in Req \ {NilReq} /\ Below(req.pairs) /\ workCh' = Tail(workCh) /\ UNCHANGED <<cur, made>>
        /\ lastSynced' = lastSynced \/ lastSynced' = Merge(lastSynced, jit(req.pairs))
    BY <1>3, <2>0, Dequeued DEF Do
  <2>2. req.pairs \in Vers
    BY <2>1 DEF Req
  <2>3. jit(req.pairs) \in Vers /\ \A tag \in DOMAIN jit(req.pairs) : jit(req.pairs)[tag] = cur[tag]
    BY <2>1, <2>2, JitCurrent DEF Ordered
  <2> HIDE DEF req
  <2>4. \A tag \in Tags : cur[tag] <= cur[tag]
    BY SMTT(30) DEF Ordered
  <2>5. Merge(lastSynced, jit(req.pairs)) \in Vers /\ Below(Merge(lastSynced, jit(req.pairs)))
    <3> DEFINE j == jit(req.pairs)
    <3>1. lastSynced \in Vers /\ j \in Vers /\ DOMAIN j \subseteq Tags
      BY <2>3, VersOf DEF Ordered
    <3>2. Below(lastSynced) /\ Below(j)
      BY <2>3, <2>4, <3>1 DEF Ordered, Below
    <3> QED
      BY <3>1, <3>2, MergeBelow
  <2>6. lastSynced' \in Vers /\ Below(lastSynced)'
    BY <2>1, <2>5 DEF Ordered, Below
  <2> QED
    BY <1>3, <2>1, <2>6, Dequeued DEF Do, Ordered, Below
<1>4. CASE HandlePending \/ RetryRefused \/ Done \/ LosePrimary \/ (AtRest /\ UNCHANGED vars)
  BY <1>4 DEF HandlePending, RetryRefused, Done, LosePrimary, vars, Ordered, Below
<1>5. ASSUME NEW n \in Others, Answer(n) \/ NewPrimary(n) PROVE Ordered'
  BY <1>5 DEF Answer, AnswerOK, AnswerLost, AnswerErr, AnswerConflict, NewPrimary, Ordered, Below
<1>6. NilReq \in Req /\ <<>> \in Seq(Req) /\ \A i \in 1..Len(<<>>) : FALSE
  BY SMTT(30) DEF Req
<1>7. CASE Drain
  BY <1>6, <1>7 DEF Drain, Ordered, Below
<1>8. CASE PushNil
  BY <1>6, <1>8, Queued DEF PushNil, Ordered, Below
<1>9. CASE SetPrimary
  <2>1. UNCHANGED <<cur, made, lastSynced>> /\ (workCh' = workCh \/ workCh' = <<>> \/ workCh' = Append(workCh, NilReq))
    BY <1>9 DEF SetPrimary
  <2> QED
    BY <1>6, <2>1, Queued DEF Ordered, Below
<1> QED
  BY <1>1, <1>2, <1>3, <1>4, <1>5, <1>7, <1>8, <1>9 DEF Next, Runner

\* whatever is queued was made from the metadata the primary has
LEMMA OrderedAlways == Spec => []Ordered
<1>1. Init => Ordered
  <2> SUFFICES ASSUME Init PROVE Ordered
    OBVIOUS
  <2>1. [tag \in Tags |-> 1] \in Vers /\ 1 <= 1 /\ <<>> \in Seq(Req) /\ \A i \in 1..Len(<<>>) : FALSE
    <3>1. [tag \in Tags |-> 1] \in [Tags -> Nat] /\ Tags \in SUBSET Tags
      OBVIOUS
    <3> QED
      BY <3>1, VersIntro, SMTT(30)
  <2> QED
    BY <2>1, NoVersBelow DEF Init, Ordered, Below
<1>2. Ordered /\ [Next]_vars => Ordered'
  <2> SUFFICES ASSUME Ordered, UNCHANGED vars PROVE Ordered'
    BY OrderedStep
  <2> QED
    BY DEF vars, callvars, envvars, Ordered, Below
<1> QED
  BY <1>1, <1>2, PTL DEF Spec

\* ais/metasync.go, "all version updates are executed strictly in the non-decremental order":
\* until the metasyncer is reset, the last version sent of a tag never goes back
THEOREM NeverOlder == Spec => NonDecremental
<1> DEFINE Kept == lastSynced' = NoVers
                   \/ \A tag \in DOMAIN lastSynced : tag \in DOMAIN lastSynced' /\ lastSynced'[tag] >= lastSynced[tag]
<1>1. Ordered /\ [Next]_vars => [Kept]_vars
  <2> SUFFICES ASSUME Ordered, Next PROVE Kept
    OBVIOUS
  <2>1. \A tag \in DOMAIN lastSynced : lastSynced[tag] \in Nat /\ tag \in Tags /\ cur[tag] \in Nat /\ lastSynced[tag] <= cur[tag]
    BY VersOf DEF Ordered, Below
  <2>2. CASE lastSynced' = lastSynced
    <3>1. \A tag \in DOMAIN lastSynced : lastSynced[tag] >= lastSynced[tag]
      BY <2>1, SMTT(30)
    <3> QED
      BY <2>2, <3>1
  <2>3. CASE Reset
    BY <2>3 DEF Reset
  <2>4. CASE Do
    <3> DEFINE req == Head(workCh)
               j == jit(req.pairs)
    <3>1. ~req.nil /\ NilReq.nil
      BY <2>4 DEF Do, NilReq
    <3>2. req \in Req \ {NilReq} /\ Below(req.pairs) /\ (lastSynced' = lastSynced \/ lastSynced' = Merge(lastSynced, j))
      BY <2>4, <3>1, Dequeued DEF Do
    <3>3. req.pairs \in Vers
      BY <3>2 DEF Req
    <3>4. j \in Vers /\ \A tag \in DOMAIN j : j[tag] = cur[tag]
      BY <3>2, <3>3, JitCurrent DEF Ordered
    <3> HIDE DEF req, j
    <3>5. \A tag \in DOMAIN lastSynced : /\ tag \in DOMAIN Merge(lastSynced, j)
                                        /\ Merge(lastSynced, j)[tag] \in {cur[tag], lastSynced[tag]}
      BY <3>4 DEF Merge
    <3>6. \A tag \in DOMAIN lastSynced : cur[tag] >= lastSynced[tag] /\ lastSynced[tag] >= lastSynced[tag]
      BY <2>1, SMTT(30)
    <3> QED
      BY <2>2, <3>2, <3>5, <3>6
  <2> QED
    BY <2>2, <2>3, <2>4 DEF Next, Caller, Modify, Check, Send, SendNotify, Runner, HandlePending, RetryRefused, Done, Drain,
       PushNil, Answer, AnswerOK, AnswerLost, AnswerErr, AnswerConflict, NewPrimary, LosePrimary, SetPrimary, vars
<1> QED
  BY <1>1, OrderedAlways, PTL DEF Spec, NonDecremental

-----------------------------------------------------------------------------
(* What nodesRevs claims *)

Active == {"bcast", "refused", "pending"}
By == Callers \cup {Nobody}
RunRec == [step: Active, ty: {"sync", "notify"}, by: By, pairs: Vers, body: Vers,
           out: SUBSET Others, refused: SUBSET Others, failed: Nat, left: 0..Retries]
DrainRec == [step: {"drain", "push"}, by: By, fails: BOOLEAN]

\* what is sent is no older than what will be recorded; handlePending sends syncs
Sending(r) ==
    /\ r \in RunRec
    /\ DOMAIN r.pairs \subseteq DOMAIN r.body /\ \A tag \in DOMAIN r.pairs : r.pairs[tag] <= r.body[tag]
    /\ r.step = "pending" => r.ty = "sync"

RunOK == run = Select \/ run \in DrainRec \/ Sending(run)

World ==
    /\ sc \in Scenario /\ Len(workCh) <= WorkChanCap
    /\ members \subseteq Others /\ moved \subseteq Others /\ timerOn \in BOOLEAN

Known ==
    /\ has \in [Others -> [Tags -> Nat]]
    /\ DOMAIN nodesRevs \subseteq Others /\ \A n \in DOMAIN nodesRevs : nodesRevs[n] \in Vers
    /\ \A n \in DOMAIN nodesRevs : \A tag \in DOMAIN nodesRevs[n] : nodesRevs[n][tag] <= has[n][tag]

\* whoever is answered is being sent to
LEMMA ActiveSends == ASSUME RunOK, run.step \in Active PROVE Sending(run)
<1>1. Select.step = "select"
  BY SMTT(30) DEF Select
<1>2. run \notin DrainRec
  BY DEF DrainRec, Active
<1> QED
  BY <1>1, <1>2 DEF RunOK, Active

\* an answer is struck off
LEMMA StillSending ==
    ASSUME Sending(run), NEW n \in Others, AnswerOK(n) \/ AnswerLost(n) \/ AnswerErr(n) PROVE Sending(run')
<1>1. run \in RunRec
  BY DEF Sending
<1>2. run.failed + 1 \in Nat
  BY <1>1, SMTT(30) DEF RunRec
<1>3. CASE AnswerOK(n)
  <2>1. run' = [run EXCEPT !.out = @ \ {n}, !.refused = @ \ {n}]
    BY <1>3 DEF AnswerOK
  <2>2. run' \in RunRec
    BY <1>1, <2>1 DEF RunRec
  <2>3. run'.pairs = run.pairs /\ run'.body = run.body /\ run'.step = run.step /\ run'.ty = run.ty
    BY <1>1, <2>1 DEF RunRec
  <2> QED
    BY <2>2, <2>3 DEF Sending
<1>4. CASE AnswerLost(n)
  <2>1. run' = [run EXCEPT !.out = @ \ {n}, !.refused = IF run.step = "bcast" THEN @ \cup {n} ELSE @,
                           !.failed = IF run.step = "pending" THEN @ + 1 ELSE @]
    BY <1>4 DEF AnswerLost
  <2>2. run' \in RunRec
    BY <1>1, <1>2, <2>1 DEF RunRec
  <2>3. run'.pairs = run.pairs /\ run'.body = run.body /\ run'.step = run.step /\ run'.ty = run.ty
    BY <1>1, <2>1 DEF RunRec
  <2> QED
    BY <2>2, <2>3 DEF Sending
<1>5. CASE AnswerErr(n)
  <2>1. run' = [run EXCEPT !.out = @ \ {n}, !.failed = IF run.step = "refused" THEN @ ELSE @ + 1]
    BY <1>5 DEF AnswerErr
  <2>2. run' \in RunRec
    BY <1>1, <1>2, <2>1 DEF RunRec
  <2>3. run'.pairs = run.pairs /\ run'.body = run.body /\ run'.step = run.step /\ run'.ty = run.ty
    BY <1>1, <2>1 DEF RunRec
  <2> QED
    BY <2>2, <2>3 DEF Sending
<1> QED
  BY <1>3, <1>4, <1>5

\* Run stays within its steps
LEMMA RunStep == ASSUME Ordered, World, RunOK, Next PROVE RunOK'
<1> USE DEF callvars, envvars
<1>1. CASE run' = run
  BY <1>1 DEF RunOK, Sending
<1>2. CASE run' = Select
  BY <1>2 DEF RunOK
<1>3. CASE Do
  <2> DEFINE req == Head(workCh)
             new == [step |-> "bcast", ty |-> req.ty, by |-> req.by, pairs |-> req.pairs,
                     body |-> IF req.ty = "notify" THEN req.pairs ELSE jit(req.pairs),
                     out |-> IF req.ty = "notify" THEN members \cap TargetNodes ELSE members,
                     refused |-> {}, failed |-> 0, left |-> Retries]
  <2>1. ~req.nil /\ NilReq.nil /\ run' = new
    BY <1>3 DEF Do, NilReq
  <2>2. req \in Req \ {NilReq}
    BY <1>3, <2>1, Dequeued DEF Do
  <2>3. req.pairs \in Vers /\ req.ty \in {"sync", "notify"} /\ req.by \in By
    BY <2>2 DEF Req, By
  <2> HIDE DEF req
  <2>4. /\ jit(req.pairs) \in Vers /\ DOMAIN jit(req.pairs) = DOMAIN req.pairs
        /\ \A tag \in DOMAIN req.pairs : req.pairs[tag] <= jit(req.pairs)[tag] /\ req.pairs[tag] <= req.pairs[tag]
    <3>1. \A tag \in DOMAIN req.pairs : req.pairs[tag] \in Nat
      BY <2>3, VersOf
    <3>2. \A tag \in DOMAIN req.pairs : req.pairs[tag] <= req.pairs[tag]
      BY <3>1, SMTT(30)
    <3> QED
      BY <2>3, <3>2, JitCurrent DEF Ordered
  <2>5. 0 \in Nat /\ Retries \in 0..Retries
    BY MSAssumption, SMTT(30) DEF MSAssumption
  <2>6. new \in RunRec
    BY <2>3, <2>4, <2>5 DEF RunRec, Active, World
  <2>7. /\ new.pairs = req.pairs /\ new.step = "bcast"
        /\ new.body = IF req.ty = "notify" THEN req.pairs ELSE jit(req.pairs)
    OBVIOUS
  <2>8. Sending(new)
    BY <2>4, <2>6, <2>7 DEF Sending
  <2> QED
    BY <2>1, <2>8 DEF RunOK
<1>4. CASE HandlePending
  <2> DEFINE new == [step |-> "pending", ty |-> "sync", by |-> Nobody, pairs |-> lastSynced,
                     body |-> lastSynced, out |-> Pending, refused |-> {}, failed |-> 0, left |-> 0]
  <2>1. run' = Draining(Nobody, FALSE) \/ run' = Select \/ run' = new
    BY <1>4 DEF HandlePending
  <2>2. Draining(Nobody, FALSE) \in DrainRec
    BY DEF Draining, DrainRec, By
  <2>3. 0 \in Nat /\ 0 \in 0..Retries
    BY MSAssumption, SMTT(30) DEF MSAssumption
  <2>4. \A tag \in DOMAIN lastSynced : lastSynced[tag] <= lastSynced[tag]
    <3>1. \A tag \in DOMAIN lastSynced : lastSynced[tag] \in Nat
      BY VersOf DEF Ordered
    <3> QED
      BY <3>1, SMTT(30)
  <2>5. Pending \in SUBSET Others
    BY DEF Pending, World
  <2>6. new \in RunRec
    BY <2>3, <2>5 DEF RunRec, Active, By, Ordered
  <2>7. new.pairs = lastSynced /\ new.body = lastSynced /\ new.step = "pending" /\ new.ty = "sync"
    OBVIOUS
  <2> HIDE DEF new
  <2>8. Sending(new)
    BY <2>4, <2>6, <2>7 DEF Sending
  <2> QED
    BY <2>1, <2>2, <2>8 DEF RunOK
<1>5. CASE RetryRefused
  <2>1. Sending(run)
    BY <1>5, ActiveSends DEF RetryRefused, Active
  <2>2. run \in RunRec
    BY <2>1 DEF Sending
  <2>3. CASE prim
    <3>1. run' = [run EXCEPT !.step = "refused", !.out = run.refused, !.left = @ - 1]
      BY <1>5, <2>3 DEF RetryRefused
    <3>2. run.left - 1 \in 0..Retries
      <4>1. run.left \in 0..Retries /\ run.left > 0
        BY <1>5, <2>2 DEF RetryRefused, RunRec
      <4> QED
        BY <4>1, MSAssumption, SMTT(30) DEF MSAssumption
    <3>3. run' \in RunRec
      BY <2>2, <3>1, <3>2 DEF RunRec, Active
    <3>4. run'.pairs = run.pairs /\ run'.body = run.body /\ run'.step = "refused"
      BY <2>2, <3>1 DEF RunRec
    <3> QED
      BY <2>1, <3>3, <3>4 DEF Sending, RunOK
  <2>4. CASE ~prim
    BY <1>5, <2>2, <2>4 DEF RetryRefused, RunOK, RunRec, Draining, DrainRec
  <2> QED
    BY <2>3, <2>4
<1>6. CASE Drain
  <2>1. run \in DrainRec
    <3>1. Select.step = "select" /\ run.step = "drain"
      BY <1>6, SMTT(30) DEF Select, Drain
    <3>2. Sending(run) => run.step \in Active
      BY DEF Sending, RunRec
    <3> QED
      BY <3>1, <3>2 DEF RunOK, Active
  <2> QED
    BY <1>6, <2>1 DEF Drain, RunOK, DrainRec
<1>7. ASSUME NEW n \in Others, AnswerConflict(n) PROVE RunOK'
  <2>1. run \in RunRec
    BY <1>7, ActiveSends DEF AnswerConflict, Answered, Active, Sending
  <2>2. run' = Draining(run.by, run.ty = "sync" /\ run.step = "refused")
    BY <1>7 DEF AnswerConflict
  <2> QED
    BY <2>1, <2>2 DEF RunOK, RunRec, Draining, DrainRec
<1>8. ASSUME NEW n \in Others, AnswerOK(n) \/ AnswerLost(n) \/ AnswerErr(n) PROVE RunOK'
  <2>1. Sending(run)
    BY <1>8, ActiveSends DEF AnswerOK, AnswerLost, AnswerErr, Answered, Active
  <2> QED
    BY <1>8, <2>1, StillSending DEF RunOK
<1> QED
  BY <1>1, <1>2, <1>3, <1>4, <1>5, <1>6, <1>7, <1>8 DEF Next, Caller, Modify, Check, Send, SendNotify, Runner, Reset, Done,
     PushNil, Answer, NewPrimary, LosePrimary, SetPrimary, vars

\* the queue stays within its capacity, the Smap within the nodes
LEMMA WorldStep == ASSUME Ordered, World, Next PROVE World'
<1> USE DEF callvars, envvars
<1>1. sc' = sc
  BY DEF Next, Caller, Modify, Check, Send, SendNotify, Runner, Reset, Do, HandlePending, RetryRefused, Done, Drain, PushNil,
     Answer, AnswerOK, AnswerLost, AnswerErr, AnswerConflict, NewPrimary, LosePrimary, SetPrimary, vars
<1>2. Len(workCh') <= WorkChanCap
  <2>0. workCh \in Seq(Req) /\ WorkChanCap \in Nat
    BY DEF Ordered, World, WorkChanCap, Scenario
  <2>1. \/ workCh' = workCh \/ workCh' = <<>> \/ (workCh # <<>> /\ workCh' = Tail(workCh))
        \/ Len(workCh) < WorkChanCap /\ \E r : workCh' = Append(workCh, r)
    BY DEF Next, Caller, Modify, Check, Send, SendNotify, Runner, Reset, Do, HandlePending, RetryRefused, Done, Drain, PushNil,
       Answer, AnswerOK, AnswerLost, AnswerErr, AnswerConflict, NewPrimary, LosePrimary, SetPrimary, vars
  <2>2. CASE workCh # <<>> /\ workCh' = Tail(workCh)
    BY <2>0, <2>2, SMTT(30) DEF World
  <2>3. CASE Len(workCh) < WorkChanCap /\ \E r : workCh' = Append(workCh, r)
    BY <2>0, <2>3, SMTT(30)
  <2>4. Len(<<>>) <= WorkChanCap
    BY <2>0, SMTT(30)
  <2> QED
    BY <2>1, <2>2, <2>3, <2>4 DEF World
<1>3. members' \subseteq Others
  <2>1. \/ members' = members
        \/ \E c \in Callers : members' = members \cup {NodeOf[c]} \/ members' = members \ {NodeOf[c]}
    BY DEF Next, Caller, Modify, Check, Send, SendNotify, Runner, Reset, Do, HandlePending, RetryRefused, Done, Drain, PushNil,
       Answer, AnswerOK, AnswerLost, AnswerErr, AnswerConflict, NewPrimary, LosePrimary, SetPrimary, vars
  <2>2. \A c \in Callers : NodeOf[c] \in Others
    BY MSAssumption DEF MSAssumption
  <2>3. members \subseteq Others
    BY DEF World
  <2> QED
    BY <2>1, <2>2, <2>3, SMTT(30)
<1>4. moved' \subseteq Others
  BY DEF World, Next, Caller, Modify, Check, Send, SendNotify, Runner, Reset, Do, HandlePending, RetryRefused, Done, Drain, PushNil,
     Answer, AnswerOK, AnswerLost, AnswerErr, AnswerConflict, NewPrimary, LosePrimary, SetPrimary, vars
<1>5. timerOn' \in BOOLEAN
  BY DEF World, Next, Caller, Modify, Check, Send, SendNotify, Runner, Reset, Do, HandlePending, RetryRefused, Done, Drain, PushNil,
     Answer, AnswerOK, AnswerLost, AnswerErr, AnswerConflict, NewPrimary, LosePrimary, SetPrimary, vars
<1> QED
  BY <1>1, <1>2, <1>3, <1>4, <1>5 DEF World, WorkChanCap

\* a node never gives up a version, and a PUT that it accepts leaves it with what was sent
LEMMA InstallGrows == ASSUME Known, Sending(run), NEW n \in Others, NEW tags \in SUBSET Tags, Install(n, tags)
                      PROVE /\ has' \in [Others -> [Tags -> Nat]]
                            /\ \A m \in Others : \A tag \in Tags : has[m][tag] <= has'[m][tag]
                            /\ run.ty = "sync" /\ tags = Tags => \A tag \in DOMAIN run.body : run.body[tag] <= has'[n][tag]
<1>1. run.body \in Vers /\ run.ty \in {"sync", "notify"}
  BY DEF Sending, RunRec
<1>2. /\ DOMAIN run.body \subseteq Tags /\ \A tag \in DOMAIN run.body : run.body[tag] \in Nat
  BY <1>1, VersOf
<1>3. \A m \in Others : \A tag \in Tags : has[m][tag] \in Nat /\ has[m][tag] <= has[m][tag]
  BY SMTT(30) DEF Known
<1>4. CASE run.ty = "notify"
  BY <1>3, <1>4 DEF Install, Known
<1>5. CASE run.ty # "notify"
  <2> DEFINE new == [tag \in Tags |-> IF tag \in tags \cap DOMAIN run.body /\ run.body[tag] > has[n][tag]
                                      THEN run.body[tag] ELSE has[n][tag]]
  <2>1. has' = [has EXCEPT ![n] = new]
    BY <1>5 DEF Install
  <2>2. new \in [Tags -> Nat]
    BY <1>2, <1>3
  <2>3. ASSUME NEW tag \in Tags
        PROVE has[n][tag] <= new[tag] /\ (tag \in tags \cap DOMAIN run.body => run.body[tag] <= new[tag])
    <3>1. new[tag] = IF tag \in tags \cap DOMAIN run.body /\ run.body[tag] > has[n][tag] THEN run.body[tag] ELSE has[n][tag]
      OBVIOUS
    <3>2. has[n][tag] \in Nat /\ (tag \in tags \cap DOMAIN run.body => run.body[tag] \in Nat)
      BY <1>2, <1>3
    <3> HIDE DEF new
    <3> QED
      BY <3>1, <3>2, SMTT(30)
  <2> HIDE DEF new
  <2>4. has' \in [Others -> [Tags -> Nat]] /\ has'[n] = new /\ \A m \in Others \ {n} : has'[m] = has[m]
    BY <2>1, <2>2 DEF Known
  <2> QED
    BY <1>2, <1>3, <2>3, <2>4
<1> QED
  BY <1>4, <1>5

\* what is claimed stays true as the nodes get newer versions
LEMMA StillKnown ==
    ASSUME Known, has' \in [Others -> [Tags -> Nat]], \A m \in Others : \A tag \in Tags : has[m][tag] <= has'[m][tag],
           NEW m \in DOMAIN nodesRevs
    PROVE  nodesRevs[m] \in Vers /\ \A tag \in DOMAIN nodesRevs[m] : nodesRevs[m][tag] <= has'[m][tag]
<1>1. m \in Others /\ nodesRevs[m] \in Vers
  BY DEF Known
<1>2. ASSUME NEW tag \in DOMAIN nodesRevs[m] PROVE nodesRevs[m][tag] <= has'[m][tag]
  <2>1. tag \in Tags /\ nodesRevs[m][tag] \in Nat
    BY <1>1, VersOf
  <2>2. nodesRevs[m][tag] <= has[m][tag] /\ has[m][tag] <= has'[m][tag]
    BY <1>1, <2>1 DEF Known
  <2>3. has[m][tag] \in Nat /\ has'[m][tag] \in Nat
    BY <1>1, <2>1 DEF Known
  <2> QED
    BY <2>1, <2>2, <2>3, SMTT(30)
<1> QED
  BY <1>1, <1>2

\* nothing happens to the nodes, and no claim is added
LEMMA NoClaim == ASSUME Known, has' = has, DOMAIN nodesRevs' \subseteq Others,
                        \A n \in DOMAIN nodesRevs' : \/ n \in DOMAIN nodesRevs /\ nodesRevs'[n] = nodesRevs[n]
                                                     \/ nodesRevs'[n] = NoVers
                 PROVE Known'
  BY NoVersBelow DEF Known

\* syncDone: what is recorded for a node is what it has
LEMMA SyncDoneKnown ==
    ASSUME Known, World, Sending(run), NEW n \in Others, run.ty = "sync", Install(n, Tags), nodesRevs' = SyncDone(n)
    PROVE  Known'
<1>1. /\ has' \in [Others -> [Tags -> Nat]]
      /\ \A m \in Others : \A tag \in Tags : has[m][tag] <= has'[m][tag]
      /\ \A tag \in DOMAIN run.body : run.body[tag] <= has'[n][tag]
  BY InstallGrows
<1>2. \A m \in DOMAIN nodesRevs : nodesRevs[m] \in Vers /\ \A tag \in DOMAIN nodesRevs[m] : nodesRevs[m][tag] <= has'[m][tag]
  BY <1>1, StillKnown
<1>3. CASE n \notin members
  <2>1. nodesRevs' = [m \in DOMAIN nodesRevs \ {n} |-> nodesRevs[m]]
    BY <1>3 DEF SyncDone
  <2> QED
    BY <1>1, <1>2, <2>1 DEF Known
<1>4. CASE n \in members
  <2> DEFINE old == IF n \in DOMAIN nodesRevs THEN nodesRevs[n] ELSE NoVers
             new == Merge(old, run.pairs)
  <2>1. nodesRevs' = [m \in DOMAIN nodesRevs \cup {n} |-> IF m # n THEN nodesRevs[m] ELSE new]
    BY <1>4 DEF SyncDone
  <2>2. old \in Vers /\ \A tag \in DOMAIN old : old[tag] <= has'[n][tag]
    BY <1>2, NoVersBelow
  <2>3. run.pairs \in Vers /\ \A tag \in DOMAIN run.pairs : run.pairs[tag] <= has'[n][tag]
    <3>1. run.pairs \in Vers /\ run.body \in Vers
      BY DEF Sending, RunRec
    <3>2. ASSUME NEW tag \in DOMAIN run.pairs PROVE run.pairs[tag] <= has'[n][tag]
      <4>1. run.pairs[tag] <= run.body[tag] /\ run.body[tag] <= has'[n][tag] /\ tag \in DOMAIN run.body
        BY <1>1 DEF Sending
      <4>2. run.pairs[tag] \in Nat /\ run.body[tag] \in Nat /\ tag \in Tags
        BY <3>1, <4>1, VersOf
      <4>3. has'[n][tag] \in Nat
        BY <1>1, <4>2
      <4> QED
        BY <4>1, <4>2, <4>3, SMTT(30)
    <3> QED
      BY <3>1, <3>2
  <2> HIDE DEF old
  <2>4. new \in Vers
    BY <2>2, <2>3, MergeVers
  <2>5. \A tag \in DOMAIN new : new[tag] <= has'[n][tag]
    BY <2>2, <2>3 DEF Merge
  <2> HIDE DEF new
  <2>6. DOMAIN nodesRevs' = DOMAIN nodesRevs \cup {n} /\ nodesRevs'[n] = new
    BY <2>1
  <2>7. \A m \in DOMAIN nodesRevs \ {n} : nodesRevs'[m] = nodesRevs[m]
    BY <2>1
  <2> QED
    BY <1>1, <1>2, <2>4, <2>5, <2>6, <2>7 DEF Known
<1> QED
  BY <1>3, <1>4

\* Known is inductive as long as no refused notification is retried
LEMMA KnownStep == ASSUME World, RunOK, Known, run.step = "refused" => run.ty # "notify", Next PROVE Known'
<1> USE DEF callvars, envvars
<1>1. CASE UNCHANGED <<has, nodesRevs>>
  BY <1>1 DEF Known
<1>2. CASE Reset
  BY <1>2, NoClaim DEF Reset
<1>3. CASE HandlePending
  <2>1. CASE prim
    BY <1>3, <2>1, NoClaim DEF HandlePending, Known, World
  <2>2. CASE ~prim
    BY <1>1, <1>3, <2>2 DEF HandlePending
  <2> QED
    BY <2>1, <2>2
<1>4. CASE Done \/ PushNil
  <2>1. has' = has /\ (nodesRevs' = nodesRevs \/ nodesRevs' = [n \in DOMAIN nodesRevs \cap members |-> nodesRevs[n]])
    BY <1>4 DEF Done, PushNil
  <2> QED
    BY <1>1, <2>1, NoClaim DEF Known
<1>5. ASSUME NEW n \in Others, AnswerOK(n) PROVE Known'
  <2>1. Sending(run)
    BY <1>5, ActiveSends DEF AnswerOK, Answered, Active
  <2>2. run.ty \in {"sync", "notify"} /\ run.step \in Active /\ (run.step = "pending" => run.ty = "sync")
    BY <2>1 DEF Sending, RunRec
  <2>3. CASE run.ty = "notify"
    BY <1>1, <1>5, <2>2, <2>3 DEF AnswerOK, Install, Active
  <2>4. CASE run.ty = "sync"
    BY <1>5, <2>1, <2>4, SyncDoneKnown DEF AnswerOK
  <2> QED
    BY <2>2, <2>3, <2>4
<1>6. ASSUME NEW n \in Others, AnswerLost(n) \/ AnswerErr(n) PROVE Known'
  <2>1. Sending(run)
    BY <1>6, ActiveSends DEF AnswerLost, AnswerErr, Answered, Active
  <2>2. nodesRevs' = nodesRevs /\ (has' = has \/ \E tags \in SUBSET Tags : Install(n, tags))
    BY <1>6 DEF AnswerLost, AnswerErr
  <2>3. ASSUME NEW tags \in SUBSET Tags, Install(n, tags) PROVE Known'
    BY <2>1, <2>2, <2>3, InstallGrows, StillKnown DEF Known
  <2> QED
    BY <1>1, <2>2, <2>3
<1> QED
  BY <1>1, <1>2, <1>3, <1>4, <1>5, <1>6 DEF Next, Caller, Modify, Check, Send, SendNotify, Runner, Do, RetryRefused, Drain,
     Answer, AnswerConflict, NewPrimary, LosePrimary, SetPrimary, vars

\* ais/metasync.go: nodesRevs, all that handlePending goes by, never claims for a node a
\* version that the node does not have, as long as no refused notification is retried
\* (the retry records it as a sync)
THEOREM ClaimsAreTrue == Spec /\ [](run.step = "refused" => run.ty # "notify") => []NodesRevsSound
<1> DEFINE Inv == World /\ RunOK /\ Known
<1>1. Init => Inv
  <2> SUFFICES ASSUME Init PROVE Inv
    OBVIOUS
  <2>1. World
    <3>1. sc \in Scenario
      BY MSAssumption DEF Init, MSAssumption
    <3>2. Len(<<>>) <= WorkChanCap
      BY <3>1, SMTT(30) DEF WorkChanCap, Scenario
    <3> QED
      BY <3>1, <3>2, MSAssumption DEF Init, World, MSAssumption
  <2>2. RunOK
    BY DEF Init, RunOK
  <2>3. Known
    <3>1. [tag \in Tags |-> 1] \in Vers /\ 1 <= 1
      <4>1. [tag \in Tags |-> 1] \in [Tags -> Nat] /\ Tags \in SUBSET Tags
        OBVIOUS
      <4> QED
        BY <4>1, VersIntro, SMTT(30)
    <3>2. has \in [Others -> [Tags -> Nat]] /\ \A n \in InitMembers : \A tag \in Tags : has[n][tag] = 1
      BY MSAssumption DEF Init, MSAssumption
    <3>3. DOMAIN nodesRevs = InitMembers /\ \A n \in InitMembers : nodesRevs[n] = [tag \in Tags |-> 1]
      BY DEF Init
    <3>4. \A n \in DOMAIN nodesRevs : \A tag \in DOMAIN nodesRevs[n] : nodesRevs[n][tag] <= has[n][tag]
      <4> SUFFICES ASSUME NEW n \in InitMembers, NEW tag \in Tags PROVE nodesRevs[n][tag] <= has[n][tag]
        BY <3>3
      <4>1. nodesRevs[n][tag] = 1 /\ has[n][tag] = 1
        BY <3>2, <3>3, SMTT(30)
      <4> QED
        BY <3>1, <4>1
    <3>5. InitMembers \subseteq Others
      BY MSAssumption DEF MSAssumption
    <3> QED
      BY <3>1, <3>2, <3>3, <3>4, <3>5 DEF Known
  <2> QED
    BY <2>1, <2>2, <2>3
<1>2. Ordered /\ Inv /\ (run.step = "refused" => run.ty # "notify") /\ [Next]_vars => Inv'
  <2> SUFFICES ASSUME Ordered, Inv, run.step = "refused" => run.ty # "notify", [Next]_vars PROVE Inv'
    OBVIOUS
  <2>1. CASE UNCHANGED vars
    BY <2>1 DEF vars, callvars, envvars, World, WorkChanCap, RunOK, Sending, Known
  <2>2. CASE Next
    BY <2>2, WorldStep, RunStep, KnownStep
  <2> QED
    BY <2>1, <2>2
<1>3. Ordered /\ Inv => NodesRevsSound
  <2> SUFFICES ASSUME Ordered, World, RunOK, Known PROVE NodesRevsSound
    OBVIOUS
  <2>1. \A i \in 1..Len(workCh) :
          workCh[i] = NilReq \/ (workCh[i].ty \in {"sync", "notify"} /\ DOMAIN workCh[i].pairs \subseteq Tags)
    <3>1. \A i \in 1..Len(workCh) : workCh[i] \in Req
      BY SMTT(30) DEF Ordered
    <3> QED
      BY <3>1, VersOf DEF Req
  <2>2. /\ run.step \in {"select", "bcast", "refused", "pending", "drain", "push"}
        /\ run.step \in {"bcast", "refused", "pending"} =>
              run.left \in 0..Retries /\ run.out \subseteq Others /\ run.refused \subseteq Others
    <3>1. CASE run = Select
      <4>1. Select.step = "select"
        BY SMTT(30) DEF Select
      <4> QED
        BY <3>1, <4>1
    <3>2. CASE run \in DrainRec
      BY <3>2 DEF DrainRec
    <3>3. CASE Sending(run)
      BY <3>3 DEF Sending, RunRec, Active
    <3> QED
      BY <3>1, <3>2, <3>3 DEF RunOK
  <2>3. DOMAIN lastSynced \subseteq Tags /\ \A n \in DOMAIN nodesRevs : DOMAIN nodesRevs[n] \subseteq Tags
    BY VersOf DEF Ordered, Known
  <2> QED
    BY <2>1, <2>2, <2>3 DEF NodesRevsSound, TypeOK, Ordered, World, Known
<1> HIDE DEF Inv
<1> QED
  BY <1>1, <1>2, <1>3, OrderedAlways, PTL DEF Spec

-----------------------------------------------------------------------------
(* Vote: the Smaps that nodes and elections work with *)

ElecType == [pc: {"idle", "ping", "votes", "commit", "become"}, inl: BOOLEAN, vr: Smaps,
             old: Proxies, todo: SUBSET Nodes, yes: Nat, no: Nat]

\* VTypeOK without what it says about idle elections
SmapsOK ==
    /\ smap \in [Nodes -> Smaps]
    /\ obs \in [Nodes -> [on: BOOLEAN, clone: Smaps]]
    /\ elec \in [Proxies -> ElecType]
    /\ rem \in [Proxies -> SUBSET Nodes]

\* synchronize returns an Smap that is not older
LEMMA SyncGrows ==
    ASSUME NEW s \in Smaps, NEW t \in Smaps
    PROVE  synchronize(s, t) \in Smaps /\ synchronize(s, t).ver >= s.ver
  BY SMTT(30) DEF synchronize, Smaps

\* delProxy returns an Smap that is newer
LEMMA DelGrows ==
    ASSUME NEW s \in Smaps, NEW p
    PROVE  delProxy(s, p) \in Smaps /\ delProxy(s, p).ver >= s.ver
<1> DEFINE i == s.in \ {p}
           v == s.ver + 1
<1>1. i \in SUBSET Nodes /\ v \in Nat /\ v >= s.ver
  BY SMTT(30) DEF Smaps
<1> HIDE DEF i, v
<1>2. [s EXCEPT !.in = i, !.ver = v] \in Smaps /\ [s EXCEPT !.in = i, !.ver = v].ver = v
  BY <1>1 DEF Smaps
<1>3. delProxy(s, p) = [s EXCEPT !.in = i, !.ver = v]
  BY DEF delProxy, i, v
<1> QED
  BY <1>1, <1>2, <1>3

\* the records of a node without an observer and of a proxy without an election
LEMMA NoneOK ==
    /\ NoObs \in [on: BOOLEAN, clone: Smaps]
    /\ NoElec \in ElecType
  BY VoteAssumption DEF VoteAssumption, NoObs, NoElec, ElecType, Smaps, Nodes

\* a new election has a vote record of the right kind
LEMMA StartOK ==
    ASSUME SmapsOK, NEW p, NEW vr \in Smaps, NEW old \in Proxies, NEW inline \in BOOLEAN
    PROVE  startElection(p, vr, old, inline) \in [Proxies -> ElecType]
<1> DEFINE e == [NoElec EXCEPT !.pc = "ping", !.vr = vr, !.old = old, !.inl = inline]
<1>1. \A r \in ElecType : [r EXCEPT !.pc = "ping", !.vr = vr, !.old = old, !.inl = inline] \in ElecType
  BY DEF ElecType
<1>2. e \in ElecType
  BY <1>1, NoneOK, Zenon
<1> HIDE DEF e
<1>3. [elec EXCEPT ![p] = e] \in [Proxies -> ElecType]
  BY <1>2 DEF SmapsOK
<1> QED
  BY <1>3 DEF startElection, e

\* installing an Smap that is not older at one node
LEMMA PutGrows ==
    ASSUME SmapsOK, NEW m, NEW s, m \in Nodes => s \in Smaps /\ s.ver >= smap[m].ver,
           smap' = [smap EXCEPT ![m] = s]
    PROVE  smap' \in [Nodes -> Smaps] /\ \A n \in Nodes : smap'[n].ver >= smap[n].ver
<1>1. \A n \in Nodes : smap[n] \in Smaps /\ smap[n].ver >= smap[n].ver
  BY SMTT(30) DEF SmapsOK, Smaps
<1> QED
  BY <1>1 DEF SmapsOK

\* no Smap changes
LEMMA SameGrows ==
    ASSUME SmapsOK, smap' = smap
    PROVE  smap' \in [Nodes -> Smaps] /\ \A n \in Nodes : smap'[n].ver >= smap[n].ver
  BY SMTT(30) DEF SmapsOK, Smaps

\* an election ends
LEMMA StopOK ==
    ASSUME SmapsOK, NEW p \in Proxies, Stop(p)
    PROVE  /\ elec' \in [Proxies -> ElecType]
           /\ obs' \in [Nodes -> [on: BOOLEAN, clone: Smaps]]
  BY NoneOK DEF Stop, SmapsOK

\* _votedPrimary, at a node that gets the result of an election
LEMMA VotedGrows ==
    ASSUME SmapsOK, NEW m \in Nodes, NEW p \in Proxies, NEW old
    PROVE  votedPrimary(m, p, old) \in Smaps /\ votedPrimary(m, p, old).ver >= smap[m].ver
<1> DEFINE s == [smap[m] EXCEPT !.prim = p]
<1>1. smap[m] \in Smaps /\ smap[m].ver >= smap[m].ver
  BY SMTT(30) DEF SmapsOK, Smaps
<1>2. s \in Smaps /\ s.ver = smap[m].ver
  BY <1>1 DEF Smaps
<1> HIDE DEF s
<1>3. delProxy(s, old) \in Smaps /\ delProxy(s, old).ver >= s.ver
  BY <1>2, DelGrows
<1>4. votedPrimary(m, p, old) = IF p \notin smap[m].in THEN smap[m]
                                ELSE IF old \in s.in THEN delProxy(s, old) ELSE s
  BY DEF votedPrimary, s
<1> QED
  BY <1>1, <1>2, <1>3, <1>4

\* becomeNewPrimary, at the proxy that has won
LEMMA BecomeGrows ==
    ASSUME SmapsOK, NEW p \in Proxies, Become(p)
    PROVE  smap' \in [Nodes -> Smaps] /\ \A n \in Nodes : smap'[n].ver >= smap[n].ver
<1> DEFINE s == IF elec[p].old \in smap[p].in THEN delProxy(smap[p], elec[p].old) ELSE smap[p]
           v == s.ver + 100
           t == [s EXCEPT !.prim = p, !.ver = v]
<1>1. smap[p] \in Smaps /\ smap[p].ver \in Nat
  BY DEF SmapsOK, Smaps, Nodes
<1>2. s \in Smaps /\ s.ver >= smap[p].ver
  BY <1>1, DelGrows, SMTT(30)
<1>3. smap' = [smap EXCEPT ![p] = t]
  BY DEF Become
<1> HIDE DEF s
<1>4. v \in Nat /\ v >= smap[p].ver
  BY <1>1, <1>2, SMTT(30) DEF Smaps
<1> HIDE DEF v
<1>5. t \in Smaps /\ t.ver = v
  BY <1>2, <1>4 DEF Smaps
<1> HIDE DEF t
<1> QED
  BY <1>3, <1>4, <1>5, PutGrows

\* the primary removes the nodes it cannot reach
LEMMA RemoveGrows ==
    ASSUME SmapsOK, NEW p \in Proxies, Remove(p)
    PROVE  smap' \in [Nodes -> Smaps] /\ \A n \in Nodes : smap'[n].ver >= smap[n].ver
<1> DEFINE i == smap[p].in \ rem[p]
           v == smap[p].ver + Cardinality(rem[p] \cap smap[p].in)
           t == [smap[p] EXCEPT !.in = i, !.ver = v]
<1>1. smap[p] \in Smaps /\ smap[p].ver \in Nat /\ smap[p].in \subseteq Nodes /\ p \in Nodes
  BY DEF SmapsOK, Smaps, Nodes
<1>2. IsFiniteSet(Nodes)
  BY VoteAssumption, FS_Union DEF VoteAssumption, Nodes
<1>3. IsFiniteSet(rem[p] \cap smap[p].in)
  BY <1>1, <1>2, FS_Subset
<1>4. Cardinality(rem[p] \cap smap[p].in) \in Nat
  BY <1>3, FS_CardinalityType
<1>5. v \in Nat /\ v >= smap[p].ver /\ i \in SUBSET Nodes
  BY <1>1, <1>4, SMTT(30)
<1>6. smap' = [smap EXCEPT ![p] = t]
  BY DEF Remove
<1> HIDE DEF i, v
<1>7. t \in Smaps /\ t.ver = v
  BY <1>1, <1>5 DEF Smaps
<1> HIDE DEF t
<1> QED
  BY <1>5, <1>6, <1>7, PutGrows

-----------------------------------------------------------------------------
(* The step *)

Grows == \A n \in Nodes : smap'[n].ver >= smap[n].ver

\* keepalive, crashes and lost connections change no Smap
LEMMA NodeStep ==
    ASSUME SmapsOK, NEW n \in Nodes, Crash(n) \/ Silence(n) \/ HeardFrom(n) \/ PrimaryDown(n)
    PROVE  SmapsOK' /\ Grows
<1>1. smap' = smap /\ rem' = rem
  BY DEF Crash, Silence, HeardFrom, PrimaryDown
<1>2. smap' \in [Nodes -> Smaps] /\ Grows
  BY <1>1, SameGrows DEF Grows
<1>3. obs' \in [Nodes -> [on: BOOLEAN, clone: Smaps]]
  <2>1. [on |-> TRUE, clone |-> smap[n]] \in [on: BOOLEAN, clone: Smaps]
    BY DEF SmapsOK
  <2>2. CASE obs' = [obs EXCEPT ![n] = [on |-> TRUE, clone |-> smap[n]]]
    BY <2>1, <2>2 DEF SmapsOK
  <2>3. CASE obs' = [obs EXCEPT ![n] = NoObs]
    BY NoneOK, <2>3 DEF SmapsOK
  <2>4. CASE obs' = obs
    BY <2>4 DEF SmapsOK
  <2> QED
    BY <2>2, <2>3, <2>4 DEF Crash, Silence, HeardFrom, PrimaryDown
<1>4. elec' \in [Proxies -> ElecType]
  BY NoneOK DEF SmapsOK, Crash, Silence, HeardFrom, PrimaryDown
<1> QED
  BY <1>1, <1>2, <1>3, <1>4 DEF SmapsOK

\* httpelect: the election it starts, if any
LEMMA ElectStartOK ==
    ASSUME SmapsOK, NEW c, NEW s \in Smaps, c \in Nodes
    PROVE  /\ ElectSmap(c, s) \in Smaps /\ ElectSmap(c, s).ver >= smap[c].ver
           /\ ElectStart(c, s) \in [Proxies -> ElecType]
<1>1. smap[c] \in Smaps /\ s.prim \in Proxies
  BY DEF SmapsOK, Smaps
<1>2. ElectSmap(c, s) \in Smaps /\ ElectSmap(c, s).ver >= smap[c].ver
  BY <1>1, SyncGrows DEF ElectSmap
<1>3. startElection(c, ElectSmap(c, s), s.prim, FALSE) \in [Proxies -> ElecType]
  BY <1>1, <1>2, StartOK
<1> QED
  BY <1>2, <1>3 DEF ElectStart, SmapsOK

\* one turn of onPrimaryDown
LEMMA CandidateStep ==
    ASSUME SmapsOK, NEW n \in Nodes, Candidate(n)
    PROVE  SmapsOK' /\ Grows
<1> DEFINE clone == obs[n].clone
           next == Hrw(Electable(clone))
           ObsT == [on: BOOLEAN, clone: Smaps]
<1>1. clone \in Smaps /\ clone.prim \in Proxies /\ rem' = rem
  BY DEF SmapsOK, Candidate, Smaps
<1>2. [obs EXCEPT ![n] = NoObs] \in [Nodes -> ObsT]
  BY NoneOK DEF SmapsOK
<1>3. [obs EXCEPT ![n].clone = delProxy(clone, next)] \in [Nodes -> ObsT]
  <2> DEFINE d == delProxy(clone, next)
  <2>1. d \in Smaps
    BY <1>1, DelGrows
  <2> HIDE DEF d
  <2>2. [obs EXCEPT ![n].clone = d] \in [Nodes -> ObsT]
    BY <2>1, SMTT(30) DEF SmapsOK
  <2> QED
    BY <2>2 DEF d
<1>4. obs' \in [Nodes -> ObsT]
  BY <1>2, <1>3 DEF Candidate, SmapsOK
<1>5. startElection(n, clone, clone.prim, TRUE) \in [Proxies -> ElecType]
  BY <1>1, StartOK
<1>6. CASE smap' = smap /\ elec' = elec
  <2>1. smap' \in [Nodes -> Smaps] /\ Grows
    BY <1>6, SameGrows DEF Grows
  <2> QED
    BY <1>1, <1>4, <1>6, <2>1 DEF SmapsOK
<1>7. CASE smap' = smap /\ elec' = startElection(n, clone, clone.prim, TRUE)
  <2>1. smap' \in [Nodes -> Smaps] /\ Grows
    BY <1>7, SameGrows DEF Grows
  <2> QED
    BY <1>1, <1>4, <1>5, <1>7, <2>1 DEF SmapsOK
<1>8. CASE /\ smap' = [smap EXCEPT ![next] = ElectSmap(next, clone)]
           /\ elec' = ElectStart(next, clone)
  <2>1. CASE next \in Nodes
    <3>1. /\ ElectSmap(next, clone) \in Smaps /\ ElectSmap(next, clone).ver >= smap[next].ver
          /\ elec' \in [Proxies -> ElecType]
      BY <1>1, <1>8, <2>1, ElectStartOK
    <3> HIDE DEF next, clone
    <3>2. smap' \in [Nodes -> Smaps] /\ Grows
      BY <3>1, <1>8, PutGrows DEF Grows
    <3> QED
      BY <1>1, <1>4, <3>1, <3>2 DEF SmapsOK
  <2>2. CASE next \notin Nodes
    <3>1. elec' \in [Proxies -> ElecType]
      <4>1. startElection(next, ElectSmap(next, clone), clone.prim, FALSE) = elec
        BY <2>2 DEF startElection, SmapsOK, Nodes
      <4> QED
        BY <1>8, <4>1 DEF ElectStart, SmapsOK
    <3> HIDE DEF next, clone
    <3>2. smap' \in [Nodes -> Smaps] /\ Grows
      BY <2>2, <1>8, PutGrows DEF Grows
    <3> QED
      BY <1>1, <1>4, <3>1, <3>2 DEF SmapsOK
  <2> QED
    BY <2>1, <2>2
<1> QED
  BY <1>6, <1>7, <1>8 DEF Candidate

\* an election that changes one of its fields
LEMMA FieldOK ==
    ASSUME NEW f \in [Proxies -> ElecType], NEW p \in Proxies, NEW t \in SUBSET Nodes, NEW v \in Nat,
           NEW c \in {"votes", "commit", "become"}
    PROVE  /\ [f EXCEPT ![p].todo = t] \in [Proxies -> ElecType]
           /\ [f EXCEPT ![p].pc = c] \in [Proxies -> ElecType]
           /\ [f EXCEPT ![p].yes = v] \in [Proxies -> ElecType]
           /\ [f EXCEPT ![p].no = v] \in [Proxies -> ElecType]
<1>1. \A e \in ElecType : /\ [e EXCEPT !.todo = t] \in ElecType /\ [e EXCEPT !.pc = c] \in ElecType
                          /\ [e EXCEPT !.yes = v] \in ElecType /\ [e EXCEPT !.no = v] \in ElecType
  BY SMTT(30) DEF ElecType
<1>2. /\ [f[p] EXCEPT !.todo = t] \in ElecType /\ [f[p] EXCEPT !.pc = c] \in ElecType
      /\ [f[p] EXCEPT !.yes = v] \in ElecType /\ [f[p] EXCEPT !.no = v] \in ElecType
  BY <1>1
<1> QED
  BY <1>2

\* ... or its phase and the nodes to call
LEMMA PhaseOK ==
    ASSUME SmapsOK, NEW p \in Proxies, NEW c \in {"votes", "commit"}
    PROVE  [elec EXCEPT ![p].pc = c, ![p].todo = smap[p].in \ {p}] \in [Proxies -> ElecType]
<1> DEFINE f == [elec EXCEPT ![p].pc = c]
           t == smap[p].in \ {p}
<1>1. t \in SUBSET Nodes
  BY ZenonT(30) DEF SmapsOK, Smaps, Nodes
<1>2. f \in [Proxies -> ElecType]
  BY <1>1, FieldOK, ZenonT(30) DEF SmapsOK
<1> HIDE DEF f, t
<1>3. [f EXCEPT ![p].todo = t] \in [Proxies -> ElecType]
  BY <1>1, <1>2, FieldOK
<1> QED
  BY <1>3 DEF f, t

\* an election starts to vote, or finds that there is no need to
LEMMA PingStep ==
    ASSUME SmapsOK, NEW p \in Proxies, Ping(p)
    PROVE  SmapsOK' /\ Grows
<1>1. smap' = smap /\ rem' = rem
  BY DEF Ping
<1>2. smap' \in [Nodes -> Smaps] /\ Grows
  BY <1>1, SameGrows DEF Grows
<1>3. CASE Stop(p)
  BY <1>1, <1>2, <1>3, StopOK DEF SmapsOK
<1>4. CASE elec' = [elec EXCEPT ![p].pc = "votes", ![p].todo = smap[p].in \ {p}] /\ obs' = obs
  <2>1. elec' \in [Proxies -> ElecType]
    BY <1>4, PhaseOK
  <2> QED
    BY <1>1, <1>2, <1>4, <2>1 DEF SmapsOK
<1> QED
  BY <1>3, <1>4 DEF Ping

\* httpgetvote
LEMMA VoteStep ==
    ASSUME SmapsOK, NEW p \in Proxies, NEW m \in Nodes, Vote(p, m)
    PROVE  SmapsOK' /\ Grows
<1> DEFINE s == synchronize(smap[m], elec[p].vr)
<1>1. s \in Smaps /\ s.ver >= smap[m].ver
  BY SyncGrows DEF SmapsOK, ElecType
<1>2. smap' = [smap EXCEPT ![m] = s] \/ smap' = smap
  BY DEF Vote
<1> HIDE DEF s
<1>3. smap' \in [Nodes -> Smaps] /\ Grows
  BY <1>1, <1>2, SameGrows, PutGrows DEF Grows
<1>4. elec' \in [Proxies -> ElecType]
  <2> DEFINE b == Reach(p, m) /\ Votes(m, p) /\ voteOnProxy(m, synchronize(smap[m], elec[p].vr), smap[m].prim, p)
             t == elec[p].todo \ {m}
             y == IF b THEN elec[p].yes + 1 ELSE elec[p].yes
             z == IF b THEN elec[p].no ELSE elec[p].no + 1
             f == [elec EXCEPT ![p].todo = t]
             g == [f EXCEPT ![p].yes = y]
  <2>1. elec' = [elec EXCEPT ![p].todo = t, ![p].yes = y, ![p].no = z]
    BY DEF Vote
  <2> HIDE DEF b
  <2>2. t \in SUBSET Nodes /\ y \in Nat /\ z \in Nat
    BY SMTT(30) DEF SmapsOK, ElecType
  <2>3. elec' = [g EXCEPT ![p].no = z]
    BY <2>1
  <2> HIDE DEF t, y, z
  <2>4. f \in [Proxies -> ElecType]
    BY <2>2, FieldOK DEF SmapsOK
  <2> HIDE DEF f
  <2>5. g \in [Proxies -> ElecType]
    BY <2>2, <2>4, FieldOK
  <2> HIDE DEF g
  <2> QED
    BY <2>2, <2>3, <2>5, FieldOK
<1> QED
  BY <1>3, <1>4 DEF SmapsOK, Vote

\* the outcome of the votes: the result is sent, or a newer Smap looked for
LEMMA OutcomeStep ==
    ASSUME SmapsOK, NEW p \in Proxies, Elected(p) \/ NotElected(p) \/ Confirmed(p)
    PROVE  SmapsOK' /\ Grows
<1>1. CASE Elected(p)
  <2>1. smap' \in [Nodes -> Smaps] /\ Grows
    BY <1>1, SameGrows DEF Grows, Elected
  <2>2. elec' \in [Proxies -> ElecType]
    BY <1>1, PhaseOK DEF Elected
  <2> QED
    BY <1>1, <2>1, <2>2 DEF SmapsOK, Elected
<1>2. CASE NotElected(p)
  <2>1. \A s \in MaxVer(p) : s \in Smaps
    <3>1. p \in Nodes /\ smap[p].in \subseteq Nodes /\ \A m \in Nodes : smap[m] \in Smaps
      BY DEF SmapsOK, Smaps, Nodes
    <3> QED
      BY <3>1 DEF MaxVer
  <2>2. smap' \in [Nodes -> Smaps] /\ Grows
    <3>1. CASE smap' = smap
      BY <3>1, SameGrows DEF Grows
    <3>2. CASE \E s \in MaxVer(p) : smap' = [smap EXCEPT ![p] = synchronize(@, s)]
      <4>1. PICK s \in MaxVer(p) : smap' = [smap EXCEPT ![p] = synchronize(smap[p], s)]
        BY <3>2
      <4> DEFINE t == synchronize(smap[p], s)
      <4>2. p \in Nodes /\ t \in Smaps /\ t.ver >= smap[p].ver
        BY <2>1, SyncGrows DEF SmapsOK, Nodes
      <4>3. smap' = [smap EXCEPT ![p] = t]
        BY <4>1
      <4> HIDE DEF t
      <4> QED
        BY <4>2, <4>3, PutGrows DEF Grows
    <3> QED
      BY <1>2, <3>1, <3>2 DEF NotElected
  <2> QED
    BY <1>2, <2>2, StopOK DEF NotElected, SmapsOK
<1>3. CASE Confirmed(p)
  <2>1. smap' \in [Nodes -> Smaps] /\ Grows
    BY <1>3, SameGrows DEF Grows, Confirmed
  <2>2. elec' \in [Proxies -> ElecType]
    BY <1>3, SMTT(30) DEF SmapsOK, ElecType, Confirmed
  <2> QED
    BY <1>3, <2>1, <2>2 DEF SmapsOK, Confirmed
<1> QED
  BY <1>1, <1>2, <1>3

\* the result arrives
LEMMA ConfirmStep ==
    ASSUME SmapsOK, NEW p \in Proxies, NEW m \in Nodes, Confirm(p, m)
    PROVE  SmapsOK' /\ Grows
<1> DEFINE s == votedPrimary(m, p, elec[p].old)
<1>1. s \in Smaps /\ s.ver >= smap[m].ver
  BY VotedGrows
<1>2. smap' = [smap EXCEPT ![m] = s] \/ smap' = smap
  BY DEF Confirm
<1> HIDE DEF s
<1>3. smap' \in [Nodes -> Smaps] /\ Grows
  BY <1>1, <1>2, SameGrows, PutGrows DEF Grows
<1>4. elec' \in [Proxies -> ElecType]
  <2> DEFINE t == elec[p].todo \ {m}
  <2>1. t \in SUBSET Nodes /\ elec' = [elec EXCEPT ![p].todo = t]
    BY DEF SmapsOK, ElecType, Confirm
  <2> HIDE DEF t
  <2> QED
    BY <2>1, FieldOK DEF SmapsOK
<1> QED
  BY <1>3, <1>4 DEF SmapsOK, Confirm

\* the primary's Smap goes out, and loses the nodes that do not answer
LEMMA LeadStep ==
    ASSUME SmapsOK, NEW p \in Proxies, Lead(p)
    PROVE  SmapsOK' /\ Grows
<1>1. CASE Unresponsive(p)
  <2>1. smap' \in [Nodes -> Smaps] /\ Grows
    BY <1>1, SameGrows DEF Grows, Unresponsive
  <2>2. {m \in smap[p].in : ~Reach(p, m)} \subseteq Nodes
    BY DEF SmapsOK, Smaps, Nodes
  <2>3. rem' \in [Proxies -> SUBSET Nodes]
    BY <1>1, <2>2 DEF SmapsOK, Unresponsive
  <2> QED
    BY <1>1, <2>1, <2>3 DEF SmapsOK, Unresponsive
<1>2. CASE Remove(p)
  <2>1. smap' \in [Nodes -> Smaps] /\ Grows
    BY <1>2, RemoveGrows DEF Grows
  <2> QED
    BY <1>2, <2>1 DEF SmapsOK, Remove
<1>3. ASSUME NEW m \in Nodes, Metasync(p, m)
      PROVE  SmapsOK' /\ Grows
  <2>1. smap[p] \in Smaps /\ smap[p].ver >= smap[m].ver
    BY <1>3, SMTT(30) DEF SmapsOK, Smaps, Nodes, Metasync, Accepts
  <2>2. smap' \in [Nodes -> Smaps] /\ Grows
    BY <1>3, <2>1, PutGrows DEF Grows, Metasync
  <2> QED
    BY <1>3, <2>2 DEF SmapsOK, Metasync
<1> QED
  BY <1>1, <1>2, <1>3 DEF Lead

\* the first Smaps
LEMMA SmapsInit == VInit => SmapsOK
  BY NoneOK, VoteAssumption, SMTT(30) DEF VInit, SmapsOK, Smaps, Nodes, VoteAssumption

\* every step leaves Smaps, and none that is older
LEMMA SmapsStep ==
    ASSUME SmapsOK, [VNext]_votevars
    PROVE  SmapsOK' /\ Grows
<1>1. ASSUME NEW n \in Nodes, Crash(n) \/ Silence(n) \/ HeardFrom(n) \/ Observe(n)
      PROVE  SmapsOK' /\ Grows
  BY <1>1, NodeStep, CandidateStep DEF Observe
<1>2. ASSUME NEW a \in Nodes, NEW b \in Nodes, Cut(a, b)
      PROVE  SmapsOK' /\ Grows
  BY <1>2, SameGrows DEF Cut, SmapsOK, Grows
<1>3. ASSUME NEW p \in Proxies, Elect(p)
      PROVE  SmapsOK' /\ Grows
  <2>1. CASE Become(p)
    BY <2>1, BecomeGrows, StopOK DEF Become, SmapsOK, Grows
  <2> QED
    BY <1>3, <2>1, PingStep, VoteStep, OutcomeStep, ConfirmStep DEF Elect
<1>4. CASE UNCHANGED votevars
  BY <1>4, SameGrows DEF votevars, SmapsOK, Grows
<1> QED
  BY <1>1, <1>2, <1>3, <1>4, LeadStep DEF VNext

\* smapOwner.synchronize, smapModifier, _votedPrimary, becomeNewPrimary: whatever nodes
\* stop and whatever calls fail, the version of a node's Smap never decreases
THEOREM NoOlderSmap == VSpec => VersionsGrow
<1>1. SmapsOK /\ [VNext]_votevars => SmapsOK' /\ Grows
  BY SmapsStep
<1>2. SmapsOK /\ [VNext]_votevars => [Grows]_votevars
  BY <1>1
<1> QED
  BY SmapsInit, <1>1, <1>2, PTL DEF VSpec, VersionsGrow, Grows

-----------------------------------------------------------------------------
(* The next in line *)

\* HrwProxy: any nonempty set of proxies has exactly one of the highest rank.  Of the sets
\* of proxies that outrank a member of ps, a smallest one is empty
LEMMA HrwIs ==
    ASSUME NEW ps, ps \subseteq Proxies, ps # {}
    PROVE  Hrw(ps) \in ps /\ \A q \in ps : Rank[q] <= Rank[Hrw(ps)]
<1> DEFINE Over(p) == {q \in Proxies : Rank[q] > Rank[p]} \cap ps
           T == {Over(p) : p \in ps}
           R == StrictSubsetOrdering(Proxies)
<1>1. IsFiniteSet(Proxies) /\ FiniteSubsetsOf(Proxies) = SUBSET Proxies
  BY VoteAssumption, FS_FiniteSubsetsOfFinite DEF VoteAssumption
<1>2. IsWellFoundedOn(R, SUBSET Proxies)
  BY <1>1, FS_StrictSubsetOrderingWellFounded
<1>3. T \subseteq SUBSET Proxies /\ T # {}
  OBVIOUS
<1>4. \E x \in T : \A y \in T : ~(<<y, x>> \in R)
  <2> HIDE DEF R, T
  <2> QED
    BY <1>2, <1>3, WFMin
<1>5. PICK p \in ps : \A q \in ps : ~(<<Over(q), Over(p)>> \in R)
  BY <1>4
<1>6. \A q \in ps : Rank[q] <= Rank[p]
  <2> SUFFICES ASSUME NEW q \in ps, ~(Rank[q] <= Rank[p])
               PROVE  FALSE
    OBVIOUS
  <2>1. Rank[q] \in Nat /\ Rank[p] \in Nat
    BY VoteAssumption DEF VoteAssumption
  <2>2. Rank[q] > Rank[p] /\ ~(Rank[q] > Rank[q])
    BY <2>1, SMTT(30)
  <2>3. \A r \in Proxies : Rank[r] > Rank[q] => Rank[r] > Rank[p]
    <3>1. \A r \in Proxies : Rank[r] \in Nat
      BY VoteAssumption DEF VoteAssumption
    <3> QED
      BY <2>1, <2>2, <3>1, SMTT(30)
  <2>4. q \in Over(p) /\ q \notin Over(q) /\ Over(q) \subseteq Over(p)
    BY <2>2, <2>3
  <2>5. Over(p) \in SUBSET Proxies /\ Over(q) \in SUBSET Proxies
    OBVIOUS
  <2> HIDE DEF Over
  <2>6. <<Over(q), Over(p)>> \in StrictSubsetOrdering(Proxies)
    BY <2>4, <2>5, SMTT(30) DEF StrictSubsetOrdering
  <2> QED
    BY <1>5, <2>6
<1> QED
  BY <1>6 DEF Hrw


-----------------------------------------------------------------------------
(* One primary: what is so while the first primary is up and no proxy has lost it *)

\* nobody knows another primary, and no election gets beyond its ping
Settled ==
    /\ \A n \in Nodes : smap[n].prim = First /\ obs[n].clone.prim = First
    /\ \A p \in Proxies : elec[p].vr.prim = First /\ elec[p].pc \in {"idle", "ping"}

(* ... and while no connection and no answer is lost *)

Quiet == cut = {} /\ lost = 0

\* nobody who is up is missing from the Smap
UpIn(s) == Nodes \ down \subseteq s.in

\* of the proxies that are up, p is the highest in HRW order
Top(p) == p \notin down /\ \A q \in Proxies \ down : Rank[q] <= Rank[p]

\* the clone of an onPrimaryDown: it may lose a proxy that is up only when that one is the
\* only one left, and primary already
ObsOK(s) == s.prim \in down /\ ((\E p \in Electable(s) : p \notin down) => UpIn(s))

\* an election is run by the next in line, and not beside a primary that is up
ElecOK(p, e) ==
    /\ p \notin down /\ e.old \in down
    /\ UpIn(e.vr) /\ p \in Electable(e.vr) /\ \A q \in Electable(e.vr) : Rank[q] <= Rank[p]
    /\ e.pc # "ping" => e.vr.prim \in down

SmapAll(f) == \A n \in Nodes : UpIn(f[n])
LeadAll(f) == \A p \in Proxies : p \notin down /\ f[p].prim = p => p = First \/ Top(p)
ObsAll(f) == \A n \in Nodes : f[n].on => ObsOK(f[n].clone)
ElecAll(f) == \A p \in Proxies : f[p].pc # "idle" => ElecOK(p, f[p])
RemAll(f) == \A p \in Proxies : f[p] \subseteq down

Orderly == SmapAll(smap) /\ LeadAll(smap) /\ ObsAll(obs) /\ ElecAll(elec) /\ RemAll(rem)

\* crashes, cuts and losses are for good
LEMMA FaultsStay ==
    ASSUME [VNext]_votevars
    PROVE  /\ down \subseteq down' /\ cut \subseteq cut'
           /\ lost' = lost \/ lost' = lost + 1
<1>1. ASSUME NEW n \in Nodes, Crash(n) \/ Silence(n) \/ HeardFrom(n) \/ Observe(n)
      PROVE  down \subseteq down' /\ cut \subseteq cut' /\ (lost' = lost \/ lost' = lost + 1)
  BY <1>1 DEF Crash, Silence, HeardFrom, Observe, PrimaryDown, Candidate
<1>2. ASSUME NEW a \in Nodes, NEW b \in Nodes, Cut(a, b)
      PROVE  down \subseteq down' /\ cut \subseteq cut' /\ lost' = lost
  BY <1>2 DEF Cut
<1>3. ASSUME NEW p \in Proxies, Elect(p)
      PROVE  down' = down /\ cut' = cut /\ lost' = lost
  BY <1>3 DEF Elect, Ping, Elected, NotElected, Confirmed, Become, Vote, Confirm
<1>4. ASSUME NEW p \in Proxies, Lead(p)
      PROVE  down' = down /\ cut' = cut /\ lost' = lost
  BY <1>4 DEF Lead, Unresponsive, Remove, Metasync
<1>5. CASE UNCHANGED votevars
  BY <1>5 DEF votevars
<1> QED
  BY <1>1, <1>2, <1>3, <1>4, <1>5 DEF VNext

\* the candidate an onPrimaryDown turns to: a proxy of the clone, not its primary
LEMMA NextIs ==
    ASSUME NEW s \in Smaps, Electable(s) # {}
    PROVE  /\ Hrw(Electable(s)) \in Electable(s)
           /\ \A q \in Electable(s) : Rank[q] <= Rank[Hrw(Electable(s))]
           /\ Hrw(Electable(s)) \in Proxies /\ Hrw(Electable(s)) \in Nodes
           /\ Hrw(Electable(s)) # s.prim /\ Hrw(Electable(s)) \in s.in
<1>1. Electable(s) \subseteq Proxies
  BY DEF Electable
<1>2. /\ Hrw(Electable(s)) \in Electable(s)
      /\ \A q \in Electable(s) : Rank[q] <= Rank[Hrw(Electable(s))]
  BY <1>1, HrwIs
<1> QED
  BY <1>1, <1>2 DEF Electable, Nodes

\* the election that startElection sets up
Began(f, p, vr, old) ==
    /\ f[p].pc = "ping" /\ f[p].vr = vr /\ f[p].old = old
    /\ \A q \in Proxies : q # p => f[q] = elec[q]

\* ... with what it is given, beside those that run
LEMMA StartFields ==
    ASSUME SmapsOK, NEW p \in Proxies, NEW vr, NEW old, NEW inline \in BOOLEAN
    PROVE  Began(startElection(p, vr, old, inline), p, vr, old)
<1> DEFINE e == [NoElec EXCEPT !.pc = "ping", !.vr = vr, !.old = old, !.inl = inline]
<1>1. e.pc = "ping" /\ e.vr = vr /\ e.old = old
  BY DEF NoElec
<1>2. startElection(p, vr, old, inline) = [elec EXCEPT ![p] = e]
  BY DEF startElection
<1> HIDE DEF e
<1> QED
  BY <1>1, <1>2 DEF SmapsOK, Began

\* delProxy keeps the primary and the other members
LEMMA DelFields ==
    ASSUME NEW s \in Smaps, NEW p
    PROVE  delProxy(s, p).prim = s.prim /\ delProxy(s, p).in = s.in \ {p}
  BY DEF delProxy, Smaps

\* synchronize installs one of the two
LEMMA SyncIs ==
    ASSUME NEW s, NEW t
    PROVE  synchronize(s, t) = s \/ synchronize(s, t) = t
  BY DEF synchronize


-----------------------------------------------------------------------------
(* The first primary stays *)

\* a node without an observer and a proxy without an election name the first primary
LEMMA NoneSettled ==
    /\ NoObs.on = FALSE /\ NoObs.clone.prim = First
    /\ NoElec.vr.prim = First /\ NoElec.pc = "idle"
  BY DEF NoObs, NoElec

\* onPrimaryDown asks for an election, but changes no primary
LEMMA CandidateSettled ==
    ASSUME SmapsOK, Settled, NEW n \in Nodes, Candidate(n)
    PROVE  Settled'
<1> DEFINE clone == obs[n].clone
           next == Hrw(Electable(clone))
<1>1. clone \in Smaps /\ clone.prim = First /\ clone.prim \in Proxies
  BY DEF SmapsOK, Settled, Smaps
<1>2. \A m \in Nodes : obs'[m].clone.prim = First
  <2>1. CASE obs' = [obs EXCEPT ![n] = NoObs] \/ obs' = obs
    BY <2>1, NoneSettled DEF SmapsOK, Settled
  <2>2. CASE obs' = [obs EXCEPT ![n].clone = delProxy(clone, next)]
    <3> DEFINE d == delProxy(clone, next)
    <3>1. d.prim = First
      BY <1>1, DelFields
    <3> HIDE DEF d
    <3>2. obs' = [obs EXCEPT ![n].clone = d]
      BY <2>2 DEF d
    <3>3. \A m \in Nodes : obs'[m] = IF m = n THEN [obs[n] EXCEPT !.clone = d] ELSE obs[m]
      BY <3>2 DEF SmapsOK
    <3>4. [obs[n] EXCEPT !.clone = d].clone = d
      BY DEF SmapsOK
    <3> QED
      BY <3>1, <3>3, <3>4 DEF Settled
  <2> QED
    BY <2>1, <2>2 DEF Candidate
<1>3. CASE smap' = smap /\ elec' = elec
  BY <1>2, <1>3 DEF Settled
<1>4. CASE smap' = smap /\ elec' = startElection(n, clone, clone.prim, TRUE) /\ Electable(clone) # {} /\ next = n
  <2>1. n \in Proxies
    BY <1>1, <1>4, NextIs
  <2>2. Began(elec', n, clone, clone.prim)
    BY <1>4, <2>1, StartFields
  <2> QED
    BY <1>1, <1>2, <1>4, <2>2 DEF Settled, Began
<1>5. CASE /\ Electable(clone) # {}
           /\ smap' = [smap EXCEPT ![next] = ElectSmap(next, clone)]
           /\ elec' = ElectStart(next, clone)
  <2> DEFINE own == ElectSmap(next, clone)
  <2>1. next \in Proxies /\ next \in Nodes
    BY <1>1, <1>5, NextIs
  <2>2. own.prim = First
    BY <1>1, <2>1, SyncIs DEF ElectSmap, Settled
  <2>3. elec' = elec \/ elec' = startElection(next, own, clone.prim, FALSE)
    BY <1>5 DEF ElectStart
  <2> HIDE DEF own, next, clone
  <2>4. \A m \in Nodes : smap'[m].prim = First
    BY <1>5, <2>2 DEF own, SmapsOK, Settled
  <2>5. \A q \in Proxies : elec'[q].vr.prim = First /\ elec'[q].pc \in {"idle", "ping"}
    <3>1. CASE elec' = elec
      BY <3>1 DEF Settled
    <3>2. CASE elec' = startElection(next, own, clone.prim, FALSE)
      <4>1. Began(elec', next, own, clone.prim)
        BY <2>1, <3>2, StartFields
      <4> QED
        BY <2>2, <4>1 DEF Settled, Began
    <3> QED
      BY <2>3, <3>1, <3>2
  <2> QED
    BY <1>2, <2>4, <2>5 DEF Settled
<1> QED
  BY <1>3, <1>4, <1>5 DEF Candidate

\* an election ends
LEMMA StopSettled ==
    ASSUME SmapsOK, Settled, NEW p \in Proxies, Stop(p), smap' = smap
    PROVE  Settled'
  BY NoneSettled DEF Stop, SmapsOK, Settled, Nodes

\* as long as every proxy can reach the first primary, no step makes another one
LEMMA SettledStep ==
    ASSUME SmapsOK, Calm, Settled, [VNext]_votevars
    PROVE  Settled'
<1>1. ASSUME NEW n \in Nodes, Crash(n) \/ Silence(n) \/ HeardFrom(n) \/ PrimaryDown(n)
      PROVE  Settled'
  <2>1. smap' = smap
    BY <1>1 DEF Crash, Silence, HeardFrom, PrimaryDown
  <2>2. \A p \in Proxies : elec'[p].vr.prim = First /\ elec'[p].pc \in {"idle", "ping"}
    <3>1. CASE elec' = elec
      BY <3>1 DEF Settled
    <3>2. CASE elec' = [elec EXCEPT ![n] = NoElec]
      BY <3>2, NoneSettled DEF SmapsOK, Settled
    <3> QED
      BY <1>1, <3>1, <3>2 DEF Crash, Silence, HeardFrom, PrimaryDown
  <2>3. \A m \in Nodes : obs'[m].clone.prim = First
    <3>1. CASE obs' = obs
      BY <3>1 DEF Settled
    <3>2. CASE obs' = [obs EXCEPT ![n] = NoObs]
      BY <3>2, NoneSettled DEF SmapsOK, Settled
    <3>3. CASE obs' = [obs EXCEPT ![n] = [on |-> TRUE, clone |-> smap[n]]]
      BY <3>3 DEF SmapsOK, Settled
    <3> QED
      BY <1>1, <3>1, <3>2, <3>3 DEF Crash, Silence, HeardFrom, PrimaryDown
  <2> QED
    BY <2>1, <2>2, <2>3 DEF Settled
<1>2. ASSUME NEW a \in Nodes, NEW b \in Nodes, Cut(a, b)
      PROVE  Settled'
  BY <1>2 DEF Cut, Settled
<1>3. ASSUME NEW p \in Proxies, Elect(p)
      PROVE  Settled'
  <2>1. elec[p].pc \in {"idle", "ping"} /\ elec[p].vr.prim = First
    BY DEF Settled
  <2>2. Ping(p)
    BY <1>3, <2>1 DEF Elect, Elected, NotElected, Confirmed, Become, Vote, Confirm, At
  <2>3. Reach(p, First)
    <3>1. {First, p} = {p, First}
      OBVIOUS
    <3> QED
      BY <2>2, <3>1 DEF Ping, At, Reach, Calm
  <2> QED
    BY <2>1, <2>2, <2>3, StopSettled DEF Ping
<1>4. ASSUME NEW p \in Proxies, Lead(p)
      PROVE  Settled'
  <2>1. obs' = obs /\ elec' = elec
    BY <1>4 DEF Lead, Unresponsive, Remove, Metasync
  <2>2. \A m \in Nodes : smap'[m].prim = First
    <3>1. CASE Unresponsive(p)
      BY <3>1 DEF Unresponsive, Settled
    <3>2. CASE Remove(p)
      <4> DEFINE i == smap[p].in \ rem[p]
                 v == smap[p].ver + Cardinality(rem[p] \cap smap[p].in)
                 t == [smap[p] EXCEPT !.in = i, !.ver = v]
      <4>1. smap' = [smap EXCEPT ![p] = t]
        BY <3>2 DEF Remove
      <4> HIDE DEF i, v
      <4>2. t.prim = First
        <5>1. smap[p] \in Smaps /\ smap[p].prim = First
          BY DEF SmapsOK, Settled, Nodes
        <5> QED
          BY <5>1 DEF Smaps
      <4> HIDE DEF t
      <4> QED
        BY <4>1, <4>2 DEF SmapsOK, Settled
    <3>3. ASSUME NEW m \in Nodes, Metasync(p, m)
          PROVE  \A k \in Nodes : smap'[k].prim = First
      BY <3>3 DEF Metasync, SmapsOK, Settled, Nodes
    <3> QED
      BY <1>4, <3>1, <3>2, <3>3 DEF Lead
  <2> QED
    BY <2>1, <2>2 DEF Settled
<1>5. CASE UNCHANGED votevars
  BY <1>5 DEF votevars, Settled
<1> QED
  BY <1>1, <1>2, <1>3, <1>4, <1>5, CandidateSettled DEF VNext, Observe


-----------------------------------------------------------------------------
(* Without network faults: each kind of change *)

\* the parts make the whole, when nobody stops
LEMMA Assemble ==
    ASSUME down' = down, SmapAll(smap'), LeadAll(smap'), ObsAll(obs'), ElecAll(elec'), RemAll(rem')
    PROVE  Orderly'
<1>1. SmapAll(smap)'
  BY DEF SmapAll, UpIn
<1>2. LeadAll(smap)'
  BY DEF LeadAll, Top
<1>3. ObsAll(obs)'
  BY DEF ObsAll, ObsOK, UpIn
<1>4. ElecAll(elec)'
  BY DEF ElecAll, ElecOK, UpIn
<1>5. RemAll(rem)'
  BY DEF RemAll
<1> QED
  BY <1>1, <1>2, <1>3, <1>4, <1>5 DEF Orderly

\* the candidate whose ping got no answer is the highest of those that are up
LEMMA ElectedIsTop ==
    ASSUME SmapsOK, Orderly, NEW p \in Proxies, elec[p].pc \notin {"idle", "ping"}
    PROVE  Top(p) /\ elec[p].vr.prim \in down /\ elec[p].old \in down
<1>1. ElecOK(p, elec[p])
  BY DEF Orderly, ElecAll
<1>2. \A q \in Proxies \ down : q \in Electable(elec[p].vr)
  BY <1>1 DEF ElecOK, UpIn, Electable, Nodes
<1> QED
  BY <1>1, <1>2 DEF ElecOK, Top

\* one node installs an Smap
LEMMA InstallOrderly ==
    ASSUME SmapsOK, Orderly, NEW m \in Nodes, NEW s, UpIn(s),
           m \in Proxies /\ m \notin down /\ s.prim = m => m = First \/ Top(m)
    PROVE  SmapAll([smap EXCEPT ![m] = s]) /\ LeadAll([smap EXCEPT ![m] = s])
<1>1. \A n \in Nodes : [smap EXCEPT ![m] = s][n] = IF n = m THEN s ELSE smap[n]
  BY DEF SmapsOK
<1>2. Proxies \subseteq Nodes
  BY DEF Nodes
<1> QED
  BY <1>1, <1>2 DEF Orderly, SmapAll, LeadAll

\* an onPrimaryDown ends
LEMMA NoObsOrderly ==
    ASSUME SmapsOK, Orderly, NEW n \in Nodes
    PROVE  ObsAll([obs EXCEPT ![n] = NoObs])
<1>1. \A m \in Nodes : [obs EXCEPT ![n] = NoObs][m] = IF m = n THEN NoObs ELSE obs[m]
  BY DEF SmapsOK
<1> QED
  BY <1>1, NoneSettled DEF Orderly, ObsAll

\* an election ends
LEMMA StopOrderly ==
    ASSUME SmapsOK, Orderly, NEW p \in Proxies, Stop(p)
    PROVE  ObsAll(obs') /\ ElecAll(elec')
<1>1. ObsAll([obs EXCEPT ![p] = NoObs])
  BY NoObsOrderly DEF Nodes
<1>2. ObsAll(obs')
  BY <1>1 DEF Stop, Orderly
<1>3. \A q \in Proxies : elec'[q] = IF q = p THEN NoElec ELSE elec[q]
  BY DEF SmapsOK, Stop
<1> QED
  BY <1>2, <1>3, NoneSettled DEF Orderly, ElecAll

\* an election goes on with the same vote record
LEMMA SameRecord ==
    ASSUME Orderly, NEW p \in Proxies, NEW f, elec[p].pc # "idle",
           \A q \in Proxies : q # p => f[q] = elec[q],
           f[p].vr = elec[p].vr, f[p].old = elec[p].old,
           f[p].pc # "ping" => elec[p].vr.prim \in down
    PROVE  ElecAll(f)
<1>1. ElecOK(p, elec[p])
  BY DEF Orderly, ElecAll
<1>2. ElecOK(p, f[p])
  BY <1>1 DEF ElecOK
<1> QED
  BY <1>2 DEF Orderly, ElecAll

\* an election begins at the next in line, after a primary that is down
LEMMA BeganOrderly ==
    ASSUME Orderly, NEW p \in Proxies, NEW f, NEW vr, NEW old, Began(f, p, vr, old),
           p \notin down, old \in down, UpIn(vr), p \in Electable(vr),
           \A q \in Electable(vr) : Rank[q] <= Rank[p]
    PROVE  ElecAll(f)
<1>1. ElecOK(p, f[p])
  BY DEF ElecOK, Began
<1> QED
  BY <1>1 DEF Orderly, ElecAll, Began

\* delProxy of a proxy that is down
LEMMA DelUpIn ==
    ASSUME NEW s \in Smaps, UpIn(s), NEW p, p \in down
    PROVE  UpIn(delProxy(s, p))
  BY DelFields DEF UpIn


-----------------------------------------------------------------------------
(* Without network faults: each action *)

\* a node stops: what was so of those that are up still is
LEMMA CrashOrderly ==
    ASSUME SmapsOK, Orderly, NEW n \in Nodes, Crash(n)
    PROVE  Orderly'
<1>1. down' = down \cup {n} /\ smap' = smap /\ rem' = rem
  BY DEF Crash
<1>2. SmapAll(smap)'
  BY <1>1 DEF SmapAll, UpIn, Orderly
<1>3. LeadAll(smap)'
  BY <1>1 DEF LeadAll, Top, Orderly
<1>4. RemAll(rem)'
  BY <1>1 DEF RemAll, Orderly
<1>5. ObsAll(obs)'
  <2>1. \A m \in Nodes : obs'[m] = IF m = n THEN NoObs ELSE obs[m]
    BY DEF SmapsOK, Crash
  <2>2. ASSUME NEW s, ObsOK(s)
        PROVE  s.prim \in down' /\ ((\E p \in Electable(s) : p \notin down') => Nodes \ down' \subseteq s.in)
    BY <1>1, <2>2 DEF ObsOK, UpIn
  <2>3. \A m \in Nodes : obs'[m].on => ObsOK(obs'[m].clone)
    BY <2>1, NoneSettled DEF Orderly, ObsAll
  <2> QED
    BY <2>2, <2>3 DEF ObsAll, ObsOK, UpIn
<1>6. ElecAll(elec)'
  <2>1. \A p \in Proxies : elec'[p] = IF p = n THEN NoElec ELSE elec[p]
    BY DEF SmapsOK, Crash
  <2>2. ASSUME NEW p \in Proxies, elec'[p].pc # "idle"
        PROVE  p # n /\ ElecOK(p, elec'[p])
    BY <2>1, <2>2, NoneSettled DEF Orderly, ElecAll
  <2> QED
    BY <1>1, <2>2 DEF ElecAll, ElecOK, UpIn
<1> QED
  BY <1>2, <1>3, <1>4, <1>5, <1>6 DEF Orderly

\* keepalive: the node that gives its primary up cannot reach it
LEMMA PrimaryDownOrderly ==
    ASSUME SmapsOK, Orderly, Quiet, NEW n \in Nodes, PrimaryDown(n)
    PROVE  Orderly'
<1> DEFINE o == [on |-> TRUE, clone |-> smap[n]]
<1>1. \A m \in Nodes : obs'[m] = IF m = n THEN o ELSE obs[m]
  BY DEF SmapsOK, PrimaryDown
<1>2. o.clone = smap[n]
  OBVIOUS
<1>3. smap[n].prim \in down
  BY DEF PrimaryDown, Reach, Up, Quiet
<1>4. ObsOK(o.clone)
  BY <1>2, <1>3 DEF ObsOK, Orderly, SmapAll
<1> HIDE DEF o
<1>5. ObsAll(obs')
  BY <1>1, <1>4 DEF ObsAll, Orderly
<1>6. down' = down /\ smap' = smap /\ elec' = elec /\ rem' = rem
  BY DEF PrimaryDown
<1> QED
  BY <1>5, <1>6, Assemble DEF Orderly

\* onPrimaryDown gives up a candidate: one that is down, or the only proxy left
LEMMA SkipOrderly ==
    ASSUME SmapsOK, Orderly, Quiet, NEW s \in Smaps, ObsOK(s), Electable(s) # {},
           NEW n \in Nodes, n \notin down,
           ~Reach(n, Hrw(Electable(s))) \/ ~ElectOK(Hrw(Electable(s)), s)
    PROVE  ObsOK(delProxy(s, Hrw(Electable(s))))
<1> DEFINE c == Hrw(Electable(s))
           d == delProxy(s, c)
<1>1. c \in Electable(s) /\ c \in Proxies /\ c \in Nodes
  BY NextIs
<1>2. d.prim = s.prim /\ d.in = s.in \ {c}
  BY DelFields
<1>3. Electable(d) = Electable(s) \ {c}
  BY <1>2 DEF Electable
<1>4. CASE c \in down
  <2>1. (\E p \in Electable(d) : p \notin down) => UpIn(s)
    BY <1>3 DEF ObsOK
  <2> QED
    BY <1>2, <1>4, <2>1 DEF ObsOK, UpIn
<1>5. CASE c \notin down
  <2> DEFINE own == ElectSmap(c, s)
  <2>1. UpIn(s)
    BY <1>1, <1>5 DEF ObsOK
  <2>2. UpIn(smap[c]) /\ c \in smap[c].in
    BY <1>1, <1>5 DEF Orderly, SmapAll, UpIn
  <2>3. UpIn(own)
    BY <2>1, <2>2, SyncIs DEF ElectSmap
  <2>4. Reach(n, c)
    BY <1>5 DEF Reach, Up, Quiet
  <2>5. Electable(own) = {}
    BY <2>2, <2>4 DEF ElectOK
  <2> HIDE DEF own
  <2>6. \A p \in Proxies : p \notin down => p = own.prim
    BY <2>3, <2>5 DEF Electable, UpIn, Nodes
  <2>7. \A p \in Electable(d) : p \in down
    BY <1>1, <1>3, <1>5, <2>6 DEF Electable
  <2> QED
    BY <1>2, <2>7 DEF ObsOK
<1> QED
  BY <1>4, <1>5


\* onPrimaryDown: the node itself is the next in line, or the one it asks may be
LEMMA CandidateOrderly ==
    ASSUME SmapsOK, Orderly, Quiet, NEW n \in Nodes, Candidate(n), lost' = lost
    PROVE  Orderly'
<1> DEFINE clone == obs[n].clone
           next == Hrw(Electable(clone))
<1>1. /\ clone \in Smaps /\ ObsOK(clone) /\ n \notin down
      /\ down' = down /\ rem' = rem
  BY DEF SmapsOK, Orderly, ObsAll, Candidate, Up
<1>2. ObsAll([obs EXCEPT ![n] = NoObs]) /\ ObsAll(obs)
  BY NoObsOrderly DEF Orderly
<1>3. CASE Electable(clone) = {}
  <2>1. obs' = [obs EXCEPT ![n] = NoObs] /\ smap' = smap /\ elec' = elec
    BY <1>3 DEF Candidate
  <2> QED
    BY <1>1, <1>2, <2>1, Assemble DEF Orderly
<1>4. CASE Electable(clone) # {} /\ next = n
  <2>1. n \in Proxies /\ n \in Electable(clone) /\ \A q \in Electable(clone) : Rank[q] <= Rank[n]
    BY <1>1, <1>4, NextIs
  <2>2. UpIn(clone) /\ clone.prim \in down
    BY <1>1, <2>1 DEF ObsOK
  <2>3. smap' = smap /\ ObsAll(obs')
    BY <1>2, <1>4 DEF Candidate
  <2>4. elec' = elec \/ elec' = startElection(n, clone, clone.prim, TRUE)
    BY <1>4 DEF Candidate
  <2> HIDE DEF clone
  <2>5. Began(startElection(n, clone, clone.prim, TRUE), n, clone, clone.prim)
    BY <2>1, StartFields
  <2>6. ElecAll(startElection(n, clone, clone.prim, TRUE))
    BY <1>1, <2>1, <2>2, <2>5, BeganOrderly
  <2> QED
    BY <1>1, <2>3, <2>4, <2>6, Assemble DEF Orderly
<1>5. CASE Electable(clone) # {} /\ next # n /\ (~Reach(n, next) \/ ~ElectOK(next, clone))
  <2> DEFINE d == delProxy(clone, next)
  <2>1. ObsOK(d)
    BY <1>1, <1>5, SkipOrderly
  <2>2. smap' = smap /\ elec' = elec /\ obs' = [obs EXCEPT ![n].clone = d]
    BY <1>5 DEF Candidate
  <2> HIDE DEF d
  <2>3. \A m \in Nodes : obs'[m] = IF m = n THEN [obs[n] EXCEPT !.clone = d] ELSE obs[m]
    BY <2>2 DEF SmapsOK
  <2>4. [obs[n] EXCEPT !.clone = d].clone = d
    BY DEF SmapsOK
  <2>5. ObsAll(obs')
    BY <1>2, <2>1, <2>3, <2>4 DEF ObsAll
  <2> QED
    BY <1>1, <2>2, <2>5, Assemble DEF Orderly
<1>6. CASE Electable(clone) # {} /\ next # n /\ Reach(n, next) /\ ElectOK(next, clone)
  <2> DEFINE own == ElectSmap(next, clone)
  <2>1. /\ next \in Proxies /\ next \in Nodes /\ next \in Electable(clone) /\ next # clone.prim
        /\ next \notin down
    BY <1>1, <1>6, NextIs DEF Reach, Up
  <2>2. UpIn(clone) /\ clone.prim \in down
    BY <1>1, <2>1 DEF ObsOK
  <2>3. UpIn(own) /\ (own.prim = next => smap[next].prim = next)
    BY <2>1, <2>2, SyncIs DEF ElectSmap, Orderly, SmapAll
  <2>4. own \in Smaps /\ Electable(own) # {}
    <3>1. Electable(own) # {}
      BY <1>6 DEF ElectOK
    <3>2. own = smap[next] \/ own = clone
      BY SyncIs DEF ElectSmap
    <3> QED
      BY <1>1, <2>1, <3>1, <3>2 DEF SmapsOK
  <2>5. obs' = [obs EXCEPT ![n] = NoObs]
    <3>1. \/ obs' = [obs EXCEPT ![n] = NoObs]
          \/ lost' = lost + 1
      BY <1>6 DEF Candidate
    <3>2. lost = 0
      BY DEF Quiet
    <3>3. lost' # lost + 1
      BY <3>2, SMTT(30)
    <3> QED
      BY <3>1, <3>3
  <2>6. smap' = [smap EXCEPT ![next] = own] /\ elec' = ElectStart(next, clone)
    BY <1>6 DEF Candidate
  <2>7. \/ elec' = elec
        \/ elec' = startElection(next, own, clone.prim, FALSE) /\ Hrw(Electable(own)) = next
    BY <2>6 DEF ElectStart
  <2> HIDE DEF own, next, clone
  <2>8. SmapAll(smap') /\ LeadAll(smap')
    <3>1. next \in Proxies /\ next \notin down /\ own.prim = next => next = First \/ Top(next)
      BY <2>3 DEF Orderly, LeadAll
    <3>2. SmapAll([smap EXCEPT ![next] = own]) /\ LeadAll([smap EXCEPT ![next] = own])
      BY <2>1, <2>3, <3>1, InstallOrderly
    <3> QED
      BY <2>6, <3>2
  <2>9. ElecAll(elec')
    <3>1. CASE elec' = elec
      BY <3>1 DEF Orderly
    <3>2. CASE elec' = startElection(next, own, clone.prim, FALSE) /\ Hrw(Electable(own)) = next
      <4>1. Began(elec', next, own, clone.prim)
        BY <2>1, <3>2, StartFields
      <4>2. next \in Electable(own) /\ \A q \in Electable(own) : Rank[q] <= Rank[next]
        BY <2>4, <3>2, NextIs
      <4> QED
        BY <2>1, <2>2, <2>3, <4>1, <4>2, BeganOrderly
    <3> QED
      BY <2>7, <3>1, <3>2
  <2> QED
    BY <1>1, <1>2, <2>5, <2>8, <2>9, Assemble DEF Orderly
<1> QED
  BY <1>3, <1>4, <1>5, <1>6


\* the ping: an election goes on only when the primary of its record is down
LEMMA PingOrderly ==
    ASSUME SmapsOK, Orderly, Quiet, NEW p \in Proxies, Ping(p)
    PROVE  Orderly'
<1>1. down' = down /\ smap' = smap /\ rem' = rem /\ p \notin down /\ elec[p].pc # "idle"
  BY DEF Ping, At, Up
<1>2. CASE Stop(p)
  BY <1>1, <1>2, StopOrderly, Assemble DEF Orderly
<1>3. CASE /\ elec' = [elec EXCEPT ![p].pc = "votes", ![p].todo = smap[p].in \ {p}] /\ obs' = obs
           /\ ~Reach(p, elec[p].vr.prim)
  <2> DEFINE t == smap[p].in \ {p}
             e == [elec[p] EXCEPT !.pc = "votes", !.todo = t]
  <2>1. elec[p].vr.prim \in down
    BY <1>1, <1>3 DEF Reach, Up, Quiet
  <2>2. elec' = [elec EXCEPT ![p] = e]
    BY <1>3
  <2> HIDE DEF t
  <2>3. e.vr = elec[p].vr /\ e.old = elec[p].old
    <3>1. elec[p] \in ElecType
      BY DEF SmapsOK
    <3> QED
      BY <3>1 DEF ElecType
  <2> HIDE DEF e
  <2>4. elec'[p] = e /\ \A q \in Proxies : q # p => elec'[q] = elec[q]
    BY <2>2 DEF SmapsOK
  <2>5. ElecAll(elec')
    BY <1>1, <2>1, <2>3, <2>4, SameRecord
  <2> QED
    BY <1>1, <1>3, <2>5, Assemble DEF Orderly
<1> QED
  BY <1>2, <1>3 DEF Ping

\* the phases after the ping keep the vote record
LEMMA PhaseOrderly ==
    ASSUME SmapsOK, Orderly, NEW p \in Proxies, elec[p].pc \notin {"idle", "ping"}, NEW e,
           e.vr = elec[p].vr, e.old = elec[p].old
    PROVE  ElecAll([elec EXCEPT ![p] = e])
<1> DEFINE f == [elec EXCEPT ![p] = e]
<1>1. f[p] = e /\ \A q \in Proxies : q # p => f[q] = elec[q]
  BY DEF SmapsOK
<1>2. elec[p].pc # "idle" /\ elec[p].vr.prim \in down
  BY ElectedIsTop
<1> HIDE DEF f
<1>3. ElecAll(f)
  BY <1>1, <1>2, SameRecord
<1> QED
  BY <1>3 DEF f

\* httpgetvote: the voter may install the Smap of the vote record
LEMMA VoteOrderly ==
    ASSUME SmapsOK, Orderly, NEW p \in Proxies, NEW m \in Nodes, Vote(p, m)
    PROVE  Orderly'
<1> DEFINE s == synchronize(smap[m], elec[p].vr)
<1>1. elec[p].pc \notin {"idle", "ping"}
  BY DEF Vote, At
<1>2. down' = down /\ obs' = obs /\ rem' = rem
  BY DEF Vote
<1>3. UpIn(s)
  BY <1>1, SyncIs DEF Orderly, SmapAll, ElecAll, ElecOK
<1>4. m \in Proxies /\ m \notin down /\ s.prim = m => m = First \/ Top(m)
  <2>1. elec[p].vr.prim \in down
    BY <1>1, ElectedIsTop
  <2>2. s = smap[m] \/ s = elec[p].vr
    BY SyncIs
  <2> QED
    BY <2>1, <2>2 DEF Orderly, LeadAll
<1>5. smap' = [smap EXCEPT ![m] = s] \/ smap' = smap
  BY DEF Vote
<1> HIDE DEF s
<1>6. SmapAll(smap') /\ LeadAll(smap')
  BY <1>3, <1>4, <1>5, InstallOrderly DEF Orderly
<1>7. ElecAll(elec')
  <2> DEFINE b == Reach(p, m) /\ Votes(m, p) /\ voteOnProxy(m, synchronize(smap[m], elec[p].vr), smap[m].prim, p)
             t == elec[p].todo \ {m}
             y == IF b THEN elec[p].yes + 1 ELSE elec[p].yes
             z == IF b THEN elec[p].no ELSE elec[p].no + 1
             e == [elec[p] EXCEPT !.todo = t, !.yes = y, !.no = z]
  <2>1. elec' = [elec EXCEPT ![p] = e]
    BY DEF Vote
  <2> HIDE DEF t, y, z
  <2>2. e.vr = elec[p].vr /\ e.old = elec[p].old
    <3>1. elec[p] \in ElecType
      BY DEF SmapsOK
    <3> QED
      BY <3>1 DEF ElecType
  <2> HIDE DEF e
  <2> QED
    BY <1>1, <2>1, <2>2, PhaseOrderly
<1> QED
  BY <1>2, <1>6, <1>7, Assemble DEF Orderly

\* the outcome of the votes
LEMMA OutcomeOrderly ==
    ASSUME SmapsOK, Orderly, NEW p \in Proxies, Elected(p) \/ NotElected(p) \/ Confirmed(p)
    PROVE  Orderly'
<1>1. elec[p].pc \notin {"idle", "ping"} /\ down' = down /\ rem' = rem
  BY DEF Elected, NotElected, Confirmed, At
<1>2. CASE Elected(p)
  <2> DEFINE t == smap[p].in \ {p}
             e == [elec[p] EXCEPT !.pc = "commit", !.todo = t]
  <2>1. elec' = [elec EXCEPT ![p] = e] /\ smap' = smap /\ obs' = obs
    BY <1>2 DEF Elected
  <2> HIDE DEF t
  <2>2. e.vr = elec[p].vr /\ e.old = elec[p].old
    <3>1. elec[p] \in ElecType
      BY DEF SmapsOK
    <3> QED
      BY <3>1 DEF ElecType
  <2> HIDE DEF e
  <2>3. ElecAll(elec')
    BY <1>1, <2>1, <2>2, PhaseOrderly
  <2> QED
    BY <1>1, <2>1, <2>3, Assemble DEF Orderly
<1>3. CASE Confirmed(p)
  <2> DEFINE e == [elec[p] EXCEPT !.pc = "become"]
  <2>1. elec' = [elec EXCEPT ![p] = e] /\ smap' = smap /\ obs' = obs
    BY <1>3 DEF Confirmed
  <2>2. e.vr = elec[p].vr /\ e.old = elec[p].old
    <3>1. elec[p] \in ElecType
      BY DEF SmapsOK
    <3> QED
      BY <3>1 DEF ElecType
  <2> HIDE DEF e
  <2>3. ElecAll(elec')
    BY <1>1, <2>1, <2>2, PhaseOrderly
  <2> QED
    BY <1>1, <2>1, <2>3, Assemble DEF Orderly
<1>4. CASE NotElected(p)
  <2>1. ObsAll(obs') /\ ElecAll(elec')
    BY <1>4, StopOrderly DEF NotElected
  <2>2. SmapAll(smap') /\ LeadAll(smap')
    <3>1. CASE smap' = smap
      BY <3>1 DEF Orderly
    <3>2. CASE \E s \in MaxVer(p) : smap' = [smap EXCEPT ![p] = synchronize(@, s)]
      <4>1. PICK s \in MaxVer(p) : smap' = [smap EXCEPT ![p] = synchronize(smap[p], s)]
        BY <3>2
      <4> DEFINE t == synchronize(smap[p], s)
      <4>2. p \in Nodes /\ smap[p].in \subseteq Nodes
        BY DEF Nodes, SmapsOK, Smaps
      <4>3. \E m \in Nodes : s = smap[m]
        BY <4>2 DEF MaxVer
      <4>4. UpIn(t)
        BY <4>2, <4>3, SyncIs DEF Orderly, SmapAll
      <4>5. smap' = [smap EXCEPT ![p] = t] /\ Top(p)
        BY <1>1, <4>1, ElectedIsTop
      <4> HIDE DEF t
      <4> QED
        BY <4>2, <4>4, <4>5, InstallOrderly
    <3> QED
      BY <1>4, <3>1, <3>2 DEF NotElected
  <2> QED
    BY <1>1, <2>1, <2>2, Assemble DEF Orderly
<1> QED
  BY <1>2, <1>3, <1>4


\* _votedPrimary: the old primary that goes is down
LEMMA ConfirmOrderly ==
    ASSUME SmapsOK, Orderly, NEW p \in Proxies, NEW m \in Nodes, Confirm(p, m)
    PROVE  Orderly'
<1> DEFINE old == elec[p].old
           s == [smap[m] EXCEPT !.prim = p]
           v == votedPrimary(m, p, old)
<1>1. /\ elec[p].pc \notin {"idle", "ping"} /\ down' = down /\ obs' = obs /\ rem' = rem
      /\ smap[m] \in Smaps /\ UpIn(smap[m])
  BY DEF Confirm, At, SmapsOK, Orderly, SmapAll
<1>2. Top(p) /\ old \in down
  BY <1>1, ElectedIsTop
<1>3. s \in Smaps /\ s.prim = p /\ s.in = smap[m].in
  BY <1>1 DEF Smaps
<1>4. UpIn(s)
  BY <1>1, <1>3 DEF UpIn
<1> HIDE DEF s
<1>5. UpIn(delProxy(s, old)) /\ delProxy(s, old).prim = p
  BY <1>2, <1>3, <1>4, DelUpIn, DelFields
<1>6. v = IF p \notin smap[m].in THEN smap[m] ELSE IF old \in s.in THEN delProxy(s, old) ELSE s
  BY DEF votedPrimary, s
<1>7. UpIn(v) /\ (v.prim = p \/ v = smap[m])
  BY <1>1, <1>3, <1>4, <1>5, <1>6
<1>8. m \in Proxies /\ m \notin down /\ v.prim = m => m = First \/ Top(m)
  BY <1>2, <1>7 DEF Orderly, LeadAll
<1>9. smap' = [smap EXCEPT ![m] = v] \/ smap' = smap
  BY DEF Confirm
<1> HIDE DEF v
<1>10. SmapAll(smap') /\ LeadAll(smap')
  BY <1>7, <1>8, <1>9, InstallOrderly DEF Orderly
<1>11. ElecAll(elec')
  <2> DEFINE t == elec[p].todo \ {m}
             e == [elec[p] EXCEPT !.todo = t]
  <2>1. elec' = [elec EXCEPT ![p] = e]
    BY DEF Confirm
  <2> HIDE DEF t
  <2>2. e.vr = elec[p].vr /\ e.old = elec[p].old
    <3>1. elec[p] \in ElecType
      BY DEF SmapsOK
    <3> QED
      BY <3>1 DEF ElecType
  <2> HIDE DEF e
  <2> QED
    BY <1>1, <2>1, <2>2, PhaseOrderly
<1> QED
  BY <1>1, <1>10, <1>11, Assemble DEF Orderly

\* becomeNewPrimary: the new primary is the highest that is up
LEMMA BecomeOrderly ==
    ASSUME SmapsOK, Orderly, NEW p \in Proxies, Become(p)
    PROVE  Orderly'
<1> DEFINE s == IF elec[p].old \in smap[p].in THEN delProxy(smap[p], elec[p].old) ELSE smap[p]
           v == s.ver + 100
           t == [s EXCEPT !.prim = p, !.ver = v]
<1>1. /\ elec[p].pc \notin {"idle", "ping"} /\ down' = down /\ rem' = rem /\ p \in Nodes
      /\ smap[p] \in Smaps /\ UpIn(smap[p])
  BY DEF Become, At, SmapsOK, Orderly, SmapAll, Nodes
<1>2. Top(p) /\ elec[p].old \in down
  BY <1>1, ElectedIsTop
<1>3. s \in Smaps /\ UpIn(s)
  BY <1>1, <1>2, DelGrows, DelUpIn
<1>4. smap' = [smap EXCEPT ![p] = t]
  BY DEF Become
<1> HIDE DEF s, v
<1>5. t.in = s.in
  BY <1>3 DEF Smaps
<1>6. UpIn(t)
  BY <1>3, <1>5 DEF UpIn
<1> HIDE DEF t
<1>7. SmapAll(smap') /\ LeadAll(smap')
  BY <1>1, <1>2, <1>4, <1>6, InstallOrderly
<1>8. ObsAll(obs') /\ ElecAll(elec')
  BY StopOrderly DEF Become
<1> QED
  BY <1>1, <1>7, <1>8, Assemble DEF Orderly

\* updateSmap and metasync: the nodes that do not answer are down
LEMMA LeadOrderly ==
    ASSUME SmapsOK, Orderly, Quiet, NEW p \in Proxies, Lead(p)
    PROVE  Orderly'
<1>1. down' = down /\ obs' = obs /\ elec' = elec /\ p \in Nodes /\ smap[p] \in Smaps /\ UpIn(smap[p])
  BY DEF Lead, Unresponsive, Remove, Metasync, SmapsOK, Orderly, SmapAll, Nodes
<1>2. CASE Unresponsive(p)
  <2> DEFINE u == {m \in smap[p].in : ~Reach(p, m)}
  <2>1. u \subseteq down
    BY <1>2 DEF Unresponsive, Reach, Up, Quiet
  <2>2. rem' = [rem EXCEPT ![p] = rem[p] \cup u] /\ smap' = smap
    BY <1>2 DEF Unresponsive
  <2> HIDE DEF u
  <2>3. \A q \in Proxies : rem'[q] = IF q = p THEN rem[p] \cup u ELSE rem[q]
    BY <2>2 DEF SmapsOK
  <2>4. RemAll(rem')
    BY <2>1, <2>3 DEF RemAll, Orderly
  <2> QED
    BY <1>1, <2>2, <2>4, Assemble DEF Orderly
<1>3. CASE Remove(p)
  <2> DEFINE i == smap[p].in \ rem[p]
             v == smap[p].ver + Cardinality(rem[p] \cap smap[p].in)
             t == [smap[p] EXCEPT !.in = i, !.ver = v]
  <2>1. smap' = [smap EXCEPT ![p] = t] /\ rem' = [rem EXCEPT ![p] = {}]
    BY <1>3 DEF Remove
  <2>2. Nodes \ down \subseteq i
    BY <1>1 DEF UpIn, Orderly, RemAll
  <2> HIDE DEF i, v
  <2>3. t.in = i /\ t.prim = smap[p].prim
    BY <1>1 DEF Smaps
  <2> HIDE DEF t
  <2>4. UpIn(t)
    BY <2>2, <2>3 DEF UpIn
  <2>5. p \in Proxies /\ p \notin down /\ t.prim = p => p = First \/ Top(p)
    BY <2>3 DEF Orderly, LeadAll
  <2>6. SmapAll(smap') /\ LeadAll(smap')
    BY <1>1, <2>1, <2>4, <2>5, InstallOrderly
  <2>7. RemAll(rem')
    BY <2>1 DEF RemAll, Orderly, SmapsOK
  <2> QED
    BY <1>1, <2>6, <2>7, Assemble DEF Orderly
<1>4. ASSUME NEW m \in Nodes, Metasync(p, m)
      PROVE  Orderly'
  <2>1. smap[p].prim # m /\ smap' = [smap EXCEPT ![m] = smap[p]] /\ rem' = rem
    BY <1>4 DEF Metasync, Accepts, Primary
  <2>2. SmapAll(smap') /\ LeadAll(smap')
    BY <1>1, <2>1, InstallOrderly
  <2> QED
    BY <1>1, <2>1, <2>2, Assemble DEF Orderly
<1> QED
  BY <1>2, <1>3, <1>4 DEF Lead


-----------------------------------------------------------------------------
(* One primary *)

\* no step without a network fault disturbs the order
LEMMA OrderlyStep ==
    ASSUME SmapsOK, Quiet, Orderly, [VNext]_votevars, Quiet'
    PROVE  Orderly'
<1>1. lost' = lost
  BY DEF Quiet
<1>2. ASSUME NEW n \in Nodes, Crash(n) \/ Silence(n) \/ HeardFrom(n) \/ Observe(n)
      PROVE  Orderly'
  <2>1. CASE Silence(n) \/ HeardFrom(n)
    <3>1. down' = down /\ smap' = smap /\ obs' = obs /\ elec' = elec /\ rem' = rem
      BY <2>1 DEF Silence, HeardFrom
    <3> QED
      BY <3>1, Assemble DEF Orderly
  <2> QED
    BY <1>1, <1>2, <2>1, CrashOrderly, PrimaryDownOrderly, CandidateOrderly DEF Observe
<1>3. ASSUME NEW a \in Nodes, NEW b \in Nodes, Cut(a, b)
      PROVE  FALSE
  BY <1>3 DEF Cut, Quiet
<1>4. ASSUME NEW p \in Proxies, Elect(p)
      PROVE  Orderly'
  BY <1>4, PingOrderly, VoteOrderly, OutcomeOrderly, ConfirmOrderly, BecomeOrderly DEF Elect
<1>5. CASE UNCHANGED votevars
  <2>1. down' = down /\ smap' = smap /\ obs' = obs /\ elec' = elec /\ rem' = rem
    BY <1>5 DEF votevars
  <2> QED
    BY <2>1, Assemble DEF Orderly
<1> QED
  BY <1>2, <1>3, <1>4, <1>5, LeadOrderly DEF VNext

\* the faults so far can be counted
FaultsOK == IsFiniteSet(cut) /\ lost \in Nat

\* the inductive invariant
LeadInv ==
    /\ SmapsOK /\ FaultsOK
    /\ Calm => Settled
    /\ Quiet => Orderly

\* a running cluster satisfies it
LEMMA LeadInvInit == VInit => LeadInv
<1> SUFFICES ASSUME VInit
             PROVE  LeadInv
  OBVIOUS
<1>1. SmapsOK
  BY SmapsInit
<1>2. FaultsOK
  BY FS_EmptySet, SMTT(30) DEF VInit, FaultsOK
<1> DEFINE s == [ver |-> 1, prim |-> First, in |-> Nodes]
<1>3. s.prim = First /\ s.in = Nodes
  OBVIOUS
<1>4. /\ \A n \in Nodes : smap[n] = s /\ obs[n] = NoObs
      /\ \A p \in Proxies : elec[p] = NoElec /\ rem[p] = {}
      /\ Proxies \subseteq Nodes
  BY DEF VInit, Nodes
<1> HIDE DEF s
<1>5. Settled
  BY <1>3, <1>4, NoneSettled DEF Settled
<1>6. Orderly
  BY <1>3, <1>4, NoneSettled DEF Orderly, SmapAll, LeadAll, ObsAll, ElecAll, RemAll, UpIn
<1> QED
  BY <1>1, <1>2, <1>5, <1>6 DEF LeadInv

\* ... and every step preserves it
LEMMA LeadInvStep ==
    ASSUME LeadInv, [VNext]_votevars
    PROVE  LeadInv'
<1>1. SmapsOK' /\ SmapsOK
  BY SmapsStep DEF LeadInv
<1>2. down \subseteq down' /\ cut \subseteq cut' /\ (lost' = lost \/ lost' = lost + 1)
  BY FaultsStay
<1>3. FaultsOK'
  <2>1. cut' = cut \/ \E a, b \in Nodes : cut' = cut \cup {{a, b}}
    <3>1. ASSUME NEW n \in Nodes, Crash(n) \/ Silence(n) \/ HeardFrom(n) \/ Observe(n)
          PROVE  cut' = cut
      BY <3>1 DEF Crash, Silence, HeardFrom, Observe, PrimaryDown, Candidate
    <3>2. ASSUME NEW p \in Proxies, Elect(p) \/ Lead(p)
          PROVE  cut' = cut
      BY <3>2 DEF Elect, Ping, Elected, NotElected, Confirmed, Become, Vote, Confirm,
                  Lead, Unresponsive, Remove, Metasync
    <3>3. CASE UNCHANGED votevars
      BY <3>3 DEF votevars
    <3> QED
      BY <3>1, <3>2, <3>3 DEF VNext, Cut
  <2>2. IsFiniteSet(cut')
    BY <2>1, FS_AddElement DEF LeadInv, FaultsOK
  <2>3. lost' \in Nat
    BY <1>2, SMTT(30) DEF LeadInv, FaultsOK
  <2> QED
    BY <2>2, <2>3 DEF FaultsOK
<1>4. Calm' => Settled'
  <2>1. Calm' => Calm
    BY <1>2 DEF Calm, Up
  <2> QED
    BY <1>1, <2>1, SettledStep DEF LeadInv
<1>5. Quiet' => Orderly'
  <2>1. Quiet' => Quiet
    <3>1. lost' = 0 => lost = 0
      BY <1>2, SMTT(30) DEF LeadInv, FaultsOK
    <3> QED
      BY <1>2, <3>1 DEF Quiet
  <2> QED
    BY <1>1, <2>1, OrderlyStep DEF LeadInv
<1> QED
  BY <1>1, <1>3, <1>4, <1>5 DEF LeadInv

\* the first primary leads while it is up and no proxy has lost it; after it, the highest
\* proxy that is up, and there is one
LEMMA LeadInvGives == LeadInv => OneLeader
<1> SUFFICES ASSUME LeadInv
             PROVE  OneLeader
  OBVIOUS
<1>1. Proxies \subseteq Nodes /\ First \in Proxies
  BY VoteAssumption DEF VoteAssumption, Nodes
<1>2. Calm => Leaders = {First}
  BY <1>1 DEF LeadInv, Settled, Leaders, Primary, Calm, Up
<1>3. NetFaults = 0 => Quiet
  <2>1. Cardinality(cut) \in Nat /\ lost \in Nat
    BY FS_CardinalityType DEF LeadInv, FaultsOK
  <2>2. NetFaults = 0 => Cardinality(cut) = 0 /\ lost = 0
    BY <2>1, SMTT(30) DEF NetFaults
  <2> QED
    BY <2>2, FS_EmptySet DEF LeadInv, FaultsOK, Quiet
<1>4. ASSUME Quiet
      PROVE  /\ \A p, q \in Leaders : p = q
             /\ \A n \in Nodes : Nodes \ down \subseteq smap[n].in
  <2>1. Orderly
    BY <1>4 DEF LeadInv
  <2>2. CASE First \notin down
    <3>1. Calm
      BY <1>4, <2>2 DEF Calm, Quiet, Up
    <3> QED
      BY <1>2, <2>1, <3>1 DEF Orderly, SmapAll, UpIn
  <2>3. CASE First \in down
    <3>1. \A p \in Leaders : p \in Proxies /\ Top(p)
      BY <2>1, <2>3 DEF Leaders, Up, Primary, Orderly, LeadAll
    <3>2. \A p, q \in Leaders : Rank[p] <= Rank[q]
      BY <3>1 DEF Top
    <3>3. \A p \in Proxies : Rank[p] \in Nat
      BY VoteAssumption DEF VoteAssumption
    <3>4. \A p, q \in Leaders : Rank[p] = Rank[q]
      BY <3>1, <3>2, <3>3, SMTT(30)
    <3>5. \A p, q \in Leaders : p = q
      BY <3>1, <3>4, VoteAssumption DEF VoteAssumption
    <3> QED
      BY <2>1, <3>5 DEF Orderly, SmapAll, UpIn
  <2> QED
    BY <2>2, <2>3
<1> QED
  BY <1>2, <1>3, <1>4 DEF OneLeader

\* onPrimaryDown, elect, _votedPrimary, updateSmap, for any number of gateways and targets:
\* while no connection and no answer is lost, whoever stops and whenever, no two gateways
\* are primary and no Smap misses a node that is up; and whatever is lost elsewhere, the
\* primary of the start is not replaced while it is up and every gateway can reach it
THEOREM OnePrimary == VSpec => []OneLeader
<1>1. LeadInv /\ [VNext]_votevars => LeadInv'
  BY LeadInvStep
<1> QED
  BY LeadInvInit, <1>1, LeadInvGives, PTL DEF VSpec
=============================================================================
