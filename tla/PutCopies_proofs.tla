-------------------------- MODULE PutCopies_proofs --------------------------
(***************************************************************************)
(* For any number of PUTs, mountpaths and channel sizes: the count of      *)
(* pending work is exact, what is dropped is reported, and the idle tick   *)
(* comes when there is no work.                                            *)
(*                                                                         *)
(* All three rest on where every object is (CopiesInv): with its PUT, in   *)
(* the one channel of its mountpath, with that worker, or done with.       *)
(***************************************************************************)
EXTENDS PutCopies, FiniteSetTheorems, TLAPS

\* leaves are for Zenon, those with arithmetic, records or sequences for SMT
USE ZenonT(30)

-----------------------------------------------------------------------------
(* The on-demand xaction: where its goroutines and its objects are *)

\* Run before it stops the workers
Before == {"select", "stop", "stopping", "unreg", "ticks"}

PutPCs == {"renew", "inc", "zero", "post", "now", "abort", "ret"}
WorkPCs == {"select", "copy", "dec", "now", "exit"}
RunPCs == Before \cup {"drain", "close", "wait", "now", "adderr", "finish", "ret"}
Fates == {"none", "queued", "gone", "copied", "failed", "dropped", "lost"}

PutTypes == ppc \in [Puts -> PutPCs] /\ fate \in [Puts -> Fates] /\ late \subseteq Puts
WorkTypes ==
    /\ wpc \in [Mpaths -> WorkPCs] /\ wobj \in [Mpaths -> Puts \cup {Nobody}]
    /\ q \in [Mpaths -> Seq(Puts)] /\ \A m \in Mpaths : Len(q[m]) <= Burst
    /\ stopCh \in [Mpaths -> BOOLEAN]
RunTypes == rpc \in RunPCs /\ ndrop \in Nat /\ todo \subseteq Mpaths
XactTypes ==
    /\ eutime \in {"running", "stopping", "ended"} /\ errs \subseteq Procs
    /\ done \in BOOLEAN /\ chClosed \in BOOLEAN /\ told \in {"no", "finished", "aborted"}
HkTypes ==
    /\ last \in {"zero", "fresh", "old"}
    /\ ticks \in BOOLEAN /\ unregged \in BOOLEAN /\ hkreg \in BOOLEAN
    /\ hkops \in Seq({"reg", "unreg"})
    /\ hkpc \in {"wait", "loadpending", "loadlast"}

Places == PutTypes /\ WorkTypes /\ RunTypes /\ XactTypes /\ HkTypes

Dropped == {p \in Puts : fate[p] = "dropped"}

\* p is in the channel of mountpath m
InQ(m, p) == \E i \in 1..Len(q[m]) : q[m][i] = p

\* an object has a fate once its PUT is over
PutsOK == \A p \in Puts : fate[p] # "none" => ppc[p] = "ret"

\* a channel holds each object once, of its mountpath, and not one being copied; after the
\* drain, only late ones
ChansOK ==
    /\ \A m \in Mpaths, p \in Puts : InQ(m, p) =>
          /\ fate[p] = "queued" /\ MpathOf[p] = m /\ wobj[m] # p
          /\ m \notin todo => p \in late
    /\ \A m \in Mpaths : \A i, j \in 1..Len(q[m]) : q[m][i] = q[m][j] => i = j

\* a worker has an object from its channel until DecPending
WorkerOK(m) ==
    /\ wobj[m] # Nobody => wpc[m] \in {"copy", "dec"} /\ MpathOf[wobj[m]] = m
    /\ wpc[m] = "copy" => wobj[m] # Nobody /\ fate[wobj[m]] = "queued"
    /\ wpc[m] = "dec" => wobj[m] # Nobody /\ fate[wobj[m]] \in {"copied", "failed"}
    /\ stopCh[m] \/ wpc[m] = "exit" => m \notin todo
WorkersOK == \A m \in Mpaths : WorkerOK(m)

\* an object that is queued is in its channel or with its worker
QueuedOK == \A p \in Puts : fate[p] = "queued" => wobj[MpathOf[p]] = p \/ InQ(MpathOf[p], p)

LostOK == \A p \in Puts : fate[p] = "lost" => p \in late

\* Run has counted what it drained
DropsOK ==
    /\ ndrop = Cardinality(Dropped)
    /\ rpc \in Before => Dropped = {}
    /\ rpc \in {"finish", "ret"} /\ ndrop > 0 => Run \in errs \/ done

Exact == pending = Cardinality(Counted)

\* the housekeeper found no pending work, and an old time: it sees at most a PUT
\* between the two halves of IncPending
Looks == hkpc = "loadlast" /\ last = "old" => \A p \in Counted : ppc[p] = "zero"

Flow == PutsOK /\ ChansOK /\ WorkersOK /\ QueuedOK /\ LostOK
CopiesInv == Places /\ Flow /\ DropsOK /\ Exact /\ IdleClockRuns /\ Looks

-----------------------------------------------------------------------------
(* Counting *)

\* the sets that are counted are finite
LEMMA CountedFinite ==
    /\ IsFiniteSet(Counted) /\ Cardinality(Counted) \in Nat /\ Counted \subseteq Puts
    /\ IsFiniteSet(Dropped) /\ Cardinality(Dropped) \in Nat /\ Dropped \subseteq Puts
<1>1. IsFiniteSet(Puts)
  BY PCAssumption DEF PCAssumption
<1>2. Counted \subseteq Puts /\ Dropped \subseteq Puts
  BY DEF Counted, Dropped
<1>3. IsFiniteSet(Counted) /\ IsFiniteSet(Dropped)
  BY <1>1, <1>2, FS_Subset
<1> QED
  BY <1>2, <1>3, FS_CardinalityType

\* a channel that holds each object once holds as many as it is long
LEMMA ChanCount ==
    ASSUME NEW s \in Seq(Puts), \A i, j \in 1..Len(s) : s[i] = s[j] => i = j
    PROVE  /\ IsFiniteSet({s[i] : i \in 1..Len(s)})
           /\ Cardinality({s[i] : i \in 1..Len(s)}) = Len(s)
<1> DEFINE S == {s[i] : i \in 1..Len(s)}
           f == [i \in 1..Len(s) |-> s[i]]
<1>1. Len(s) \in Nat
  BY SMTT(30)
<1>2. f \in Bijection(1..Len(s), S)
  BY DEF Bijection, Injection, Surjection, IsInjective
<1>3. ExistsBijection(1..Len(s), S)
  BY <1>2 DEF ExistsBijection
<1> HIDE DEF S, f
<1>4. IsFiniteSet(S) /\ Cardinality(S) = Len(s)
  BY <1>1, <1>3, FS_CountingElements, FS_NatBijection
<1> QED
  BY <1>4 DEF S


\* one object more is counted, or one less, or as many
LEMMA CountStep ==
    ASSUME Exact
    PROVE  /\ Counted' = Counted /\ pending' = pending => Exact'
           /\ \A p : Counted' = Counted \cup {p} /\ p \notin Counted /\ pending' = pending + 1 => Exact'
           /\ \A p : Counted' = Counted \ {p} /\ p \in Counted /\ pending' = pending - 1 => Exact'
           /\ pending \in Nat /\ (pending = 0 <=> Counted = {})
<1>1. IsFiniteSet(Counted) /\ Cardinality(Counted) \in Nat
  BY CountedFinite
<1>2. Counted' = Counted /\ pending' = pending => Exact'
  BY DEF Exact
<1>3. ASSUME NEW p, Counted' = Counted \cup {p}, p \notin Counted, pending' = pending + 1
      PROVE  Exact'
  <2>1. Cardinality(Counted \cup {p}) = Cardinality(Counted) + 1
    BY <1>1, <1>3, FS_AddElement
  <2> QED
    BY <1>3, <2>1 DEF Exact
<1>4. ASSUME NEW p, Counted' = Counted \ {p}, p \in Counted, pending' = pending - 1
      PROVE  Exact'
  <2>1. Cardinality(Counted \ {p}) = Cardinality(Counted) - 1
    BY <1>1, <1>4, FS_RemoveElement
  <2> QED
    BY <1>4, <2>1 DEF Exact
<1>5. pending \in Nat /\ (pending = 0 <=> Counted = {})
  BY <1>1, FS_EmptySet DEF Exact
<1> QED
  BY <1>2, <1>3, <1>4, <1>5

\* the channel of m becomes t
LEMMA ReplaceQ ==
    ASSUME WorkTypes, ChansOK, NEW m \in Mpaths, NEW t \in Seq(Puts), Len(t) <= Burst,
           \A i, j \in 1..Len(t) : t[i] = t[j] => i = j, q' = [q EXCEPT ![m] = t]
    PROVE  /\ q' \in [Mpaths -> Seq(Puts)] /\ \A k \in Mpaths : Len(q'[k]) <= Burst
           /\ \A k \in Mpaths, r \in Puts : k # m => (InQ(k, r)' <=> InQ(k, r))
           /\ \A r \in Puts : InQ(m, r)' <=> \E i \in 1..Len(t) : t[i] = r
           /\ \A k \in Mpaths : \A i, j \in 1..Len(q'[k]) : q'[k][i] = q'[k][j] => i = j
<1>1. q' \in [Mpaths -> Seq(Puts)] /\ q'[m] = t /\ \A k \in Mpaths : k # m => q'[k] = q[k]
  BY DEF WorkTypes
<1>2. \A k \in Mpaths : Len(q'[k]) <= Burst
  BY <1>1 DEF WorkTypes
<1>3. \A k \in Mpaths, r \in Puts : k # m => (InQ(k, r)' <=> InQ(k, r))
  BY <1>1 DEF InQ
<1>4. \A r \in Puts : InQ(m, r)' <=> \E i \in 1..Len(t) : t[i] = r
  BY <1>1 DEF InQ
<1>5. ASSUME NEW k \in Mpaths
      PROVE  \A i, j \in 1..Len(q'[k]) : q'[k][i] = q'[k][j] => i = j
  <2>1. CASE k = m
    <3>1. q'[k] = t
      BY <1>1, <2>1
    <3> QED
      BY <3>1, SMTT(30)
  <2>2. CASE k # m
    <3>1. q'[k] = q[k]
      BY <1>1, <2>2
    <3>2. \A i, j \in 1..Len(q[k]) : q[k][i] = q[k][j] => i = j
      BY DEF ChansOK
    <3> QED
      BY <3>1, <3>2
  <2> QED
    BY <2>1, <2>2
<1> QED
  BY <1>1, <1>2, <1>3, <1>4, <1>5

\* PostLIF puts an object at the end of a channel
LEMMA PostQ ==
    ASSUME WorkTypes, ChansOK, NEW m \in Mpaths, NEW p \in Puts, ~InQ(m, p),
           Len(q[m]) < Burst, q' = [q EXCEPT ![m] = Append(q[m], p)]
    PROVE  /\ q' \in [Mpaths -> Seq(Puts)] /\ \A k \in Mpaths : Len(q'[k]) <= Burst
           /\ \A k \in Mpaths, r \in Puts : InQ(k, r)' <=> InQ(k, r) \/ (k = m /\ r = p)
           /\ \A k \in Mpaths : \A i, j \in 1..Len(q'[k]) : q'[k][i] = q'[k][j] => i = j
<1> DEFINE s == q[m]
           t == Append(s, p)
<1>1. s \in Seq(Puts) /\ Len(s) \in Nat /\ Burst \in Nat /\ Len(s) < Burst
  <2>1. s \in Seq(Puts) /\ Len(s) < Burst
    BY DEF WorkTypes
  <2> QED
    BY <2>1, PCAssumption, SMTT(30) DEF PCAssumption
<1>2. \A i, j \in 1..Len(s) : s[i] = s[j] => i = j
  BY DEF ChansOK
<1>3. \A i \in 1..Len(s) : s[i] # p
  BY DEF InQ
<1>4. q' = [q EXCEPT ![m] = t] /\ \A r : InQ(m, r) <=> \E i \in 1..Len(s) : s[i] = r
  BY DEF InQ
<1> HIDE DEF s
<1>5. /\ t \in Seq(Puts) /\ Len(t) = Len(s) + 1 /\ Len(t) <= Burst
      /\ t[Len(s) + 1] = p /\ \A i \in 1..Len(s) : t[i] = s[i]
  BY <1>1, SMTT(30)
<1>6. 1..Len(t) = (1..Len(s)) \cup {Len(s) + 1}
  BY <1>1, <1>5, SMTT(30)
<1> HIDE DEF t
<1>7. \A i, j \in 1..Len(t) : t[i] = t[j] => i = j
  <2>1. \A i \in 1..Len(t) : i \in 1..Len(s) \/ i = Len(s) + 1
    BY <1>6
  <2>2. \A i \in 1..Len(s) : t[i] # p
    BY <1>3, <1>5
  <2>3. \A i, j \in 1..Len(s) : t[i] = t[j] => i = j
    BY <1>2, <1>5
  <2> QED
    BY <1>5, <2>1, <2>2, <2>3
<1>8. \A r : (\E i \in 1..Len(t) : t[i] = r) <=> (\E i \in 1..Len(s) : s[i] = r) \/ r = p
  BY <1>5, <1>6
<1>9. /\ q' \in [Mpaths -> Seq(Puts)] /\ \A k \in Mpaths : Len(q'[k]) <= Burst
      /\ \A k \in Mpaths, r \in Puts : k # m => (InQ(k, r)' <=> InQ(k, r))
      /\ \A r \in Puts : InQ(m, r)' <=> \E i \in 1..Len(t) : t[i] = r
      /\ \A k \in Mpaths : \A i, j \in 1..Len(q'[k]) : q'[k][i] = q'[k][j] => i = j
  BY <1>4, <1>5, <1>7, ReplaceQ
<1>10. \A r \in Puts : InQ(m, r)' <=> InQ(m, r) \/ r = p
  BY <1>4, <1>8, <1>9
<1>11. \A k \in Mpaths, r \in Puts : InQ(k, r)' <=> InQ(k, r) \/ (k = m /\ r = p)
  <2> SUFFICES ASSUME NEW k \in Mpaths, NEW r \in Puts
               PROVE  InQ(k, r)' <=> InQ(k, r) \/ (k = m /\ r = p)
    OBVIOUS
  <2>1. CASE k = m
    BY <1>10, <2>1
  <2>2. CASE k # m
    BY <1>9, <2>2
  <2> QED
    BY <2>1, <2>2
<1> QED
  BY <1>9, <1>11

\* a worker takes the first object of its channel
LEMMA RecvQ ==
    ASSUME WorkTypes, ChansOK, NEW m \in Mpaths, q[m] # <<>>, q' = [q EXCEPT ![m] = Tail(q[m])]
    PROVE  /\ q' \in [Mpaths -> Seq(Puts)] /\ \A k \in Mpaths : Len(q'[k]) <= Burst
           /\ Head(q[m]) \in Puts /\ InQ(m, Head(q[m]))
           /\ \A k \in Mpaths, r \in Puts : InQ(k, r)' <=> InQ(k, r) /\ ~(k = m /\ r = Head(q[m]))
           /\ \A k \in Mpaths : \A i, j \in 1..Len(q'[k]) : q'[k][i] = q'[k][j] => i = j
<1> DEFINE s == q[m]
           t == Tail(s)
           h == Head(s)
<1>1. s \in Seq(Puts) /\ s # <<>> /\ Len(s) \in Nat /\ Burst \in Nat /\ Len(s) <= Burst
  <2>1. s \in Seq(Puts) /\ s # <<>> /\ Len(s) <= Burst
    BY DEF WorkTypes
  <2> QED
    BY <2>1, PCAssumption, SMTT(30) DEF PCAssumption
<1>2. \A i, j \in 1..Len(s) : s[i] = s[j] => i = j
  BY DEF ChansOK
<1>4. q' = [q EXCEPT ![m] = t] /\ \A r : InQ(m, r) <=> \E i \in 1..Len(s) : s[i] = r
  BY DEF InQ
<1> HIDE DEF s
<1>5. /\ t \in Seq(Puts) /\ Len(t) = Len(s) - 1 /\ Len(t) <= Burst /\ Len(s) > 0
      /\ h \in Puts /\ h = s[1] /\ \A i \in 1..Len(t) : t[i] = s[i + 1]
  BY <1>1, SMTT(30)
<1>6. /\ 1 \in 1..Len(s) /\ \A i \in 1..Len(t) : i + 1 \in 1..Len(s) /\ i + 1 # 1
      /\ \A i \in 1..Len(s) : i # 1 => \E j \in 1..Len(t) : i = j + 1
      /\ \A i, j \in 1..Len(t) : i + 1 = j + 1 => i = j
  <2>1. Len(s) \in Nat /\ Len(t) = Len(s) - 1 /\ Len(s) > 0
    BY <1>1, <1>5
  <2>2. \A i \in 1..Len(s) : i # 1 => i - 1 \in 1..Len(t) /\ i = (i - 1) + 1
    BY <2>1, SMTT(30)
  <2>3. 1 \in 1..Len(s) /\ \A i \in 1..Len(t) : i + 1 \in 1..Len(s) /\ i + 1 # 1
    BY <2>1, SMTT(30)
  <2>4. \A i, j \in 1..Len(t) : i + 1 = j + 1 => i = j
    BY <2>1, SMTT(30)
  <2> QED
    BY <2>2, <2>3, <2>4
<1> HIDE DEF t, h
<1>7. ASSUME NEW i \in 1..Len(t), NEW j \in 1..Len(t), t[i] = t[j]
      PROVE  i = j
  <2>1. s[i + 1] = s[j + 1] /\ i + 1 \in 1..Len(s) /\ j + 1 \in 1..Len(s)
    BY <1>5, <1>6, <1>7
  <2>2. i + 1 = j + 1
    BY <1>2, <2>1
  <2> QED
    BY <1>6, <2>2
<1>8. \A r : (\E i \in 1..Len(t) : t[i] = r) <=> (\E i \in 1..Len(s) : s[i] = r) /\ r # h
  <2>1. \A i \in 1..Len(t) : t[i] = s[i + 1] /\ t[i] # h
    BY <1>2, <1>5, <1>6
  <2>2. \A r : (\E i \in 1..Len(t) : t[i] = r) => (\E i \in 1..Len(s) : s[i] = r) /\ r # h
    BY <1>6, <2>1
  <2>3. ASSUME NEW r, NEW i \in 1..Len(s), s[i] = r, r # h
        PROVE  \E j \in 1..Len(t) : t[j] = r
    <3>1. PICK j \in 1..Len(t) : i = j + 1
      BY <1>5, <1>6, <2>3
    <3> QED
      BY <2>1, <2>3, <3>1
  <2> QED
    BY <2>2, <2>3
<1>9. h \in Puts /\ InQ(m, h)
  BY <1>4, <1>5, <1>6
<1>10. /\ q' \in [Mpaths -> Seq(Puts)] /\ \A k \in Mpaths : Len(q'[k]) <= Burst
       /\ \A k \in Mpaths, r \in Puts : k # m => (InQ(k, r)' <=> InQ(k, r))
       /\ \A r \in Puts : InQ(m, r)' <=> \E i \in 1..Len(t) : t[i] = r
       /\ \A k \in Mpaths : \A i, j \in 1..Len(q'[k]) : q'[k][i] = q'[k][j] => i = j
  BY <1>4, <1>5, <1>7, ReplaceQ
<1>11. \A r \in Puts : InQ(m, r)' <=> InQ(m, r) /\ r # h
  BY <1>4, <1>8, <1>10
<1>12. \A k \in Mpaths, r \in Puts : InQ(k, r)' <=> InQ(k, r) /\ ~(k = m /\ r = h)
  <2> SUFFICES ASSUME NEW k \in Mpaths, NEW r \in Puts
               PROVE  InQ(k, r)' <=> InQ(k, r) /\ ~(k = m /\ r = h)
    OBVIOUS
  <2>1. CASE k = m
    BY <1>11, <2>1
  <2>2. CASE k # m
    BY <1>10, <2>2
  <2> QED
    BY <2>1, <2>2
<1> QED
  BY <1>9, <1>10, <1>12 DEF h, s

\* a channel is drained
LEMMA DrainQ ==
    ASSUME WorkTypes, ChansOK, NEW m \in Mpaths, q' = [q EXCEPT ![m] = <<>>]
    PROVE  /\ q' \in [Mpaths -> Seq(Puts)] /\ \A k \in Mpaths : Len(q'[k]) <= Burst
           /\ \A k \in Mpaths, r \in Puts : InQ(k, r)' <=> InQ(k, r) /\ k # m
           /\ \A k \in Mpaths : \A i, j \in 1..Len(q'[k]) : q'[k][i] = q'[k][j] => i = j
<1> DEFINE t == <<>>
<1>1. t \in Seq(Puts) /\ Len(t) <= Burst /\ 1..Len(t) = {}
  BY PCAssumption, SMTT(30) DEF PCAssumption
<1>2. q' = [q EXCEPT ![m] = t]
  OBVIOUS
<1> HIDE DEF t
<1> QED
  BY <1>1, <1>2, ReplaceQ

-----------------------------------------------------------------------------
(* The PUTs *)

\* a counted object is one the invariant knows of: with fate "none" no worker has it
LEMMA NotYet ==
    ASSUME Places, Flow, NEW p \in Puts, ppc[p] # "ret"
    PROVE  /\ fate[p] = "none" /\ \A m \in Mpaths : wobj[m] # p /\ ~InQ(m, p)
           /\ p \in Counted <=> ppc[p] \in {"zero", "post"}
<1>1. fate[p] = "none"
  BY DEF Flow, PutsOK
<1>2. \A m \in Mpaths : ~InQ(m, p)
  BY <1>1 DEF Flow, ChansOK
<1>3. ASSUME NEW m \in Mpaths, wobj[m] = p
      PROVE  FALSE
  <2>1. wobj[m] # Nobody
    BY <1>3, PCAssumption DEF PCAssumption
  <2>2. fate[p] \in {"queued", "copied", "failed"}
    BY <1>3, <2>1 DEF Flow, WorkersOK, WorkerOK
  <2> QED
    BY <1>1, <2>2
<1>4. p \in Counted <=> ppc[p] \in {"zero", "post"}
  BY <1>1, <1>3 DEF Counted
<1> QED
  BY <1>1, <1>2, <1>3, <1>4

\* a PUT goes on, before it has posted its object
LEMMA MovePut ==
    ASSUME Places, Flow, NEW p \in Puts, NEW from, NEW to \in PutPCs, PutAt(p, from, to),
           from # "ret", UNCHANGED <<workvars, rpc, ndrop, todo, recordvars>>
    PROVE  /\ PutTypes' /\ WorkTypes' /\ RunTypes' /\ Flow' /\ Dropped' = Dropped
           /\ Counted' = IF to \in {"zero", "post"} THEN Counted \cup {p} ELSE Counted \ {p}
           /\ p \in Counted <=> from \in {"zero", "post"}
           /\ ppc'[p] = to /\ \A r \in Puts : r # p => ppc'[r] = ppc[r]
<1>1. /\ fate[p] = "none" /\ \A m \in Mpaths : wobj[m] # p /\ ~InQ(m, p)
      /\ p \in Counted <=> from \in {"zero", "post"}
  BY NotYet DEF PutAt
<1>2. /\ q' = q /\ stopCh' = stopCh /\ wpc' = wpc /\ wobj' = wobj /\ rpc' = rpc /\ ndrop' = ndrop
      /\ todo' = todo /\ fate' = fate /\ late' = late
  BY DEF workvars, recordvars
<1>3. ppc' \in [Puts -> PutPCs] /\ ppc'[p] = to /\ \A r \in Puts : r # p => ppc'[r] = ppc[r]
  BY DEF PutAt, Places, PutTypes
<1>4. PutTypes' /\ WorkTypes' /\ RunTypes'
  BY <1>2, <1>3 DEF Places, PutTypes, WorkTypes, RunTypes
<1>5. PutsOK'
  BY <1>1, <1>2, <1>3 DEF Flow, PutsOK
<1>6. ChansOK' /\ WorkersOK' /\ QueuedOK' /\ LostOK'
  <2>1. \A m, r : InQ(m, r)' <=> InQ(m, r)
    BY <1>2 DEF InQ
  <2>2. ChansOK'
    BY <1>2, <2>1 DEF Flow, ChansOK
  <2>3. WorkersOK'
    BY <1>2 DEF Flow, WorkersOK, WorkerOK
  <2>4. QueuedOK' /\ LostOK'
    BY <1>2, <2>1 DEF Flow, QueuedOK, LostOK
  <2> QED
    BY <2>2, <2>3, <2>4
<1>7. Dropped' = Dropped
  BY <1>2 DEF Dropped
<1>8. \A r \in Puts : r # p => (r \in Counted' <=> r \in Counted)
  BY <1>2, <1>3 DEF Counted
<1>9. p \in Counted' <=> to \in {"zero", "post"}
  BY <1>1, <1>2, <1>3 DEF Counted
<1>10. Counted \subseteq Puts /\ Counted' \subseteq Puts
  BY DEF Counted
<1>11. Counted' = IF to \in {"zero", "post"} THEN Counted \cup {p} ELSE Counted \ {p}
  BY <1>8, <1>9, <1>10
<1> QED
  BY <1>1, <1>3, <1>4, <1>5, <1>6, <1>7, <1>11 DEF Flow

\* what stays when the xaction's part does and Run does not move
LEMMA DropsStay ==
    ASSUME DropsOK, Dropped' = Dropped, rpc' = rpc, ndrop' = ndrop, errs \subseteq errs', done => done'
    PROVE  DropsOK'
BY DEF DropsOK

\* ... or the xaction's part alone does
LEMMA AbsStay ==
    ASSUME Places, UNCHANGED absvars
    PROVE  XactTypes' /\ errs \subseteq errs' /\ (done => done')
BY DEF Places, XactTypes, absvars

\* ... or the housekeeper's
LEMMA HkStay ==
    ASSUME Places, UNCHANGED <<ticks, unregged, hkvars>>, last' \in {last, "zero", "fresh"}
    PROVE  HkTypes'
BY DEF Places, HkTypes, hkvars

\* every step of a PUT preserves the invariant, but the post
LEMMA PutStep ==
    ASSUME CopiesInv, NEW p \in Puts,
           PutRenew(p) \/ PutInc(p) \/ PutZero(p) \/ PutNotFound(p) \/ PutNow(p) \/ PutAbort(p)
    PROVE  CopiesInv'
<1>1. Places /\ Flow /\ DropsOK /\ Exact /\ IdleClockRuns /\ Looks
  BY DEF CopiesInv
<1>2. UNCHANGED absvars /\ UNCHANGED <<ticks, unregged, hkvars>> /\ last' \in {last, "zero", "fresh"}
  BY DEF PutRenew, PutInc, PutZero, PutNotFound, PutNow, PutAbort, demandvars, refcount,
     PendingInc, LastZero, PendingSub, LastNow, Call
<1>3. XactTypes' /\ HkTypes' /\ errs \subseteq errs' /\ (done => done')
  BY <1>1, <1>2, AbsStay, HkStay
<1>4. PICK from, to \in PutPCs : /\ PutAt(p, from, to) /\ from # "ret"
                                 /\ UNCHANGED <<workvars, rpc, ndrop, todo, recordvars>>
                                 /\ \/ /\ from \in {"renew", "abort"} /\ to \notin {"zero", "post"}
                                       /\ pending' = pending /\ last' = last
                                    \/ from = "inc" /\ to = "zero" /\ pending' = pending + 1 /\ last' = last
                                    \/ from = "zero" /\ to = "post" /\ pending' = pending /\ last' = "zero"
                                    \/ /\ from = "post" /\ to \in {"now", "abort"} /\ (pending = 1 => to = "now")
                                       /\ pending' = pending - 1 /\ last' = last
                                    \/ from = "now" /\ to = "abort" /\ pending' = pending /\ last' = "fresh"
  <2>1. CASE PutRenew(p)
    <3>1. /\ PutAt(p, "renew", IF eutime = "running" /\ ~done THEN "inc" ELSE "ret")
          /\ UNCHANGED <<workvars, rpc, ndrop, todo, recordvars>> /\ pending' = pending /\ last' = last
      BY <2>1 DEF PutRenew, PutAt, demandvars, refcount
    <3>2. CASE eutime = "running" /\ ~done
      BY <3>1, <3>2 DEF PutPCs
    <3>3. CASE ~(eutime = "running" /\ ~done)
      BY <3>1, <3>3 DEF PutPCs
    <3> QED
      BY <3>2, <3>3
  <2>2. CASE PutInc(p)
    BY <2>2 DEF PutInc, PutPCs, PendingInc
  <2>3. CASE PutZero(p)
    BY <2>3 DEF PutZero, PutPCs, LastZero
  <2>4. CASE PutNotFound(p)
    <3>2. /\ PutAt(p, "post", IF pending = 1 THEN "now" ELSE "abort")
          /\ UNCHANGED <<workvars, rpc, ndrop, todo, recordvars>>
          /\ pending' = pending - 1 /\ last' = last
      BY <2>4 DEF PutNotFound, PendingSub
    <3>3. CASE pending = 1
      BY <3>2, <3>3 DEF PutPCs
    <3>4. CASE pending # 1
      BY <3>2, <3>4 DEF PutPCs
    <3> QED
      BY <3>3, <3>4
  <2>5. CASE PutNow(p)
    BY <2>5 DEF PutNow, PutPCs, LastNow
  <2>6. CASE PutAbort(p)
    BY <2>6 DEF PutAbort, PutPCs, demandvars, refcount
  <2> QED
    BY <2>1, <2>2, <2>3, <2>4, <2>5, <2>6
<1>5. /\ PutTypes' /\ WorkTypes' /\ RunTypes' /\ Flow' /\ Dropped' = Dropped
      /\ Counted' = IF to \in {"zero", "post"} THEN Counted \cup {p} ELSE Counted \ {p}
      /\ p \in Counted <=> from \in {"zero", "post"}
      /\ ppc'[p] = to /\ \A r \in Puts : r # p => ppc'[r] = ppc[r]
  BY <1>1, <1>4, MovePut
<1>6. ppc[p] = from /\ wpc' = wpc /\ rpc' = rpc /\ ndrop' = ndrop /\ hkpc' = hkpc
  BY <1>2, <1>4 DEF PutAt, workvars, hkvars
<1>7. Places' /\ DropsOK'
  BY <1>1, <1>3, <1>5, <1>6, DropsStay DEF Places
<1>8. Counted \subseteq Puts /\ Counted' \subseteq Puts
  BY DEF Counted
<1>9. pending \in Nat /\ (pending = 0 <=> Counted = {})
  BY <1>1, CountStep
<1>10. CASE from \in {"renew", "abort"} /\ to \notin {"zero", "post"} /\ pending' = pending /\ last' = last
  <2>1. Counted' = Counted
    BY <1>5, <1>10
  <2>2. Exact'
    BY <1>1, <1>10, <2>1, CountStep
  <2>3. IdleClockRuns'
    BY <1>1, <1>5, <1>6, <1>10 DEF IdleClockRuns
  <2>4. Looks'
    BY <1>1, <1>5, <1>6, <1>8, <1>10, <2>1 DEF Looks
  <2> QED
    BY <1>5, <1>7, <2>2, <2>3, <2>4 DEF CopiesInv
<1>11. CASE from = "inc" /\ to = "zero" /\ pending' = pending + 1 /\ last' = last
  <2>1. Counted' = Counted \cup {p} /\ p \notin Counted
    BY <1>5, <1>11
  <2>2. Exact'
    BY <1>1, <1>11, <2>1, CountStep
  <2>3. IdleClockRuns'
    BY <1>5, <1>11 DEF IdleClockRuns
  <2>4. Looks'
    BY <1>1, <1>5, <1>6, <1>8, <1>11, <2>1 DEF Looks
  <2> QED
    BY <1>5, <1>7, <2>2, <2>3, <2>4 DEF CopiesInv
<1>12. CASE from = "zero" /\ to = "post" /\ pending' = pending /\ last' = "zero"
  <2>1. Counted' = Counted /\ p \in Counted
    BY <1>5, <1>12
  <2>2. Exact' /\ pending # 0
    BY <1>1, <1>9, <1>12, <2>1, CountStep
  <2>3. IdleClockRuns' /\ Looks'
    BY <1>12, <2>2 DEF IdleClockRuns, Looks
  <2> QED
    BY <1>5, <1>7, <2>2, <2>3 DEF CopiesInv
<1>13. CASE /\ from = "post" /\ to \in {"now", "abort"} /\ (pending = 1 => to = "now")
            /\ pending' = pending - 1 /\ last' = last
  <2>1. Counted' = Counted \ {p} /\ p \in Counted
    <3>1. to \notin {"zero", "post"}
      BY <1>13
    <3> QED
      BY <1>5, <1>13, <3>1
  <2>2. Exact'
    BY <1>1, <1>13, <2>1, CountStep
  <2>3. IdleClockRuns'
    <3>1. CASE pending = 1
      BY <1>5, <1>13, <3>1 DEF IdleClockRuns
    <3>2. CASE pending # 1
      <4>1. pending' # 0
        BY <1>9, <1>13, <3>2, SMTT(30)
      <4> QED
        BY <4>1 DEF IdleClockRuns
    <3> QED
      BY <3>1, <3>2
  <2>4. Looks'
    <3>1. ~(hkpc = "loadlast" /\ last = "old")
      BY <1>1, <1>6, <1>13, <2>1 DEF Looks
    <3> QED
      BY <1>6, <1>13, <3>1 DEF Looks
  <2> QED
    BY <1>5, <1>7, <2>2, <2>3, <2>4 DEF CopiesInv
<1>14. CASE from = "now" /\ to = "abort" /\ pending' = pending /\ last' = "fresh"
  <2>1. Counted' = Counted
    BY <1>5, <1>14
  <2>2. Exact'
    BY <1>1, <1>14, <2>1, CountStep
  <2>3. IdleClockRuns' /\ Looks'
    BY <1>14 DEF IdleClockRuns, Looks
  <2> QED
    BY <1>5, <1>7, <2>2, <2>3 DEF CopiesInv
<1> QED
  BY <1>4, <1>10, <1>11, <1>12, <1>13, <1>14

\* the post preserves it: the object is counted as before, now for its place in the channel
LEMMA PostStep ==
    ASSUME CopiesInv, NEW p \in Puts, PutPost(p)
    PROVE  CopiesInv'
<1> DEFINE m == MpathOf[p]
<1>1. Places /\ Flow /\ DropsOK /\ Exact /\ IdleClockRuns /\ Looks
  BY DEF CopiesInv
<1>2. /\ ppc[p] = "post" /\ ppc' = [ppc EXCEPT ![p] = "ret"] /\ Len(q[m]) < Burst
      /\ q' = [q EXCEPT ![m] = Append(q[m], p)] /\ fate' = [fate EXCEPT ![p] = "queued"]
      /\ late' = IF m \in todo THEN late ELSE late \cup {p}
      /\ UNCHANGED absvars /\ UNCHANGED <<ticks, unregged, hkvars>> /\ last' = last /\ pending' = pending
      /\ hkpc' = hkpc /\ stopCh' = stopCh /\ wpc' = wpc /\ wobj' = wobj /\ rpc' = rpc /\ ndrop' = ndrop
      /\ todo' = todo
  BY DEF PutPost, PutAt, demandvars, refcount, hkvars
<1>3. m \in Mpaths
  BY PCAssumption DEF PCAssumption
<1> HIDE DEF m
<1>4. fate[p] = "none" /\ (\A k \in Mpaths : wobj[k] # p /\ ~InQ(k, p)) /\ p \in Counted
  BY <1>1, <1>2, NotYet
<1>5. /\ q' \in [Mpaths -> Seq(Puts)] /\ \A k \in Mpaths : Len(q'[k]) <= Burst
      /\ \A k \in Mpaths, r \in Puts : InQ(k, r)' <=> InQ(k, r) \/ (k = m /\ r = p)
      /\ \A k \in Mpaths : \A i, j \in 1..Len(q'[k]) : q'[k][i] = q'[k][j] => i = j
  <2>1. WorkTypes /\ ChansOK
    BY <1>1 DEF Places, Flow
  <2> QED
    BY <1>2, <1>3, <1>4, <2>1, PostQ
<1>6. /\ ppc' \in [Puts -> PutPCs] /\ ppc'[p] = "ret" /\ \A r \in Puts : r # p => ppc'[r] = ppc[r]
      /\ fate' \in [Puts -> Fates] /\ fate'[p] = "queued" /\ \A r \in Puts : r # p => fate'[r] = fate[r]
  BY <1>1, <1>2 DEF Places, PutTypes, PutPCs, Fates
<1>7. late' \subseteq Puts /\ late \subseteq late' /\ (m \notin todo => p \in late')
  BY <1>1, <1>2 DEF Places, PutTypes
<1>8. XactTypes' /\ HkTypes' /\ errs \subseteq errs' /\ (done => done')
  BY <1>1, <1>2, AbsStay, HkStay
<1>9. Places'
  BY <1>1, <1>2, <1>5, <1>6, <1>7, <1>8 DEF Places, PutTypes, WorkTypes, RunTypes
<1>10. PutsOK'
  BY <1>1, <1>6 DEF Flow, PutsOK
<1>11. ChansOK'
  <2>1. ASSUME NEW k \in Mpaths, NEW r \in Puts, InQ(k, r)'
        PROVE  fate'[r] = "queued" /\ MpathOf[r] = k /\ wobj'[k] # r /\ (k \notin todo' => r \in late')
    <3>1. CASE k = m /\ r = p
      BY <1>2, <1>4, <1>6, <1>7, <3>1 DEF m
    <3>2. CASE InQ(k, r)
      <4>1. r # p
        BY <1>4, <3>2
      <4>2. fate[r] = "queued" /\ MpathOf[r] = k /\ wobj[k] # r /\ (k \notin todo => r \in late)
        BY <1>1, <3>2 DEF Flow, ChansOK
      <4> QED
        BY <1>2, <1>6, <1>7, <4>1, <4>2
    <3> QED
      BY <1>5, <2>1, <3>1, <3>2
  <2> QED
    BY <1>5, <2>1 DEF ChansOK
<1>12. WorkersOK'
  <2>1. \A k \in Mpaths : wobj[k] # Nobody => fate'[wobj[k]] = fate[wobj[k]]
    BY <1>1, <1>4, <1>6 DEF Places, WorkTypes
  <2>2. ASSUME NEW k \in Mpaths
        PROVE  WorkerOK(k)'
    <3>1. WorkerOK(k)
      BY <1>1 DEF Flow, WorkersOK
    <3> QED
      BY <1>2, <2>1, <3>1 DEF WorkerOK
  <2> QED
    BY <2>2 DEF WorkersOK
<1>13. QueuedOK'
  <2>1. ASSUME NEW r \in Puts, fate'[r] = "queued"
        PROVE  wobj'[MpathOf[r]] = r \/ InQ(MpathOf[r], r)'
    <3>1. MpathOf[r] \in Mpaths
      BY PCAssumption DEF PCAssumption
    <3>2. CASE r = p
      BY <1>3, <1>5, <3>2 DEF m
    <3>3. CASE r # p
      BY <1>1, <1>2, <1>5, <1>6, <2>1, <3>1, <3>3 DEF Flow, QueuedOK
    <3> QED
      BY <3>2, <3>3
  <2> QED
    BY <2>1 DEF QueuedOK
<1>14. LostOK'
  BY <1>1, <1>6, <1>7 DEF Flow, LostOK
<1>15. Counted' = Counted
  <2>1. \A r \in Puts : r # p => (r \in Counted' <=> r \in Counted)
    BY <1>2, <1>6 DEF Counted
  <2>2. p \in Counted'
    BY <1>6 DEF Counted
  <2>3. Counted \subseteq Puts /\ Counted' \subseteq Puts
    BY DEF Counted
  <2>4. \A r \in Puts : r \in Counted' <=> r \in Counted
    BY <1>4, <2>1, <2>2
  <2> QED
    BY <2>3, <2>4
<1>16. DropsOK'
  <2>1. Dropped' = Dropped
    <3>1. \A r \in Puts : fate'[r] = "dropped" <=> fate[r] = "dropped"
      BY <1>4, <1>6
    <3> QED
      BY <3>1 DEF Dropped
  <2> QED
    BY <1>1, <1>2, <1>8, <2>1, DropsStay
<1>17. Exact'
  BY <1>1, <1>2, <1>15, CountStep
<1>18. IdleClockRuns'
  <2>1. \A r \in Puts : ppc'[r] \notin {"zero", "now"} => ppc[r] \notin {"zero", "now"}
    BY <1>2, <1>6
  <2> QED
    BY <1>1, <1>2, <2>1 DEF IdleClockRuns
<1>19. Looks'
  <2>1. ~(hkpc = "loadlast" /\ last = "old")
    BY <1>1, <1>2, <1>4 DEF Looks
  <2> QED
    BY <1>2, <2>1 DEF Looks
<1> QED
  BY <1>9, <1>10, <1>11, <1>12, <1>13, <1>14, <1>16, <1>17, <1>18, <1>19 DEF CopiesInv, Flow

-----------------------------------------------------------------------------
(* The workers *)

\* no two workers have the same object
LEMMA OneWorker ==
    ASSUME Places, Flow, NEW m \in Mpaths, wobj[m] # Nobody
    PROVE  /\ wobj[m] \in Puts /\ wobj[m] \in Counted /\ ppc[wobj[m]] = "ret"
           /\ \A k \in Mpaths : (wobj[k] = wobj[m] => k = m) /\ ~InQ(k, wobj[m])
<1>1. wobj[m] \in Puts
  BY DEF Places, WorkTypes
<1>2. wobj[m] \in Counted
  BY <1>1 DEF Counted
<1>3. MpathOf[wobj[m]] = m /\ fate[wobj[m]] \in {"queued", "copied", "failed"}
  BY DEF Flow, WorkersOK, WorkerOK
<1>4. ppc[wobj[m]] = "ret"
  BY <1>1, <1>3 DEF Flow, PutsOK
<1>5. \A k \in Mpaths : wobj[k] = wobj[m] => k = m
  <2>1. \A k \in Mpaths : wobj[k] = wobj[m] => MpathOf[wobj[k]] = k
    BY DEF Flow, WorkersOK, WorkerOK
  <2> QED
    BY <1>3, <2>1
<1>6. ASSUME NEW k \in Mpaths, InQ(k, wobj[m])
      PROVE  FALSE
  <2>1. MpathOf[wobj[m]] = k /\ wobj[k] # wobj[m]
    BY <1>1, <1>6 DEF Flow, ChansOK
  <2> QED
    BY <1>3, <2>1
<1> QED
  BY <1>1, <1>2, <1>4, <1>5, <1>6

\* what a worker leaves alone
LEMMA WorkStays ==
    ASSUME CopiesInv, NEW m \in Mpaths, Work(m)
    PROVE  /\ stopCh' = stopCh /\ ppc' = ppc /\ rpc' = rpc /\ ndrop' = ndrop /\ todo' = todo /\ late' = late
           /\ hkpc' = hkpc /\ XactTypes' /\ HkTypes' /\ errs \subseteq errs' /\ (done => done')
<1>1. /\ stopCh' = stopCh /\ ppc' = ppc /\ rpc' = rpc /\ ndrop' = ndrop /\ todo' = todo /\ late' = late
      /\ hkpc' = hkpc /\ UNCHANGED <<ticks, unregged, hkvars>> /\ last' \in {last, "zero", "fresh"}
  <2>1. CASE WorkRecv(m)
    BY <2>1 DEF WorkRecv, demandvars, refcount, hkvars
  <2>2. CASE WorkCopy(m)
    BY <2>2 DEF WorkCopy, demandvars, refcount, hkvars
  <2>3. CASE WorkDec(m)
    BY <2>3 DEF WorkDec, PendingSub, hkvars, recordvars
  <2>4. CASE WorkNow(m)
    BY <2>4 DEF WorkNow, LastNow, hkvars, recordvars
  <2>5. CASE WorkStop(m)
    BY <2>5 DEF WorkStop, demandvars, refcount, hkvars
  <2> QED
    BY <2>1, <2>2, <2>3, <2>4, <2>5 DEF Work
<1>2. UNCHANGED absvars \/ AddErr(m)
  BY DEF Work, WorkRecv, WorkCopy, WorkDec, WorkNow, WorkStop
<1>3. Places
  BY DEF CopiesInv
<1>4. HkTypes'
  BY <1>1, <1>3, HkStay
<1>5. XactTypes' /\ errs \subseteq errs' /\ (done => done')
  <2>1. CASE UNCHANGED absvars
    BY <1>3, <2>1, AbsStay
  <2>2. CASE AddErr(m)
    <3>1. m \in Procs
      BY PCAssumption DEF PCAssumption
    <3> QED
      BY <1>3, <2>2, <3>1 DEF AddErr, Places, XactTypes
  <2> QED
    BY <1>2, <2>1, <2>2
<1> QED
  BY <1>1, <1>4, <1>5

\* a worker takes an object and goes on to copy it
LEMMA RecvStep ==
    ASSUME CopiesInv, NEW m \in Mpaths, WorkRecv(m), UNCHANGED fate,
           wpc' = [wpc EXCEPT ![m] = "copy"], wobj' = [wobj EXCEPT ![m] = Head(q[m])]
    PROVE  CopiesInv'
<1> DEFINE h == Head(q[m])
<1>1. Places /\ Flow /\ DropsOK /\ Exact /\ IdleClockRuns /\ Looks
  BY DEF CopiesInv
<1>2. /\ stopCh' = stopCh /\ ppc' = ppc /\ rpc' = rpc /\ ndrop' = ndrop /\ todo' = todo /\ late' = late
      /\ hkpc' = hkpc /\ XactTypes' /\ HkTypes' /\ errs \subseteq errs' /\ (done => done')
  BY WorkStays DEF Work
<1>3. pending' = pending /\ last' = last /\ wpc[m] = "select" /\ fate' = fate
  BY DEF WorkRecv, demandvars, refcount
<1>4. /\ q' \in [Mpaths -> Seq(Puts)] /\ \A k \in Mpaths : Len(q'[k]) <= Burst
      /\ h \in Puts /\ InQ(m, h)
      /\ \A k \in Mpaths, r \in Puts : InQ(k, r)' <=> InQ(k, r) /\ ~(k = m /\ r = h)
      /\ \A k \in Mpaths : \A i, j \in 1..Len(q'[k]) : q'[k][i] = q'[k][j] => i = j
  <2>1. WorkTypes /\ ChansOK
    BY <1>1 DEF Places, Flow
  <2>2. q[m] # <<>> /\ q' = [q EXCEPT ![m] = Tail(q[m])]
    BY DEF WorkRecv
  <2> QED
    BY <2>1, <2>2, RecvQ
<1> HIDE DEF h
<1>5. /\ wpc' \in [Mpaths -> WorkPCs] /\ wpc'[m] = "copy" /\ \A k \in Mpaths : k # m => wpc'[k] = wpc[k]
  BY <1>1 DEF Places, WorkTypes, WorkPCs
<1>6. /\ wobj' \in [Mpaths -> Puts \cup {Nobody}] /\ wobj'[m] = h /\ \A k \in Mpaths : k # m => wobj'[k] = wobj[k]
  BY <1>1, <1>4 DEF Places, WorkTypes, h
<1>7. wobj[m] = Nobody /\ h # Nobody
  BY <1>1, <1>3, <1>4, PCAssumption DEF Flow, WorkersOK, WorkerOK, PCAssumption
<1>8. fate[h] = "queued" /\ MpathOf[h] = m
  BY <1>1, <1>4 DEF Flow, ChansOK
<1>9. Places'
  BY <1>1, <1>2, <1>3, <1>4, <1>5, <1>6 DEF Places, PutTypes, WorkTypes, RunTypes
<1>10. PutsOK' /\ LostOK'
  BY <1>1, <1>2, <1>3 DEF Flow, PutsOK, LostOK
<1>11. ChansOK'
  <2>1. ASSUME NEW k \in Mpaths, NEW r \in Puts, InQ(k, r)'
        PROVE  fate'[r] = "queued" /\ MpathOf[r] = k /\ wobj'[k] # r /\ (k \notin todo' => r \in late')
    <3>1. InQ(k, r) /\ ~(k = m /\ r = h)
      BY <1>4, <2>1
    <3>2. fate[r] = "queued" /\ MpathOf[r] = k /\ wobj[k] # r /\ (k \notin todo => r \in late)
      BY <1>1, <3>1 DEF Flow, ChansOK
    <3> QED
      BY <1>2, <1>3, <1>6, <3>1, <3>2
  <2> QED
    BY <1>4, <2>1 DEF ChansOK
<1>12. WorkersOK'
  <2>1. ASSUME NEW k \in Mpaths
        PROVE  WorkerOK(k)'
    <3>1. WorkerOK(k)
      BY <1>1 DEF Flow, WorkersOK
    <3>2. CASE k = m
      BY <1>2, <1>3, <1>5, <1>6, <1>7, <1>8, <3>1, <3>2 DEF WorkerOK
    <3>3. CASE k # m
      <4>1. wpc'[k] = wpc[k] /\ wobj'[k] = wobj[k]
        BY <1>5, <1>6, <3>3
      <4> QED
        BY <1>2, <1>3, <3>1, <4>1 DEF WorkerOK
    <3> QED
      BY <3>2, <3>3
  <2> QED
    BY <2>1 DEF WorkersOK
<1>13. QueuedOK'
  <2>1. ASSUME NEW r \in Puts, fate'[r] = "queued"
        PROVE  wobj'[MpathOf[r]] = r \/ InQ(MpathOf[r], r)'
    <3>1. MpathOf[r] \in Mpaths
      BY PCAssumption DEF PCAssumption
    <3>2. wobj[MpathOf[r]] = r \/ InQ(MpathOf[r], r)
      BY <1>1, <1>3, <2>1 DEF Flow, QueuedOK
    <3>3. CASE r = h
      BY <1>6, <1>8, <3>3
    <3>4. CASE r # h /\ InQ(MpathOf[r], r)
      BY <1>4, <3>1, <3>4
    <3>5. CASE wobj[MpathOf[r]] = r
      <4>1. MpathOf[r] # m
        BY <1>7, <3>5, PCAssumption DEF PCAssumption
      <4> QED
        BY <1>6, <3>1, <3>5, <4>1
    <3> QED
      BY <3>2, <3>3, <3>4, <3>5
  <2> QED
    BY <2>1 DEF QueuedOK
<1>14. Counted' = Counted
  <2>1. ASSUME NEW r \in Puts
        PROVE  r \in Counted' <=> r \in Counted
    <3>1. CASE fate[r] = "queued"
      BY <1>3, <3>1 DEF Counted
    <3>2. CASE fate[r] # "queued"
      <4>1. \A k \in Mpaths : wobj'[k] = r <=> wobj[k] = r
        BY <1>6, <1>7, <1>8, <3>2, PCAssumption DEF PCAssumption
      <4> QED
        BY <1>2, <1>3, <4>1 DEF Counted
    <3> QED
      BY <3>1, <3>2
  <2>2. Counted \subseteq Puts /\ Counted' \subseteq Puts
    BY DEF Counted
  <2> QED
    BY <2>1, <2>2
<1>15. DropsOK'
  <2>1. Dropped' = Dropped
    BY <1>3 DEF Dropped
  <2> QED
    BY <1>1, <1>2, <2>1, DropsStay
<1>16. Exact'
  BY <1>1, <1>3, <1>14, CountStep
<1>17. IdleClockRuns'
  <2>1. \A k \in Mpaths : wpc'[k] # "now" => wpc[k] # "now"
    BY <1>3, <1>5
  <2> QED
    BY <1>1, <1>2, <1>3, <2>1 DEF IdleClockRuns
<1>18. Looks'
  BY <1>1, <1>2, <1>3, <1>14 DEF Looks
<1> QED
  BY <1>9, <1>10, <1>11, <1>12, <1>13, <1>15, <1>16, <1>17, <1>18 DEF CopiesInv, Flow

\* the objects of X, queued so far, meet the fate f: they leave their channel, and are
\* counted as long as the fate, a worker or stop still keeps them
LEMMA FateStep ==
    ASSUME Places, Flow, NEW X, NEW f \in {"gone", "copied", "failed", "dropped", "lost"},
           \A r \in X : r \in Puts /\ fate[r] = "queued" /\ fate'[r] = f,
           f = "lost" => \A r \in X : r \in late,
           f \in {"copied", "failed"} => \A r \in X : \E m \in Mpaths : wobj[m] = r,
           f = "dropped" => rpc' = "close",
           fate' \in [Puts -> Fates],
           \A r \in Puts : r \notin X => fate'[r] = fate[r],
           ppc' = ppc, wobj' = wobj, late' = late, rpc' = rpc \/ (rpc = "drain" /\ rpc' = "close"),
           \A k \in Mpaths, r \in Puts : InQ(k, r)' <=> InQ(k, r) /\ r \notin X,
           \A k \in Mpaths, r \in Puts : InQ(k, r)' /\ k \in todo => k \in todo',
           \A k \in Mpaths : \A i, j \in 1..Len(q'[k]) : q'[k][i] = q'[k][j] => i = j
    PROVE  PutTypes' /\ PutsOK' /\ ChansOK' /\ QueuedOK' /\ LostOK' /\ Counted' = Counted
<1>1. PutTypes'
  BY DEF Places, PutTypes
<1>2. PutsOK'
  BY DEF Flow, PutsOK
<1>3. ChansOK'
  <2>1. ASSUME NEW k \in Mpaths, NEW r \in Puts, InQ(k, r)'
        PROVE  fate'[r] = "queued" /\ MpathOf[r] = k /\ wobj'[k] # r /\ (k \notin todo' => r \in late')
    <3>1. InQ(k, r) /\ r \notin X /\ (k \in todo => k \in todo')
      BY <2>1
    <3>2. fate[r] = "queued" /\ MpathOf[r] = k /\ wobj[k] # r /\ (k \notin todo => r \in late)
      BY <3>1 DEF Flow, ChansOK
    <3>3. fate'[r] = fate[r]
      BY <3>1
    <3> QED
      BY <3>1, <3>2, <3>3
  <2> QED
    BY <2>1 DEF ChansOK
<1>4. QueuedOK'
  <2>1. ASSUME NEW r \in Puts, fate'[r] = "queued"
        PROVE  wobj'[MpathOf[r]] = r \/ InQ(MpathOf[r], r)'
    <3>1. MpathOf[r] \in Mpaths
      BY PCAssumption DEF PCAssumption
    <3>2. r \notin X /\ fate[r] = "queued"
      BY <2>1
    <3>3. wobj[MpathOf[r]] = r \/ InQ(MpathOf[r], r)
      BY <3>2 DEF Flow, QueuedOK
    <3> QED
      BY <3>1, <3>2, <3>3
  <2> QED
    BY <2>1 DEF QueuedOK
<1>5. LostOK'
  BY DEF Flow, LostOK
<1>6. Counted' = Counted
  <2>1. ASSUME NEW r \in Puts
        PROVE  r \in Counted' <=> r \in Counted
    <3>1. CASE r \in X
      <4>1. r \in Counted
        BY <3>1 DEF Counted
      <4>2. \/ f \in {"gone", "lost"}
            \/ \E m \in Mpaths : wobj[m] = r
            \/ f = "dropped" /\ rpc' = "close"
        BY <3>1
      <4>3. r \in Counted'
        BY <3>1, <4>2 DEF Counted
      <4> QED
        BY <4>1, <4>3
    <3>2. CASE r \notin X
      <4>1. fate'[r] = fate[r]
        BY <3>2
      <4> QED
        BY <4>1 DEF Counted
    <3> QED
      BY <3>1, <3>2
  <2>2. Counted \subseteq Puts /\ Counted' \subseteq Puts
    BY DEF Counted
  <2> QED
    BY <2>1, <2>2
<1> QED
  BY <1>1, <1>2, <1>3, <1>4, <1>5, <1>6

\* what is left to show once the places, the flow and the count are known
LEMMA WorkRest ==
    ASSUME CopiesInv, NEW m \in Mpaths, Work(m), PutTypes', WorkTypes', Flow', Counted' = Counted,
           pending' = pending, last' = last, Dropped' = Dropped,
           \A k \in Mpaths : wpc[k] = "now" => wpc'[k] = "now"
    PROVE  CopiesInv'
<1>1. Places /\ Flow /\ DropsOK /\ Exact /\ IdleClockRuns /\ Looks
  BY DEF CopiesInv
<1>2. /\ stopCh' = stopCh /\ ppc' = ppc /\ rpc' = rpc /\ ndrop' = ndrop /\ todo' = todo /\ late' = late
      /\ hkpc' = hkpc /\ XactTypes' /\ HkTypes' /\ errs \subseteq errs' /\ (done => done')
  BY WorkStays
<1>3. Places'
  BY <1>1, <1>2 DEF Places, RunTypes
<1>4. DropsOK'
  BY <1>1, <1>2, DropsStay
<1>5. Exact'
  BY <1>1, CountStep
<1>6. IdleClockRuns'
  BY <1>1, <1>2 DEF IdleClockRuns
<1>7. Looks'
  BY <1>1, <1>2 DEF Looks
<1> QED
  BY <1>3, <1>4, <1>5, <1>6, <1>7 DEF CopiesInv

\* a worker finds its object gone
LEMMA GoneStep ==
    ASSUME CopiesInv, NEW m \in Mpaths, WorkRecv(m), fate' = [fate EXCEPT ![Head(q[m])] = "gone"],
           UNCHANGED <<wpc, wobj>>
    PROVE  CopiesInv'
<1> DEFINE h == Head(q[m])
<1>1. Places /\ Flow
  BY DEF CopiesInv
<1>2. /\ stopCh' = stopCh /\ ppc' = ppc /\ rpc' = rpc /\ ndrop' = ndrop /\ todo' = todo /\ late' = late
  BY WorkStays DEF Work
<1>3. pending' = pending /\ last' = last /\ wpc[m] = "select" /\ wpc' = wpc /\ wobj' = wobj
  BY DEF WorkRecv, demandvars, refcount
<1>4. /\ q' \in [Mpaths -> Seq(Puts)] /\ \A k \in Mpaths : Len(q'[k]) <= Burst
      /\ h \in Puts /\ InQ(m, h)
      /\ \A k \in Mpaths, r \in Puts : InQ(k, r)' <=> InQ(k, r) /\ ~(k = m /\ r = h)
      /\ \A k \in Mpaths : \A i, j \in 1..Len(q'[k]) : q'[k][i] = q'[k][j] => i = j
  <2>1. WorkTypes /\ ChansOK
    BY <1>1 DEF Places, Flow
  <2>2. q[m] # <<>> /\ q' = [q EXCEPT ![m] = Tail(q[m])]
    BY DEF WorkRecv
  <2> QED
    BY <2>1, <2>2, RecvQ
<1>5. /\ fate' \in [Puts -> Fates] /\ fate'[h] = "gone" /\ \A r \in Puts : r # h => fate'[r] = fate[r]
  BY <1>1, <1>4 DEF Places, PutTypes, Fates
<1> HIDE DEF h
<1>6. fate[h] = "queued" /\ MpathOf[h] = m
  BY <1>1, <1>4 DEF Flow, ChansOK
<1>7. \A k \in Mpaths, r \in Puts : InQ(k, r)' <=> InQ(k, r) /\ r \notin {h}
  <2>1. \A k \in Mpaths : InQ(k, h) => k = m
    BY <1>1, <1>4, <1>6 DEF Flow, ChansOK
  <2> QED
    BY <1>4, <2>1
<1>8. PutTypes' /\ PutsOK' /\ ChansOK' /\ QueuedOK' /\ LostOK' /\ Counted' = Counted
  <2>1. \A r \in {h} : r \in Puts /\ fate[r] = "queued" /\ fate'[r] = "gone"
    BY <1>4, <1>5, <1>6
  <2>2. \A r \in Puts : r \notin {h} => fate'[r] = fate[r]
    BY <1>5
  <2> QED
    BY <1>1, <1>2, <1>3, <1>4, <1>5, <1>7, <2>1, <2>2, FateStep
<1>9. WorkTypes'
  BY <1>1, <1>2, <1>3, <1>4 DEF Places, WorkTypes
<1>10. WorkersOK'
  <2>1. ASSUME NEW k \in Mpaths
        PROVE  WorkerOK(k)'
    <3>1. WorkerOK(k)
      BY <1>1 DEF Flow, WorkersOK
    <3>2. ASSUME wobj[k] # Nobody
          PROVE  wobj[k] \in Puts /\ wobj[k] # h
      <4>1. wobj[k] \in Puts /\ ~InQ(m, wobj[k])
        BY <1>1, <3>2, OneWorker
      <4> QED
        BY <1>4, <4>1
    <3>3. wobj[k] # Nobody => fate'[wobj[k]] = fate[wobj[k]]
      BY <1>5, <3>2
    <3> QED
      BY <1>2, <1>3, <3>1, <3>3 DEF WorkerOK
  <2> QED
    BY <2>1 DEF WorkersOK
<1>11. Dropped' = Dropped
  <2>1. \A r \in Puts : fate'[r] = "dropped" <=> fate[r] = "dropped"
    BY <1>5, <1>6
  <2> QED
    BY <2>1 DEF Dropped
<1> QED
  BY <1>3, <1>8, <1>9, <1>10, <1>11, WorkRest DEF Work, Flow

\* a worker has copied its object, or failed to
LEMMA CopyStep ==
    ASSUME CopiesInv, NEW m \in Mpaths, WorkCopy(m)
    PROVE  CopiesInv'
<1> DEFINE o == wobj[m]
<1>1. Places /\ Flow
  BY DEF CopiesInv
<1>2. /\ stopCh' = stopCh /\ ppc' = ppc /\ rpc' = rpc /\ ndrop' = ndrop /\ todo' = todo /\ late' = late
  BY WorkStays DEF Work
<1>3. /\ pending' = pending /\ last' = last /\ wpc[m] = "copy" /\ wpc' = [wpc EXCEPT ![m] = "dec"]
      /\ wobj' = wobj /\ q' = q
  BY DEF WorkCopy, WorkAt, demandvars, refcount
<1>4. PICK f \in {"copied", "failed"} : fate' = [fate EXCEPT ![o] = f]
  BY DEF WorkCopy
<1>5. o # Nobody /\ fate[o] = "queued"
  BY <1>1, <1>3 DEF Flow, WorkersOK, WorkerOK
<1>6. o \in Puts /\ \A k \in Mpaths : (wobj[k] = o => k = m) /\ ~InQ(k, o)
  BY <1>1, <1>5, OneWorker
<1>7. /\ fate' \in [Puts -> Fates] /\ fate'[o] = f /\ \A r \in Puts : r # o => fate'[r] = fate[r]
  BY <1>1, <1>4, <1>6 DEF Places, PutTypes, Fates
<1>8. wpc' \in [Mpaths -> WorkPCs] /\ wpc'[m] = "dec" /\ \A k \in Mpaths : k # m => wpc'[k] = wpc[k]
  BY <1>1, <1>3 DEF Places, WorkTypes, WorkPCs
<1>9. PutTypes' /\ PutsOK' /\ ChansOK' /\ QueuedOK' /\ LostOK' /\ Counted' = Counted
  <2>1. \A r \in {o} : r \in Puts /\ fate[r] = "queued" /\ fate'[r] = f
    BY <1>5, <1>6, <1>7
  <2>2. \A r \in Puts : r \notin {o} => fate'[r] = fate[r]
    BY <1>7
  <2>3. \A k \in Mpaths, r \in Puts : InQ(k, r)' <=> InQ(k, r) /\ r \notin {o}
    <3>1. \A k, r : InQ(k, r)' <=> InQ(k, r)
      BY <1>3 DEF InQ
    <3> QED
      BY <1>6, <3>1
  <2>4. \A r \in {o} : \E k \in Mpaths : wobj[k] = r
    OBVIOUS
  <2>5. \A k \in Mpaths : \A i, j \in 1..Len(q'[k]) : q'[k][i] = q'[k][j] => i = j
    BY <1>1, <1>3 DEF Flow, ChansOK
  <2>6. f \in {"gone", "copied", "failed", "dropped", "lost"} /\ f # "lost" /\ f # "dropped"
    OBVIOUS
  <2> HIDE DEF o
  <2> QED
    BY <1>1, <1>2, <1>3, <1>7, <2>1, <2>2, <2>3, <2>4, <2>5, <2>6, FateStep
<1>10. WorkTypes'
  BY <1>1, <1>2, <1>3, <1>8 DEF Places, WorkTypes
<1>11. WorkersOK'
  <2>1. ASSUME NEW k \in Mpaths
        PROVE  WorkerOK(k)'
    <3>1. WorkerOK(k)
      BY <1>1 DEF Flow, WorkersOK
    <3>2. CASE k = m
      BY <1>2, <1>3, <1>5, <1>7, <1>8, <3>1, <3>2 DEF WorkerOK
    <3>3. CASE k # m
      <4>1. wobj[k] # Nobody => wobj[k] \in Puts
        BY <1>1 DEF Places, WorkTypes
      <4>2. wobj[k] # Nobody => fate'[wobj[k]] = fate[wobj[k]]
        BY <1>6, <1>7, <3>3, <4>1
      <4>3. wpc'[k] = wpc[k]
        BY <1>8, <3>3
      <4> QED
        BY <1>2, <1>3, <3>1, <4>2, <4>3 DEF WorkerOK
    <3> QED
      BY <3>2, <3>3
  <2> QED
    BY <2>1 DEF WorkersOK
<1>12. Dropped' = Dropped
  <2>1. \A r \in Puts : fate'[r] = "dropped" <=> fate[r] = "dropped"
    BY <1>5, <1>7
  <2> QED
    BY <2>1 DEF Dropped
<1>13. \A k \in Mpaths : wpc[k] = "now" => wpc'[k] = "now"
  BY <1>3, <1>8
<1> QED
  BY <1>3, <1>9, <1>10, <1>11, <1>12, <1>13, WorkRest DEF Work, Flow

\* told to stop, a worker drains what was posted since and exits
LEMMA StopStep ==
    ASSUME CopiesInv, NEW m \in Mpaths, WorkStop(m)
    PROVE  CopiesInv'
<1> DEFINE X == {r \in Puts : InQ(m, r)}
<1>1. Places /\ Flow
  BY DEF CopiesInv
<1>2. /\ stopCh' = stopCh /\ ppc' = ppc /\ rpc' = rpc /\ ndrop' = ndrop /\ todo' = todo /\ late' = late
  BY WorkStays DEF Work
<1>3. /\ pending' = pending /\ last' = last /\ wpc[m] = "select" /\ wpc' = [wpc EXCEPT ![m] = "exit"]
      /\ wobj' = wobj /\ stopCh[m]
  BY DEF WorkStop, WorkAt, demandvars, refcount
<1>4. /\ q' \in [Mpaths -> Seq(Puts)] /\ \A k \in Mpaths : Len(q'[k]) <= Burst
      /\ \A k \in Mpaths, r \in Puts : InQ(k, r)' <=> InQ(k, r) /\ k # m
      /\ \A k \in Mpaths : \A i, j \in 1..Len(q'[k]) : q'[k][i] = q'[k][j] => i = j
  <2>1. WorkTypes /\ ChansOK
    BY <1>1 DEF Places, Flow
  <2>2. q' = [q EXCEPT ![m] = <<>>]
    BY DEF WorkStop
  <2> QED
    BY <2>1, <2>2, DrainQ
<1>5. m \notin todo /\ wobj[m] = Nobody
  <2>1. WorkerOK(m)
    BY <1>1 DEF Flow, WorkersOK
  <2> QED
    BY <1>3, <2>1 DEF WorkerOK
<1>6. /\ fate' \in [Puts -> Fates]
      /\ \A r \in Puts : fate'[r] = IF InQ(m, r) THEN "lost" ELSE fate[r]
  <2>1. fate' = [r \in Puts |-> IF InQ(m, r) THEN "lost" ELSE fate[r]]
    BY DEF WorkStop, Drained, InQ
  <2>2. \A r \in Puts : fate[r] \in Fates
    BY <1>1 DEF Places, PutTypes
  <2>3. \A r \in Puts : (IF InQ(m, r) THEN "lost" ELSE fate[r]) \in Fates
    BY <2>2 DEF Fates
  <2> QED
    BY <2>1, <2>3
<1>7. wpc' \in [Mpaths -> WorkPCs] /\ wpc'[m] = "exit" /\ \A k \in Mpaths : k # m => wpc'[k] = wpc[k]
  BY <1>1, <1>3 DEF Places, WorkTypes, WorkPCs
<1>8. /\ \A r \in X : r \in Puts /\ fate[r] = "queued" /\ fate'[r] = "lost"
      /\ \A r \in X : r \in late
      /\ \A r \in Puts : r \notin X => fate'[r] = fate[r]
      /\ \A k \in Mpaths, r \in Puts : InQ(k, r)' <=> InQ(k, r) /\ r \notin X
  <2>1. \A r \in X : r \in Puts /\ InQ(m, r) /\ fate[r] = "queued" /\ r \in late /\ MpathOf[r] = m
    BY <1>1, <1>5 DEF Flow, ChansOK
  <2>2. \A k \in Mpaths, r \in Puts : InQ(k, r) => MpathOf[r] = k
    BY <1>1 DEF Flow, ChansOK
  <2>3. \A k \in Mpaths, r \in Puts : InQ(k, r)' <=> InQ(k, r) /\ r \notin X
    BY <1>4, <2>2
  <2> QED
    BY <1>6, <2>1, <2>3
<1> HIDE DEF X
<1>9. PutTypes' /\ PutsOK' /\ ChansOK' /\ QueuedOK' /\ LostOK' /\ Counted' = Counted
  BY <1>1, <1>2, <1>3, <1>4, <1>6, <1>8, FateStep
<1>10. WorkTypes'
  BY <1>1, <1>2, <1>3, <1>4, <1>7 DEF Places, WorkTypes
<1>11. WorkersOK'
  <2>1. ASSUME NEW k \in Mpaths
        PROVE  WorkerOK(k)'
    <3>1. WorkerOK(k)
      BY <1>1 DEF Flow, WorkersOK
    <3>2. CASE k = m
      BY <1>2, <1>3, <1>5, <1>7, <3>2 DEF WorkerOK
    <3>3. CASE k # m
      <4>1. ASSUME wobj[k] # Nobody
            PROVE  fate'[wobj[k]] = fate[wobj[k]]
        <5>1. wobj[k] \in Puts /\ ~InQ(m, wobj[k])
          BY <1>1, <4>1, OneWorker
        <5> QED
          BY <1>6, <5>1
      <4>2. wpc'[k] = wpc[k]
        BY <1>7, <3>3
      <4> QED
        BY <1>2, <1>3, <3>1, <4>1, <4>2 DEF WorkerOK
    <3> QED
      BY <3>2, <3>3
  <2> QED
    BY <2>1 DEF WorkersOK
<1>12. Dropped' = Dropped
  <2>1. \A r \in Puts : fate'[r] = "dropped" <=> fate[r] = "dropped"
    <3>1. \A r \in X : fate[r] = "queued" /\ fate'[r] = "lost"
      BY <1>8
    <3> QED
      BY <1>8, <3>1
  <2> QED
    BY <2>1 DEF Dropped
<1>13. \A k \in Mpaths : wpc[k] = "now" => wpc'[k] = "now"
  BY <1>3, <1>7
<1> QED
  BY <1>3, <1>9, <1>10, <1>11, <1>12, <1>13, WorkRest DEF Work, Flow

\* a worker is done with its object: DecPending, and the time when that was the last
LEMMA DecStep ==
    ASSUME CopiesInv, NEW m \in Mpaths, WorkDec(m) \/ WorkNow(m)
    PROVE  CopiesInv'
<1>1. Places /\ Flow /\ DropsOK /\ Exact /\ IdleClockRuns /\ Looks
  BY DEF CopiesInv
<1>2. /\ stopCh' = stopCh /\ ppc' = ppc /\ rpc' = rpc /\ ndrop' = ndrop /\ todo' = todo /\ late' = late
      /\ hkpc' = hkpc /\ XactTypes' /\ HkTypes' /\ errs \subseteq errs' /\ (done => done')
  BY WorkStays DEF Work
<1>3. q' = q /\ fate' = fate
  BY DEF WorkDec, WorkNow, recordvars
<1>4. PICK to \in {"now", "select"} : wpc' = [wpc EXCEPT ![m] = to] /\ (WorkDec(m) /\ pending = 1 => to = "now")
  <2>1. CASE WorkNow(m)
    <3>1. ~WorkDec(m)
      BY <2>1 DEF WorkNow, WorkDec, WorkAt
    <3> QED
      BY <2>1, <3>1 DEF WorkNow, WorkAt
  <2>2. CASE WorkDec(m)
    <3>1. CASE pending = 1
      BY <2>2, <3>1 DEF WorkDec, WorkAt
    <3>2. CASE pending # 1
      BY <2>2, <3>2 DEF WorkDec, WorkAt
    <3> QED
      BY <3>1, <3>2
  <2> QED
    BY <2>1, <2>2
<1>5. wpc' \in [Mpaths -> WorkPCs] /\ wpc'[m] = to /\ \A k \in Mpaths : k # m => wpc'[k] = wpc[k]
  BY <1>1, <1>4 DEF Places, WorkTypes, WorkPCs
<1>6. /\ wobj' \in [Mpaths -> Puts \cup {Nobody}] /\ wobj'[m] = Nobody
      /\ \A k \in Mpaths : k # m => wobj'[k] = wobj[k]
  <2>1. CASE WorkDec(m)
    BY <1>1, <2>1 DEF WorkDec, Places, WorkTypes
  <2>2. CASE WorkNow(m)
    <3>1. wpc[m] = "now" /\ wobj' = wobj
      BY <2>2 DEF WorkNow, WorkAt
    <3> QED
      BY <1>1, <3>1 DEF Places, WorkTypes, Flow, WorkersOK, WorkerOK
  <2> QED
    BY <2>1, <2>2
<1>7. wpc[m] \in {"dec", "now"} /\ wpc[m] # "exit"
  BY DEF WorkDec, WorkNow, WorkAt
<1>8. Places'
  BY <1>1, <1>2, <1>3, <1>5, <1>6 DEF Places, PutTypes, WorkTypes, RunTypes
<1>9. \A k, r : InQ(k, r)' <=> InQ(k, r)
  BY <1>3 DEF InQ
<1>10. PutsOK' /\ LostOK'
  BY <1>1, <1>2, <1>3 DEF Flow, PutsOK, LostOK
<1>11. ChansOK'
  <2>1. ASSUME NEW k \in Mpaths, NEW r \in Puts, InQ(k, r)
        PROVE  fate'[r] = "queued" /\ MpathOf[r] = k /\ wobj'[k] # r /\ (k \notin todo' => r \in late')
    <3>1. fate[r] = "queued" /\ MpathOf[r] = k /\ wobj[k] # r /\ (k \notin todo => r \in late)
      BY <1>1, <2>1 DEF Flow, ChansOK
    <3>2. wobj'[k] # r
      BY <1>6, <3>1, PCAssumption DEF PCAssumption
    <3> QED
      BY <1>2, <1>3, <3>1, <3>2
  <2>2. \A k \in Mpaths : \A i, j \in 1..Len(q'[k]) : q'[k][i] = q'[k][j] => i = j
    BY <1>1, <1>3 DEF Flow, ChansOK
  <2> QED
    BY <1>9, <2>1, <2>2 DEF ChansOK
<1>12. WorkersOK'
  <2>1. ASSUME NEW k \in Mpaths
        PROVE  WorkerOK(k)'
    <3>1. WorkerOK(k)
      BY <1>1 DEF Flow, WorkersOK
    <3>2. CASE k = m
      BY <1>2, <1>5, <1>6, <3>1, <3>2 DEF WorkerOK
    <3>3. CASE k # m
      <4>1. wpc'[k] = wpc[k] /\ wobj'[k] = wobj[k]
        BY <1>5, <1>6, <3>3
      <4> QED
        BY <1>2, <1>3, <3>1, <4>1 DEF WorkerOK
    <3> QED
      BY <3>2, <3>3
  <2> QED
    BY <2>1 DEF WorkersOK
<1>13. QueuedOK'
  <2>1. ASSUME NEW r \in Puts, fate'[r] = "queued"
        PROVE  wobj'[MpathOf[r]] = r \/ InQ(MpathOf[r], r)'
    <3>1. MpathOf[r] \in Mpaths /\ r # Nobody
      BY PCAssumption DEF PCAssumption
    <3>2. wobj[MpathOf[r]] = r \/ InQ(MpathOf[r], r)
      BY <1>1, <1>3, <2>1 DEF Flow, QueuedOK
    <3>3. CASE InQ(MpathOf[r], r)
      BY <1>9, <3>3
    <3>4. CASE wobj[MpathOf[r]] = r /\ MpathOf[r] # m
      BY <1>6, <3>1, <3>4
    <3>5. wobj[m] # r
      <4>1. WorkerOK(m)
        BY <1>1 DEF Flow, WorkersOK
      <4> QED
        BY <1>3, <1>7, <2>1, <3>1, <4>1 DEF WorkerOK
    <3> QED
      BY <3>2, <3>3, <3>4, <3>5
  <2> QED
    BY <2>1 DEF QueuedOK
<1>14. DropsOK'
  <2>1. Dropped' = Dropped
    BY <1>3 DEF Dropped
  <2> QED
    BY <1>1, <1>2, <2>1, DropsStay
<1>15. Flow'
  BY <1>10, <1>11, <1>12, <1>13 DEF Flow
<1>16. CASE WorkDec(m)
  <2> DEFINE o == wobj[m]
  <2>1. wpc[m] = "dec" /\ pending' = pending - 1 /\ last' = last
    BY <1>16 DEF WorkDec, WorkAt, PendingSub
  <2>2. o # Nobody /\ fate[o] \in {"copied", "failed"}
    <3>1. WorkerOK(m)
      BY <1>1 DEF Flow, WorkersOK
    <3> QED
      BY <2>1, <3>1 DEF WorkerOK
  <2>3. /\ o \in Puts /\ o \in Counted /\ ppc[o] = "ret"
        /\ \A k \in Mpaths : wobj[k] = o => k = m
    BY <1>1, <2>2, OneWorker
  <2> HIDE DEF o
  <2>4. Counted' = Counted \ {o}
    <3>1. ASSUME NEW r \in Puts, r # o
          PROVE  r \in Counted' <=> r \in Counted
      <4>1. \A k \in Mpaths : wobj'[k] = r <=> wobj[k] = r
        BY <1>6, <3>1, PCAssumption DEF PCAssumption, o
      <4> QED
        BY <1>2, <1>3, <4>1 DEF Counted
    <3>2. o \notin Counted'
      <4>1. \A k \in Mpaths : wobj'[k] # o
        BY <1>6, <2>2, <2>3
      <4> QED
        BY <1>2, <1>3, <2>2, <2>3, <4>1 DEF Counted
    <3>3. Counted \subseteq Puts /\ Counted' \subseteq Puts
      BY DEF Counted
    <3> QED
      BY <3>1, <3>2, <3>3
  <2>5. Exact' /\ pending \in Nat
    BY <1>1, <2>1, <2>3, <2>4, CountStep
  <2>6. IdleClockRuns'
    <3>1. CASE pending = 1
      BY <1>4, <1>5, <1>16, <3>1 DEF IdleClockRuns
    <3>2. CASE pending # 1
      <4>1. pending' # 0
        BY <2>1, <2>5, <3>2, SMTT(30)
      <4> QED
        BY <4>1 DEF IdleClockRuns
    <3> QED
      BY <3>1, <3>2
  <2>7. Looks'
    <3>1. ~(hkpc = "loadlast" /\ last = "old")
      BY <1>1, <2>3 DEF Looks
    <3> QED
      BY <1>2, <2>1, <3>1 DEF Looks
  <2> QED
    BY <1>8, <1>14, <1>15, <2>5, <2>6, <2>7 DEF CopiesInv
<1>17. CASE WorkNow(m)
  <2>1. pending' = pending /\ last' = "fresh" /\ wobj' = wobj
    BY <1>17 DEF WorkNow, LastNow
  <2>2. Counted' = Counted
    BY <1>2, <1>3, <2>1 DEF Counted
  <2>3. Exact'
    BY <1>1, <2>1, <2>2, CountStep
  <2>4. IdleClockRuns' /\ Looks'
    BY <2>1 DEF IdleClockRuns, Looks
  <2> QED
    BY <1>8, <1>14, <1>15, <2>3, <2>4 DEF CopiesInv
<1> QED
  BY <1>16, <1>17

\* every step of a worker preserves the invariant
LEMMA WorkStep ==
    ASSUME CopiesInv, NEW m \in Mpaths, Work(m)
    PROVE  CopiesInv'
<1>1. CASE WorkRecv(m)
  <2>1. \/ /\ wpc' = [wpc EXCEPT ![m] = "copy"] /\ wobj' = [wobj EXCEPT ![m] = Head(q[m])]
           /\ UNCHANGED fate
        \/ /\ fate' = [fate EXCEPT ![Head(q[m])] = "gone"]
           /\ UNCHANGED <<wpc, wobj>>
    BY <1>1 DEF WorkRecv
  <2> QED
    BY <1>1, <2>1, RecvStep, GoneStep
<1> QED
  BY <1>1, CopyStep, StopStep, DecStep DEF Work

-----------------------------------------------------------------------------
(* Run *)

\* Run moves, and the channels and the fates stay
LEMMA MoveRun ==
    ASSUME Places, Flow, rpc' \in RunPCs, stopCh' \in [Mpaths -> BOOLEAN],
           \A m \in Mpaths : stopCh'[m] => stopCh[m] \/ m \notin todo,
           q' = q, wpc' = wpc, wobj' = wobj, ppc' = ppc, fate' = fate, late' = late,
           ndrop' = ndrop, todo' = todo
    PROVE  PutTypes' /\ WorkTypes' /\ RunTypes' /\ Flow' /\ Dropped' = Dropped
<1>1. PutTypes' /\ RunTypes' /\ Dropped' = Dropped
  BY DEF Places, PutTypes, RunTypes, Dropped
<1>2. WorkTypes'
  BY DEF Places, WorkTypes
<1>3. \A k, r : InQ(k, r)' <=> InQ(k, r)
  BY DEF InQ
<1>4. PutsOK' /\ LostOK' /\ QueuedOK'
  BY <1>3 DEF Flow, PutsOK, LostOK, QueuedOK
<1>5. ChansOK'
  BY <1>3 DEF Flow, ChansOK
<1>6. WorkersOK'
  <2>1. ASSUME NEW k \in Mpaths
        PROVE  WorkerOK(k)'
    <3>1. WorkerOK(k)
      BY DEF Flow, WorkersOK
    <3> QED
      BY <3>1 DEF WorkerOK
  <2> QED
    BY <2>1 DEF WorkersOK
<1> QED
  BY <1>1, <1>2, <1>4, <1>5, <1>6 DEF Flow

\* Stop, which may add an op for the housekeeper
LEMMA StopTypes ==
    ASSUME Places, StopCAS \/ StopStopping \/ StopUnreg \/ StopTicks
    PROVE  /\ XactTypes' /\ HkTypes' /\ errs' = errs /\ done' = done
           /\ pending' = pending /\ last' = last /\ hkpc' = hkpc
<1>1. XactTypes /\ HkTypes
  BY DEF Places
<1>2. CASE StopCAS
  BY <1>1, <1>2 DEF StopCAS, XactTypes, HkTypes, absvars, refcount, hkvars
<1>3. CASE StopStopping
  BY <1>1, <1>3 DEF StopStopping, SetStopping, XactTypes, HkTypes, absvars, demandvars, refcount, hkvars
<1>4. CASE StopUnreg
  <2>1. hkops \in Seq({"reg", "unreg"}) /\ hkops' = Append(hkops, "unreg")
    BY <1>1, <1>4 DEF HkTypes, StopUnreg
  <2>2. hkops' \in Seq({"reg", "unreg"})
    BY <2>1, SMTT(30)
  <2> QED
    BY <1>1, <1>4, <2>2 DEF StopUnreg, XactTypes, HkTypes, absvars, refcount
<1>5. CASE StopTicks
  BY <1>1, <1>5 DEF StopTicks, XactTypes, HkTypes, absvars, refcount, hkvars
<1> QED
  BY <1>2, <1>3, <1>4, <1>5

\* the steps of Run that count nothing and drop nothing
LEMMA RunPlain ==
    ASSUME CopiesInv, RunSelect \/ RunStop \/ RunClose \/ RunNow \/ RunAddErr \/ RunFinish
    PROVE  CopiesInv'
<1>1. Places /\ Flow /\ DropsOK /\ Exact /\ IdleClockRuns /\ Looks
  BY DEF CopiesInv
<1>2. /\ q' = q /\ wpc' = wpc /\ wobj' = wobj /\ ppc' = ppc /\ fate' = fate /\ late' = late /\ ndrop' = ndrop
      /\ todo' = todo
  BY DEF RunSelect, RunStop, RunClose, RunNow, RunAddErr, RunFinish, workvars, recordvars
<1>3. /\ stopCh' \in [Mpaths -> BOOLEAN] /\ \A m \in Mpaths : stopCh'[m] => stopCh[m] \/ m \notin todo
  <2>1. CASE RunClose
    BY <2>1 DEF RunClose
  <2>2. CASE RunSelect \/ RunStop \/ RunNow \/ RunAddErr \/ RunFinish
    <3>1. stopCh' = stopCh
      BY <2>2 DEF RunSelect, RunStop, RunNow, RunAddErr, RunFinish, workvars
    <3> QED
      BY <1>1, <3>1 DEF Places, WorkTypes
  <2> QED
    BY <2>1, <2>2
<1>4. /\ pending' = pending /\ hkpc' = hkpc /\ last' \in {last, "fresh"} /\ (RunNow => last' = "fresh")
      /\ XactTypes' /\ HkTypes' /\ errs \subseteq errs' /\ (done => done')
  <2>1. CASE RunStop
    <3>1. StopCAS \/ StopStopping \/ StopUnreg \/ StopTicks
      BY <2>1 DEF RunStop
    <3>2. ~RunNow
      BY <2>1 DEF RunStop, RunNow, RunAt
    <3>3. /\ XactTypes' /\ HkTypes' /\ errs' = errs /\ done' = done
          /\ pending' = pending /\ last' = last /\ hkpc' = hkpc
      BY <1>1, <3>1, StopTypes
    <3> QED
      BY <3>2, <3>3
  <2>2. CASE RunAddErr
    <3>1. Run \in Procs
      BY PCAssumption DEF PCAssumption
    <3>2. /\ pending' = pending /\ hkpc' = hkpc /\ last' = last /\ UNCHANGED <<ticks, unregged, hkvars>>
          /\ ~RunNow /\ AddErr(Run)
      BY <2>2 DEF RunAddErr, RunNow, RunAt, demandvars, refcount, hkvars
    <3>3. HkTypes'
      BY <1>1, <3>2, HkStay
    <3>4. XactTypes' /\ errs \subseteq errs' /\ (done => done')
      BY <1>1, <3>1, <3>2 DEF AddErr, Places, XactTypes
    <3> QED
      BY <3>2, <3>3, <3>4
  <2>3. CASE RunSelect \/ RunClose \/ RunNow \/ RunFinish
    <3>1. /\ pending' = pending /\ hkpc' = hkpc /\ last' \in {last, "fresh"} /\ (RunNow => last' = "fresh")
          /\ UNCHANGED <<ticks, unregged, hkvars>> /\ UNCHANGED absvars
      <4>1. CASE RunNow
        BY <4>1 DEF RunNow, LastNow, hkvars
      <4>2. CASE RunSelect \/ RunClose \/ RunFinish
        <5>1. ~RunNow
          BY <4>2 DEF RunNow, RunSelect, RunClose, RunFinish, RunAt
        <5> QED
          BY <4>2, <5>1 DEF RunSelect, RunClose, RunFinish, Call, demandvars, refcount, hkvars
      <4> QED
        BY <2>3, <4>1, <4>2
    <3> QED
      BY <1>1, <3>1, AbsStay, HkStay
  <2> QED
    BY <2>1, <2>2, <2>3
<1>5. /\ rpc' \in RunPCs /\ rpc' # "now"
      /\ \/ rpc \in Before /\ rpc' \in Before \cup {"drain"}
         \/ rpc = "close" /\ rpc' \in {"drain", "wait"}
         \/ rpc = "now" /\ rpc' = "adderr" /\ RunNow
         \/ rpc = "adderr" /\ rpc' = "finish" /\ (Run \in errs' \/ done')
         \/ rpc = "finish" /\ rpc' = "ret"
  <2>1. CASE RunSelect
    BY <2>1 DEF RunSelect, RunAt, RunPCs, Before
  <2>2. CASE RunStop
    BY <2>2 DEF RunStop, RunAt, RunPCs, Before
  <2>3. CASE RunClose
    BY <2>3 DEF RunClose, RunAt, RunPCs, Before
  <2>4. CASE RunNow
    BY <2>4 DEF RunNow, RunAt, RunPCs, Before
  <2>5. CASE RunAddErr
    BY <2>5 DEF RunAddErr, AddErr, RunAt, RunPCs, Before
  <2>6. CASE RunFinish
    BY <2>6 DEF RunFinish, RunAt, RunPCs, Before
  <2> QED
    BY <2>1, <2>2, <2>3, <2>4, <2>5, <2>6
<1>6. PutTypes' /\ WorkTypes' /\ RunTypes' /\ Flow' /\ Dropped' = Dropped
  BY <1>1, <1>2, <1>3, <1>5, MoveRun
<1>7. Places'
  BY <1>4, <1>6 DEF Places
<1>8. DropsOK'
  <2>1. ndrop' = Cardinality(Dropped')
    BY <1>1, <1>2, <1>6 DEF DropsOK
  <2>2. rpc' \in Before => Dropped' = {}
    BY <1>1, <1>5, <1>6 DEF DropsOK, Before
  <2>3. rpc' \in {"finish", "ret"} /\ ndrop' > 0 => Run \in errs' \/ done'
    <3>1. rpc \in {"finish", "ret"} /\ ndrop > 0 => Run \in errs' \/ done'
      BY <1>1, <1>4 DEF DropsOK
    <3> QED
      BY <1>2, <1>5, <3>1 DEF Before
  <2> QED
    BY <2>1, <2>2, <2>3 DEF DropsOK
<1>9. Counted' = Counted
  <2>1. \A r \in Puts : /\ fate[r] = "dropped" /\ rpc' \in {"drain", "close", "wait"}
                        <=> fate[r] = "dropped" /\ rpc \in {"drain", "close", "wait"}
    <3>1. CASE rpc \in Before
      <4>1. \A r \in Puts : fate[r] # "dropped"
        BY <1>1, <3>1 DEF DropsOK, Dropped
      <4> QED
        BY <4>1
    <3>2. CASE rpc \notin Before
      BY <1>5, <3>2 DEF Before
    <3> QED
      BY <3>1, <3>2
  <2> QED
    BY <1>2, <2>1 DEF Counted
<1>10. Exact'
  BY <1>1, <1>4, <1>9, CountStep
<1>11. IdleClockRuns'
  <2>1. CASE last' = "fresh"
    BY <2>1 DEF IdleClockRuns
  <2>2. CASE last' = last /\ ~RunNow
    <3>1. rpc # "now"
      BY <1>5, <2>2 DEF Before
    <3> QED
      BY <1>1, <1>2, <1>4, <2>2, <3>1 DEF IdleClockRuns
  <2> QED
    BY <1>4, <2>1, <2>2
<1>12. Looks'
  <2>1. CASE last' = "fresh"
    BY <2>1 DEF Looks
  <2>2. CASE last' = last
    BY <1>1, <1>2, <1>4, <1>9, <2>2 DEF Looks
  <2> QED
    BY <1>4, <2>1, <2>2
<1> QED
  BY <1>6, <1>7, <1>8, <1>10, <1>11, <1>12 DEF CopiesInv

\* Run drains the channel of a worker, and counts what it finds there
LEMMA DrainStep ==
    ASSUME CopiesInv, NEW m \in Mpaths, RunDrain(m)
    PROVE  CopiesInv'
<1> DEFINE X == {r \in Puts : InQ(m, r)}
<1>1. Places /\ Flow /\ DropsOK /\ Exact /\ IdleClockRuns /\ Looks
  BY DEF CopiesInv
<1>2. /\ stopCh' = stopCh /\ wpc' = wpc /\ wobj' = wobj /\ ppc' = ppc /\ late' = late
      /\ rpc = "drain" /\ rpc' = "close" /\ ndrop' = ndrop + Len(q[m]) /\ todo' = todo \ {m} /\ m \in todo
      /\ pending' = pending /\ last' = last /\ hkpc' = hkpc
      /\ UNCHANGED absvars /\ UNCHANGED <<ticks, unregged, hkvars>>
  BY DEF RunDrain, demandvars, refcount, hkvars
<1>3. XactTypes' /\ HkTypes'
  BY <1>1, <1>2, AbsStay, HkStay
<1>4. /\ q' \in [Mpaths -> Seq(Puts)] /\ \A k \in Mpaths : Len(q'[k]) <= Burst
      /\ \A k \in Mpaths, r \in Puts : InQ(k, r)' <=> InQ(k, r) /\ k # m
      /\ \A k \in Mpaths : \A i, j \in 1..Len(q'[k]) : q'[k][i] = q'[k][j] => i = j
  <2>1. WorkTypes /\ ChansOK
    BY <1>1 DEF Places, Flow
  <2>2. q' = [q EXCEPT ![m] = <<>>]
    BY DEF RunDrain
  <2> QED
    BY <2>1, <2>2, DrainQ
<1>5. /\ fate' \in [Puts -> Fates]
      /\ \A r \in Puts : fate'[r] = IF InQ(m, r) THEN "dropped" ELSE fate[r]
  <2>1. fate' = [r \in Puts |-> IF InQ(m, r) THEN "dropped" ELSE fate[r]]
    BY DEF RunDrain, Drained, InQ
  <2>2. \A r \in Puts : fate[r] \in Fates
    BY <1>1 DEF Places, PutTypes
  <2>3. \A r \in Puts : (IF InQ(m, r) THEN "dropped" ELSE fate[r]) \in Fates
    BY <2>2 DEF Fates
  <2> QED
    BY <2>1, <2>3
<1>6. /\ \A r \in X : r \in Puts /\ fate[r] = "queued" /\ fate'[r] = "dropped"
      /\ \A r \in Puts : r \notin X => fate'[r] = fate[r]
      /\ \A k \in Mpaths, r \in Puts : InQ(k, r)' <=> InQ(k, r) /\ r \notin X
  <2>1. \A r \in X : r \in Puts /\ InQ(m, r) /\ fate[r] = "queued"
    BY <1>1 DEF Flow, ChansOK
  <2>2. \A k \in Mpaths, r \in Puts : InQ(k, r) => MpathOf[r] = k
    BY <1>1 DEF Flow, ChansOK
  <2>3. \A k \in Mpaths, r \in Puts : InQ(k, r)' <=> InQ(k, r) /\ r \notin X
    BY <1>4, <2>2
  <2> QED
    BY <1>5, <2>1, <2>3
<1>7. \A k \in Mpaths, r \in Puts : InQ(k, r)' /\ k \in todo => k \in todo'
  BY <1>2, <1>4
<1>8. Dropped' = Dropped \cup X /\ Dropped \cap X = {}
  <2>1. \A r \in Puts : fate'[r] = "dropped" <=> fate[r] = "dropped" \/ r \in X
    BY <1>5
  <2>2. \A r \in X : fate[r] # "dropped" /\ r \in Puts
    BY <1>6
  <2> HIDE DEF X
  <2> QED
    BY <2>1, <2>2 DEF Dropped
<1>9. IsFiniteSet(X) /\ Cardinality(X) = Len(q[m]) /\ Len(q[m]) \in Nat
  <2>1. q[m] \in Seq(Puts) /\ \A i, j \in 1..Len(q[m]) : q[m][i] = q[m][j] => i = j
    BY <1>1 DEF Places, WorkTypes, Flow, ChansOK
  <2> DEFINE s == q[m]
  <2>2. \A i \in 1..Len(s) : s[i] \in Puts
    BY <2>1, SMTT(30)
  <2>3. X = {s[i] : i \in 1..Len(s)}
    BY <2>2 DEF InQ
  <2>4. IsFiniteSet({s[i] : i \in 1..Len(s)}) /\ Cardinality({s[i] : i \in 1..Len(s)}) = Len(s)
    <3> HIDE DEF s
    <3> QED
      BY <2>1, ChanCount DEF s
  <2>5. Len(s) \in Nat
    BY <2>1, SMTT(30)
  <2> QED
    BY <2>3, <2>4, <2>5
<1> HIDE DEF X
<1>10. PutTypes' /\ PutsOK' /\ ChansOK' /\ QueuedOK' /\ LostOK' /\ Counted' = Counted
  BY <1>1, <1>2, <1>4, <1>5, <1>6, <1>7, FateStep
<1>11. WorkTypes'
  BY <1>1, <1>2, <1>4 DEF Places, WorkTypes
<1>12. WorkersOK'
  <2>1. ASSUME NEW k \in Mpaths
        PROVE  WorkerOK(k)'
    <3>1. WorkerOK(k)
      BY <1>1 DEF Flow, WorkersOK
    <3>2. ASSUME wobj[k] # Nobody
          PROVE  fate'[wobj[k]] = fate[wobj[k]]
      <4>1. wobj[k] \in Puts /\ ~InQ(m, wobj[k])
        BY <1>1, <3>2, OneWorker
      <4> QED
        BY <1>5, <4>1
    <3>3. k \notin todo => k \notin todo'
      BY <1>2
    <3> QED
      BY <1>2, <3>1, <3>2, <3>3 DEF WorkerOK
  <2> QED
    BY <2>1 DEF WorkersOK
<1>13. IsFiniteSet(Dropped) /\ Cardinality(Dropped) \in Nat
  BY CountedFinite
<1>14. ndrop' = Cardinality(Dropped') /\ ndrop' \in Nat
  <2>1. Cardinality(Dropped \cup X) = Cardinality(Dropped) + Cardinality(X) - Cardinality(Dropped \cap X)
    BY <1>9, <1>13, FS_Union
  <2>2. Cardinality({}) = 0
    BY FS_EmptySet
  <2>3. ndrop = Cardinality(Dropped) /\ Cardinality(Dropped') = ndrop + Len(q[m]) - 0
    BY <1>1, <1>8, <1>9, <2>1, <2>2 DEF DropsOK
  <2> QED
    BY <1>2, <1>9, <1>13, <2>3, SMTT(30)
<1>15. DropsOK'
  BY <1>2, <1>14 DEF DropsOK, Before
<1>16. RunTypes'
  BY <1>1, <1>2, <1>14 DEF Places, RunTypes, RunPCs
<1>17. Exact'
  BY <1>1, <1>2, <1>10, CountStep
<1>18. IdleClockRuns' /\ Looks'
  BY <1>1, <1>2, <1>10 DEF IdleClockRuns, Looks
<1> QED
  BY <1>3, <1>10, <1>11, <1>12, <1>15, <1>16, <1>17, <1>18 DEF CopiesInv, Places, Flow

\* all workers gone, Run takes what it dropped off the count
LEMMA WaitStep ==
    ASSUME CopiesInv, RunWait
    PROVE  CopiesInv'
<1>1. Places /\ Flow /\ DropsOK /\ Exact /\ IdleClockRuns /\ Looks
  BY DEF CopiesInv
<1>2. /\ q' = q /\ wpc' = wpc /\ wobj' = wobj /\ ppc' = ppc /\ fate' = fate /\ late' = late /\ ndrop' = ndrop
      /\ todo' = todo /\ stopCh' = stopCh /\ rpc = "wait" /\ pending' = pending - ndrop /\ last' = last
      /\ hkpc' = hkpc /\ UNCHANGED absvars /\ UNCHANGED <<ticks, unregged, hkvars>>
  BY DEF RunWait, RunAt, PendingSub, workvars, recordvars, hkvars
<1>3. XactTypes' /\ HkTypes' /\ errs \subseteq errs' /\ (done => done')
  BY <1>1, <1>2, AbsStay, HkStay
<1>4. ndrop \in Nat /\ pending \in Nat
  BY <1>1, CountStep DEF Places, RunTypes
<1>5. \/ ndrop = 0 /\ rpc' = "finish"
      \/ ndrop > 0 /\ pending = ndrop /\ rpc' = "now"
      \/ ndrop > 0 /\ pending # ndrop /\ rpc' = "adderr"
  <2>1. rpc' = CASE ndrop = 0 -> "finish" [] ndrop > 0 /\ pending = ndrop -> "now" [] OTHER -> "adderr"
    BY DEF RunWait, RunAt
  <2> QED
    BY <1>4, <2>1, SMTT(30)
<1>6. PutTypes' /\ WorkTypes' /\ RunTypes' /\ Flow' /\ Dropped' = Dropped
  <2>1. rpc' \in RunPCs
    BY <1>5 DEF RunPCs
  <2>2. stopCh' \in [Mpaths -> BOOLEAN]
    BY <1>1, <1>2 DEF Places, WorkTypes
  <2> QED
    BY <1>1, <1>2, <2>1, <2>2, MoveRun
<1>7. Places'
  BY <1>3, <1>6 DEF Places
<1>8. DropsOK'
  <2>1. ndrop' = Cardinality(Dropped')
    BY <1>1, <1>2, <1>6 DEF DropsOK
  <2>2. rpc' \notin Before
    BY <1>5 DEF Before
  <2>3. ~(rpc' \in {"finish", "ret"} /\ ndrop' > 0)
    <3>1. ndrop = 0 => ~(ndrop > 0)
      BY SMTT(30)
    <3> QED
      BY <1>2, <1>5, <3>1
  <2> QED
    BY <2>1, <2>2, <2>3 DEF DropsOK
<1>9. Counted' = Counted \ Dropped /\ Dropped \subseteq Counted
  <2>1. rpc' \notin {"drain", "close", "wait"}
    BY <1>5
  <2>2. ASSUME NEW r \in Puts, fate[r] # "dropped"
        PROVE  r \in Counted' <=> r \in Counted
    BY <1>2, <2>2 DEF Counted
  <2>3. ASSUME NEW r \in Puts, fate[r] = "dropped"
        PROVE  r \in Counted /\ r \notin Counted'
    <3>1. ppc[r] = "ret"
      BY <1>1, <2>3 DEF Flow, PutsOK
    <3>2. ASSUME NEW k \in Mpaths, wobj[k] = r
          PROVE  FALSE
      <4>1. WorkerOK(k) /\ r # Nobody
        BY <1>1, PCAssumption DEF Flow, WorkersOK, PCAssumption
      <4> QED
        BY <2>3, <3>2, <4>1 DEF WorkerOK
    <3> QED
      BY <1>2, <2>1, <2>3, <3>1, <3>2 DEF Counted
  <2>4. Counted \subseteq Puts /\ Counted' \subseteq Puts
    BY DEF Counted
  <2>5. \A r \in Puts : r \in Dropped <=> fate[r] = "dropped"
    BY DEF Dropped
  <2>6. Dropped \subseteq Puts
    BY DEF Dropped
  <2> QED
    BY <2>2, <2>3, <2>4, <2>5, <2>6
<1>10. Exact'
  <2>1. IsFiniteSet(Counted) /\ Cardinality(Counted) \in Nat
    BY CountedFinite
  <2>2. Cardinality(Counted \ Dropped) = Cardinality(Counted) - Cardinality(Counted \cap Dropped)
    BY <2>1, FS_Difference
  <2>3. Counted \cap Dropped = Dropped
    BY <1>9
  <2>4. Cardinality(Counted') = pending - ndrop
    BY <1>1, <1>9, <2>2, <2>3 DEF Exact, DropsOK
  <2> QED
    BY <1>2, <2>4 DEF Exact
<1>11. IdleClockRuns'
  <2>1. CASE ndrop = 0
    <3>1. pending' = pending
      BY <1>2, <1>4, <2>1, SMTT(30)
    <3> QED
      BY <1>1, <1>2, <3>1 DEF IdleClockRuns
  <2>2. CASE rpc' = "now"
    BY <2>2 DEF IdleClockRuns
  <2>3. CASE pending # ndrop
    <3>1. pending' # 0
      BY <1>2, <1>4, <2>3, SMTT(30)
    <3> QED
      BY <3>1 DEF IdleClockRuns
  <2> QED
    BY <1>5, <2>1, <2>2, <2>3
<1>12. Looks'
  BY <1>1, <1>2, <1>9 DEF Looks
<1> QED
  BY <1>6, <1>7, <1>8, <1>10, <1>11, <1>12 DEF CopiesInv

-----------------------------------------------------------------------------
(* The steps outside: Abort and Finish, the housekeeper, time *)

\* Abort and Finish add no error and take back no abort
LEMMA BaseTypes ==
    ASSUME XactTypes, NEW p, Base(p)
    PROVE  XactTypes' /\ errs' = errs /\ (done => done')
<1>1. \/ UNCHANGED absvars \/ AbortCAS \/ SetStopping \/ Release \/ Finish
  BY DEF Base, AbortIsDone, AbortSetDone, AbortStopping, AbortRelease, FinishClaim, FinishClose, FinishEnd
<1>2. CASE UNCHANGED absvars
  BY <1>2 DEF XactTypes, absvars
<1>3. CASE AbortCAS
  BY <1>3 DEF XactTypes, AbortCAS
<1>4. CASE SetStopping
  BY <1>4 DEF XactTypes, SetStopping
<1>5. CASE Release
  BY <1>5 DEF XactTypes, Release
<1>6. CASE Finish
  BY <1>6 DEF XactTypes, Finish
<1> QED
  BY <1>1, <1>2, <1>3, <1>4, <1>5, <1>6

\* the housekeeper's step: at its look at the pending work there is none, or it leaves
LEMMA HkTypesStep ==
    ASSUME HkTypes, Hk, Exact
    PROVE  /\ HkTypes' /\ UNCHANGED absvars /\ pending' = pending /\ last' = last
           /\ hkpc' = "loadlast" => Counted = {}
<1>1. CASE HkHandle
  <2>1. hkops \in Seq({"reg", "unreg"}) /\ hkops # <<>> /\ hkops' = Tail(hkops)
    BY <1>1 DEF HkTypes, HkHandle
  <2>2. hkops' \in Seq({"reg", "unreg"})
    BY <2>1, SMTT(30)
  <2>3. hkpc' \in {"wait", "loadpending"} /\ hkreg' \in BOOLEAN
    BY <1>1 DEF HkHandle
  <2> QED
    BY <1>1, <2>2, <2>3 DEF HkHandle, HkTypes, refcount
<1>2. CASE HkDue
  BY <1>2 DEF HkDue, HkTypes, refcount
<1>3. CASE HkcbPending
  <2>1. pending \in Nat /\ (pending = 0 <=> Counted = {})
    BY CountStep
  <2>2. ~(pending > 0) => pending = 0
    BY <2>1, SMTT(30)
  <2> QED
    BY <1>3, <2>1, <2>2 DEF HkcbPending, HkTypes, refcount
<1>4. CASE HkcbLast
  BY <1>4 DEF HkcbLast, HkTypes, refcount
<1> QED
  BY <1>1, <1>2, <1>3, <1>4 DEF Hk

\* they all preserve the invariant
LEMMA OutsideStep ==
    ASSUME CopiesInv, UNCHANGED pcvars,
           (\E p \in Procs : BaseStep(p)) \/ HkStep \/ AgeStep \/ UNCHANGED allvars
    PROVE  CopiesInv'
<1>1. Places /\ Flow /\ DropsOK /\ Exact /\ IdleClockRuns /\ Looks
  BY DEF CopiesInv
<1>2. /\ q' = q /\ wpc' = wpc /\ wobj' = wobj /\ ppc' = ppc /\ fate' = fate /\ late' = late /\ ndrop' = ndrop
      /\ todo' = todo /\ stopCh' = stopCh /\ rpc' = rpc
  BY DEF pcvars, workvars, recordvars
<1>3. PutTypes' /\ WorkTypes' /\ RunTypes' /\ Flow' /\ Dropped' = Dropped
  <2>1. stopCh' \in [Mpaths -> BOOLEAN] /\ rpc' \in RunPCs
    BY <1>1, <1>2 DEF Places, WorkTypes, RunTypes
  <2> QED
    BY <1>1, <1>2, <2>1, MoveRun
<1>4. Counted' = Counted
  BY <1>2 DEF Counted
<1>5. /\ XactTypes' /\ HkTypes' /\ errs' = errs /\ (done => done') /\ pending' = pending
      /\ \/ last' = last /\ (hkpc' = "loadlast" => hkpc' = hkpc \/ Counted = {})
         \/ last' = "old" /\ hkpc' = "wait"
  <2>1. CASE \E p \in Procs : BaseStep(p)
    <3>1. PICK p \in Procs : Base(p) /\ UNCHANGED demandvars
      BY <2>1 DEF BaseStep
    <3>2. XactTypes' /\ errs' = errs /\ (done => done')
      BY <1>1, <3>1, BaseTypes DEF Places
    <3>3. pending' = pending /\ last' = last /\ hkpc' = hkpc /\ UNCHANGED <<ticks, unregged, hkvars>>
      BY <3>1 DEF demandvars, refcount, hkvars
    <3>4. HkTypes'
      BY <1>1, <3>3, HkStay
    <3> QED
      BY <3>2, <3>3, <3>4
  <2>2. CASE HkStep
    <3>1. /\ HkTypes' /\ UNCHANGED absvars /\ pending' = pending /\ last' = last
          /\ hkpc' = "loadlast" => Counted = {}
      BY <1>1, <2>2, HkTypesStep DEF HkStep, Places
    <3>2. XactTypes' /\ errs' = errs /\ (done => done')
      BY <1>1, <3>1 DEF Places, XactTypes, absvars
    <3> QED
      BY <3>1, <3>2
  <2>3. CASE AgeStep
    <3>1. /\ UNCHANGED absvars /\ pending' = pending /\ last' = "old" /\ hkpc = "wait" /\ hkpc' = hkpc
          /\ ticks' = ticks /\ unregged' = unregged /\ hkreg' = hkreg /\ hkops' = hkops
      BY <2>3 DEF AgeStep, Age, hkvars
    <3>2. XactTypes' /\ errs' = errs /\ (done => done')
      BY <1>1, <3>1 DEF Places, XactTypes, absvars
    <3>3. HkTypes'
      BY <1>1, <3>1 DEF Places, HkTypes
    <3> QED
      BY <3>1, <3>2, <3>3
  <2>4. CASE UNCHANGED allvars
    <3>1. /\ UNCHANGED absvars /\ pending' = pending /\ last' = last /\ hkpc' = hkpc
          /\ UNCHANGED <<ticks, unregged, hkvars>>
      BY <2>4 DEF allvars, demandvars, refcount, hkvars
    <3>2. XactTypes' /\ errs' = errs /\ (done => done')
      BY <1>1, <3>1 DEF Places, XactTypes, absvars
    <3>3. HkTypes'
      BY <1>1, <3>1, HkStay
    <3> QED
      BY <3>1, <3>2, <3>3
  <2> QED
    BY <2>1, <2>2, <2>3, <2>4
<1>6. Places'
  BY <1>3, <1>5 DEF Places
<1>7. DropsOK'
  BY <1>1, <1>2, <1>3, <1>5, DropsStay
<1>8. Exact'
  BY <1>1, <1>4, <1>5, CountStep
<1>9. IdleClockRuns'
  <2>1. CASE last' = "old"
    BY <2>1 DEF IdleClockRuns
  <2>2. CASE last' = last
    BY <1>1, <1>2, <1>5, <2>2 DEF IdleClockRuns
  <2> QED
    BY <1>5, <2>1, <2>2
<1>10. Looks'
  <2>1. CASE hkpc' = "wait"
    BY <2>1 DEF Looks
  <2>2. CASE last' = last /\ (hkpc' = "loadlast" => hkpc' = hkpc \/ Counted = {})
    BY <1>1, <1>2, <1>4, <2>2 DEF Looks
  <2> QED
    BY <1>5, <2>1, <2>2
<1> QED
  BY <1>3, <1>6, <1>7, <1>8, <1>9, <1>10 DEF CopiesInv

-----------------------------------------------------------------------------
(* The theorems *)

\* CopiesInv is inductive
LEMMA CopiesInductive == PCSpec => []CopiesInv
<1>1. PCInit => CopiesInv
  <2> SUFFICES ASSUME PCInit
               PROVE  CopiesInv
    OBVIOUS
  <2>1. /\ pending = 0 /\ last = "fresh" /\ ticks = FALSE /\ unregged = FALSE /\ hkops = <<"reg">>
        /\ hkreg = FALSE /\ hkpc = "wait"
        /\ eutime = "running" /\ done = FALSE /\ chClosed = FALSE /\ errs = {} /\ told = "no"
    BY DEF PCInit, InitDemand, AbsInit
  <2>2. /\ q = [m \in Mpaths |-> <<>>] /\ stopCh = [m \in Mpaths |-> FALSE]
        /\ ppc = [p \in Puts |-> "renew"]
        /\ wpc = [m \in Mpaths |-> "select"] /\ wobj = [m \in Mpaths |-> Nobody]
        /\ rpc = "select" /\ ndrop = 0 /\ todo = Mpaths
        /\ fate = [p \in Puts |-> "none"] /\ late = {}
    BY DEF PCInit
  <2>3. <<"reg">> \in Seq({"reg", "unreg"}) /\ <<>> \in Seq(Puts) /\ Len(<<>>) = 0 /\ 1..Len(<<>>) = {}
    BY SMTT(30)
  <2>4. Len(<<>>) <= Burst /\ 0 \in Nat /\ ~(0 > 0)
    BY <2>3, PCAssumption, SMTT(30) DEF PCAssumption
  <2>5. XactTypes /\ HkTypes
    BY <2>1, <2>3 DEF XactTypes, HkTypes
  <2>6. PutTypes /\ RunTypes
    BY <2>2, <2>4 DEF PutTypes, RunTypes, PutPCs, Fates, RunPCs, Before
  <2>7. WorkTypes
    BY <2>2, <2>3, <2>4 DEF WorkTypes, WorkPCs
  <2>8. \A m \in Mpaths : \A p : ~InQ(m, p)
    BY <2>2, <2>3 DEF InQ
  <2>9. Flow
    <3>1. PutsOK /\ QueuedOK /\ LostOK
      BY <2>2 DEF PutsOK, QueuedOK, LostOK
    <3>2. ChansOK
      <4>1. \A m \in Mpaths : 1..Len(q[m]) = {}
        BY <2>2, <2>3
      <4> QED
        BY <2>8, <4>1 DEF ChansOK
    <3>3. WorkersOK
      BY <2>2 DEF WorkersOK, WorkerOK
    <3> QED
      BY <3>1, <3>2, <3>3 DEF Flow
  <2>10. Counted = {} /\ Dropped = {}
    BY <2>2, PCAssumption DEF Counted, Dropped, PCAssumption
  <2>11. DropsOK /\ Exact
    BY <2>1, <2>2, <2>4, <2>10, FS_EmptySet DEF DropsOK, Exact
  <2>12. IdleClockRuns /\ Looks
    BY <2>1 DEF IdleClockRuns, Looks
  <2> QED
    BY <2>5, <2>6, <2>7, <2>9, <2>11, <2>12 DEF CopiesInv, Places
<1>2. CopiesInv /\ [PCNext]_allvars => CopiesInv'
  <2> SUFFICES ASSUME CopiesInv, [PCNext]_allvars
               PROVE  CopiesInv'
    OBVIOUS
  <2>1. ASSUME NEW p \in Puts, Put(p)
        PROVE  CopiesInv'
    BY <2>1, PutStep, PostStep DEF Put
  <2>2. ASSUME NEW m \in Mpaths, Work(m)
        PROVE  CopiesInv'
    BY <2>2, WorkStep
  <2>3. ASSUME RunStep
        PROVE  CopiesInv'
    BY <2>3, RunPlain, DrainStep, WaitStep DEF RunStep
  <2>4. CASE (\E p \in Procs : BaseStep(p)) \/ HkStep \/ AgeStep \/ UNCHANGED allvars
    <3>1. UNCHANGED pcvars
      BY <2>4 DEF BaseStep, HkStep, AgeStep, allvars
    <3> QED
      BY <2>4, <3>1, OutsideStep
  <2>5. Quiet => UNCHANGED allvars
    BY DEF Quiet
  <2> QED
    BY <2>1, <2>2, <2>3, <2>4, <2>5 DEF PCNext
<1> QED
  BY <1>1, <1>2, PTL DEF PCSpec

\* The reference count of an on-demand xaction is exact at every step of every goroutine,
\* for any number of PUTs, mountpaths and channel sizes, so that SubPending's assertion
\* never fails; and whenever it is zero and nobody is about to store a time, the idle clock
\* runs.
THEOREM CountIsExact == PCSpec => []PendingExact
<1>1. CopiesInv => PendingExact
  <2> SUFFICES ASSUME CopiesInv
               PROVE  PendingExact
    OBVIOUS
  <2>1. Places /\ Exact /\ IdleClockRuns
    BY DEF CopiesInv
  <2>2. pending \in Nat
    BY <2>1, CountStep
  <2>3. pending \in Int
    BY <2>2, SMTT(30)
  <2>4. PCTypeOK
    BY <2>1, <2>3 DEF PCTypeOK, Places, PutTypes, WorkTypes, RunTypes, XactTypes, HkTypes, Fates
  <2> QED
    BY <2>1, <2>4 DEF PendingExact, Exact
<1> QED
  BY <1>1, CopiesInductive, PTL

\* No object posted before the drain of its worker is left without a trace: what a worker
\* drains by itself, or leaves in its channel, was posted too late; and what stop dropped
\* is in the xaction's error by the time Run returns, unless it was aborted.
THEOREM DropsAreReported == PCSpec => []DropsReported
<1>1. CopiesInv => DropsReported
  <2> SUFFICES ASSUME CopiesInv, NEW p \in Puts
               PROVE  /\ fate[p] = "lost" => p \in late
                      /\ fate[p] = "queued" /\ wpc[MpathOf[p]] = "exit" => p \in late
                      /\ fate[p] = "dropped" /\ rpc = "ret" => Run \in errs \/ done
    BY DEF DropsReported
  <2>1. Places /\ Flow /\ DropsOK
    BY DEF CopiesInv
  <2>2. fate[p] = "lost" => p \in late
    BY <2>1 DEF Flow, LostOK
  <2>3. ASSUME fate[p] = "queued", wpc[MpathOf[p]] = "exit"
        PROVE  p \in late
    <3> DEFINE m == MpathOf[p]
    <3>1. m \in Mpaths /\ p # Nobody
      BY PCAssumption DEF PCAssumption
    <3>2. WorkerOK(m)
      BY <2>1, <3>1 DEF Flow, WorkersOK
    <3>3. wobj[m] = Nobody /\ m \notin todo
      BY <2>3, <3>2 DEF WorkerOK
    <3>4. InQ(m, p)
      BY <2>1, <2>3, <3>1, <3>3 DEF Flow, QueuedOK
    <3> QED
      BY <2>1, <3>1, <3>3, <3>4 DEF Flow, ChansOK
  <2>4. ASSUME fate[p] = "dropped", rpc = "ret"
        PROVE  Run \in errs \/ done
    <3>1. p \in Dropped /\ IsFiniteSet(Dropped) /\ Cardinality(Dropped) \in Nat
      BY <2>4, CountedFinite DEF Dropped
    <3>2. Cardinality(Dropped) # 0
      BY <3>1, FS_EmptySet
    <3>3. ndrop > 0
      <4>1. ndrop \in Nat /\ ndrop # 0
        BY <2>1, <3>1, <3>2 DEF DropsOK
      <4> QED
        BY <4>1, SMTT(30)
    <3> QED
      BY <2>1, <2>4, <3>3 DEF DropsOK
  <2> QED
    BY <2>2, <2>3, <2>4
<1> QED
  BY <1>1, CopiesInductive, PTL

\* The idle tick of the housekeeper never comes while an object is queued or being copied:
\* at most it overlaps with the first half of an IncPending.
THEOREM TicksWhenIdle == PCSpec => TickOnlyIdle
<1>1. CopiesInv /\ [PCNext]_allvars =>
        [hkpc = "loadlast" /\ hkpc' = "wait" /\ ~ticks /\ ticks' =>
           \A p \in Puts : p \in Counted => ppc[p] = "zero"]_allvars
  <2> SUFFICES ASSUME CopiesInv, PCNext, hkpc = "loadlast", hkpc' = "wait", ~ticks, ticks'
               PROVE  \A p \in Puts : p \in Counted => ppc[p] = "zero"
    OBVIOUS
  <2>1. Looks
    BY DEF CopiesInv
  <2>2. hkpc' # hkpc
    OBVIOUS
  <2>3. last = "old"
    <3>1. ASSUME NEW p \in Puts, Put(p)
          PROVE  hkpc' = hkpc
      BY <3>1 DEF Put, PutRenew, PutInc, PutZero, PutPost, PutNotFound, PutNow, PutAbort, demandvars, hkvars
    <3>2. ASSUME NEW m \in Mpaths, Work(m)
          PROVE  hkpc' = hkpc
      BY <3>2, WorkStays
    <3>3. ASSUME RunStep
          PROVE  hkpc' = hkpc
      BY <3>3 DEF RunStep, RunSelect, RunStop, RunDrain, RunClose, RunWait, RunNow, RunAddErr, RunFinish,
         StopCAS, StopStopping, StopUnreg, StopTicks, demandvars, hkvars
    <3>4. ASSUME (\E p \in Procs : BaseStep(p)) \/ AgeStep \/ Quiet
          PROVE  hkpc' = hkpc
      BY <3>4 DEF BaseStep, AgeStep, Age, Quiet, allvars, demandvars, hkvars
    <3>5. HkStep
      BY <2>2, <3>1, <3>2, <3>3, <3>4 DEF PCNext
    <3>6. HkcbLast
      BY <3>5 DEF HkStep, Hk, HkHandle, HkDue, HkcbPending
    <3> QED
      BY <3>6 DEF HkcbLast
  <2> QED
    BY <2>1, <2>3 DEF Looks
<1> QED
  BY <1>1, CopiesInductive, PTL DEF PCSpec, TickOnlyIdle
=============================================================================
