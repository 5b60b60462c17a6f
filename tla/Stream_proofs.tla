---------------------------- MODULE Stream_proofs ----------------------------
(***************************************************************************)
(* For any number of objects, any queue capacity, any idle teardown time   *)
(* and any number of failed requests: every object has one owner until its *)
(* one completion, and only a Send() blocked across two collector passes   *)
(* finds workCh closed.                                                    *)
(***************************************************************************)
EXTENDS Stream, FiniteSetTheorems, SequenceTheorems, TLAPS

USE ZenonT(30) \* leaves are for Zenon, those with arithmetic or records for SMT

-----------------------------------------------------------------------------
(* Counting in a queue *)

\* 1 when x is the object in question
One(x, o) == IF x = o THEN 1 ELSE 0

\* a queue holds a natural number of an object, an empty one none
LEMMA InQueueNat == ASSUME NEW S, NEW q \in Seq(S), NEW o
                    PROVE IsFiniteSet({i \in DOMAIN q : q[i] = o}) /\ InQueue(q, o) \in Nat
<1>1. DOMAIN q = 1..Len(q) /\ Len(q) \in Nat
  BY LenProperties
<1>2. IsFiniteSet(1..Len(q))
  BY <1>1, FS_Interval, SMTT(30)
<1>3. {i \in DOMAIN q : q[i] = o} \in SUBSET (1..Len(q))
  BY <1>1
<1>4. IsFiniteSet({i \in DOMAIN q : q[i] = o})
  BY <1>2, <1>3, FS_Subset
<1> QED
  BY <1>4, FS_CardinalityType DEF InQueue

\* an empty queue holds nothing
LEMMA InQueueEmpty == \A o : InQueue(<<>>, o) = 0
<1> TAKE o
<1>1. {i \in DOMAIN <<>> : <<>>[i] = o} = {}
  BY SMTT(30)
<1> QED
  BY <1>1, FS_EmptySet DEF InQueue

\* what is appended is one more
LEMMA InQueueAppend == ASSUME NEW S, NEW q \in Seq(S), NEW x \in S, NEW o
                       PROVE InQueue(Append(q, x), o) = InQueue(q, o) + One(x, o)
<1> DEFINE A == {i \in DOMAIN q : q[i] = o}
           B == {i \in DOMAIN Append(q, x) : Append(q, x)[i] = o}
<1>1. IsFiniteSet(A) /\ Cardinality(A) \in Nat
  BY InQueueNat DEF InQueue
<1>2. B = (IF x = o THEN A \cup {Len(q) + 1} ELSE A) /\ Len(q) + 1 \notin A
  BY SMTT(30)
<1>3. Cardinality(A \cup {Len(q) + 1}) = Cardinality(A) + 1
  BY <1>1, <1>2, FS_AddElement
<1>4. InQueue(q, o) = Cardinality(A) /\ InQueue(Append(q, x), o) = Cardinality(B)
  BY DEF InQueue
<1> HIDE DEF A, B
<1>5. CASE x = o
  BY <1>1, <1>2, <1>3, <1>4, <1>5 DEF One
<1>6. CASE x # o
  BY <1>1, <1>2, <1>4, <1>6, SMTT(30) DEF One
<1> QED
  BY <1>5, <1>6

\* what is taken from the head is one less
LEMMA InQueueTail == ASSUME NEW S, NEW q \in Seq(S), q # <<>>, NEW o
                     PROVE InQueue(q, o) = InQueue(Tail(q), o) + One(Head(q), o)
<1> DEFINE A == {i \in DOMAIN Tail(q) : Tail(q)[i] = o}
           B == {i \in DOMAIN q : q[i] = o /\ i # 1}
           C == {i \in DOMAIN q : q[i] = o}
           f == [i \in A |-> i + 1]
<1>1. IsFiniteSet(A) /\ Cardinality(A) \in Nat
  BY InQueueNat, HeadTailProperties DEF InQueue
<1>2. /\ DOMAIN q = 1..Len(q) /\ DOMAIN Tail(q) = 1..(Len(q) - 1) /\ Len(q) \in Nat \ {0}
      /\ \A i \in 1..(Len(q) - 1) : Tail(q)[i] = q[i + 1]
      /\ Head(q) = q[1]
  BY SMTT(30)
<1>3. f \in Bijection(A, B)
  <2>1. f \in [A -> B]
    BY <1>2, SMTT(30)
  <2>2. \A a, b \in A : f[a] = f[b] => a = b
    BY <1>2, SMTT(30)
  <2>3. \A b \in B : \E a \in A : f[a] = b
    <3> SUFFICES ASSUME NEW b \in B PROVE b - 1 \in A /\ f[b - 1] = b
      OBVIOUS
    <3> QED
      BY <1>2, SMTT(30)
  <2> QED
    BY <2>1, <2>2, <2>3 DEF Bijection, Injection, Surjection, IsInjective
<1>4. IsFiniteSet(B) /\ Cardinality(B) = Cardinality(A)
  <2> HIDE DEF A, B, f
  <2>1. ExistsBijection(A, B)
    BY <1>3 DEF ExistsBijection
  <2> QED
    BY <1>1, <2>1, FS_Bijection
<1>5. C = (IF Head(q) = o THEN B \cup {1} ELSE B) /\ 1 \notin B
  BY <1>2, SMTT(30)
<1>6. Cardinality(B \cup {1}) = Cardinality(B) + 1
  BY <1>4, <1>5, FS_AddElement
<1>7. InQueue(q, o) = Cardinality(C) /\ InQueue(Tail(q), o) = Cardinality(A)
  BY DEF InQueue
<1> HIDE DEF A, B, C
<1>8. CASE Head(q) = o
  BY <1>1, <1>4, <1>5, <1>6, <1>7, <1>8 DEF One
<1>9. CASE Head(q) # o
  BY <1>1, <1>4, <1>5, <1>7, <1>9, SMTT(30) DEF One
<1> QED
  BY <1>8, <1>9

-----------------------------------------------------------------------------
(* Types *)

Calls == {"idle", "check", "post", "put", "wait", "ret", "panic"}
Loops == {"top", "read", "data", "resp", "fail", "next", "fin", "remove", "wait", "end", "panic"}

\* what the callers, the loops and the collector's countdown are; only a request that is
\* sending or has failed has an object of a caller
Control ==
  /\ snd \in [Callers -> Calls] /\ seen \in [Callers \cup {"loop"} -> 0..2]
  /\ loop \in Loops /\ cloop \in {"run", "end"} /\ gc \in {"run", "drain", "idle", "tick", "abort", "end"}
  /\ sess \in {"active", "inactive"} /\ term \in {"none", "eos", "stopped", "err"}
  /\ post \in BOOLEAN /\ stop \in BOOLEAN /\ last \in BOOLEAN
  /\ inSend \in BOOLEAN /\ removed \in BOOLEAN /\ closed \in BOOLEAN
  /\ ticks \in 0..IdleTicks /\ (gc \in {"run", "drain", "idle", "tick"} => ticks >= 1)

Queues ==
  /\ work \in Seq(Callers \cup {Tick}) /\ Len(work) <= Burst
  /\ cmpl \in Seq(Callers \cup {Tick, None}) /\ Len(cmpl) <= Burst
  /\ off \in Objs \cup {Fin, Tick, None} /\ (loop \notin {"data", "fail"} => off \notin Objs)
  /\ cb \in [Objs -> Nat]

\* a pass of the collector counts in 0..2
LEMMA PassSeen == ASSUME Control, GcPass PROVE seen' \in [Callers \cup {"loop"} -> 0..2]
  BY SMTT(30) DEF Control, GcPass

\* Control is inductive
LEMMA ControlStep == ASSUME Control, Next PROVE Control'
<1> USE StreamAssumption DEF Control, callVars, sigVars, gcVars
<1>1. ASSUME NEW o \in Callers, StartSend(o) PROVE Control'
  BY <1>1, SMTT(30) DEF StartSend, Calls
<1>2. ASSUME NEW o \in Callers, Sending(o) PROVE Control'
  <2>0. 0 \in 0..2
    BY SMTT(30)
  <2>1. CASE Check(o)
    BY <2>0, <2>1, SMTT(30) DEF Check, Return, Calls
  <2>2. CASE Post(o)
    BY <2>2, SMTT(30) DEF Post, Calls
  <2>3. CASE Put(o)
    BY <2>0, <2>3, SMTT(30) DEF Put, Return, Calls
  <2> QED
    BY <1>2, <2>1, <2>2, <2>3 DEF Sending
<1>3. CASE FinWait
  <2>1. snd' \in [Callers -> Calls]
    BY <1>3 DEF FinWait, Calls
  <2> QED
    BY <1>3, <2>1, SMTT(30) DEF FinWait
<1>4. CASE Stop
  BY <1>4, SMTT(30) DEF Stop
<1>5. CASE ReaderFails
  BY <1>5, SMTT(30) DEF ReaderFails, Loops
<1>6. CASE RequestFails
  BY <1>6, SMTT(30) DEF RequestFails, Loops
<1>7. CASE SendLoop
  <2>1. CASE Top
    <3>1. 0 \in 0..2
      BY SMTT(30)
    <3> QED
      BY <2>1, <3>1, SMTT(30) DEF Top, Loops
  <2>2. CASE Take
    BY <2>2, SMTT(30) DEF Take, Loops
  <2>3. CASE ReadStopped
    BY <2>3, SMTT(30) DEF ReadStopped, Loops
  <2>4. CASE EoObj
    BY <2>4, SMTT(30) DEF EoObj, Loops
  <2>5. CASE RequestDone
    BY <2>5, SMTT(30) DEF RequestDone, Loops
  <2>6. CASE ErrCmpl
    BY <2>6 DEF ErrCmpl, Loops
  <2>7. CASE NextReq
    <3>1. /\ loop' \in Loops /\ sess' \in {"active", "inactive"} /\ term' \in {"none", "eos", "stopped", "err"}
          /\ post' \in BOOLEAN /\ stop' \in BOOLEAN
      BY <2>7 DEF NextReq, Loops
    <3> QED
      BY <2>7, <3>1, SMTT(30) DEF NextReq
  <2>8. CASE PostFin
    BY <2>8, SMTT(30) DEF PostFin, Loops
  <2>9. CASE Remove
    BY <2>9, SMTT(30) DEF Remove, Loops
  <2>10. CASE Pending
    BY <2>10, SMTT(30) DEF Pending, Loops
  <2> QED
    BY <1>7, <2>1, <2>2, <2>3, <2>4, <2>5, <2>6, <2>7, <2>8, <2>9, <2>10 DEF SendLoop
<1>8. CASE CmplLoop
  BY <1>8, SMTT(30) DEF CmplLoop
<1>9. CASE Collector
  <2>1. CASE GcApply
    <3>1. 1 \in 0..IdleTicks /\ 1 >= 1
      BY SMTT(30)
    <3> QED
      BY <2>1, <3>1 DEF GcApply
  <2>2. CASE GcGrace
    BY <2>2, PassSeen DEF GcGrace, GcPass
  <2>3. CASE GcDrain
    <3>1. 1 \in 0..IdleTicks /\ 1 >= 1
      BY SMTT(30)
    <3> QED
      BY <2>3, <3>1, SMTT(30) DEF GcDrain
  <2>4. CASE GcReap
    <3>1. ticks' \in 0..IdleTicks /\ (gc' \in {"run", "drain", "idle", "tick"} => ticks' >= 1)
      BY <2>4, SMTT(30) DEF GcReap, GcPass
    <3> QED
      BY <2>4, <3>1, PassSeen DEF GcReap, GcPass
  <2>5. CASE GcAbort
    BY <2>5, SMTT(30) DEF GcAbort
  <2>6. CASE GcIdle
    <3>1. ticks' \in 0..IdleTicks /\ ticks' >= 1
      BY <2>6, SMTT(30) DEF GcIdle, GcPass
    <3> QED
      BY <2>6, <3>1, PassSeen DEF GcIdle, GcPass
  <2>7. CASE GcIdleTick
    BY <2>7 DEF GcIdleTick
  <2>8. CASE GcPostTick
    BY <2>8 DEF GcPostTick
  <2> QED
    BY <1>9, <2>1, <2>2, <2>3, <2>4, <2>5, <2>6, <2>7, <2>8 DEF Collector
<1> QED
  BY <1>1, <1>2, <1>3, <1>4, <1>5, <1>6, <1>7, <1>8, <1>9 DEF Next

-----------------------------------------------------------------------------
(* One owner *)

\* in how many places o is
Places(o) == WithCaller(o) + InQueue(work, o) + WithRequest(o) + InQueue(cmpl, o) + cb[o]

Owned == Queues /\ \A o \in Objs : Places(o) = 1

\* sending to a channel with room: one more of what is sent
LEMMA ChanPut == ASSUME NEW S, NEW q \in Seq(S), NEW x \in S, Len(q) < Burst
                 PROVE /\ Append(q, x) \in Seq(S) /\ Len(Append(q, x)) <= Burst
                       /\ \A o : InQueue(Append(q, x), o) = InQueue(q, o) + One(x, o)
<1>1. Append(q, x) \in Seq(S) /\ Len(Append(q, x)) <= Burst
  BY StreamAssumption, SMTT(30)
<1>2. ASSUME NEW o PROVE InQueue(Append(q, x), o) = InQueue(q, o) + One(x, o)
  BY InQueueAppend
<1> QED
  BY <1>1, <1>2

\* receiving from a channel that has something: one less of what is received
LEMMA ChanTake == ASSUME NEW S, NEW q \in Seq(S), q # <<>>, Len(q) <= Burst
                  PROVE /\ Tail(q) \in Seq(S) /\ Len(Tail(q)) <= Burst /\ Head(q) \in S
                        /\ \A o : InQueue(q, o) = InQueue(Tail(q), o) + One(Head(q), o)
<1>1. Tail(q) \in Seq(S) /\ Len(Tail(q)) <= Burst /\ Head(q) \in S
  BY StreamAssumption, SMTT(30)
<1>2. ASSUME NEW o PROVE InQueue(q, o) = InQueue(Tail(q), o) + One(Head(q), o)
  BY InQueueTail
<1> QED
  BY <1>1, <1>2

\* workCh <- x
LEMMA WorkPut == ASSUME Queues, NEW x \in Callers \cup {Tick}, Len(work) < Burst
                 PROVE /\ Append(work, x) \in Seq(Callers \cup {Tick}) /\ Len(Append(work, x)) <= Burst
                       /\ \A o : InQueue(Append(work, x), o) = InQueue(work, o) + One(x, o)
<1> DEFINE S == Callers \cup {Tick}
<1>1. work \in Seq(S) /\ x \in S
  BY DEF Queues
<1> HIDE DEF S
<1>2. /\ Append(work, x) \in Seq(S) /\ Len(Append(work, x)) <= Burst
      /\ \A o : InQueue(Append(work, x), o) = InQueue(work, o) + One(x, o)
  BY <1>1, ChanPut
<1> QED
  BY <1>2 DEF S

\* cmplCh <- x
LEMMA CmplPut == ASSUME Queues, NEW x \in Callers \cup {Tick, None}, Len(cmpl) < Burst
                 PROVE /\ Append(cmpl, x) \in Seq(Callers \cup {Tick, None}) /\ Len(Append(cmpl, x)) <= Burst
                       /\ \A o : InQueue(Append(cmpl, x), o) = InQueue(cmpl, o) + One(x, o)
<1> DEFINE S == Callers \cup {Tick, None}
<1>1. cmpl \in Seq(S) /\ x \in S
  BY DEF Queues
<1> HIDE DEF S
<1>2. /\ Append(cmpl, x) \in Seq(S) /\ Len(Append(cmpl, x)) <= Burst
      /\ \A o : InQueue(Append(cmpl, x), o) = InQueue(cmpl, o) + One(x, o)
  BY <1>1, ChanPut
<1> QED
  BY <1>2 DEF S

\* doCmpl(x)
LEMMA Completed == ASSUME Queues, NEW x, DoCmpl(x)
                   PROVE cb' \in [Objs -> Nat] /\ \A o \in Objs : cb'[o] = cb[o] + One(x, o)
  BY SMTT(30) DEF Queues, DoCmpl, One

\* what there is to count
LEMMA Counts == ASSUME Queues, NEW o \in Objs
                PROVE /\ InQueue(work, o) \in Nat /\ InQueue(cmpl, o) \in Nat /\ cb[o] \in Nat
                      /\ WithCaller(o) \in Nat /\ WithRequest(o) \in Nat
  BY InQueueNat DEF Queues, WithCaller, WithRequest

USE StreamAssumption

\* the callers' steps keep every object with one owner
LEMMA CallOwned == ASSUME Control, Owned, NEW p \in Callers, StartSend(p) \/ Sending(p) PROVE Owned'
<1> USE DEF Control, Owned, Queues, callVars, sigVars, gcVars
<1>1. CASE StartSend(p) \/ Post(p)
  <2>1. ASSUME NEW o \in Objs PROVE WithCaller(o)' = WithCaller(o) /\ WithRequest(o)' = WithRequest(o)
    BY <1>1 DEF StartSend, Post, WithCaller, WithRequest, Callers
  <2>2. UNCHANGED <<work, cmpl, off, cb, loop>>
    BY <1>1 DEF StartSend, Post
  <2> QED
    BY <2>1, <2>2 DEF Places
<1>2. CASE Check(p)
  <2>1. UNCHANGED <<work, cmpl, off, loop>>
    BY <1>2 DEF Check
  <2>2. CASE term = "none"
    <3>1. ASSUME NEW o \in Objs PROVE WithCaller(o)' = WithCaller(o) /\ WithRequest(o)' = WithRequest(o)
      BY <1>2, <2>2 DEF Check, WithCaller, WithRequest, Callers
    <3> QED
      BY <1>2, <2>1, <2>2, <3>1 DEF Places, Check
  <2>3. CASE term # "none"
    <3>1. cb' \in [Objs -> Nat] /\ \A o \in Objs : cb'[o] = cb[o] + One(p, o)
      BY <1>2, <2>3, Completed DEF Check
    <3>2. ASSUME NEW o \in Objs PROVE Places(o)' = 1
      <4>1. WithCaller(o)' = (IF o = p THEN 0 ELSE WithCaller(o)) /\ (o = p => WithCaller(o) = 1)
        BY <1>2, <2>3 DEF Check, Return, WithCaller, Callers
      <4>2. Places(o)' = WithCaller(o)' + InQueue(work, o) + WithRequest(o) + InQueue(cmpl, o) + cb'[o]
        BY <2>1 DEF Places, WithRequest
      <4>3. WithCaller(o) + InQueue(work, o) + WithRequest(o) + InQueue(cmpl, o) + cb[o] = 1
        BY DEF Places
      <4>4. /\ InQueue(work, o) \in Nat /\ InQueue(cmpl, o) \in Nat /\ cb[o] \in Nat
            /\ WithCaller(o) \in Nat /\ WithRequest(o) \in Nat
        BY Counts
      <4> HIDE DEF Control, Owned, Queues
      <4> QED
        BY <3>1, <4>1, <4>2, <4>3, <4>4, SMTT(30) DEF One
    <3> QED
      BY <2>1, <3>1, <3>2
  <2> QED
    BY <2>2, <2>3
<1>3. CASE Put(p)
  <2>1. UNCHANGED <<cmpl, off, cb, loop>>
    BY <1>3 DEF Put
  <2>2. CASE closed
    <3>1. ASSUME NEW o \in Objs PROVE WithCaller(o)' = WithCaller(o)
      BY <1>3, <2>2 DEF Put, WithCaller, Callers
    <3> QED
      BY <1>3, <2>1, <2>2, <3>1 DEF Put, Places, WithRequest
  <2>3. CASE ~closed
    <3>1. /\ work' \in Seq(Callers \cup {Tick}) /\ Len(work') <= Burst
          /\ \A o : InQueue(work', o) = InQueue(work, o) + One(p, o)
      <4>1. Len(work) < Burst /\ work' = Append(work, p)
        BY <1>3, <2>3 DEF Put
      <4> HIDE DEF Control, Queues
      <4> QED
        BY <4>1, WorkPut
    <3>2. ASSUME NEW o \in Objs PROVE Places(o)' = 1
      <4>1. WithCaller(o)' = (IF o = p THEN 0 ELSE WithCaller(o)) /\ (o = p => WithCaller(o) = 1)
        BY <1>3, <2>3 DEF Put, Return, WithCaller, Callers
      <4>2. Places(o)' = WithCaller(o)' + InQueue(work', o) + WithRequest(o) + InQueue(cmpl, o) + cb[o]
        BY <2>1 DEF Places, WithRequest
      <4>3. WithCaller(o) + InQueue(work, o) + WithRequest(o) + InQueue(cmpl, o) + cb[o] = 1
        BY DEF Places
      <4>4. /\ InQueue(work, o) \in Nat /\ InQueue(cmpl, o) \in Nat /\ cb[o] \in Nat
            /\ WithCaller(o) \in Nat /\ WithRequest(o) \in Nat
        BY Counts
      <4> HIDE DEF Control, Owned, Queues
      <4> QED
        BY <3>1, <4>1, <4>2, <4>3, <4>4, SMTT(30) DEF One
    <3> QED
      BY <2>1, <3>1, <3>2
  <2> QED
    BY <2>2, <2>3
<1> QED
  BY <1>1, <1>2, <1>3 DEF Sending

\* an object that leaves workCh, or cmplCh, for its completion still has one place
LEMMA Shift == ASSUME Owned, NEW o \in Objs, NEW x \in Nat, NEW y \in Nat
               PROVE /\ InQueue(work, o) = y + x
                          => WithCaller(o) + y + WithRequest(o) + InQueue(cmpl, o) + (cb[o] + x) = 1
                     /\ InQueue(cmpl, o) = y + x
                          => WithCaller(o) + InQueue(work, o) + WithRequest(o) + y + (cb[o] + x) = 1
<1>1. WithCaller(o) + InQueue(work, o) + WithRequest(o) + InQueue(cmpl, o) + cb[o] = 1
  BY DEF Owned, Places
<1>2. /\ InQueue(work, o) \in Nat /\ InQueue(cmpl, o) \in Nat /\ cb[o] \in Nat
      /\ WithCaller(o) \in Nat /\ WithRequest(o) \in Nat
  BY Counts DEF Owned
<1> QED
  BY <1>1, <1>2, SMTT(30)

\* abortPending(), drain(): what is taken from workCh is completed
LEMMA WorkDone == ASSUME Owned, work # <<>>, DoCmpl(Head(work)), work' = Tail(work), UNCHANGED <<snd, cmpl, off, loop>>
                  PROVE Owned'
<1>1. /\ work' \in Seq(Callers \cup {Tick}) /\ Len(work') <= Burst
      /\ \A o : InQueue(work, o) = InQueue(work', o) + One(Head(work), o)
  <2>1. work \in Seq(Callers \cup {Tick}) /\ Len(work) <= Burst
    BY DEF Owned, Queues
  <2> QED
    BY <2>1, ChanTake
<1>2. cb' \in [Objs -> Nat] /\ \A o \in Objs : cb'[o] = cb[o] + One(Head(work), o)
  BY Completed DEF Owned
<1>3. ASSUME NEW o \in Objs PROVE Places(o)' = 1
  <2>1. Places(o)' = WithCaller(o) + InQueue(work', o) + WithRequest(o) + InQueue(cmpl, o) + cb'[o]
    BY DEF Places, WithCaller, WithRequest
  <2>2. InQueue(work', o) \in Nat
    BY <1>1, InQueueNat
  <2>3. /\ InQueue(work, o) = InQueue(work', o) + One(Head(work), o) /\ cb'[o] = cb[o] + One(Head(work), o)
        /\ One(Head(work), o) \in Nat
    BY <1>1, <1>2 DEF One
  <2>4. WithCaller(o) + InQueue(work', o) + WithRequest(o) + InQueue(cmpl, o) + (cb[o] + One(Head(work), o)) = 1
    BY <2>2, <2>3, Shift
  <2> QED
    BY <2>1, <2>3, <2>4
<1> QED
  BY <1>1, <1>2, <1>3 DEF Owned, Queues

\* cmplLoop, abortPending(): what is taken from cmplCh is completed
LEMMA CmplDone == ASSUME Owned, cmpl # <<>>, DoCmpl(Head(cmpl)), cmpl' = Tail(cmpl), UNCHANGED <<snd, work, off, loop>>
                  PROVE Owned'
<1>1. /\ cmpl' \in Seq(Callers \cup {Tick, None}) /\ Len(cmpl') <= Burst
      /\ \A o : InQueue(cmpl, o) = InQueue(cmpl', o) + One(Head(cmpl), o)
  <2>1. cmpl \in Seq(Callers \cup {Tick, None}) /\ Len(cmpl) <= Burst
    BY DEF Owned, Queues
  <2> QED
    BY <2>1, ChanTake
<1>2. cb' \in [Objs -> Nat] /\ \A o \in Objs : cb'[o] = cb[o] + One(Head(cmpl), o)
  BY Completed DEF Owned
<1>3. ASSUME NEW o \in Objs PROVE Places(o)' = 1
  <2>1. Places(o)' = WithCaller(o) + InQueue(work, o) + WithRequest(o) + InQueue(cmpl', o) + cb'[o]
    BY DEF Places, WithCaller, WithRequest
  <2>2. InQueue(cmpl', o) \in Nat
    BY <1>1, InQueueNat
  <2>3. /\ InQueue(cmpl, o) = InQueue(cmpl', o) + One(Head(cmpl), o) /\ cb'[o] = cb[o] + One(Head(cmpl), o)
        /\ One(Head(cmpl), o) \in Nat
    BY <1>1, <1>2 DEF One
  <2>4. WithCaller(o) + InQueue(work, o) + WithRequest(o) + InQueue(cmpl', o) + (cb[o] + One(Head(cmpl), o)) = 1
    BY <2>2, <2>3, Shift
  <2> QED
    BY <2>1, <2>3, <2>4
<1> QED
  BY <1>1, <1>2, <1>3 DEF Owned, Queues

\* eoObj(), errCmpl(): the request gives its object to cmplCh
LEMMA Sent == ASSUME Owned, loop \in {"data", "fail"}, off' = None, Len(cmpl) < Burst, cmpl' = Append(cmpl, off),
                     UNCHANGED <<snd, work, cb>>
              PROVE Owned'
<1>1. /\ cmpl' \in Seq(Callers \cup {Tick, None}) /\ Len(cmpl') <= Burst
      /\ \A o : InQueue(cmpl', o) = InQueue(cmpl, o) + One(off, o)
  <2>1. off \in Callers \cup {Tick, None} /\ Queues
    BY DEF Owned, Queues, Callers
  <2> QED
    BY <2>1, CmplPut
<1>2. ASSUME NEW o \in Objs PROVE Places(o)' = 1
  <2>1. Places(o)' = WithCaller(o) + InQueue(work, o) + WithRequest(o)' + InQueue(cmpl', o) + cb[o]
    BY DEF Places, WithCaller
  <2>2. WithRequest(o)' = 0 /\ WithRequest(o) = One(off, o)
    BY StreamAssumption DEF WithRequest, One
  <2>3. WithCaller(o) + InQueue(work, o) + WithRequest(o) + InQueue(cmpl, o) + cb[o] = 1
    BY DEF Owned, Places
  <2>4. /\ InQueue(work, o) \in Nat /\ InQueue(cmpl, o) \in Nat /\ cb[o] \in Nat
        /\ WithCaller(o) \in Nat /\ WithRequest(o) \in Nat
    BY Counts DEF Owned
  <2> QED
    BY <1>1, <2>1, <2>2, <2>3, <2>4, SMTT(30) DEF One
<1> QED
  BY <1>1, <1>2, StreamAssumption DEF Owned, Queues

\* steps that move no object
LEMMA Unmoved == ASSUME Owned, UNCHANGED <<snd, work, cmpl, off, cb>>,
                        (loop' \in {"data", "fail"} <=> loop \in {"data", "fail"}) \/ off \notin Objs,
                        loop' \notin {"data", "fail"} => off \notin Objs
                 PROVE Owned'
<1>1. ASSUME NEW o \in Objs PROVE Places(o)' = Places(o)
  BY DEF Places, WithCaller, WithRequest
<1> QED
  BY <1>1 DEF Owned, Queues

\* Read(): the request takes the head of workCh, an object only to send it
LEMMA TakeOwned == ASSUME Owned, Take PROVE Owned'
<1>1. /\ work # <<>> /\ work' = Tail(work) /\ off' = Head(work) /\ loop = "read"
      /\ UNCHANGED <<snd, cmpl, cb>>
  BY DEF Take, callVars
<1>2. /\ work' \in Seq(Callers \cup {Tick}) /\ Len(work') <= Burst /\ Head(work) \in Callers \cup {Tick}
      /\ \A o : InQueue(work, o) = InQueue(work', o) + One(Head(work), o)
  <2>1. work \in Seq(Callers \cup {Tick}) /\ Len(work) <= Burst
    BY DEF Owned, Queues
  <2> QED
    BY <1>1, <2>1, ChanTake
<1>3. /\ Head(work) \in Objs => loop' = "data"
      /\ Head(work) \notin Objs => loop' \notin {"data", "fail"}
  BY <1>2 DEF Take, Callers, Fin, Tick, None
<1>4. ASSUME NEW o \in Objs PROVE Places(o)' = 1
  <2>1. Places(o)' = WithCaller(o) + InQueue(work', o) + WithRequest(o)' + InQueue(cmpl, o) + cb[o]
    BY <1>1 DEF Places, WithCaller
  <2>2. WithRequest(o)' = One(Head(work), o) /\ WithRequest(o) = 0
    BY <1>1, <1>3 DEF WithRequest, One
  <2>3. InQueue(work', o) \in Nat /\ One(Head(work), o) \in Nat
    BY <1>2, InQueueNat DEF One
  <2>4. WithCaller(o) + InQueue(work, o) + 0 + InQueue(cmpl, o) + cb[o] = 1
    BY <2>2 DEF Owned, Places
  <2>5. InQueue(cmpl, o) \in Nat /\ cb[o] \in Nat /\ WithCaller(o) \in Nat
    BY Counts DEF Owned
  <2>6. InQueue(work, o) = InQueue(work', o) + One(Head(work), o)
    BY <1>2
  <2>7. WithCaller(o) + InQueue(work', o) + One(Head(work), o) + InQueue(cmpl, o) + cb[o] = 1
    BY <2>3, <2>4, <2>5, <2>6, SMTT(30)
  <2> QED
    BY <2>1, <2>2, <2>7
<1>5. Queues'
  BY <1>1, <1>2, <1>3 DEF Owned, Queues, Callers
<1> QED
  BY <1>4, <1>5 DEF Owned

\* terminate() and idleTick() queue what is nobody's object
LEMMA InBand == ASSUME Owned, UNCHANGED <<snd, off, cb>>,
                       loop' \notin {"data", "fail"} <=> loop \notin {"data", "fail"},
                       \/ work' = work /\ Len(cmpl) < Burst /\ cmpl' = Append(cmpl, Fin)
                       \/ cmpl' = cmpl /\ Len(work) < Burst /\ work' = Append(work, Tick)
                PROVE Owned'
<1>1. work \in Seq(Callers \cup {Tick}) /\ cmpl \in Seq(Callers \cup {Tick, None}) /\ Len(work) <= Burst /\ Len(cmpl) <= Burst
  BY DEF Owned, Queues
<1>2. Tick \in Callers \cup {Tick} /\ Fin \in Callers \cup {Tick, None} /\ Queues
  BY DEF Callers, Owned
<1>3. ASSUME Len(cmpl) < Burst
      PROVE /\ Append(cmpl, Fin) \in Seq(Callers \cup {Tick, None}) /\ Len(Append(cmpl, Fin)) <= Burst
            /\ \A o : InQueue(Append(cmpl, Fin), o) = InQueue(cmpl, o) + One(Fin, o)
  BY <1>2, <1>3, CmplPut
<1>4. ASSUME Len(work) < Burst
      PROVE /\ Append(work, Tick) \in Seq(Callers \cup {Tick}) /\ Len(Append(work, Tick)) <= Burst
            /\ \A o : InQueue(Append(work, Tick), o) = InQueue(work, o) + One(Tick, o)
  BY <1>2, <1>4, WorkPut
<1>5. ASSUME NEW o \in Objs PROVE InQueue(work', o) = InQueue(work, o) /\ InQueue(cmpl', o) = InQueue(cmpl, o)
  <2>1. One(Fin, o) = 0 /\ One(Tick, o) = 0
    BY DEF One
  <2>2. InQueue(work, o) + 0 = InQueue(work, o) /\ InQueue(cmpl, o) + 0 = InQueue(cmpl, o)
    <3>1. InQueue(work, o) \in Nat /\ InQueue(cmpl, o) \in Nat
      BY Counts DEF Owned
    <3> QED
      BY <3>1, SMTT(30)
  <2> QED
    BY <1>3, <1>4, <2>1, <2>2
<1>6. Queues'
  BY <1>1, <1>3, <1>4 DEF Owned, Queues
<1>7. ASSUME NEW o \in Objs PROVE Places(o)' = Places(o)
  BY <1>5 DEF Places, WithCaller, WithRequest
<1> QED
  BY <1>6, <1>7 DEF Owned

\* every step leaves every object with one owner
LEMMA OwnedStep == ASSUME Control, Owned, Next PROVE Owned'
<1> USE DEF callVars, sigVars, gcVars
<1>1. ASSUME NEW p \in Callers, StartSend(p) \/ Sending(p) PROVE Owned'
  BY <1>1, CallOwned
<1>2. CASE FinWait
  <2>1. ASSUME NEW o \in Objs PROVE Places(o)' = Places(o)
    BY <1>2 DEF FinWait, Places, WithCaller, WithRequest, Control, Callers
  <2> QED
    BY <1>2, <2>1 DEF FinWait, Owned, Queues
<1>3. CASE Stop \/ RequestFails \/ ReadStopped \/ RequestDone \/ NextReq \/ Remove \/ Top
  <2>1. UNCHANGED <<snd, work, cmpl, off, cb>>
    BY <1>3 DEF Stop, RequestFails, ReadStopped, RequestDone, NextReq, Remove, Top
  <2>2. /\ (loop' \in {"data", "fail"} <=> loop \in {"data", "fail"}) \/ loop \notin {"data", "fail"}
        /\ loop' \notin {"data", "fail"} => loop \notin {"data", "fail"}
    BY <1>3 DEF Stop, RequestFails, ReadStopped, RequestDone, NextReq, Remove, Top
  <2>3. loop \notin {"data", "fail"} => off \notin Objs
    BY DEF Owned, Queues
  <2> QED
    BY <2>1, <2>2, <2>3, Unmoved
<1>4. CASE EoObj \/ ReaderFails \/ ErrCmpl
  BY <1>4, Sent DEF EoObj, ReaderFails, ErrCmpl
<1>5. CASE Take
  BY <1>5, TakeOwned
<1>6. CASE PostFin
  <2>1. CASE closed
    BY <1>6, <2>1, Unmoved DEF PostFin, Owned, Queues
  <2>2. CASE ~closed
    BY <1>6, <2>2, InBand DEF PostFin
  <2> QED
    BY <2>1, <2>2
<1>7. CASE Pending
  <2>1. CASE work # <<>>
    BY <1>7, <2>1, WorkDone DEF Pending
  <2>2. CASE work = <<>>
    BY <1>7, <2>2, Unmoved DEF Pending, Owned, Queues
  <2> QED
    BY <2>1, <2>2
<1>8. CASE CmplLoop
  <2>1. CASE cmpl # <<>>
    BY <1>8, <2>1, CmplDone DEF CmplLoop
  <2>2. CASE cmpl = <<>>
    BY <1>8, <2>2, Unmoved DEF CmplLoop, Owned, Queues
  <2> QED
    BY <2>1, <2>2
<1>9. CASE GcApply \/ GcGrace \/ GcReap \/ GcIdle \/ GcIdleTick
  BY <1>9, Unmoved DEF GcApply, GcGrace, GcReap, GcIdle, GcIdleTick, Owned, Queues
<1>10. CASE GcDrain
  <2>1. CASE work # <<>>
    BY <1>10, <2>1, WorkDone DEF GcDrain
  <2>2. CASE work = <<>>
    BY <1>10, <2>2, Unmoved DEF GcDrain, Owned, Queues
  <2> QED
    BY <2>1, <2>2
<1>11. CASE GcAbort
  <2>1. CASE work # <<>>
    BY <1>11, <2>1, WorkDone DEF GcAbort
  <2>2. CASE work = <<>> /\ cmpl # <<>>
    BY <1>11, <2>2, CmplDone DEF GcAbort
  <2>3. CASE work = <<>> /\ cmpl = <<>>
    BY <1>11, <2>3, Unmoved DEF GcAbort, Owned, Queues
  <2> QED
    BY <2>1, <2>2, <2>3
<1>12. CASE GcPostTick
  BY <1>12, InBand DEF GcPostTick
<1> QED
  BY <1>1, <1>2, <1>3, <1>4, <1>5, <1>6, <1>7, <1>8, <1>9, <1>10, <1>11, <1>12 DEF Next, SendLoop, Collector

\* initially every object is with its caller
LEMMA InitOwned == Init => Control /\ Owned
<1> SUFFICES ASSUME Init PROVE Control /\ Owned
  OBVIOUS
<1>1. Control
  <2>1. 0 \in 0..2 /\ IdleTicks \in 0..IdleTicks /\ IdleTicks >= 1
    BY SMTT(30)
  <2> QED
    BY <2>1 DEF Init, Control, Calls, Loops
<1>2. Queues
  BY SMTT(30) DEF Init, Queues
<1>3. ASSUME NEW o \in Objs PROVE Places(o) = 1
  <2>1. WithCaller(o) = 1 /\ WithRequest(o) = 0 /\ InQueue(work, o) = 0 /\ InQueue(cmpl, o) = 0 /\ cb[o] = 0
    BY InQueueEmpty DEF Init, WithCaller, WithRequest, Callers
  <2> QED
    BY <2>1, SMTT(30) DEF Places
<1> QED
  BY <1>1, <1>2, <1>3 DEF Owned

\* the places of every object are one, at any time
LEMMA OwnedAlways == Spec => [](Control /\ Owned)
<1>1. Control /\ Owned /\ [Next]_vars => (Control /\ Owned)'
  <2> SUFFICES ASSUME Control, Owned, [Next]_vars PROVE (Control /\ Owned)'
    OBVIOUS
  <2>1. CASE UNCHANGED vars
    <3>1. Control'
      BY <2>1, SMTT(30) DEF vars, Control
    <3>2. ASSUME NEW o \in Objs PROVE Places(o)' = Places(o)
      BY <2>1 DEF vars, Places, WithCaller, WithRequest
    <3>3. Queues'
      BY <2>1 DEF vars, Owned, Queues
    <3> QED
      BY <3>1, <3>2, <3>3 DEF Owned
  <2> QED
    BY <2>1, ControlStep, OwnedStep
<1> QED
  BY <1>1, InitOwned, PTL DEF Spec

\* transport/: from the call of Send() to its one doCmpl() an object is in exactly one of
\* its caller's hands, workCh, the request and cmplCh, whoever completes it
THEOREM CompletedOnce == Spec => []OneOwner
<1>1. Control /\ Owned => OneOwner
  <2> SUFFICES ASSUME Control, Owned PROVE OneOwner
    OBVIOUS
  <2>1. cb \in [Objs -> 0..1]
    <3>1. ASSUME NEW o \in Objs PROVE cb[o] \in 0..1
      <4>1. WithCaller(o) + InQueue(work, o) + WithRequest(o) + InQueue(cmpl, o) + cb[o] = 1
        BY DEF Owned, Places
      <4>2. /\ InQueue(work, o) \in Nat /\ InQueue(cmpl, o) \in Nat /\ cb[o] \in Nat
            /\ WithCaller(o) \in Nat /\ WithRequest(o) \in Nat
        BY Counts DEF Owned
      <4> QED
        BY <4>1, <4>2, SMTT(30)
    <3> QED
      BY <3>1 DEF Owned, Queues
  <2>2. STypeOK
    BY <2>1 DEF STypeOK, Control, Owned, Queues, Calls, Loops
  <2> QED
    BY <2>2 DEF OneOwner, Owned, Places
<1> QED
  BY <1>1, OwnedAlways, PTL

-----------------------------------------------------------------------------
(* Sends that find workCh closed *)

\* inSend is reset only by a collector pass, which every Send() in progress then has seen;
\* the pass that closes workCh finds it reset and is their second; nobody starts after it
Graced ==
  /\ ~inSend => \A o \in Callers : MidSend(o) => seen[o] >= 1
  /\ closed => term # "none" /\ \A o \in Callers : snd[o] \in {"post", "put"} => seen[o] = 2
  /\ SendSafe

\* a pass counts for every Send() in progress
LEMMA PassCounts == ASSUME Control, GcPass, NEW o \in Callers, MidSend(o)
                    PROVE seen'[o] >= 1 /\ (seen[o] >= 1 => seen'[o] = 2)
<1>1. o # "loop"
  BY DEF Callers, Fin
<1>2. Mid(o)
  BY <1>1 DEF Mid
<1>3. seen'[o] = IF seen[o] < 2 THEN seen[o] + 1 ELSE seen[o]
  BY <1>2 DEF GcPass
<1>4. seen[o] \in 0..2
  BY DEF Control
<1> QED
  BY <1>3, <1>4, SMTT(30)

\* Graced is inductive
LEMMA GracedStep == ASSUME Control, Graced, Next PROVE Graced'
<1> USE DEF callVars, sigVars, gcVars
<1>1. ASSUME NEW p \in Callers, StartSend(p) PROVE Graced'
  BY <1>1 DEF StartSend, Control, Graced, SendSafe, MidSend
<1>2. ASSUME NEW p \in Callers, Sending(p) PROVE Graced'
  <2>1. CASE Check(p)
    BY <2>1 DEF Check, Return, Control, Graced, SendSafe, MidSend
  <2>2. CASE Post(p)
    BY <2>2 DEF Post, Control, Graced, SendSafe, MidSend
  <2>3. CASE Put(p)
    BY <2>3 DEF Put, Return, Control, Graced, SendSafe, MidSend
  <2> QED
    BY <1>2, <2>1, <2>2, <2>3 DEF Sending
<1>3. CASE FinWait
  BY <1>3 DEF FinWait, Control, Graced, SendSafe, MidSend
<1>4. CASE Stop \/ RequestFails \/ ReadStopped \/ RequestDone \/ Take \/ PostFin \/ Remove \/ Pending \/ CmplLoop
  <2>1. UNCHANGED <<snd, seen, closed>> /\ (inSend => inSend') /\ (term # "none" => term' # "none")
    BY <1>4, SMTT(30) DEF Stop, RequestFails, ReadStopped, RequestDone, Take, PostFin, Remove, Pending, CmplLoop
  <2> QED
    BY <2>1 DEF Graced, SendSafe, MidSend
<1>5. CASE Top
  <2>1. \A o \in Callers : seen'[o] = seen[o]
    BY <1>5 DEF Top, Control, Callers, Fin
  <2> QED
    BY <1>5, <2>1 DEF Top, Graced, SendSafe, MidSend
<1>6. CASE EoObj \/ ReaderFails \/ ErrCmpl \/ NextReq
  <2>1. UNCHANGED <<snd, seen, closed>> /\ (inSend => inSend') /\ (term # "none" => term' # "none")
    BY <1>6, SMTT(30) DEF EoObj, ReaderFails, ErrCmpl, NextReq
  <2> QED
    BY <2>1 DEF Graced, SendSafe, MidSend
<1>7. CASE GcApply \/ GcDrain \/ GcAbort \/ GcIdleTick \/ GcPostTick
  <2>1. UNCHANGED <<snd, seen, closed>> /\ (inSend => inSend') /\ (term # "none" => term' # "none")
    BY <1>7, SMTT(30) DEF GcApply, GcDrain, GcAbort, GcIdleTick, GcPostTick
  <2> QED
    BY <2>1 DEF Graced, SendSafe, MidSend
<1>8. CASE GcGrace \/ GcReap \/ GcIdle
  <2>1. GcPass /\ UNCHANGED <<snd, term>>
    BY <1>8 DEF GcGrace, GcReap, GcIdle
  <2>2. ASSUME NEW o \in Callers, MidSend(o) PROVE seen'[o] >= 1 /\ (seen[o] >= 1 => seen'[o] = 2)
    BY <2>1, <2>2, PassCounts
  <2>3. \A o \in Callers : snd[o] # "panic"
    BY DEF Next, Panicked
  <2>4. seen' \in [Callers \cup {"loop"} -> 0..2] /\ \A o \in Callers : seen[o] = 2 => seen'[o] = 2
    BY <2>1, PassSeen, SMTT(30) DEF GcPass, Control
  <2>5. closed' => term # "none" /\ (closed \/ ~inSend)
    BY <1>8 DEF GcGrace, GcReap, GcIdle, Graced
  <2>6. closed' => \A o \in Callers : snd[o] \in {"post", "put"} => seen'[o] = 2
    BY <2>2, <2>4, <2>5 DEF Graced, MidSend
  <2> QED
    BY <2>1, <2>2, <2>3, <2>5, <2>6 DEF Graced, SendSafe, MidSend
<1> QED
  BY <1>1, <1>2, <1>3, <1>4, <1>5, <1>6, <1>7, <1>8 DEF Next, SendLoop, Collector

\* transport/collect.go: a Send() panics on the closed workCh only if two passes of the
\* collector went by while it was in progress, whatever its timing otherwise
THEOREM GraceProtects == Spec => []SendSafe
<1>1. Init => Graced
  BY DEF Init, Graced, SendSafe, MidSend
<1>2. Control /\ Graced /\ [Next]_vars => Graced'
  <2> SUFFICES ASSUME Control, Graced, [Next]_vars PROVE Graced'
    OBVIOUS
  <2>1. CASE UNCHANGED vars
    BY <2>1 DEF vars, Graced, SendSafe, MidSend
  <2> QED
    BY <2>1, GracedStep
<1>3. Graced => SendSafe
  BY DEF Graced
<1> QED
  BY <1>1, <1>2, <1>3, OwnedAlways, PTL DEF Spec
==============================================================================
