--------------------------- MODULE Notifs_proofs ---------------------------
(***************************************************************************)
(* For any number of notifiers and faults, and with merges of ownership    *)
(* tables: the callback of a listener runs at most once, and a listener    *)
(* that is finished without error and abort means success everywhere.      *)
(*                                                                         *)
(* The first rests on who is between the CAS of the end time and the call  *)
(* (CInv), the second on what every goroutine knows when it gets there     *)
(* (FInv).                                                                 *)
(***************************************************************************)
EXTENDS Notifs, TLAPS

\* leaves are for Zenon, those with arithmetic, records or sequences for SMT
USE ZenonT(30)

ObjRec == [active: SUBSET Targets, aborted: BOOLEAN, errs: BOOLEAN, end: 0..2]
GoRec == [pc: PCs, o: Objs, todo: SUBSET Targets, dn: BOOLEAN]
EnvRec == [reg: BOOLEAN, late: BOOLEAN, merged: BOOLEAN, calls: Nat, faults: 0..MaxFaults]

Step == NNext \/ Merge

\* a goroutine that moves on keeps the type
LEMMA GotoOK ==
    ASSUME g \in [G -> GoRec], NEW x \in G, NEW at \in PCs, Goto(x, at)
    PROVE  /\ g' \in [G -> GoRec]
           /\ g'[x].pc = at /\ g'[x].o = g[x].o /\ g'[x].todo = g[x].todo /\ g'[x].dn = g[x].dn
           /\ \A y \in G : y # x => g'[y] = g[y]
<1>1. g[x] \in GoRec /\ [g[x] EXCEPT !.pc = at] \in GoRec
  BY DEF GoRec
<1>2. g' = [g EXCEPT ![x] = [g[x] EXCEPT !.pc = at]]
  BY DEF Goto
<1>3. g'[x] = [g[x] EXCEPT !.pc = at]
  BY <1>2
<1> QED
  BY <1>1, <1>2, <1>3 DEF GoRec

\* a goroutine that ends
LEMMA StopOK ==
    ASSUME g \in [G -> GoRec], NEW x \in G, Stop(x)
    PROVE  /\ g' \in [G -> GoRec]
           /\ g'[x] = Idle
           /\ \A y \in G : y # x => g'[y] = g[y]
  BY DEF Stop, Idle, GoRec, PCs, Objs

\* a goroutine that begins, with the object it has looked up
LEMMA BeginOK ==
    ASSUME g \in [G -> GoRec], NEW x \in G, NEW at \in PCs, NEW o \in Objs,
           g' = [g EXCEPT ![x] = [Idle EXCEPT !.pc = at, !.o = o]]
    PROVE  /\ g' \in [G -> GoRec]
           /\ g'[x].pc = at /\ g'[x].o = o /\ g'[x].todo = {} /\ g'[x].dn = FALSE
           /\ \A y \in G : y # x => g'[y] = g[y]
<1>1. Idle \in GoRec /\ Idle.todo = {} /\ Idle.dn = FALSE
  BY DEF Idle, GoRec, PCs, Objs
<1>2. \A r \in GoRec : /\ [r EXCEPT !.pc = at, !.o = o] \in GoRec
                       /\ [r EXCEPT !.pc = at, !.o = o].pc = at
                       /\ [r EXCEPT !.pc = at, !.o = o].o = o
                       /\ [r EXCEPT !.pc = at, !.o = o].todo = r.todo
                       /\ [r EXCEPT !.pc = at, !.o = o].dn = r.dn
  BY DEF GoRec
<1> DEFINE i == [Idle EXCEPT !.pc = at, !.o = o]
<1>3. i \in GoRec /\ i.pc = at /\ i.o = o /\ i.todo = {} /\ i.dn = FALSE
  BY <1>1, <1>2, Zenon
<1> HIDE DEF i
<1>4. g' = [g EXCEPT ![x] = i]
  BY DEF i
<1> QED
  BY <1>3, <1>4, ZenonT(30)

-----------------------------------------------------------------------------
(* The invariants *)

OwnStore(x) == At(x, "store") /\ g[x].o = "own"

\* at most one goroutine is between the CAS and the store, and nobody after F ran
CInv ==
    /\ env.calls <= 1
    /\ env.calls = 1 => obj["own"].end = 2
    /\ \A x \in G : OwnStore(x) => obj["own"].end = 1
    /\ \A x, y \in G : OwnStore(x) /\ OwnStore(y) => x = y

\* all notifiers have reported, or one has aborted or left
Over == obj["own"].active = {} \/ obj["own"].aborted

EndPCs == {"done", "finadd", "bcast", "callback", "store", "sfin", "sdel"}

\* what a goroutine knows: the answers it holds are final, and with the listener
\* registered here it goes to the end of it only when that is over
Local(x) ==
    /\ x \in Targets /\ g[x].pc \in {"check", "finished"} => xst[x] # "running"
    /\ \A t \in g[x].todo : xst[t] # "running"
    /\ g[x].pc \in {"mnls", "mfin"} => g[x].o = "copy"
    /\ g[x].o = "own" /\ (g[x].dn \/ g[x].pc \in EndPCs) => Over

Reported(t) == xst[t] # "running" /\ (xst[t] # "ok" => obj["own"].errs)

FInv ==
    /\ \A t \in Targets : t \notin obj["own"].active => Reported(t)
    /\ \A t \in msgs : xst[t] # "running"
    /\ \A x \in G : Local(x)
    /\ obj["own"].end > 0 => Over

\* xactions that have ended stay so, and listeners never become unfinished
Mono ==
    /\ \A t \in Targets : xst[t] # "running" => xst'[t] = xst[t]
    /\ Over => Over'
    /\ obj["own"].errs => obj["own"].errs'

\* a step that preserves FInv: what remains to be shown of it
LEMMA FStep ==
    ASSUME NTypeOK, FInv, Mono,
           \A t \in Targets : t \notin obj'["own"].active => t \notin obj["own"].active \/ Reported(t)',
           \A t \in msgs' : t \in msgs \/ xst'[t] # "running",
           \A x \in G : g'[x] = g[x] \/ Local(x)',
           obj'["own"].end > 0 => obj["own"].end > 0 \/ Over'
    PROVE  FInv'
<1>1. \A t \in Targets : Reported(t) => Reported(t)'
  BY DEF Mono, Reported
<1>2. \A x \in G : Local(x) /\ g'[x] = g[x] => Local(x)'
  <2> SUFFICES ASSUME NEW x \in G, Local(x), g'[x] = g[x]
               PROVE  Local(x)'
    OBVIOUS
  <2>1. g[x].todo \subseteq Targets
    BY DEF NTypeOK
  <2>2. \A t \in Targets : xst[t] # "running" => xst'[t] # "running"
    BY DEF Mono
  <2>3. (x \in Targets /\ g[x].pc \in {"check", "finished"} => xst[x] # "running")'
    BY <2>2 DEF Local
  <2>4. (\A t \in g[x].todo : xst[t] # "running")'
    BY <2>1, <2>2 DEF Local
  <2>5. (g[x].o = "own" /\ (g[x].dn \/ g[x].pc \in EndPCs) => Over)'
    BY DEF Local, Mono
  <2> QED
    BY <2>3, <2>4, <2>5 DEF Local
<1>3. \A t \in msgs : xst'[t] # "running"
  BY DEF FInv, Mono, NTypeOK
<1> QED
  BY <1>1, <1>2, <1>3 DEF FInv, Mono

\* likewise for CInv
LEMMA CStep ==
    ASSUME CInv, env'.calls = env.calls, obj'["own"].end = obj["own"].end,
           \A x \in G : g'[x] = g[x] \/ ~OwnStore(x)'
    PROVE  CInv'
<1>1. \A x \in G : OwnStore(x)' => OwnStore(x)
  BY DEF OwnStore, At
<1> QED
  BY <1>1 DEF CInv

IInv == NTypeOK /\ CInv /\ FInv

\* the type invariant with the records named
LEMMA Types ==
    NTypeOK <=>
    /\ xst \in [Targets -> XStates]
    /\ msgs \subseteq Targets /\ smap \subseteq Targets /\ seen \subseteq Targets
    /\ obj \in [Objs -> ObjRec]
    /\ nls \in Objs \cup {"none"} /\ fin \in Objs \cup {"none"}
    /\ g \in [G -> GoRec]
    /\ env \in EnvRec
  BY DEF NTypeOK, ObjRec, GoRec, EnvRec

\* one more fault
LEMMA FaultOK ==
    ASSUME env \in EnvRec, Fault
    PROVE  env' \in EnvRec /\ env'.calls = env.calls
<1>1. env.faults + 1 \in 0..MaxFaults
  BY NotifsAssumption, SMTT(30) DEF Fault, EnvRec, NotifsAssumption
<1> QED
  BY <1>1 DEF Fault, EnvRec

-----------------------------------------------------------------------------
(* The steps *)

\* targets and network: listeners and goroutines stay as they are
LEMMA EnvStep ==
    ASSUME IInv, Env
    PROVE  IInv'
<1> USE DEF IInv
<1>1. PICK t \in Targets : (\E how \in Ended : XactEnd(t, how)) \/ Lose(t) \/ Restart(t) \/ Leave(t)
  BY DEF Env
<1>2. UNCHANGED <<obj, g, nls, fin, seen>>
  BY <1>1 DEF XactEnd, Lose, Restart, Leave
<1>3. env' \in EnvRec /\ env'.calls = env.calls
  BY <1>1, FaultOK, Types DEF XactEnd, Lose, Restart, Leave
<1>4. /\ xst' \in [Targets -> XStates]
      /\ \A u \in Targets : xst[u] # "running" => xst'[u] = xst[u]
      /\ \A u \in msgs' : u \in Targets /\ (u \in msgs \/ xst'[u] # "running")
      /\ smap' \subseteq Targets
  BY <1>1, Types, SMTT(30) DEF XactEnd, Lose, Restart, Leave, XStates, Ended
<1>5. NTypeOK'
  BY <1>2, <1>3, <1>4 DEF NTypeOK, EnvRec
<1>6. Mono
  BY <1>2, <1>4 DEF Mono, Over
<1>7. FInv'
  BY <1>2, <1>4, <1>6, FStep
<1>8. CInv'
  BY <1>2, <1>3, CStep
<1> QED
  BY <1>5, <1>7, <1>8

\* a step that changes no listener object and no xaction
LEMMA MoveStep ==
    ASSUME IInv, NTypeOK', xst' = xst, obj'["own"] = obj["own"], env'.calls = env.calls, msgs' \subseteq msgs,
           \A x \in G : g'[x] = g[x] \/ (Local(x)' /\ ~OwnStore(x)')
    PROVE  IInv'
<1> USE DEF IInv
<1>1. Mono
  BY DEF Mono, Over
<1>2. FInv'
  BY <1>1, FStep
<1>3. CInv'
  BY CStep
<1> QED
  BY <1>2, <1>3

\* registration
LEMMA AddStep ==
    ASSUME IInv, Add
    PROVE  IInv'
<1>1. env' \in EnvRec /\ env'.calls = env.calls
  BY Types DEF Add, EnvRec, IInv
<1>2. NTypeOK'
  BY <1>1 DEF NTypeOK, EnvRec, Add, IInv, Objs
<1> QED
  BY <1>1, <1>2, MoveStep DEF Add

\* `finished` arrives
LEMMA RecvStep ==
    ASSUME IInv, NEW t \in Targets, Recv(t)
    PROVE  IInv'
<1>0. t \in G /\ xst[t] # "running" /\ g \in [G -> GoRec]
  BY Types DEF G, IInv, FInv, Recv
<1>1. CASE g' = g
  BY <1>1, MoveStep DEF Recv, IInv, NTypeOK
<1>2. CASE Entry # "none" /\ g' = [g EXCEPT ![t] = [Idle EXCEPT !.pc = "check", !.o = Entry]]
  <2>1. Entry \in Objs /\ "check" \in PCs
    BY <1>2, Types, ZenonT(30) DEF Entry, IInv, PCs
  <2>2. /\ g' \in [G -> GoRec]
        /\ g'[t].pc = "check" /\ g'[t].o = Entry /\ g'[t].todo = {} /\ g'[t].dn = FALSE
        /\ \A y \in G : y # t => g'[y] = g[y]
    BY <1>0, <1>2, <2>1, BeginOK, ZenonT(30)
  <2>3. Local(t)' /\ ~OwnStore(t)'
    BY <1>0, <2>2 DEF Local, OwnStore, At, EndPCs, Recv
  <2>4. NTypeOK'
    BY <2>2 DEF NTypeOK, GoRec, Recv, IInv
  <2> QED
    BY <2>2, <2>3, <2>4, MoveStep DEF Recv
<1> QED
  BY <1>1, <1>2 DEF Recv

\* steps that only move goroutine x and change the tables
LEMMA GotoStep ==
    ASSUME IInv, NEW x \in G, NEW at \in PCs, Goto(x, at), at # "store",
           UNCHANGED <<xst, msgs, smap, seen, obj, env>>,
           nls' \in Objs \cup {"none"}, fin' \in Objs \cup {"none"},
           at \in {"check", "finished"} /\ x \in Targets => xst[x] # "running",
           at \in {"mnls", "mfin"} => g[x].o = "copy",
           at \in EndPCs /\ g[x].o = "own" => Over
    PROVE  IInv'
<1>1. g \in [G -> GoRec] /\ Local(x)
  BY Types DEF IInv, FInv
<1>2. /\ g' \in [G -> GoRec]
      /\ g'[x].pc = at /\ g'[x].o = g[x].o /\ g'[x].todo = g[x].todo /\ g'[x].dn = g[x].dn
      /\ \A y \in G : y # x => g'[y] = g[y]
  BY <1>1, GotoOK
<1>3. NTypeOK'
  BY <1>2 DEF NTypeOK, GoRec, IInv
<1>4. ~OwnStore(x)'
  BY <1>2 DEF OwnStore, At
<1>5. Over => Over'
  BY DEF Over
<1>6. Local(x)'
  BY <1>1, <1>2, <1>5 DEF Local
<1> QED
  BY <1>2, <1>3, <1>4, <1>6, MoveStep

\* ... or end it
LEMMA StopStep ==
    ASSUME IInv, NEW x \in G, Stop(x),
           UNCHANGED <<xst, msgs, smap, seen, obj, env>>,
           nls' \in Objs \cup {"none"}, fin' \in Objs \cup {"none"}
    PROVE  IInv'
<1>1. g \in [G -> GoRec]
  BY Types DEF IInv
<1>2. g' \in [G -> GoRec] /\ g'[x] = Idle /\ \A y \in G : y # x => g'[y] = g[y]
  BY <1>1, StopOK
<1>3. NTypeOK'
  BY <1>2 DEF NTypeOK, GoRec, IInv
<1>4. Local(x)' /\ ~OwnStore(x)'
  BY <1>2, SMTT(30) DEF Local, OwnStore, At, Idle, EndPCs
<1> QED
  BY <1>2, <1>3, <1>4, MoveStep

\* the handler of `finished` looks at the listener
LEMMA CheckStep ==
    ASSUME IInv, NEW t \in Targets, Check(t)
    PROVE  IInv'
<1>1. t \in G /\ xst[t] # "running" /\ "finished" \in PCs
  BY DEF G, PCs, IInv, FInv, Local, Check, At
<1>2. UNCHANGED <<xst, msgs, smap, seen, obj, env>> /\ nls' \in Objs \cup {"none"} /\ fin' \in Objs \cup {"none"}
  BY Types DEF Check, IInv
<1>3. CASE Stop(t)
  BY <1>1, <1>2, <1>3, StopStep
<1>4. CASE Goto(t, "finished")
  BY <1>1, <1>2, <1>4, GotoStep DEF EndPCs
<1> QED
  BY <1>3, <1>4 DEF Check

\* notifs.done, its two tables and the abort of the others
LEMMA DoneTablesStep ==
    ASSUME IInv, NEW x \in G, DoneDel(x) \/ DoneFin(x)
    PROVE  IInv'
<1>1. /\ "finadd" \in PCs /\ "bcast" \in PCs /\ "callback" \in PCs
      /\ g[x].o \in Objs
      /\ g[x].pc \in EndPCs /\ g[x].o = "own" => Over
  BY Types DEF PCs, IInv, FInv, Local, GoRec
<1>2. /\ UNCHANGED <<xst, msgs, smap, seen, obj, env>>
      /\ nls' \in Objs \cup {"none"} /\ fin' \in Objs \cup {"none"}
  BY <1>1, Types DEF DoneDel, DoneFin, FinAdd, IInv
<1>3. g[x].pc \in EndPCs
  BY DEF DoneDel, DoneFin, At, EndPCs
<1>4. CASE Stop(x)
  BY <1>2, <1>4, StopStep
<1>5. CASE Goto(x, "finadd")
  BY <1>1, <1>2, <1>3, <1>5, GotoStep
<1>6. CASE Goto(x, "bcast")
  BY <1>1, <1>2, <1>3, <1>6, GotoStep
<1>7. CASE Goto(x, "callback")
  BY <1>1, <1>2, <1>3, <1>7, GotoStep
<1> QED
  BY <1>4, <1>5, <1>6, <1>7 DEF DoneDel, DoneFin

\* the abort of the others, of which any number arrive
LEMMA DoneBcastStep ==
    ASSUME IInv, NEW x \in G, DoneBcast(x)
    PROVE  IInv'
<1>1. /\ "callback" \in PCs /\ g \in [G -> GoRec] /\ Local(x) /\ NTypeOK
      /\ g[x].o = "own" => Over
  BY Types DEF PCs, IInv, FInv, Local, DoneBcast, At, EndPCs
<1>2. PICK S \in SUBSET {t \in smap : xst[t] = "running"} :
          /\ xst' = [t \in Targets |-> IF t \in S THEN "aborted" ELSE xst[t]]
          /\ msgs' = msgs \cup S
  BY DEF DoneBcast
<1>3. /\ xst' \in [Targets -> XStates] /\ msgs' \subseteq Targets
      /\ \A t \in Targets : xst[t] # "running" => xst'[t] = xst[t]
      /\ \A t \in msgs' : t \in msgs \/ xst'[t] # "running"
  BY <1>1, <1>2, Types DEF XStates, Ended
<1>4. /\ g' \in [G -> GoRec]
      /\ g'[x].pc = "callback" /\ g'[x].o = g[x].o /\ g'[x].todo = g[x].todo /\ g'[x].dn = g[x].dn
      /\ \A y \in G : y # x => g'[y] = g[y]
  BY <1>1, GotoOK DEF DoneBcast
<1>5. NTypeOK'
  BY <1>1, <1>3, <1>4 DEF NTypeOK, GoRec, DoneBcast
<1>6. Mono
  BY <1>3 DEF Mono, Over, DoneBcast
<1>7. Local(x)'
  <2>1. \A t \in g[x].todo : xst'[t] # "running"
    BY <1>1, <1>3, Types DEF Local, GoRec
  <2> QED
    BY <1>1, <1>4, <1>6, <2>1 DEF Local, Mono
<1>8. FInv'
  BY <1>1, <1>3, <1>4, <1>6, <1>7, FStep, SMTT(30) DEF IInv, DoneBcast
<1>9. CInv'
  BY <1>4, CStep DEF IInv, DoneBcast, OwnStore, At
<1> QED
  BY <1>5, <1>8, <1>9 DEF IInv

\* a notifier that has ended is marked in the listener of goroutine x: with its error
LEMMA MarkStep ==
    ASSUME IInv, NEW x \in G, NEW t \in Targets, xst[t] # "running", xst' = xst,
           obj' = [obj EXCEPT ![g[x].o] = markFinished(O(x), t, SrcErr(t), SrcAborted(t))]
    PROVE  /\ obj' \in [Objs -> ObjRec]
           /\ Mono
           /\ \A u \in Targets : u \notin obj'["own"].active => u \notin obj["own"].active \/ Reported(u)'
           /\ obj'["own"].end = obj["own"].end
           /\ g[x].o = "own" /\ NowDone(obj'["own"], SrcAborted(t)) => Over'
<1> DEFINE o == g[x].o
           ob == markFinished(O(x), t, SrcErr(t), SrcAborted(t))
<1>1. o \in Objs /\ obj \in [Objs -> ObjRec] /\ O(x) = obj[o] /\ obj[o] \in ObjRec
  BY Types DEF IInv, GoRec, O
<1>2. SrcErr(t) \in BOOLEAN /\ SrcAborted(t) \in BOOLEAN
  BY SMTT(30) DEF SrcErr, SrcAborted
<1>3. /\ ob \in ObjRec /\ ob.active = obj[o].active \ {t} /\ ob.end = obj[o].end
      /\ ob.aborted = (obj[o].aborted \/ SrcAborted(t))
      /\ ob.errs = (obj[o].errs \/ SrcErr(t) \/ SrcAborted(t))
  <2> DEFINE a == obj[o].active \ {t}
             b == obj[o].aborted \/ SrcAborted(t)
             e == obj[o].errs \/ SrcErr(t) \/ SrcAborted(t)
             r == [obj[o] EXCEPT !.active = a, !.aborted = b, !.errs = e]
  <2>1. a \in SUBSET Targets /\ b \in BOOLEAN /\ e \in BOOLEAN
    BY <1>1, <1>2 DEF ObjRec
  <2>2. ob = r
    BY <1>1 DEF markFinished
  <2> HIDE DEF a, b, e, o, ob
  <2>3. r \in ObjRec /\ r.active = a /\ r.aborted = b /\ r.errs = e /\ r.end = obj[o].end
    BY <1>1, <2>1 DEF ObjRec
  <2> QED
    BY <2>2, <2>3 DEF a, b, e
<1>4. obj' = [obj EXCEPT ![o] = ob]
  OBVIOUS
<1>5. xst[t] # "ok" => SrcErr(t)
  BY Types DEF IInv, SrcErr, XStates, Ended
<1> HIDE DEF ob, o
<1>6. obj' \in [Objs -> ObjRec]
  BY <1>1, <1>3, <1>4, ZenonT(30)
<1>7. CASE o = "own"
  <2>1. obj'["own"] = ob
    BY <1>1, <1>4, <1>7
  <2>2. Mono
    BY <1>3, <1>7, <2>1 DEF Mono, Over
  <2>3. \A u \in Targets : u \notin ob.active => u \notin obj["own"].active \/ Reported(u)'
    BY <1>3, <1>5, <1>7, <2>1 DEF Reported
  <2>4. NowDone(ob, SrcAborted(t)) => Over'
    BY <1>3, <2>1 DEF NowDone, Over
  <2> QED
    BY <1>3, <1>6, <1>7, <2>1, <2>2, <2>3, <2>4
<1>8. CASE o # "own"
  <2>1. obj'["own"] = obj["own"]
    BY <1>1, <1>4, <1>8 DEF Objs
  <2>2. Mono
    BY <2>1 DEF Mono, Over
  <2> QED
    BY <1>6, <1>8, <2>1, <2>2 DEF o
<1> QED
  BY <1>7, <1>8

\* a step of goroutine x that marks a notifier
LEMMA MarkedStep ==
    ASSUME IInv, NEW x \in G, NEW t \in Targets, xst[t] # "running", xst' = xst, NTypeOK',
           obj' = [obj EXCEPT ![g[x].o] = markFinished(O(x), t, SrcErr(t), SrcAborted(t))],
           msgs' = msgs, env' = env, \A y \in G : y # x => g'[y] = g[y],
           Local(x)', g'[x].pc # "store"
    PROVE  IInv'
<1>1. /\ Mono /\ obj'["own"].end = obj["own"].end
      /\ \A u \in Targets : u \notin obj'["own"].active => u \notin obj["own"].active \/ Reported(u)'
  BY MarkStep
<1>2. FInv'
  BY <1>1, FStep DEF IInv
<1>3. CInv'
  BY <1>1, CStep DEF IInv, OwnStore, At
<1> QED
  BY <1>2, <1>3 DEF IInv

\* the handler of `finished` marks its target
LEMMA FinishedStep ==
    ASSUME IInv, NEW t \in Targets, Finished(t)
    PROVE  IInv'
<1> DEFINE ob == markFinished(O(t), t, SrcErr(t), SrcAborted(t))
<1>1. t \in G /\ xst[t] # "running" /\ xst' = xst /\ g \in [G -> GoRec] /\ "done" \in PCs /\ Local(t)
  BY Types DEF IInv, FInv, Local, Finished, At, G, PCs
<1>2. /\ obj' \in [Objs -> ObjRec] /\ Mono
      /\ g[t].o = "own" /\ NowDone(obj'["own"], SrcAborted(t)) => Over'
  BY <1>1, MarkStep DEF Finished
<1>3. NowDone(ob, SrcAborted(t)) /\ g[t].o = "own" => Over'
  BY <1>2, Types DEF Finished, IInv, Objs
<1>4. CASE NowDone(ob, SrcAborted(t)) /\ Goto(t, "done")
  <2>1. /\ g' \in [G -> GoRec]
        /\ g'[t].pc = "done" /\ g'[t].o = g[t].o /\ g'[t].todo = g[t].todo /\ g'[t].dn = g[t].dn
        /\ \A y \in G : y # t => g'[y] = g[y]
    BY <1>1, <1>4, GotoOK
  <2>2. Local(t)'
    BY <1>1, <1>3, <1>4, <2>1 DEF Local
  <2>3. NTypeOK'
    BY <1>2, <2>1 DEF NTypeOK, ObjRec, GoRec, Finished, IInv
  <2> QED
    BY <1>1, <2>1, <2>2, <2>3, MarkedStep DEF Finished
<1>5. CASE Stop(t)
  <2>1. g' \in [G -> GoRec] /\ g'[t] = Idle /\ \A y \in G : y # t => g'[y] = g[y]
    BY <1>1, <1>5, StopOK
  <2>2. Local(t)' /\ g'[t].pc # "store"
    BY <2>1, SMTT(30) DEF Local, Idle, EndPCs
  <2>3. NTypeOK'
    BY <1>2, <2>1 DEF NTypeOK, ObjRec, GoRec, Finished, IInv
  <2> QED
    BY <1>1, <2>1, <2>2, <2>3, MarkedStep DEF Finished
<1> QED
  BY <1>4, <1>5 DEF Finished

\* setting the end time of an object changes nothing else of it
LEMMA EndOK ==
    ASSUME obj \in [Objs -> ObjRec], NEW o \in Objs, NEW v \in 0..2, obj' = [obj EXCEPT ![o].end = v]
    PROVE  /\ obj' \in [Objs -> ObjRec] /\ obj'[o].end = v
           /\ obj'["own"].active = obj["own"].active /\ obj'["own"].aborted = obj["own"].aborted
           /\ obj'["own"].errs = obj["own"].errs
           /\ o # "own" => obj'["own"] = obj["own"]
<1> DEFINE r == [obj[o] EXCEPT !.end = v]
<1>1. r \in ObjRec /\ r.end = v /\ r.active = obj[o].active /\ r.aborted = obj[o].aborted /\ r.errs = obj[o].errs
  BY DEF ObjRec
<1>2. obj' = [obj EXCEPT ![o] = r]
  OBVIOUS
<1> HIDE DEF r
<1> QED
  BY <1>1, <1>2, SMTT(30) DEF Objs

\* Callback: who wins the CAS goes to the store, which nobody else is at
LEMMA CallbackStep ==
    ASSUME IInv, NEW x \in G, Callback(x)
    PROVE  IInv'
<1>1. /\ "store" \in PCs /\ g \in [G -> GoRec] /\ obj \in [Objs -> ObjRec] /\ g[x].o \in Objs
      /\ Local(x) /\ (g[x].o = "own" => Over) /\ O(x) = obj[g[x].o]
  BY Types DEF PCs, IInv, FInv, Local, Callback, At, EndPCs, GoRec, O
<1>2. CASE O(x).end = 0
  <2>1. Goto(x, "store") /\ obj' = [obj EXCEPT ![g[x].o].end = 1] /\ UNCHANGED <<xst, msgs, smap, seen, nls, fin, env>>
    BY <1>2 DEF Callback
  <2>2. /\ g' \in [G -> GoRec]
        /\ g'[x].pc = "store" /\ g'[x].o = g[x].o /\ g'[x].todo = g[x].todo /\ g'[x].dn = g[x].dn
        /\ \A y \in G : y # x => g'[y] = g[y]
    BY <1>1, <2>1, GotoOK
  <2>3. /\ obj' \in [Objs -> ObjRec] /\ obj'[g[x].o].end = 1
        /\ obj'["own"].active = obj["own"].active /\ obj'["own"].aborted = obj["own"].aborted
        /\ obj'["own"].errs = obj["own"].errs
        /\ g[x].o # "own" => obj'["own"] = obj["own"]
    <3>1. 1 \in 0..2
      BY SMTT(30)
    <3> QED
      BY <1>1, <2>1, <3>1, EndOK, Zenon
  <2>4. NTypeOK'
    BY <2>1, <2>2, <2>3 DEF NTypeOK, ObjRec, GoRec, IInv
  <2>5. Mono /\ (Over <=> Over')
    BY <2>1, <2>3 DEF Mono, Over
  <2>6. Local(x)'
    BY <1>1, <2>1, <2>2, <2>5 DEF Local
  <2>7. FInv'
    BY <1>1, <2>1, <2>2, <2>3, <2>5, <2>6, FStep DEF IInv
  <2>8. CInv'
    <3>1. CASE g[x].o = "own"
      <4>1. \A y \in G : ~OwnStore(y)
        BY <1>1, <1>2, <3>1, SMTT(30) DEF IInv, CInv
      <4>2. \A y \in G : OwnStore(y)' => y = x
        BY <2>2, <4>1 DEF OwnStore, At
      <4>3. env'.calls = env.calls /\ obj'["own"].end = 1 /\ env.calls # 1
        BY <1>1, <1>2, <2>1, <2>3, <3>1, SMTT(30) DEF IInv, CInv
      <4> QED
        BY <4>2, <4>3 DEF IInv, CInv
    <3>2. CASE g[x].o # "own"
      BY <2>1, <2>2, <2>3, <3>2, CStep DEF IInv, OwnStore
    <3> QED
      BY <3>1, <3>2
  <2> QED
    BY <2>4, <2>7, <2>8 DEF IInv
<1>3. CASE O(x).end # 0
  <2>1. Stop(x) /\ UNCHANGED <<xst, msgs, smap, seen, obj, nls, fin, env>>
    BY <1>3 DEF Callback
  <2> QED
    BY <2>1, StopStep, Types DEF IInv
<1> QED
  BY <1>2, <1>3

\* ... and calls F: once
LEMMA CallbackStoreStep ==
    ASSUME IInv, NEW x \in G, CallbackStore(x)
    PROVE  IInv'
<1>1. /\ g \in [G -> GoRec] /\ obj \in [Objs -> ObjRec] /\ g[x].o \in Objs /\ env \in EnvRec
      /\ g[x].o = "own" => Over
  BY Types DEF IInv, FInv, Local, CallbackStore, At, EndPCs, GoRec
<1>2. g' \in [G -> GoRec] /\ g'[x] = Idle /\ \A y \in G : y # x => g'[y] = g[y]
  BY <1>1, StopOK DEF CallbackStore
<1>3. /\ obj' \in [Objs -> ObjRec] /\ obj'[g[x].o].end = 2
      /\ obj'["own"].active = obj["own"].active /\ obj'["own"].aborted = obj["own"].aborted
      /\ obj'["own"].errs = obj["own"].errs
      /\ g[x].o # "own" => obj'["own"] = obj["own"]
  <2>1. 2 \in 0..2 /\ obj' = [obj EXCEPT ![g[x].o].end = 2]
    BY SMTT(30) DEF CallbackStore
  <2> QED
    BY <1>1, <2>1, EndOK, Zenon
<1>4. env' \in EnvRec /\ env'.calls = IF g[x].o = "own" THEN env.calls + 1 ELSE env.calls
  <2> DEFINE c == IF g[x].o = "own" THEN env.calls + 1 ELSE env.calls
  <2>1. c \in Nat /\ env' = [env EXCEPT !.calls = c]
    BY <1>1, SMTT(30) DEF EnvRec, CallbackStore
  <2> HIDE DEF c
  <2>2. env' \in EnvRec /\ env'.calls = c
    BY <1>1, <2>1 DEF EnvRec
  <2> QED
    BY <2>2 DEF c
<1>5. NTypeOK'
  BY <1>2, <1>3, <1>4 DEF NTypeOK, ObjRec, GoRec, EnvRec, IInv, CallbackStore
<1>6. Mono /\ (Over <=> Over')
  BY <1>3 DEF Mono, Over, CallbackStore
<1>7. Local(x)' /\ ~OwnStore(x)'
  BY <1>2, SMTT(30) DEF Local, OwnStore, At, Idle, EndPCs
<1>8. FInv'
  BY <1>1, <1>2, <1>3, <1>6, <1>7, FStep DEF IInv, CallbackStore
<1>9. CInv'
  <2>1. CASE g[x].o = "own"
    <3>1. OwnStore(x) /\ obj["own"].end = 1
      BY <2>1 DEF OwnStore, CallbackStore, IInv, CInv
    <3>2. env.calls = 0
      BY <1>1, <3>1, SMTT(30) DEF IInv, CInv, EnvRec
    <3>3. \A y \in G : ~OwnStore(y)'
      BY <1>2, <1>7, <3>1, SMTT(30) DEF OwnStore, At, IInv, CInv
    <3> QED
      BY <1>3, <1>4, <2>1, <3>2, <3>3, SMTT(30) DEF CInv
  <2>2. CASE g[x].o # "own"
    BY <1>2, <1>3, <1>4, <1>7, <2>2, CStep DEF IInv
  <2> QED
    BY <2>1, <2>2
<1> QED
  BY <1>5, <1>8, <1>9 DEF IInv

\* a goroutine begins, or a listener of another member replaces the copy
LEMMA BeginStep ==
    ASSUME IInv, NEW x \in G, NEW at \in PCs, NEW o \in Objs,
           g' = [g EXCEPT ![x] = [Idle EXCEPT !.pc = at, !.o = o]],
           at \notin EndPCs \cup {"check", "finished"}, at \in {"mnls", "mfin"} => o = "copy",
           UNCHANGED <<xst, msgs, smap, nls, fin>>, seen' \subseteq Targets,
           obj' \in [Objs -> ObjRec], obj'["own"] = obj["own"], env' \in EnvRec, env'.calls = env.calls
    PROVE  IInv'
<1>1. g \in [G -> GoRec]
  BY Types DEF IInv
<1>2. /\ g' \in [G -> GoRec]
      /\ g'[x].pc = at /\ g'[x].o = o /\ g'[x].todo = {} /\ g'[x].dn = FALSE
      /\ \A y \in G : y # x => g'[y] = g[y]
  BY <1>1, BeginOK
<1>3. NTypeOK'
  BY <1>2 DEF NTypeOK, ObjRec, GoRec, EnvRec, IInv
<1>4. Local(x)' /\ ~OwnStore(x)'
  BY <1>2 DEF Local, OwnStore, At, EndPCs
<1> QED
  BY <1>2, <1>3, <1>4, MoveStep

\* a goroutine that changes two of its fields
LEMMA FieldsOK ==
    ASSUME g \in [G -> GoRec], NEW x \in G, NEW at \in PCs, NEW S \in SUBSET Targets, NEW d \in BOOLEAN
    PROVE  /\ g' = [g EXCEPT ![x].pc = at, ![x].todo = S] =>
                 /\ g' \in [G -> GoRec] /\ \A y \in G : y # x => g'[y] = g[y]
                 /\ g'[x].pc = at /\ g'[x].o = g[x].o /\ g'[x].todo = S /\ g'[x].dn = g[x].dn
           /\ g' = [g EXCEPT ![x].todo = S, ![x].dn = d] =>
                 /\ g' \in [G -> GoRec] /\ \A y \in G : y # x => g'[y] = g[y]
                 /\ g'[x].pc = g[x].pc /\ g'[x].o = g[x].o /\ g'[x].todo = S /\ g'[x].dn = d
<1>1. ASSUME g' = [g EXCEPT ![x].pc = at, ![x].todo = S]
      PROVE  /\ g' \in [G -> GoRec] /\ \A y \in G : y # x => g'[y] = g[y]
             /\ g'[x].pc = at /\ g'[x].o = g[x].o /\ g'[x].todo = S /\ g'[x].dn = g[x].dn
  <2> DEFINE r == [[g[x] EXCEPT !.pc = at] EXCEPT !.todo = S]
  <2>1. r \in GoRec /\ r.pc = at /\ r.o = g[x].o /\ r.todo = S /\ r.dn = g[x].dn
    BY DEF GoRec
  <2>2. g' = [g EXCEPT ![x] = r]
    BY <1>1
  <2> HIDE DEF r
  <2> QED
    BY <2>1, <2>2
<1>2. ASSUME g' = [g EXCEPT ![x].todo = S, ![x].dn = d]
      PROVE  /\ g' \in [G -> GoRec] /\ \A y \in G : y # x => g'[y] = g[y]
             /\ g'[x].pc = g[x].pc /\ g'[x].o = g[x].o /\ g'[x].todo = S /\ g'[x].dn = d
  <2> DEFINE r == [[g[x] EXCEPT !.todo = S] EXCEPT !.dn = d]
  <2>1. r \in GoRec /\ r.pc = g[x].pc /\ r.o = g[x].o /\ r.todo = S /\ r.dn = d
    BY DEF GoRec
  <2>2. g' = [g EXCEPT ![x] = r]
    BY <1>2
  <2> HIDE DEF r
  <2> QED
    BY <2>1, <2>2
<1> QED
  BY <1>1, <1>2

\* the housekeeper's callback: sweep and collect
LEMMA HousekeepStep ==
    ASSUME IInv, HkSweep \/ HkCollect
    PROVE  IInv'
<1>1. "hk" \in G /\ "collect" \in PCs /\ "pull" \in PCs
  BY DEF G, PCs
<1>2. CASE HkSweep
  <2>1. /\ Goto("hk", "collect") /\ UNCHANGED <<xst, msgs, smap, seen, obj, env>>
        /\ nls' \in Objs \cup {"none"} /\ fin' \in Objs \cup {"none"}
    BY <1>2, Types DEF HkSweep, IInv
  <2> QED
    BY <1>1, <2>1, GotoStep DEF EndPCs
<1>3. CASE HkCollect /\ nls = "none"
  <2>1. /\ Stop("hk") /\ UNCHANGED <<xst, msgs, smap, seen, obj, env>>
        /\ nls' \in Objs \cup {"none"} /\ fin' \in Objs \cup {"none"}
    BY <1>3, Types DEF HkCollect, IInv, Stop
  <2> QED
    BY <1>1, <2>1, StopStep
<1>4. CASE HkCollect /\ nls # "none"
  <2>1. /\ g' = [g EXCEPT !["hk"] = [Idle EXCEPT !.pc = "pull", !.o = nls]] /\ nls \in Objs
        /\ UNCHANGED <<xst, msgs, smap, seen, obj, nls, fin, env>>
    BY <1>4, Types DEF HkCollect, IInv
  <2>2. seen' \subseteq Targets /\ obj' \in [Objs -> ObjRec] /\ env' \in EnvRec
    BY <2>1, Types DEF IInv
  <2> QED
    BY <1>1, <2>1, <2>2, BeginStep DEF EndPCs
<1> QED
  BY <1>2, <1>3, <1>4

\* bcastGetStats: the answers it holds are those of xactions that have ended
LEMMA PullStep ==
    ASSUME IInv, NEW x \in G, Pull(x)
    PROVE  IInv'
<1>1. PICK lost \in SUBSET (O(x).active \cap smap) :
          /\ IF lost = {} THEN UNCHANGED env ELSE Fault
          /\ g' = [g EXCEPT ![x].pc = "apply",
                            ![x].todo = {t \in (O(x).active \cap smap) \ lost : xst[t] # "running"}]
  BY DEF Pull
<1> DEFINE S == {t \in (O(x).active \cap smap) \ lost : xst[t] # "running"}
<1>2. env' \in EnvRec /\ env'.calls = env.calls
  BY <1>1, FaultOK, Types DEF IInv
<1>3. /\ S \in SUBSET Targets /\ "apply" \in PCs /\ g \in [G -> GoRec] /\ Local(x)
      /\ \A t \in S : xst[t] # "running"
  BY Types DEF PCs, IInv, FInv
<1>4. g' = [g EXCEPT ![x].pc = "apply", ![x].todo = S]
  BY <1>1
<1> HIDE DEF S
<1>5. /\ g' \in [G -> GoRec] /\ \A y \in G : y # x => g'[y] = g[y]
      /\ g'[x].pc = "apply" /\ g'[x].o = g[x].o /\ g'[x].todo = S /\ g'[x].dn = g[x].dn
  BY <1>3, <1>4, FieldsOK
<1>6. UNCHANGED <<xst, msgs, smap, seen, obj, nls, fin>>
  BY DEF Pull
<1>7. NTypeOK'
  BY <1>2, <1>5, <1>6 DEF NTypeOK, GoRec, EnvRec, IInv
<1>8. Local(x)' /\ ~OwnStore(x)'
  BY <1>3, <1>5, <1>6 DEF Local, OwnStore, At, EndPCs, Over
<1> QED
  BY <1>2, <1>5, <1>6, <1>7, <1>8, MoveStep

\* ... and one of them is applied
LEMMA ApplyStep ==
    ASSUME IInv, NEW x \in G, NEW t \in Targets, Apply(x, t)
    PROVE  IInv'
<1> DEFINE skip == xst[t] = "gone" /\ g[x].dn
           ob == markFinished(O(x), t, SrcErr(t), SrcAborted(t))
           S == g[x].todo \ {t}
<1>1. /\ g \in [G -> GoRec] /\ obj \in [Objs -> ObjRec] /\ g[x].o \in Objs /\ Local(x) /\ S \in SUBSET Targets
      /\ g[x].pc = "apply" /\ xst[t] # "running" /\ "apply" \in PCs /\ g[x].dn \in BOOLEAN /\ O(x) = obj[g[x].o]
  BY Types DEF PCs, IInv, FInv, Local, Apply, At, GoRec, O
<1>2. UNCHANGED <<xst, msgs, smap, seen, nls, fin, env>>
  BY DEF Apply
<1>3. CASE skip
  <2>1. obj' = obj /\ g' = [g EXCEPT ![x].todo = S, ![x].dn = TRUE]
    BY <1>1, <1>3 DEF Apply
  <2> HIDE DEF S
  <2>2. /\ g' \in [G -> GoRec] /\ \A y \in G : y # x => g'[y] = g[y]
        /\ g'[x].pc = g[x].pc /\ g'[x].o = g[x].o /\ g'[x].todo = S /\ g'[x].dn = TRUE
    BY <1>1, <2>1, FieldsOK
  <2>3. NTypeOK'
    BY <1>2, <2>1, <2>2 DEF NTypeOK, GoRec, IInv
  <2>4. Local(x)' /\ ~OwnStore(x)'
    BY <1>1, <1>2, <1>3, <2>1, <2>2 DEF Local, OwnStore, At, EndPCs, Over, S
  <2> QED
    BY <1>2, <2>1, <2>2, <2>3, <2>4, MoveStep
<1>4. CASE ~skip
  <2> DEFINE d == g[x].dn \/ NowDone(ob, SrcAborted(t))
  <2>1. obj' = [obj EXCEPT ![g[x].o] = ob] /\ g' = [g EXCEPT ![x].todo = S, ![x].dn = d]
    BY <1>4 DEF Apply
  <2>2. /\ obj' \in [Objs -> ObjRec] /\ Mono
        /\ g[x].o = "own" /\ NowDone(obj'["own"], SrcAborted(t)) => Over'
    BY <1>1, <1>2, <2>1, MarkStep
  <2>3. d \in BOOLEAN /\ (d /\ g[x].o = "own" => Over')
    <3>1. g[x].o = "own" => obj'["own"] = ob
      BY <1>1, <2>1
    <3>2. g[x].dn /\ g[x].o = "own" => Over'
      BY <1>1, <2>2 DEF Local, Mono
    <3> HIDE DEF ob
    <3> QED
      BY <1>1, <2>2, <3>1, <3>2 DEF NowDone
  <2> HIDE DEF S, d
  <2>4. /\ g' \in [G -> GoRec] /\ \A y \in G : y # x => g'[y] = g[y]
        /\ g'[x].pc = g[x].pc /\ g'[x].o = g[x].o /\ g'[x].todo = S /\ g'[x].dn = d
    <3>1. g' = [g EXCEPT ![x].todo = S, ![x].dn = d]
      BY <2>1
    <3>2. CASE d = TRUE
      <4>1. g' = [g EXCEPT ![x].todo = S, ![x].dn = TRUE]
        BY <3>1, <3>2
      <4> QED
        BY <1>1, <3>2, <4>1, FieldsOK
    <3>3. CASE d = FALSE
      <4>1. g' = [g EXCEPT ![x].todo = S, ![x].dn = FALSE]
        BY <3>1, <3>3
      <4>2. /\ g' \in [G -> GoRec] /\ \A y \in G : y # x => g'[y] = g[y]
            /\ g'[x].pc = g[x].pc /\ g'[x].o = g[x].o /\ g'[x].todo = S /\ g'[x].dn = FALSE
        BY <1>1, <4>1, FieldsOK
      <4> QED
        BY <3>3, <4>2
    <3> QED
      BY <2>3, <3>2, <3>3
  <2>5. NTypeOK'
    BY <1>2, <2>2, <2>4 DEF NTypeOK, ObjRec, GoRec, IInv
  <2>6. Local(x)'
    BY <1>1, <1>2, <2>3, <2>4 DEF Local, EndPCs, S
  <2> QED
    BY <1>1, <1>2, <2>1, <2>4, <2>5, <2>6, MarkedStep
<1> QED
  BY <1>3, <1>4

\* all the answers are applied
LEMMA AppliedStep ==
    ASSUME IInv, NEW x \in G, Applied(x)
    PROVE  IInv'
<1>1. UNCHANGED <<xst, msgs, smap, seen, obj, env>> /\ nls' \in Objs \cup {"none"} /\ fin' \in Objs \cup {"none"}
  BY Types DEF Applied, IInv
<1>2. CASE g[x].dn /\ Goto(x, "done")
  <2>1. "done" \in PCs /\ (g[x].o = "own" => Over)
    BY <1>2 DEF PCs, IInv, FInv, Local
  <2> QED
    BY <1>1, <1>2, <2>1, GotoStep
<1>3. CASE Stop(x)
  BY <1>1, <1>3, StopStep
<1> QED
  BY <1>2, <1>3 DEF Applied

\* ListenSmapChanged: a notifier has left, the listener is aborted
LEMMA SmapAbortStep ==
    ASSUME IInv, SmapAbort
    PROVE  IInv'
<1> DEFINE o == g["smap"].o
           r == [[obj[o] EXCEPT !.errs = TRUE] EXCEPT !.aborted = TRUE]
<1>1. /\ "smap" \in G /\ "sfin" \in PCs /\ g \in [G -> GoRec] /\ obj \in [Objs -> ObjRec]
      /\ o \in Objs /\ Local("smap") /\ obj[o] \in ObjRec
  BY Types DEF G, PCs, IInv, FInv, GoRec
<1>2. r \in ObjRec /\ r.active = obj[o].active /\ r.end = obj[o].end /\ r.errs = TRUE /\ r.aborted = TRUE
  BY <1>1 DEF ObjRec
<1>3. obj' = [obj EXCEPT ![o] = r]
  BY <1>1 DEF SmapAbort
<1>4. /\ g' \in [G -> GoRec]
      /\ g'["smap"].pc = "sfin" /\ g'["smap"].o = o /\ g'["smap"].todo = g["smap"].todo
      /\ g'["smap"].dn = g["smap"].dn
      /\ \A y \in G : y # "smap" => g'[y] = g[y]
  BY <1>1, GotoOK DEF SmapAbort
<1>5. UNCHANGED <<xst, msgs, smap, seen, nls, fin, env>>
  BY DEF SmapAbort
<1> HIDE DEF r, o
<1>6. obj' \in [Objs -> ObjRec] /\ (obj'["own"] = obj["own"] \/ (o = "own" /\ obj'["own"] = r))
  BY <1>1, <1>2, <1>3 DEF Objs
<1>7. Mono /\ (o = "own" => Over')
  <2>1. o = "own" => obj'["own"] = r
    BY <1>1, <1>3
  <2>2. o = "own" => Over'
    BY <1>2, <2>1 DEF Over
  <2> QED
    BY <1>2, <1>5, <1>6, <2>2 DEF Mono, Over
<1>8. obj'["own"].active = obj["own"].active /\ obj'["own"].end = obj["own"].end
  BY <1>2, <1>6
<1>9. NTypeOK'
  BY <1>4, <1>5, <1>6 DEF NTypeOK, ObjRec, GoRec, IInv
<1>10. Local("smap")' /\ ~OwnStore("smap")'
  BY <1>1, <1>4, <1>5, <1>7 DEF Local, OwnStore, At
<1>11. FInv'
  BY <1>4, <1>5, <1>7, <1>8, <1>10, FStep DEF IInv
<1>12. CInv'
  BY <1>4, <1>5, <1>8, <1>10, CStep DEF IInv
<1> QED
  BY <1>9, <1>11, <1>12 DEF IInv

\* ... and moves from one table to the other
LEMMA ListenSmapStep ==
    ASSUME IInv, SmapChanged \/ SmapFin \/ SmapDel
    PROVE  IInv'
<1>1. /\ "smap" \in G /\ "abort" \in PCs /\ "sdel" \in PCs /\ "callback" \in PCs
      /\ g["smap"].o \in Objs
      /\ g["smap"].pc \in EndPCs /\ g["smap"].o = "own" => Over
  BY Types DEF G, PCs, IInv, FInv, Local, GoRec
<1>2. CASE SmapChanged /\ g' = g
  BY <1>2, MoveStep DEF SmapChanged, IInv, NTypeOK
<1>3. CASE SmapChanged /\ nls # "none" /\ g' = [g EXCEPT !["smap"] = [Idle EXCEPT !.pc = "abort", !.o = nls]]
  <2>1. /\ nls \in Objs /\ UNCHANGED <<xst, msgs, smap, obj, nls, fin, env>> /\ seen' \subseteq Targets
        /\ obj' \in [Objs -> ObjRec] /\ env' \in EnvRec
    BY <1>3, Types DEF SmapChanged, IInv
  <2> QED
    BY <1>1, <1>3, <2>1, BeginStep DEF EndPCs
<1>4. CASE SmapFin
  <2>1. /\ Goto("smap", "sdel") /\ UNCHANGED <<xst, msgs, smap, seen, obj, env>> /\ g["smap"].pc \in EndPCs
        /\ nls' \in Objs \cup {"none"} /\ fin' \in Objs \cup {"none"}
    BY <1>1, <1>4, Types DEF SmapFin, FinAdd, IInv, At, EndPCs
  <2> QED
    BY <1>1, <2>1, GotoStep
<1>5. CASE SmapDel
  <2>1. /\ Goto("smap", "callback") /\ UNCHANGED <<xst, msgs, smap, seen, obj, env>> /\ g["smap"].pc \in EndPCs
        /\ nls' \in Objs \cup {"none"} /\ fin' \in Objs \cup {"none"}
    BY <1>1, <1>5, Types DEF SmapDel, IInv, At, EndPCs
  <2> QED
    BY <1>1, <2>1, GotoStep
<1> QED
  BY <1>2, <1>3, <1>4, <1>5 DEF SmapChanged

\* notifs.apply: what comes from another member is a listener without callback
LEMMA MergeStep ==
    ASSUME IInv, MergeFinished \/ MergeRunning \/ MergeDel \/ MergeFin
    PROVE  IInv'
<1>1. /\ "merge" \in G /\ "mfin" \in PCs /\ "mnls" \in PCs /\ "callback" \in PCs /\ "copy" \in Objs
      /\ "own" \in Objs /\ (g["merge"].pc \in {"mnls", "mfin"} => g["merge"].o = "copy")
      /\ obj \in [Objs -> ObjRec] /\ env \in EnvRec /\ NTypeOK
  BY Types DEF G, PCs, IInv, FInv, Local, Objs
<1>2. CASE MergeFinished
  <2> DEFINE c == [active |-> {t \in Targets : xst[t] = "running"},
                   aborted |-> \E t \in Targets : SrcAborted(t), errs |-> FALSE, end |-> 2]
  <2>1. c \in ObjRec
    BY SMTT(30) DEF ObjRec
  <2>2. obj' = [obj EXCEPT !["copy"] = c]
    BY <1>2 DEF MergeFinished
  <2> HIDE DEF c
  <2>3. obj' \in [Objs -> ObjRec] /\ obj'["own"] = obj["own"]
    BY <1>1, <2>1, <2>2
  <2>4. env' \in EnvRec /\ env'.calls = env.calls
    BY <1>1, <1>2 DEF EnvRec, MergeFinished
  <2>5. UNCHANGED <<xst, msgs, smap, seen, nls, fin>> /\ seen' \subseteq Targets
    BY <1>1, <1>2, Types DEF MergeFinished
  <2>6. CASE g' = g
    <3>1. NTypeOK'
      BY <1>1, <2>3, <2>4, <2>5, <2>6 DEF NTypeOK, ObjRec, EnvRec
    <3> QED
      BY <2>3, <2>4, <2>5, <2>6, <3>1, MoveStep
  <2>7. CASE g' = [g EXCEPT !["merge"] = [Idle EXCEPT !.pc = "mfin", !.o = "copy"]]
    BY <1>1, <2>3, <2>4, <2>5, <2>7, BeginStep DEF EndPCs
  <2>8. CASE g' = [g EXCEPT !["merge"] = [Idle EXCEPT !.pc = "mnls", !.o = "copy"]]
    BY <1>1, <2>3, <2>4, <2>5, <2>8, BeginStep DEF EndPCs
  <2> QED
    BY <1>2, <2>6, <2>7, <2>8 DEF MergeFinished
<1>3. CASE MergeRunning
  <2> DEFINE a == {t \in Targets : xst[t] = "running" \/ SrcAborted(t)}
             r == [obj["copy"] EXCEPT !.active = a]
  <2>1. r \in ObjRec
    BY <1>1 DEF ObjRec
  <2>2. obj' = [obj EXCEPT !["copy"] = r]
    BY <1>3 DEF MergeRunning
  <2> HIDE DEF r
  <2>3. obj' \in [Objs -> ObjRec] /\ obj'["own"] = obj["own"]
    BY <1>1, <2>1, <2>2
  <2>4. env' \in EnvRec /\ env'.calls = env.calls
    <3> DEFINE l == env.late \/ seen # Targets
    <3>1. l \in BOOLEAN /\ env' = [env EXCEPT !.merged = TRUE, !.late = l]
      BY <1>1, <1>3 DEF MergeRunning, EnvRec
    <3> HIDE DEF l
    <3> QED
      BY <1>1, <3>1 DEF EnvRec
  <2>5. NTypeOK'
    BY <1>1, <1>3, <2>3, <2>4 DEF NTypeOK, ObjRec, EnvRec, MergeRunning
  <2> QED
    BY <1>3, <2>3, <2>4, <2>5, MoveStep DEF MergeRunning
<1>4. CASE MergeDel
  <2>1. /\ Goto("merge", "mfin") /\ UNCHANGED <<xst, msgs, smap, seen, obj, env>> /\ g["merge"].pc = "mnls"
        /\ nls' \in Objs \cup {"none"} /\ fin' \in Objs \cup {"none"}
    BY <1>1, <1>4, Types DEF MergeDel, At
  <2>2. "mfin" \in PCs /\ "merge" \in G /\ g["merge"].o = "copy" /\ "copy" # "own"
    BY <1>1, <2>1
  <2> QED
    BY <2>1, <2>2, GotoStep DEF EndPCs
<1>5. CASE MergeFin
  <2>1. /\ Goto("merge", "callback") /\ UNCHANGED <<xst, msgs, smap, seen, obj, env>> /\ g["merge"].pc = "mfin"
        /\ nls' \in Objs \cup {"none"} /\ fin' \in Objs \cup {"none"}
    BY <1>1, <1>5, Types DEF MergeFin, FinAdd, At
  <2>2. "callback" \in PCs /\ "merge" \in G /\ g["merge"].o = "copy" /\ "copy" # "own"
    BY <1>1, <2>1
  <2> QED
    BY <2>1, <2>2, GotoStep
<1> QED
  BY <1>2, <1>3, <1>4, <1>5

-----------------------------------------------------------------------------
\* every step, a merge included, keeps the invariant
LEMMA Inductive ==
    IInv /\ [Step]_vars => IInv'
<1> SUFFICES ASSUME IInv, [Step]_vars
             PROVE  IInv'
  OBVIOUS
<1>1. ASSUME NEW x \in G, Done(x)
      PROVE  IInv'
  BY <1>1, DoneTablesStep, DoneBcastStep, CallbackStep, CallbackStoreStep DEF Done
<1>2. Targets \subseteq G /\ "hk" \in G /\ "smap" \in G /\ "merge" \in G
  BY DEF G
<1>3. ASSUME NEW t \in Targets, Recv(t) \/ Handler(t)
      PROVE  IInv'
  BY <1>1, <1>2, <1>3, RecvStep, CheckStep, FinishedStep DEF Handler
<1>4. CASE Housekeep
  BY <1>1, <1>2, <1>4, HousekeepStep, PullStep, ApplyStep, AppliedStep DEF Housekeep, Puller
<1>5. CASE ListenSmap
  BY <1>1, <1>2, <1>5, ListenSmapStep, SmapAbortStep DEF ListenSmap
<1>6. CASE Merge
  BY <1>1, <1>2, <1>6, MergeStep DEF Merge
<1>7. CASE UNCHANGED vars
  <2>1. NTypeOK'
    BY <1>7 DEF vars, IInv, NTypeOK
  <2> QED
    BY <1>7, <2>1, MoveStep DEF vars
<1> QED
  BY <1>3, <1>4, <1>5, <1>6, <1>7, EnvStep, AddStep DEF Step, NNext

\* the listeners, tables and goroutines start in a state of the invariant
LEMMA Initially == NInit => IInv
<1> SUFFICES ASSUME NInit
             PROVE  IInv
  OBVIOUS
<1>1. Idle \in GoRec /\ NewListener \in ObjRec /\ Idle.pc = "idle" /\ Idle.todo = {} /\ Idle.dn = FALSE
  BY SMTT(30) DEF Idle, GoRec, PCs, Objs, NewListener, ObjRec
<1>2. env \in EnvRec /\ env.calls = 0
  BY NotifsAssumption, SMTT(30) DEF NInit, EnvRec, NotifsAssumption
<1>3. NTypeOK
  BY <1>1, <1>2, Types DEF NInit, XStates
<1>4. \A x \in G : Local(x) /\ ~OwnStore(x)
  BY <1>1 DEF NInit, Local, OwnStore, At, EndPCs
<1>5. obj["own"].active = Targets /\ obj["own"].end = 0
  BY DEF NInit, Objs, NewListener
<1> QED
  BY <1>2, <1>3, <1>4, <1>5, SMTT(30) DEF IInv, CInv, FInv, NInit

\* ListenerBase.Callback: whatever messages are lost, targets restart or leave, and
\* tables are merged, the callback of a listener runs at most once
THEOREM CalledAtMostOnce == NMergeSpec => []CallbackOnce
<1>1. IInv => CallbackOnce
  BY DEF IInv, CInv, CallbackOnce
<1> QED
  BY <1>1, Initially, Inductive, PTL DEF NMergeSpec, Step

\* markFinished, notifs.done, ListenSmapChanged: in the same conditions, a listener that
\* is finished with neither error nor abort means that the xaction succeeded on every notifier
THEOREM FinishedMeansSuccess == NMergeSpec => []NoFalseSuccess
<1>1. IInv => NoFalseSuccess
  <2> SUFFICES ASSUME IInv, obj["own"].end > 0, ~obj["own"].aborted, ~obj["own"].errs, NEW t \in Targets
               PROVE  xst[t] = "ok"
    BY DEF NoFalseSuccess
  <2>1. obj["own"].active = {}
    BY DEF IInv, FInv, Over
  <2> QED
    BY <2>1 DEF IInv, FInv, Reported
<1> QED
  BY <1>1, Initially, Inductive, PTL DEF NMergeSpec, Step
=============================================================================
