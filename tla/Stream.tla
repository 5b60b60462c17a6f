------------------------------- MODULE Stream -------------------------------
(***************************************************************************)
(* One long-lived transport stream (transport/): Send() by concurrent      *)
(* callers, the sendLoop goroutine with the HTTP request that reads the    *)
(* stream as its body, the cmplLoop goroutine that runs the completions,   *)
(* and the collector that deactivates idle streams and reaps terminated    *)
(* ones.  SQ is workCh, SCQ is cmplCh.                                     *)
(*                                                                         *)
(* Data: an object is its identity.  Header and payload are one hand-over  *)
(* (Take ... EoObj).  reopen() asks for an object whose header is the next *)
(* thing to send with no byte of it sent, which never holds after Read()   *)
(* returned (sendHdr copies at least one byte), so a failed request always *)
(* terminates the stream.  A panic ends the process.                       *)
(***************************************************************************)
EXTENDS Integers, Sequences, FiniteSets

CONSTANTS Objs,        \* objects to send, each by a caller of its own
          Burst,       \* capacity of workCh and of cmplCh
          IdleTicks,   \* idleTeardown in collector ticks
          MaxFails     \* bound: failed requests

\* In-band objects: opcFin, opcIdleTick, and the empty sendoff.obj.
Fin == "fin"
Tick == "tick"
None == "none"
Callers == Objs \cup {Fin}

ASSUME StreamAssumption == /\ Burst \in Nat \ {0} /\ IdleTicks \in Nat \ {0}
                           /\ Objs \cap {Fin, Tick, None, "loop"} = {}

VARIABLES
  snd,     \* snd[o]: the caller of Send(o): "idle", "check", "post", "put", "wait", "ret", "panic"
  seen,    \* seen[o]: collector passes that the current Send(o) overlaps (0, 1, or 2 for more)
  loop,    \* sendLoop: "top", "read", "data", "resp", "fail", "next", "fin", "remove", "wait", "end", "panic"
  cloop,   \* cmplLoop: "run", "end"
  gc,      \* collector: "run", "drain", "idle", "tick", "abort", "end"
  sess,    \* sessST
  post,    \* postCh holds a signal
  stop,    \* stopCh is closed
  last,    \* lastCh is closed
  term,    \* term.err ("none": not terminated)
  inSend,  \* time.inSend
  ticks,   \* time.ticks
  removed, \* gc.remove() in the collector's mailbox
  work,    \* workCh
  cmpl,    \* cmplCh
  closed,  \* both are closed
  off,     \* sendoff.obj
  cb,      \* cb[o]: doCmpl() calls for o
  fails    \* failed requests so far

callVars == <<snd, seen>>
sigVars == <<sess, post, stop, last, term>>
gcVars == <<gc, inSend, ticks, removed, closed>>
vars == <<snd, seen, loop, cloop, gc, sess, post, stop, last, term, inSend,
          ticks, removed, work, cmpl, closed, off, cb, fails>>

Panicked == loop = "panic" \/ \E o \in Callers : snd[o] = "panic"

Init ==
  /\ snd = [o \in Callers |-> "idle"]
  /\ seen = [g \in Callers \cup {"loop"} |-> 0]
  /\ loop = "top" /\ cloop = "run" /\ gc = "run"
  /\ sess = "inactive" /\ post = FALSE /\ stop = FALSE /\ last = FALSE
  /\ term = "none"
  /\ inSend = FALSE /\ ticks = IdleTicks /\ removed = FALSE
  /\ work = <<>> /\ cmpl = <<>> /\ closed = FALSE
  /\ off = None
  /\ cb = [o \in Objs |-> 0]
  /\ fails = 0

\* doCmpl(): close the reader, count down the references, call back.
DoCmpl(o) == cb' = IF o \in Objs THEN [cb EXCEPT ![o] = @ + 1] ELSE cb

-----------------------------------------------------------------------------
(* Send(), Fin(), Stop() *)

\* startSend() tells the collector first.  Fin() is called by the owner of the
\* stream when its own sends have returned.
StartSend(o) ==
  /\ snd[o] = "idle"
  /\ o = Fin => \A p \in Objs : snd[p] = "ret"
  /\ inSend' = TRUE
  /\ snd' = [snd EXCEPT ![o] = "check"]
  /\ UNCHANGED <<seen, loop, cloop, sigVars, gc, ticks, removed, closed, work, cmpl, off, cb, fails>>

\* Send() returns; Fin() goes on to wait.
Return(o) ==
  /\ snd' = [snd EXCEPT ![o] = IF o = Fin THEN "wait" ELSE "ret"]
  /\ seen' = [seen EXCEPT ![o] = 0]

\* startSend(): a terminated stream completes the object with its error; an
\* inactive one becomes active and owes the sendLoop a signal.
Check(o) ==
  /\ snd[o] = "check"
  /\ \/ /\ term # "none"
        /\ DoCmpl(o)
        /\ Return(o)
        /\ UNCHANGED sess
     \/ /\ term = "none"
        /\ snd' = [snd EXCEPT ![o] = IF sess = "inactive" THEN "post" ELSE "put"]
        /\ sess' = "active"
        /\ UNCHANGED <<seen, cb>>
  /\ UNCHANGED <<loop, cloop, post, stop, last, term, gcVars, work, cmpl, off, fails>>

\* postCh <- struct{}{}: blocks while the previous signal is not consumed.
Post(o) ==
  /\ snd[o] = "post" /\ ~post
  /\ post' = TRUE
  /\ snd' = [snd EXCEPT ![o] = "put"]
  /\ UNCHANGED <<seen, loop, cloop, sess, stop, last, term, gcVars, work, cmpl, off, cb, fails>>

\* workCh <- obj: blocks while the queue is full, panics once it is closed.
Put(o) ==
  /\ snd[o] = "put"
  /\ \/ /\ closed
        /\ snd' = [snd EXCEPT ![o] = "panic"]
        /\ UNCHANGED <<seen, work>>
     \/ /\ ~closed /\ Len(work) < Burst
        /\ work' = Append(work, o)
        /\ Return(o)
  /\ UNCHANGED <<loop, cloop, sigVars, gcVars, cmpl, off, cb, fails>>

\* Fin(): wg.Wait() for sendLoop and cmplLoop.
FinWait ==
  /\ snd[Fin] = "wait"
  /\ loop \in {"wait", "end"} /\ cloop = "end"
  /\ snd' = [snd EXCEPT ![Fin] = "ret"]
  /\ UNCHANGED <<seen, loop, cloop, sigVars, gcVars, work, cmpl, off, cb, fails>>

\* Stop(), Abort(): at any time.
Stop ==
  /\ ~stop
  /\ stop' = TRUE
  /\ UNCHANGED <<callVars, loop, cloop, sess, post, last, term, gcVars, work, cmpl, off, cb, fails>>

-----------------------------------------------------------------------------
(* sendLoop and the request body *)

\* Top of the loop: an active session starts a request, whose first Read()
\* tells the collector.
Top ==
  /\ loop = "top"
  /\ loop' = IF sess = "active" THEN "read" ELSE "next"
  /\ inSend' = (inSend \/ sess = "active")
  /\ seen' = [seen EXCEPT !["loop"] = IF sess = "active" THEN 0 ELSE @]
  /\ UNCHANGED <<snd, cloop, sigVars, gc, ticks, removed, closed, work, cmpl, off, cb, fails>>

\* Read() takes the next object from workCh.  An idle tick is dropped when
\* something is queued behind it and otherwise ends the request; opcFin ends
\* it and closes lastCh; anything else is sent.
Take ==
  /\ loop = "read" /\ work # <<>>
  /\ LET o == Head(work) IN
     /\ off' = o
     /\ work' = Tail(work)
     /\ loop' = CASE o = Tick /\ Tail(work) # <<>> -> "read"
                  [] o = Tick /\ Tail(work) = <<>> -> "resp"
                  [] o = Fin -> "resp"
                  [] OTHER -> "data"
     /\ last' = (last \/ o = Fin)
  /\ UNCHANGED <<callVars, cloop, sess, post, stop, term, gcVars, cmpl, cb, fails>>

\* Read(): stopCh is closed.
ReadStopped ==
  /\ loop = "read" /\ stop
  /\ loop' = "resp"
  /\ UNCHANGED <<callVars, cloop, sigVars, gcVars, work, cmpl, off, cb, fails>>

\* Mutant: eoObj() does not reset sendoff.
EoObjKeeps ==
  /\ loop = "data" /\ Len(cmpl) < Burst
  /\ cmpl' = Append(cmpl, off)
  /\ loop' = "read"
  /\ inSend' = TRUE
  /\ UNCHANGED <<callVars, cloop, sigVars, gc, ticks, removed, closed, work, off, cb, fails>>

\* eoObj(): the object is out, its completion goes to SCQ; the next Read() is
\* on its way.
EoObj ==
  /\ loop = "data" /\ Len(cmpl) < Burst
  /\ cmpl' = Append(cmpl, off)
  /\ off' = None
  /\ loop' = "read"
  /\ inSend' = TRUE
  /\ UNCHANGED <<callVars, cloop, sigVars, gc, ticks, removed, closed, work, cb, fails>>

\* sendData(): the object's reader fails; eoObj(err) completes the object and
\* the request fails with the reader's error.
ReaderFails ==
  /\ loop = "data" /\ Len(cmpl) < Burst /\ fails < MaxFails
  /\ cmpl' = Append(cmpl, off)
  /\ off' = None
  /\ loop' = "fail"
  /\ inSend' = TRUE
  /\ fails' = fails + 1
  /\ UNCHANGED <<callVars, cloop, sigVars, gc, ticks, removed, closed, work, cb>>

\* The connection or the receiver fails the request, whatever it was doing.
RequestFails ==
  /\ loop \in {"read", "data", "resp"} /\ fails < MaxFails
  /\ loop' = "fail"
  /\ fails' = fails + 1
  /\ UNCHANGED <<callVars, cloop, sigVars, gcVars, work, cmpl, off, cb>>

\* The request ended and was answered.
RequestDone ==
  /\ loop = "resp"
  /\ loop' = "next"
  /\ UNCHANGED <<callVars, cloop, sigVars, gcVars, work, cmpl, off, cb, fails>>

\* inSend() is true whatever sendoff.ins is, so errCmpl() always posts
\* sendoff.obj; then the loop breaks and terminate() sets the error.
ErrCmpl ==
  /\ loop = "fail" /\ Len(cmpl) < Burst
  /\ cmpl' = Append(cmpl, off)
  /\ term' = "err" /\ stop' = TRUE
  /\ loop' = "fin"
  /\ off' = None
  /\ UNCHANGED <<callVars, cloop, sess, post, last, gcVars, work, cb, fails>>

\* Mutant: isNextReq() does not listen to stopCh.
NextReqNoStop ==
  /\ loop = "next"
  /\ \/ /\ last
        /\ term' = "eos" /\ stop' = TRUE /\ loop' = "fin"
        /\ UNCHANGED <<sess, post>>
     \/ /\ post
        /\ post' = FALSE /\ sess' = "active" /\ loop' = "top"
        /\ UNCHANGED <<term, stop>>
  /\ UNCHANGED <<callVars, cloop, last, gcVars, work, cmpl, off, cb, fails>>

\* isNextReq(): end of stream, stopped, or the signal of a Send().
NextReq ==
  /\ loop = "next"
  /\ \/ /\ last
        /\ term' = "eos" /\ stop' = TRUE /\ loop' = "fin"
        /\ UNCHANGED <<sess, post>>
     \/ /\ stop
        /\ term' = "stopped" /\ loop' = "fin"
        /\ UNCHANGED <<sess, post, stop>>
     \/ /\ post
        /\ post' = FALSE /\ sess' = "active" /\ loop' = "top"
        /\ UNCHANGED <<term, stop>>
  /\ UNCHANGED <<callVars, cloop, last, gcVars, work, cmpl, off, cb, fails>>

\* terminate(): the last record of SCQ.
PostFin ==
  /\ loop = "fin"
  /\ \/ /\ closed
        /\ loop' = "panic"
        /\ UNCHANGED cmpl
     \/ /\ ~closed /\ Len(cmpl) < Burst
        /\ cmpl' = Append(cmpl, Fin)
        /\ loop' = "remove"
  /\ UNCHANGED <<callVars, cloop, sigVars, gcVars, work, off, cb, fails>>

\* terminate(): gc.remove(); the loop is done, or waits to clean up.
Remove ==
  /\ loop = "remove"
  /\ removed' = TRUE
  /\ loop' = IF term = "eos" THEN "end" ELSE "wait"
  /\ UNCHANGED <<callVars, cloop, sigVars, gc, inSend, ticks, closed, work, cmpl, off, cb, fails>>

\* After cmplLoop is done, abortPending() completes what is and what comes to
\* workCh until the collector closes it.
Pending ==
  /\ loop = "wait" /\ cloop = "end"
  /\ \/ /\ work # <<>>
        /\ DoCmpl(Head(work))
        /\ work' = Tail(work)
        /\ UNCHANGED loop
     \/ /\ work = <<>> /\ closed
        /\ loop' = "end"
        /\ UNCHANGED <<work, cb>>
  /\ UNCHANGED <<callVars, cloop, sigVars, gcVars, cmpl, off, fails>>

\* cmplLoop(): one completion, or the end of SCQ.
CmplLoop ==
  /\ cloop = "run"
  /\ \/ /\ cmpl # <<>>
        /\ DoCmpl(Head(cmpl))
        /\ cmpl' = Tail(cmpl)
        /\ cloop' = IF Head(cmpl) = Fin THEN "end" ELSE "run"
     \/ /\ cmpl = <<>> /\ closed
        /\ cloop' = "end"
        /\ UNCHANGED <<cmpl, cb>>
  /\ UNCHANGED <<callVars, loop, sigVars, gcVars, work, off, fails>>

-----------------------------------------------------------------------------
(* The collector *)

\* What runs without waiting for anybody takes less than a collector tick: a
\* Send() that is not blocked, and sendLoop between two requests, overlap at
\* most one pass.
Blocked(o) == \/ snd[o] = "post" /\ post
              \/ snd[o] = "put" /\ ~closed /\ Len(work) = Burst
MidSend(o) == snd[o] \in {"check", "post", "put"}
MidLoop == \/ loop \in {"top", "remove"}
           \/ loop = "next" /\ (post \/ stop \/ last)
           \/ loop = "fin" /\ (closed \/ Len(cmpl) < Burst)
Mid(g) == IF g = "loop" THEN MidLoop ELSE MidSend(g)
Timely == \A g \in Callers \cup {"loop"} :
            Mid(g) /\ seen[g] > 0 => g # "loop" /\ Blocked(g)

\* apply(): one tick of grace.
GcApply ==
  /\ gc = "run" /\ removed
  /\ removed' = FALSE
  /\ ticks' = 1
  /\ UNCHANGED <<callVars, loop, cloop, sigVars, gc, inSend, closed, work, cmpl, off, cb, fails>>

\* A collector pass begins: do().
GcPass ==
  /\ gc = "run" /\ Timely
  /\ seen' = [g \in Callers \cup {"loop"} |->
               IF Mid(g) /\ seen[g] < 2 THEN seen[g] + 1 ELSE seen[g]]

\* do(), terminated stream with a send in progress: drain it, one more tick.
GcGrace ==
  /\ term # "none" /\ inSend
  /\ GcPass
  /\ inSend' = FALSE /\ gc' = "drain"
  /\ UNCHANGED <<snd, loop, cloop, sigVars, ticks, removed, closed, work, cmpl, off, cb, fails>>

\* drain(): complete what is in workCh.
GcDrain ==
  /\ gc = "drain"
  /\ \/ /\ work # <<>>
        /\ DoCmpl(Head(work))
        /\ work' = Tail(work)
        /\ UNCHANGED <<gc, ticks>>
     \/ /\ work = <<>>
        /\ ticks' = 1 /\ gc' = "run"
        /\ UNCHANGED <<work, cb>>
  /\ UNCHANGED <<callVars, loop, cloop, sigVars, inSend, removed, closed, cmpl, off, fails>>

\* Mutant: a terminated stream is counted down with a send in progress.
ReapInSend ==
  /\ term # "none"
  /\ GcPass
  /\ ticks' = ticks - 1
  /\ closed' = (ticks = 1)
  /\ gc' = IF ticks = 1 THEN "abort" ELSE "run"
  /\ UNCHANGED <<snd, loop, cloop, sigVars, inSend, removed, work, cmpl, off, cb, fails>>

\* do(), terminated stream: count down; at zero forget it and closeAndFree().
GcReap ==
  /\ term # "none" /\ ~inSend
  /\ GcPass
  /\ ticks' = ticks - 1
  /\ closed' = (ticks = 1)
  /\ gc' = IF ticks = 1 THEN "abort" ELSE "run"
  /\ UNCHANGED <<snd, loop, cloop, sigVars, inSend, removed, work, cmpl, off, cb, fails>>

\* abortPending(): complete what is left in workCh, then in cmplCh.
GcAbort ==
  /\ gc = "abort"
  /\ \/ /\ work # <<>>
        /\ DoCmpl(Head(work))
        /\ work' = Tail(work)
        /\ UNCHANGED <<gc, cmpl>>
     \/ /\ work = <<>> /\ cmpl # <<>>
        /\ DoCmpl(Head(cmpl))
        /\ cmpl' = Tail(cmpl)
        /\ UNCHANGED <<gc, work>>
     \/ /\ work = <<>> /\ cmpl = <<>>
        /\ gc' = "end"
        /\ UNCHANGED <<work, cmpl, cb>>
  /\ UNCHANGED <<callVars, loop, cloop, sigVars, inSend, ticks, removed, closed, off, fails>>

\* do(), live stream: an active one counts down; at zero the countdown starts
\* over, and the stream is idle unless a send or a read was seen since.
GcIdle ==
  /\ term = "none" /\ sess = "active"
  /\ GcPass
  /\ ticks' = IF ticks = 1 THEN IdleTicks ELSE ticks - 1
  /\ gc' = IF ticks = 1 /\ ~inSend THEN "idle" ELSE "run"
  /\ inSend' = (inSend /\ ticks # 1)
  /\ UNCHANGED <<snd, loop, cloop, sigVars, removed, closed, work, cmpl, off, cb, fails>>

\* idleTick(): nothing queued and still active.
GcIdleTick ==
  /\ gc = "idle"
  /\ IF work = <<>> /\ sess = "active"
       THEN sess' = "inactive" /\ gc' = "tick"
       ELSE gc' = "run" /\ UNCHANGED sess
  /\ UNCHANGED <<callVars, loop, cloop, post, stop, last, term, inSend, ticks, removed, closed, work, cmpl, off, cb, fails>>

\* idleTick(): workCh <- opcIdleTick.
GcPostTick ==
  /\ gc = "tick" /\ Len(work) < Burst
  /\ work' = Append(work, Tick)
  /\ gc' = "run"
  /\ UNCHANGED <<callVars, loop, cloop, sigVars, inSend, ticks, removed, closed, cmpl, off, cb, fails>>

-----------------------------------------------------------------------------
Sending(o) == Check(o) \/ Post(o) \/ Put(o)
SendLoop == \/ Top \/ Take \/ ReadStopped \/ EoObj \/ RequestDone \/ ErrCmpl
            \/ NextReq \/ PostFin \/ Remove \/ Pending
Collector == \/ GcApply \/ GcGrace \/ GcDrain \/ GcReap \/ GcAbort
             \/ GcIdle \/ GcIdleTick \/ GcPostTick

Next == /\ ~Panicked
        /\ \/ \E o \in Callers : StartSend(o) \/ Sending(o)
           \/ FinWait \/ Stop \/ ReaderFails \/ RequestFails
           \/ SendLoop \/ CmplLoop \/ Collector

Spec == Init /\ [][Next]_vars

\* Goroutines are scheduled fairly, the receiver keeps reading and answering,
\* and completion callbacks return.  Nobody has to call Send, Fin or Stop.
FairSpec ==
  /\ Spec
  /\ \A o \in Callers : WF_vars(~Panicked /\ Sending(o))
  /\ WF_vars(~Panicked /\ FinWait)
  /\ WF_vars(~Panicked /\ SendLoop)
  /\ WF_vars(~Panicked /\ CmplLoop)
  /\ WF_vars(~Panicked /\ Collector)

-----------------------------------------------------------------------------
STypeOK ==
  /\ snd \in [Callers -> {"idle", "check", "post", "put", "wait", "ret", "panic"}]
  /\ seen \in [Callers \cup {"loop"} -> 0..2]
  /\ loop \in {"top", "read", "data", "resp", "fail", "next", "fin", "remove", "wait", "end", "panic"}
  /\ cloop \in {"run", "end"}
  /\ gc \in {"run", "drain", "idle", "tick", "abort", "end"}
  /\ sess \in {"active", "inactive"}
  /\ term \in {"none", "eos", "stopped", "err"}
  /\ {post, stop, last, inSend, removed, closed} \subseteq BOOLEAN
  /\ ticks \in 0..IdleTicks
  /\ Len(work) <= Burst /\ Len(cmpl) <= Burst
  /\ off \in Objs \cup {Fin, Tick, None}
  /\ cb \in [Objs -> 0..1]

\* Who has to complete o: its caller, workCh, the request, cmplCh.
InQueue(q, o) == Cardinality({i \in DOMAIN q : q[i] = o})
WithCaller(o) == IF snd[o] \in {"idle", "check", "post", "put", "panic"} THEN 1 ELSE 0
WithRequest(o) == IF off = o /\ loop \in {"data", "fail"} THEN 1 ELSE 0

\* Every object is in exactly one place from the Send() call to its one
\* doCmpl(), whoever of the caller, Read(), errCmpl(), cmplLoop, abortPending()
\* and the collector's drain() and abortPending() gets to complete it.
OneOwner ==
  /\ STypeOK
  /\ \A o \in Objs :
       WithCaller(o) + InQueue(work, o) + WithRequest(o) + InQueue(cmpl, o) + cb[o] = 1

\* The collector's grace (inSend, ticks = 1) protects a Send() that overlaps
\* one pass: only one that was blocked on a full queue across two passes can
\* find workCh closed.
SendSafe == \A o \in Callers : snd[o] = "panic" => seen[o] = 2

\* The two ways to be left behind for good: o waits for sendLoop, which waits
\* for a signal that nobody is about to send; or its caller waits on the postCh
\* of a stream that terminated with the signal of an earlier Send() still in it.
Stalled(o) == /\ loop = "next" /\ ~post /\ ~stop /\ ~last
              /\ \A p \in Callers : MidSend(p) => Blocked(p)
              /\ snd[o] = "put" \/ InQueue(work, o) = 1
Stranded(o) == snd[o] = "post" /\ post /\ term # "none"

\* "For every transmission of every object there's always an doCmpl()
\* completion ... in all cases" (api.go): StreamLost.cfg shows how it fails.
AlwaysCompleted == \A o \in Objs : snd[o] = "check" ~> (cb[o] = 1 \/ Panicked)

\* Every object given to Send() is completed, network errors and all, and Fin()
\* returns, both goroutines at their end, unless one is left behind in one of those
\* two ways; once the stream is stopped or broken every object ever given to it is
\* completed, a missed wake-up or not, but for one whose caller waits on such a postCh.
Completes ==
  /\ \A o \in Objs : snd[o] = "check" ~> (cb[o] = 1 \/ Panicked \/ []Stalled(o) \/ []Stranded(o))
  /\ snd[Fin] = "check" ~> (snd[Fin] = "ret" \/ Panicked \/ []Stalled(Fin) \/ []Stranded(Fin))
  /\ \A o \in Objs : (stop /\ snd[o] # "idle") ~> (cb[o] = 1 \/ Panicked \/ []Stranded(o))
=============================================================================
