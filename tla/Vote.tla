-------------------------------- MODULE Vote --------------------------------
(***************************************************************************)
(* Leadership: keepalive, the election of a new primary and the Smap that  *)
(* results from it (ais/vote.go, ais/kalive.go, ais/psetforce.go,          *)
(* ais/clustermap.go).                                                     *)
(*                                                                         *)
(* Every node has its own Smap.  A node that cannot reach its primary asks *)
(* the next proxy in HRW order to run an election, or runs it if it is the *)
(* one; the candidate pings the primary, collects votes from all nodes,    *)
(* tells all nodes the result, makes itself primary and metasyncs.  The    *)
(* primary removes nodes it cannot reach from its Smap.                    *)
(*                                                                         *)
(* A call, its handler at the other node and its answer are one step; the  *)
(* calls of a broadcast are separate steps in any order.  A node that      *)
(* stops does not return, and a lost connection stays lost.                *)
(***************************************************************************)
EXTENDS Integers, FiniteSets

CONSTANTS
    Proxies, Targets,
    Rank,         \* the HRW order of the proxies
    First,        \* the primary at the start
    MaxCrashes,   \* bound on nodes that stop for good
    MaxNetFaults  \* bound on pairs of nodes that lose each other for good, plus
                  \* election requests whose answer is lost

Nodes == Proxies \cup Targets

ASSUME VoteAssumption ==
    /\ IsFiniteSet(Proxies) /\ IsFiniteSet(Targets) /\ Proxies \cap Targets = {}
    /\ Rank \in [Proxies -> Nat] /\ \A p, q \in Proxies : Rank[p] = Rank[q] => p = q
    /\ First \in Proxies
    /\ MaxCrashes \in Nat /\ MaxNetFaults \in Nat

VARIABLES
    smap,    \* smap[n]: version, primary and members, as node n has them
    down,    \* nodes that have stopped
    cut,     \* pairs of nodes that cannot call each other
    silent,  \* nodes whose last word from their primary is older than keepalive's interval
    obs,     \* obs[n]: onPrimaryDown of node n: the clone it works with
    elec,    \* elec[p]: the election xaction of proxy p
    rem,     \* rem[p]: toRemoveCh, nodes that failed the primary's keepalive
    lost     \* answers lost so far

votevars == <<smap, down, cut, silent, obs, elec, rem, lost>>

Smaps == [ver: Nat, prim: Proxies, in: SUBSET Nodes]

NoObs == [on |-> FALSE, clone |-> [ver |-> 0, prim |-> First, in |-> {}]]
\* the vote record: the Smap, and the primary to be removed, which need not be the Smap's;
\* inl: the election runs inside onPrimaryDown
NoElec == [pc |-> "idle", inl |-> FALSE, vr |-> NoObs.clone, old |-> First, todo |-> {}, yes |-> 0, no |-> 0]

VInit ==
    /\ smap = [n \in Nodes |-> [ver |-> 1, prim |-> First, in |-> Nodes]]
    /\ down = {} /\ cut = {} /\ silent = {}
    /\ obs = [n \in Nodes |-> NoObs]
    /\ elec = [p \in Proxies |-> NoElec]
    /\ rem = [p \in Proxies |-> {}]
    /\ lost = 0

VTypeOK ==
    /\ smap \in [Nodes -> Smaps]
    /\ down \subseteq Nodes /\ silent \subseteq Nodes
    /\ \A c \in cut : c \subseteq Nodes
    /\ obs \in [Nodes -> [on: BOOLEAN, clone: Smaps]]
    /\ elec \in [Proxies -> [pc: {"idle", "ping", "votes", "commit", "become"}, inl: BOOLEAN, vr: Smaps,
                             old: Proxies, todo: SUBSET Nodes, yes: Nat, no: Nat]]
    /\ \A p \in Proxies : /\ elec[p].pc = "idle" => elec[p] = NoElec
                          /\ elec[p].inl => obs[p].on
    /\ rem \in [Proxies -> SUBSET Nodes]
    /\ lost \in Nat

Up(n) == n \notin down
NetFaults == Cardinality(cut) + lost
Reach(a, b) == Up(a) /\ Up(b) /\ {a, b} \notin cut
Primary(p) == smap[p].prim = p

\* HrwProxy(skip): the proxies of the Smap except one
Electable(s) == (s.in \cap Proxies) \ {s.prim}
Hrw(ps) == CHOOSE p \in ps : \A q \in ps : Rank[q] <= Rank[p]

delProxy(s, p) == [s EXCEPT !.in = @ \ {p}, !.ver = @ + 1]

\* smapOwner.synchronize: an Smap that is not newer is not installed
SyncAny(old, new) == new
synchronize(old, new) == IF new.ver > old.ver THEN new ELSE old

-----------------------------------------------------------------------------
(* Faults *)

Crash(n) ==
    /\ Up(n) /\ Cardinality(down) < MaxCrashes
    /\ down' = down \cup {n}
    /\ obs' = [obs EXCEPT ![n] = NoObs]
    /\ elec' = IF n \in Proxies THEN [elec EXCEPT ![n] = NoElec] ELSE elec
    /\ UNCHANGED <<smap, cut, silent, rem, lost>>

Cut(a, b) ==
    /\ a # b /\ {a, b} \notin cut /\ NetFaults < MaxNetFaults
    /\ cut' = cut \cup {{a, b}}
    /\ UNCHANGED <<smap, down, silent, obs, elec, rem, lost>>

-----------------------------------------------------------------------------
(* Heartbeats *)

\* heartBeat.TimedOut: a healthy primary is silent too, from the end of the interval
\* to the next keepalive
Silence(n) ==
    /\ Up(n) /\ n \notin silent /\ smap[n].prim # n
    /\ silent' = silent \cup {n}
    /\ UNCHANGED <<smap, down, cut, obs, elec, rem, lost>>

\* keepalive.do, and the primary's health checks
HeardFrom(n) ==
    /\ n \in silent /\ Reach(n, smap[n].prim)
    /\ silent' = silent \ {n}
    /\ UNCHANGED <<smap, down, cut, obs, elec, rem, lost>>

-----------------------------------------------------------------------------
(* Starting an election *)

\* keepalive.do: all retries failed
PrimaryDown(n) ==
    /\ Up(n) /\ n \in silent /\ ~obs[n].on
    /\ n \in Proxies => ~Primary(n)
    /\ ~Reach(n, smap[n].prim)
    /\ obs' = [obs EXCEPT ![n] = [on |-> TRUE, clone |-> smap[n]]]
    /\ UNCHANGED <<smap, down, cut, silent, elec, rem, lost>>

\* startElection: not by the primary, one at a time
Starts(p, s) == s.prim # p /\ elec[p].pc = "idle"

startElection(p, vr, old, inline) ==
    [elec EXCEPT ![p] = [NoElec EXCEPT !.pc = "ping", !.vr = vr, !.old = old, !.inl = inline]]

\* httpelect at candidate c: does it answer 200?
ElectSmap(c, s) == synchronize(smap[c], s)

ElectOK(c, s) ==
    /\ s.ver < smap[c].ver => c \in smap[c].in
    /\ Electable(ElectSmap(c, s)) # {}

\* ... and the election it starts if it is the next in line
ElectStart(c, s) ==
    LET own == ElectSmap(c, s)
    IN IF Hrw(Electable(own)) = c /\ Starts(c, own)
       THEN startElection(c, own, s.prim, FALSE)
       ELSE elec

\* one turn of onPrimaryDown's loop.  A candidate that does not answer is removed
\* from the clone, also when it has got the request and only the answer was lost
Candidate(n) ==
    LET clone == obs[n].clone
        next == Hrw(Electable(clone))
        Next1 == [obs EXCEPT ![n].clone = delProxy(clone, next)]
    IN /\ Up(n) /\ obs[n].on
       /\ n \in Proxies => ~elec[n].inl
       /\ \/ /\ Electable(clone) = {}
             /\ obs' = [obs EXCEPT ![n] = NoObs]
             /\ UNCHANGED <<smap, elec, lost>>
          \/ /\ Electable(clone) # {} /\ next = n
             /\ IF Starts(n, smap[n])
                THEN elec' = startElection(n, clone, clone.prim, TRUE) /\ UNCHANGED obs
                ELSE obs' = [obs EXCEPT ![n] = NoObs] /\ UNCHANGED elec
             /\ UNCHANGED <<smap, lost>>
          \/ /\ Electable(clone) # {} /\ next # n
             /\ ~Reach(n, next) \/ ~ElectOK(next, clone)
             /\ obs' = Next1
             /\ UNCHANGED <<smap, elec, lost>>
          \/ /\ Electable(clone) # {} /\ next # n
             /\ Reach(n, next) /\ ElectOK(next, clone)
             /\ smap' = [smap EXCEPT ![next] = ElectSmap(next, clone)]
             /\ elec' = ElectStart(next, clone)
             /\ \/ obs' = [obs EXCEPT ![n] = NoObs] /\ UNCHANGED lost
                \/ NetFaults < MaxNetFaults /\ lost' = lost + 1 /\ obs' = Next1
       /\ UNCHANGED <<down, cut, silent, rem>>

-----------------------------------------------------------------------------
(* The election at proxy p *)

At(p, pc) == Up(p) /\ elec[p].pc = pc

Stop(p) ==
    /\ elec' = [elec EXCEPT ![p] = NoElec]
    /\ obs' = IF elec[p].inl THEN [obs EXCEPT ![p] = NoObs] ELSE obs

PingNobody(p) ==
    /\ At(p, "ping")
    /\ IF smap[p].ver > elec[p].vr.ver THEN Stop(p)
       ELSE /\ elec' = [elec EXCEPT ![p].pc = "votes", ![p].todo = smap[p].in \ {p}]
            /\ UNCHANGED obs
    /\ UNCHANGED <<smap, down, cut, silent, rem, lost>>

\* 1. ping the current primary; the votes go to all other nodes of p's Smap
Ping(p) ==
    /\ At(p, "ping")
    /\ IF smap[p].ver > elec[p].vr.ver \/ Reach(p, elec[p].vr.prim) THEN Stop(p)
       ELSE /\ elec' = [elec EXCEPT ![p].pc = "votes", ![p].todo = smap[p].in \ {p}]
            /\ UNCHANGED obs
    /\ UNCHANGED <<smap, down, cut, silent, rem, lost>>

\* voteOnProxy at node m, whose primary was cur before it synchronized; a primary has
\* never heard from itself
voteOnProxy(m, s, cur, p) ==
    /\ m \in silent \/ m = cur
    /\ Hrw((s.in \cap Proxies) \ {cur}) = p

\* httpgetvote at node m: errors count as No
Votes(m, p) ==
    /\ smap[m].prim # p /\ p \in elec[p].vr.in /\ m \in elec[p].vr.in
    /\ elec[p].vr.ver < smap[m].ver => p \in smap[m].in

Vote(p, m) ==
    LET s == synchronize(smap[m], elec[p].vr)
        got == Reach(p, m) /\ Votes(m, p)
        yes == got /\ voteOnProxy(m, s, smap[m].prim, p)
    IN /\ At(p, "votes") /\ m \in elec[p].todo
       /\ smap' = IF got THEN [smap EXCEPT ![m] = s] ELSE smap
       /\ elec' = [elec EXCEPT ![p].todo = @ \ {m},
                               ![p].yes = IF yes THEN @ + 1 ELSE @,
                               ![p].no = IF yes THEN @ ELSE @ + 1]
       /\ UNCHANGED <<down, cut, silent, obs, rem, lost>>

WinsByTwo(p) == elec[p].yes > elec[p].no + 1

Wins(p) == elec[p].yes > elec[p].no \/ elec[p].yes + elec[p].no = 0

Elected(p) ==
    /\ At(p, "votes") /\ elec[p].todo = {} /\ Wins(p)
    /\ elec' = [elec EXCEPT ![p].pc = "commit", ![p].todo = smap[p].in \ {p}]
    /\ UNCHANGED <<smap, down, cut, silent, obs, rem, lost>>

\* bcastMaxVer: a newest Smap among the nodes that answer, unless one of them is voting
MaxVer(p) ==
    LET ns == {m \in smap[p].in : Reach(p, m)} \cup {p}
    IN IF \E q \in (ns \cap Proxies) \ {p} : elec[q].pc # "idle" THEN {smap[p]}
       ELSE {s \in {smap[m] : m \in ns} : \A m \in ns : smap[m].ver <= s.ver}

NotElected(p) ==
    /\ At(p, "votes") /\ elec[p].todo = {} /\ ~Wins(p)
    /\ IF smap[p].ver > elec[p].vr.ver THEN UNCHANGED smap
       ELSE \E s \in MaxVer(p) : smap' = [smap EXCEPT ![p] = synchronize(@, s)]
    /\ Stop(p)
    /\ UNCHANGED <<down, cut, silent, rem, lost>>

\* _votedPrimary at node m
votedPrimary(m, p, old) ==
    LET s == [smap[m] EXCEPT !.prim = p]
    IN IF p \notin smap[m].in THEN smap[m]
       ELSE IF old \in s.in THEN delProxy(s, old) ELSE s

\* 3. phase 2: the result
Confirm(p, m) ==
    /\ At(p, "commit") /\ m \in elec[p].todo
    /\ smap' = IF Reach(p, m) THEN [smap EXCEPT ![m] = votedPrimary(m, p, elec[p].old)] ELSE smap
    /\ elec' = [elec EXCEPT ![p].todo = @ \ {m}]
    /\ UNCHANGED <<down, cut, silent, obs, rem, lost>>

Confirmed(p) ==
    /\ At(p, "commit") /\ elec[p].todo = {}
    /\ elec' = [elec EXCEPT ![p].pc = "become"]
    /\ UNCHANGED <<smap, down, cut, silent, obs, rem, lost>>

\* 4. becomeNewPrimary: the version grows by 100
Become(p) ==
    LET old == elec[p].old
        s == IF old \in smap[p].in THEN delProxy(smap[p], old) ELSE smap[p]
    IN /\ At(p, "become")
       /\ smap' = [smap EXCEPT ![p] = [s EXCEPT !.prim = p, !.ver = @ + 100]]
       /\ Stop(p)
       /\ UNCHANGED <<down, cut, silent, rem, lost>>

-----------------------------------------------------------------------------
(* The primary: metasync of its Smap, and keepalive *)

\* metasyncHandler, checkIntra, extractSmap: the sender must be known, the receiver
\* present and not a primary itself, the Smap newer
Accepts(m, p) ==
    /\ p \in smap[m].in /\ m \in smap[p].in
    /\ smap[m].prim # m /\ smap[p].ver > smap[m].ver

Metasync(p, m) ==
    /\ Primary(p) /\ m \in smap[p].in /\ Reach(p, m) /\ Accepts(m, p)
    /\ smap' = [smap EXCEPT ![m] = smap[p]]
    /\ UNCHANGED <<down, cut, silent, obs, elec, rem, lost>>

\* updateSmap: the nodes that fail the health check and its retries ...
Unresponsive(p) ==
    /\ Up(p) /\ Primary(p) /\ ~({m \in smap[p].in : ~Reach(p, m)} \subseteq rem[p])
    /\ rem' = [rem EXCEPT ![p] = @ \cup {m \in smap[p].in : ~Reach(p, m)}]
    /\ UNCHANGED <<smap, down, cut, silent, obs, elec, lost>>

\* ... are removed under the Smap's lock, if p is still primary; toRemoveCh is
\* left as it is when p is not
Remove(p) ==
    /\ Up(p) /\ rem[p] # {} /\ Primary(p)
    /\ smap' = [smap EXCEPT ![p].in = @ \ rem[p],
                            ![p].ver = @ + Cardinality(rem[p] \cap smap[p].in)]
    /\ rem' = [rem EXCEPT ![p] = {}]
    /\ UNCHANGED <<down, cut, silent, obs, elec, lost>>

-----------------------------------------------------------------------------
Observe(n) == PrimaryDown(n) \/ Candidate(n)

Elect(p) ==
    \/ Ping(p) \/ Elected(p) \/ NotElected(p) \/ Confirmed(p) \/ Become(p)
    \/ \E m \in Nodes : Vote(p, m) \/ Confirm(p, m)

Lead(p) == Unresponsive(p) \/ Remove(p) \/ (\E m \in Nodes : Metasync(p, m))

VNext ==
    \/ \E n \in Nodes : Crash(n) \/ Silence(n) \/ HeardFrom(n) \/ Observe(n)
    \/ \E a, b \in Nodes : Cut(a, b)
    \/ \E p \in Proxies : Elect(p) \/ Lead(p)

VSpec == VInit /\ [][VNext]_votevars

\* every node that is up runs its keepalive, its election and its metasyncer, and
\* time passes
VFairSpec ==
    /\ VSpec
    /\ \A n \in Nodes : WF_votevars(Silence(n) \/ Observe(n))
    /\ \A p \in Proxies : WF_votevars(Elect(p)) /\ WF_votevars(Lead(p))

-----------------------------------------------------------------------------
(* Properties *)

Leaders == {p \in Proxies : Up(p) /\ Primary(p)}

\* no proxy has lost its connection to the first primary, which is up; targets may have
Calm == Up(First) /\ \A p \in Proxies : {First, p} \notin cut

\* onPrimaryDown, elect, _votedPrimary, updateSmap: whatever nodes stop, if no connection and
\* no answer is lost there is never more than one primary, and nobody drops a node that is up
\* from its Smap (_becomePre asserts that the new primary is in the Smap it publishes).
\* With connections and answers lost: a primary that every proxy can reach is not replaced,
\* though targets that cannot reach it ask for elections
OneLeader ==
    /\ NetFaults = 0 => /\ \A p, q \in Leaders : p = q
                        /\ \A n \in Nodes : Nodes \ down \subseteq smap[n].in
    /\ Calm => Leaders = {First}

\* docs/ha.md: "Only one gateway acts as the primary; all others are non-primaries."
\* It does not hold once an answer is lost: the node that waits for it takes the candidate
\* for dead and goes on to the next one, and nodes vote for both
OnlyOnePrimary == \A p, q \in Leaders : p = q \/ {p, q} \in cut

\* synchronize, modify: the version of a node's Smap never decreases
VersionsGrow == [][\A n \in Nodes : smap'[n].ver >= smap[n].ver]_votevars

Agreed ==
    \E p \in Proxies \ down :
       \A n \in Nodes \ down : smap[n] = smap[p] /\ smap[n].prim = p /\ smap[n].in \cap down = {}

\* onPrimaryDown, elect, updateSmap: a cluster that loses one node, and no connection or
\* answer, ends with one primary, which is up, and with the same Smap without the lost
\* node everywhere
Failover == <>[](Agreed \/ Cardinality(down) > 1 \/ NetFaults > 0)
=============================================================================
