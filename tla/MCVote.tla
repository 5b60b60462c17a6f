------------------------------- MODULE MCVote -------------------------------
(* Three gateways and one or three targets, or two gateways and a target *)
EXTENDS Vote, TLC
CONSTANTS p1, p2, p3, t1, t2, t3
MCRank == p1 :> 1 @@ p2 :> 3 @@ p3 :> 2
MCRank2 == p1 :> 1 @@ p2 :> 2

\* VoteSplit.cfg: only the first primary stops, only an answer is lost, and the proxies
\* notice first
Split == cut = {} /\ down \subseteq {First} /\ \A n \in Targets : ~obs[n].on
SameTargets == Permutations(Targets)
=============================================================================
