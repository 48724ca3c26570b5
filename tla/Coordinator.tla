---------------------------- MODULE Coordinator ----------------------------
(***************************************************************************)
(* What the coordinator of two-phase commit promises, without its threads, *)
(* calls and counters: a cluster votes once per transaction, the           *)
(* coordinator decides once, after all votes, commit iff all are ack, and  *)
(* then asks every server of the clusters that take part.                  *)
(***************************************************************************)
EXTENDS Types

VARIABLES
  votes,     \* [Tid -> [Cluster -> Vote]]
  outcome,   \* [Tid -> {"none", "commit", "abort"}]
  decisions  \* requests under way, <<server, tid>>

cvars == <<votes, outcome, decisions>>

Cluster == {AccountCluster[a] : a \in Account}
Vote == {"none", "ack", "nack"}

(* The servers that have to learn the outcome of t. *)
Informed(t) == {s \in Server : ServerCluster[s] \in Participants(t)}

CoordinatorInit ==
  /\ votes = [t \in Tid |-> [k \in Cluster |-> "none"]]
  /\ outcome = [t \in Tid |-> "none"]
  /\ decisions = {}

(* Some clusters vote; a vote is never changed. *)
CastVotes ==
  /\ votes' \in [Tid -> [Cluster -> Vote]]
  /\ \A t \in Tid, k \in Cluster :
       votes[t][k] # "none" => votes'[t][k] = votes[t][k]
  /\ UNCHANGED <<outcome, decisions>>

Decide(t, d) ==
  /\ IsCrossShard(t)
  /\ outcome[t] = "none"
  /\ \A k \in Participants(t) : votes[t][k] # "none"
  /\ d = IF \A k \in Participants(t) : votes[t][k] = "ack" THEN "commit" ELSE "abort"
  /\ outcome' = [outcome EXCEPT ![t] = d]
  /\ decisions' = decisions \cup (Informed(t) \X {t})
  /\ UNCHANGED votes

(* A request reaches its server, or is lost. *)
Deliver(s, t) ==
  /\ <<s, t>> \in decisions
  /\ decisions' = decisions \ {<<s, t>>}
  /\ UNCHANGED <<votes, outcome>>

CoordinatorNext ==
  \/ CastVotes
  \/ \E t \in Tid, d \in {"commit", "abort"} : Decide(t, d)
  \/ \E s \in Server, t \in Tid : Deliver(s, t)

CoordinatorSpec == CoordinatorInit /\ [][CoordinatorNext]_cvars
=============================================================================
