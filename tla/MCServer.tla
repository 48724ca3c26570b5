------------------------------ MODULE MCServer ------------------------------
(***************************************************************************)
(* Instances of the server model for TLC.  Every account starts with the   *)
(* program's 10 units, and the amounts are chosen so that some transfers   *)
(* can only be paid once, or only after another one.                       *)
(***************************************************************************)
EXTENDS ServerProps, TLC

CONSTANTS s1, s2, s3, s4, a, b, c, x, t1, t2

Transfer(from, to, n) == [sender |-> from, receiver |-> to, amount |-> n]

(* One cluster with accounts a, b and c; x belongs to a remote cluster     *)
(* whose servers are not part of the instance.                             *)
OneCluster == [s \in Server |-> 1]
Shards == [k \in Account |-> IF k = x THEN 2 ELSE 1]

(* Two clusters of two servers: s1, s2 store a, b, c and s3, s4 store x. *)
TwoClusters == [s \in Server |-> IF s \in {s1, s2} THEN 1 ELSE 2]

(* Two intra-shard transfers that conflict on b; the second needs the      *)
(* money of the first.                                                     *)
IntraTxns == t1 :> Transfer(a, b, 6) @@ t2 :> Transfer(b, c, 12)

(* One cross-shard transfer out of a. *)
OneCrossTxn == t1 :> Transfer(a, x, 6)

(* A cross-shard transfer out of a and one into a. *)
CrossTxns == t1 :> Transfer(a, x, 6) @@ t2 :> Transfer(x, a, 6)

(* A cross-shard and an intra-shard transfer out of the same account. *)
MixedTxns == t1 :> Transfer(a, x, 6) @@ t2 :> Transfer(a, b, 6)

(* Fault budgets. *)
Only(f) == f @@ [k \in FaultKind |-> 0]

NoFaults      == [k \in FaultKind |-> 0]
OneTimeout    == Only("lock_timeout" :> 1)
OneRestart    == Only("restart" :> 1)
OneUnreachable == Only("UNAVAILABLE" :> 1)
Outage        == Only("DEADLINE_EXCEEDED" :> Unlimited @@ "lock_timeout" :> Unlimited
                        @@ "disconnect" :> 1)

(* Bound on the calls under way between servers. *)
FourCalls == MapThenSumSet(LAMBDA s : Cardinality(srv[s].outcalls), Server) <= 4

(* The servers that are never leaders are interchangeable. *)
Peers == Permutations({s2, s3})
=============================================================================
