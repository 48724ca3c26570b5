------------------------------ MODULE Sharding ------------------------------
(***************************************************************************)
(* The arithmetic that assigns accounts and servers to clusters            *)
(* (src/src/utils/utils.cc).  Ids count from 1.  The program divides as    *)
(* double and rounds up; the quotients are exact enough for the ids it     *)
(* has, so the model divides integers and rounds up.                       *)
(***************************************************************************)
EXTENDS Integers

CONSTANTS
  total_clients,  \* accounts
  num_clusters,
  cluster_size    \* servers per cluster

ASSUME ShardingAssumption ==
  /\ total_clients \in Nat \ {0}
  /\ num_clusters \in Nat \ {0}
  /\ cluster_size \in Nat \ {0}

(* ceil((double) m / n) *)
CeilDiv(m, n) == (m + n - 1) \div n

getClusterIdFromClientId(id) == CeilDiv(id * num_clusters, total_clients)

getClusterIdFromServerId(id) == CeilDiv(id, cluster_size)

getServersInCluster(k) ==
  {id \in 1..(num_clusters * cluster_size) : getClusterIdFromServerId(id) = k}
=============================================================================
