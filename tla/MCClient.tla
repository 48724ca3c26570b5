------------------------------ MODULE MCClient ------------------------------
(***************************************************************************)
(* The client on a small cluster for TLC: four accounts in two clusters,   *)
(* three servers, two of them in the first cluster.  Set 1 has an          *)
(* intra-shard and a cross-shard transfer, set 2 one inside the second     *)
(* cluster, whose server acts disconnected by then.                        *)
(***************************************************************************)
EXTENDS ClientProps, Sharding

CONSTANTS t1, t2, t3

AccountShards == [a \in Account |-> getClusterIdFromClientId(a)]
ServerShards == [s \in Server |-> getClusterIdFromServerId(s)]

Transfer(from, to) == [sender |-> from, receiver |-> to, amount |-> 1]

Transfers ==
  [t \in Tid |-> CASE t = t1 -> Transfer(1, 2)
                   [] t = t2 -> Transfer(2, 4)
                   [] OTHER  -> Transfer(4, 3)]

File ==
  <<[set_no |-> 1, tid |-> t1, servers |-> Server, leaders |-> {1, 3}],
    [set_no |-> 0, tid |-> t2, servers |-> {}, leaders |-> {}],
    [set_no |-> 2, tid |-> t3, servers |-> {1, 2}, leaders |-> {2, 3}]>>
=============================================================================
