----------------------------- MODULE MCDurable -----------------------------
(***************************************************************************)
(* Instances of the durable state for TLC: one server with accounts acc1   *)
(* and acc2, acc3 on another shard; an intra-shard transfer of all of      *)
(* acc1's money and a cross-shard one, both with an amount of two digits.  *)
(***************************************************************************)
EXTENDS DurableProps

CONSTANTS s1, acc1, acc2, acc3, t1, t2

OneServer == [s \in Server |-> 1]
Shards == [k \in Account |-> IF k = acc3 THEN 2 ELSE 1]

Transfers ==
  [t \in Tid |-> IF t = t1 THEN [sender |-> acc1, receiver |-> acc2, amount |-> 10]
                           ELSE [sender |-> acc2, receiver |-> acc3, amount |-> 12]]
=============================================================================
