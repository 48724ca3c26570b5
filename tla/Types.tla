------------------------------- MODULE Types -------------------------------
(***************************************************************************)
(* The data every component shares: who the servers are, how accounts and  *)
(* servers are sharded into clusters, the transactions, ballots and WAL    *)
(* entries (src/src/types/types.h, src/src/proto/tpc.proto,                *)
(* src/src/utils/utils.cc), and the few pure operators on them.            *)
(*                                                                         *)
(* A transaction's sender, receiver and amount never change once the       *)
(* client has drawn its tid, and every message and log entry that carries  *)
(* the transaction carries the tid as well.  The model therefore passes    *)
(* the tid alone and looks the rest up in Txn.                             *)
(***************************************************************************)
EXTENDS Integers, Sequences, FiniteSets, FiniteSetsExt

CONSTANTS
  Server,          \* the server processes
  Account,         \* the client accounts (ids 1 .. 3000 in the program)
  Tid,             \* the transactions the clients issue
  NoServer,        \* the server_id of a Ballot nobody has set
  ServerCluster,   \* [Server -> cluster id],  getClusterIdFromServerId
  AccountCluster,  \* [Account -> cluster id], getClusterIdFromClientId
  Txn,             \* [Tid -> transaction]
  InitialBalance   \* the balance of an account on the first run (10)

ASSUME TypesAssumption ==
  /\ IsFiniteSet(Server) /\ IsFiniteSet(Account) /\ IsFiniteSet(Tid)
  /\ NoServer \notin Server
  /\ DOMAIN ServerCluster = Server
  /\ DOMAIN AccountCluster = Account
  /\ Txn \in [Tid -> [sender : Account, receiver : Account, amount : Nat]]
  /\ InitialBalance \in Int

Ballot == [num : Nat, server_id : Server \cup {NoServer}]

NoBallot == [num |-> 0, server_id |-> NoServer]

(* isClientInCluster: account a belongs to the shard of server s. *)
IsClientInCluster(s, a) == AccountCluster[a] = ServerCluster[s]

(* The accounts of transaction t that server s stores. *)
LocalAccounts(s, t) ==
  {a \in {Txn[t].sender, Txn[t].receiver} : IsClientInCluster(s, a)}

(* A transaction between two shards runs under two-phase commit. *)
IsCrossShard(t) ==
  AccountCluster[Txn[t].sender] # AccountCluster[Txn[t].receiver]

(* The clusters that take part in t. *)
Participants(t) ==
  {AccountCluster[Txn[t].sender], AccountCluster[Txn[t].receiver]}

(* The stubs of server s: its peers in the same cluster. *)
Stubs(s) == {p \in Server \ {s} : ServerCluster[p] = ServerCluster[s]}

(***************************************************************************)
(* WAL entries.  The type (INTRA or CROSS) is a function of the tid.       *)
(***************************************************************************)
Status == {"PREPARED", "COMMITTED", "ABORTED"}

WALEntry == [tid : Tid, ballot : Ballot, status : Status]

Entry(t, b, st) == [tid |-> t, ballot |-> b, status |-> st]

(* Entries agreed through Paxos: intra-shard commits and 2PC prepares. *)
IsPaxosEntry(e) ==
  IF IsCrossShard(e.tid) THEN e.status = "PREPARED"
                         ELSE e.status = "COMMITTED"

PaxosPositions(log) == {i \in DOMAIN log : IsPaxosEntry(log[i])}

(***************************************************************************)
(* The money that the transactions ts take out of, and put into, account   *)
(* a, counted unit by unit.                                                *)
(***************************************************************************)
Units(ts) == UNION {{t} \X (1..Txn[t].amount) : t \in ts}

Debits(ts, a)  == Cardinality({u \in Units(ts) : Txn[u[1]].sender = a})
Credits(ts, a) == Cardinality({u \in Units(ts) : Txn[u[1]].receiver = a})

(***************************************************************************)
(* Select(seq, I) is the subsequence of seq at the positions in I.  A loop *)
(* of the program that pushes some of the elements it visits builds one.   *)
(***************************************************************************)
Nth(I, k) == CHOOSE i \in I : Cardinality({j \in I : j <= i}) = k

Select(seq, I) == [k \in 1..Cardinality(I) |-> seq[Nth(I, k)]]
=============================================================================
