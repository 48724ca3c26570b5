---------------------------- MODULE ServerProps ----------------------------
(***************************************************************************)
(* What the servers of Server.tla are meant to guarantee.  The first part  *)
(* holds; the second part states claims of the repository's documents that *)
(* the code does not keep.                                                 *)
(***************************************************************************)
EXTENDS Server

(***************************************************************************)
(* Properties.                                                             *)
(***************************************************************************)

(* Every variable keeps its type; in particular no handler leaves a batch, *)
(* an OutCall or a log entry of a shape another handler cannot read.       *)
TypeOK ==
  /\ srv \in [Server -> ServerState]
  /\ \A s \in Server :
       /\ IsFiniteSet(srv[s].outcalls)
       /\ \A t \in Tid : srv[s].transferIndex[t] <= Len(srv[s].log)
  /\ tpc \in [Tid -> {"none", "commit", "abort"}]
  /\ decisions \subseteq Server \X Tid
  /\ budget \in [FaultKind -> Nat \cup {Unlimited}]

(* paxos_index is the number of Paxos entries in this server's log minus   *)
(* one, whichever of the four append paths put them there and in whatever  *)
(* order with 2PC decisions and lock timeouts, and last_inserted points    *)
(* between it and the end of the log.                                      *)
PaxosIndexCounts ==
  \A s \in Server :
    LET r == srv[s] IN
    /\ r.paxos_index + 1 = Cardinality(PaxosPositions(r.log))
    /\ r.paxos_index <= r.last_inserted
    /\ r.last_inserted < Len(r.log)

(* maybeStartRound returns early when a round runs or a sync is under way, *)
(* so whoever ends the round or the sync must start the next one: a queued *)
(* command is always behind a round or a sync, a running round waits in    *)
(* one of its phases or for a sync, and a sync has its call open.          *)
NoLostWakeup ==
  \A s \in Server :
    LET r == srv[s] IN
    /\ r.pending # <<>> => r.is_paxos_running \/ r.in_sync
    /\ r.is_paxos_running =>
         r.await_prepare_decision \/ r.await_accept_decision \/ r.in_sync
    /\ r.in_sync => \E c \in r.outcalls : c.type = "SYNC" /\ c.open

(* A client call is parked exactly while its transaction sits in pending_  *)
(* or current_, and there only once: no call is forgotten, and none is     *)
(* left for a second completeTransfer after it was answered and deleted.   *)
ParkedCalls ==
  \A s \in Server :
    LET r == srv[s]
        q == r.current \o r.pending
    IN  /\ \A t \in Tid : r.incall[t] = "parked" <=> t \in Range(q)
        /\ \A i, j \in DOMAIN q : q[i] = q[j] => i = j
        /\ r.is_paxos_running <=> r.current # <<>>

(* completeTransfer runs at most once for a client's call, and never for   *)
(* one of an earlier process: it deletes the InCall, so a second answer,   *)
(* the same or another, would use freed memory.                            *)
AnsweredOnce ==
  [][\A s \in Server, t \in Tid :
       /\ srv[s].incall[t] \in {"ack", "nack", "lost"} => srv'[s].incall[t] = srv[s].incall[t]
       /\ srv'[s].incall[t] # "freed"]_vars

(* While a leader waits for a quorum, the votes counted and the votes      *)
(* still to come add up to at least the whole cluster, so that one of the  *)
(* two quorums of handlePrepareReply and handleAcceptReply must be         *)
(* reached.                                                                *)
VotesAccounted ==
  \A s \in Server :
    LET r == srv[s]
        out(type, b) == Cardinality({c \in r.outcalls :
                          c.open /\ c.type = type /\ c.req.ballot = b})
        all == Cardinality(Stubs(s)) + 1
    IN  /\ r.await_prepare_decision =>
             r.prepare_successes + r.prepare_failures
               + out("PREPARE", r.promised_num) >= all
        /\ r.await_accept_decision =>
             r.accept_successes + r.accept_failures
               + out("ACCEPT", r.accept_num) >= all

CommittedIn(log) ==
  {log[i].tid : i \in {j \in DOMAIN log : log[j].status = "COMMITTED"}}

(* Whatever mixture of commits, 2PC decisions and syncs a server has seen, *)
(* and however often an entry was shipped to it, each account holds its    *)
(* initial balance plus the transactions committed in the log, each        *)
(* counted once.                                                           *)
BalancesMatchLog ==
  \A s \in Server, k \in Account :
    LET done == CommittedIn(srv[s].log) IN
    IsClientInCluster(s, k) =>
      srv[s].balances[k] = InitialBalance + Credits(done, k) - Debits(done, k)

(* Replaying the WAL at any handler boundary rebuilds the transferIndex    *)
(* that is in memory: a restart neither forgets a prepared transaction nor *)
(* revives a decided one.                                                  *)
RecoveryRestoresIndex ==
  \A s \in Server : RecoveredIndex(srv[s].log) = srv[s].transferIndex

(* A client that was answered ack finds its transaction in the WAL of the  *)
(* server that answered, as a commit (intra-shard) or a 2PC prepare        *)
(* (cross-shard), also after restarts, syncs and lock timeouts.            *)
DurableVotes ==
  \A s \in Server, t \in Tid :
    srv[s].incall[t] = "ack" =>
      \E i \in PaxosPositions(srv[s].log) : srv[s].log[i].tid = t

(* No server applies or logs as committed a cross-shard transaction that   *)
(* the coordinator has not decided to commit, directly or through a sync   *)
(* from a peer.                                                            *)
CommitOnlyIfDecided ==
  \A s \in Server, t \in Tid :
    IsCrossShard(t) /\ t \in CommittedIn(srv[s].log) \cup srv[s].balance_applied
      => tpc[t] = "commit"

(* Every parked client call is answered. *)
EventuallyAnswered ==
  \A s \in Leaders, t \in Tid :
    srv[s].incall[t] = "parked" ~> srv[s].incall[t] # "parked"

(* A transaction that a server prepared in a round, as its leader or on an *)
(* Accept, is eventually closed there, by the coordinator's decision or by *)
(* the lock timeout.  Those are the prepares with an entry in              *)
(* prepareTimestamps; EveryPreparedClosed below is about all of them.      *)
PreparedEventuallyClosed ==
  \A s \in Server, t \in Tid :
    t \in srv[s].prepareTimestamps ~> srv[s].transferIndex[t] = 0

(* The accounts of the shards, each as its cluster's leader holds it. *)
LeaderTotal ==
  MapThenSumSet(LAMBDA s :
      MapThenSumSet(LAMBDA k : srv[s].balances[k], Account), Leaders)

(* Nothing is under way: no peer call, no decision, no parked client and   *)
(* no transaction the coordinator has yet to decide.                       *)
Quiet ==
  /\ decisions = {}
  /\ \A s \in Server :
       /\ srv[s].outcalls = {}
       /\ \A t \in Tid : srv[s].incall[t] # "parked" /\ srv[s].transferIndex[t] = 0

(* Two-phase commit moves money between the clusters without creating or   *)
(* destroying any: once everything is quiet the leaders' shards add up to  *)
(* the initial total.                                                      *)
MoneyConserved ==
  Quiet => LeaderTotal = InitialBalance * Cardinality(Account)

(* The votes as the clusters' answers to the client. *)
ClusterVotes ==
  [t \in Tid |-> [k \in {AccountCluster[a] : a \in Account} |->
     IF Voted(t, k, "ack") THEN "ack"
     ELSE IF Voted(t, k, "nack") THEN "nack" ELSE "none"]]

(* Where every cluster is part of the instance, the servers together with  *)
(* ClientDecide behave as the coordinator of Coordinator.tla, which the    *)
(* client of Client.tla implements: a cluster never changes its vote, and  *)
(* the decision reaches only servers, and only after all votes.            *)
Abstract == INSTANCE Coordinator WITH votes <- ClusterVotes, outcome <- tpc

ServersFollowCoordinator == Abstract!CoordinatorSpec

-----------------------------------------------------------------------------
(***************************************************************************)
(* What the repository's documents claim and the code does not do.         *)
(***************************************************************************)

(* README.md:77: "Ballot number: Monotonically increasing integer". *)
BallotMonotone ==
  [][\A s \in Server : srv'[s].ballot_num >= srv[s].ballot_num]_vars

PaxosLog(s) == Select(srv[s].log, PaxosPositions(srv[s].log))

(* server.h:149: "last_inserted (raw log index) drifts between replicas    *)
(* [...]; paxos_index does not": replicas of a cluster hold the same Paxos *)
(* entry at the same paxos_index.                                          *)
PaxosIndexAgrees ==
  \A p, q \in Server : ServerCluster[p] = ServerCluster[q] =>
    \A i \in DOMAIN PaxosLog(p) \cap DOMAIN PaxosLog(q) :
      PaxosLog(p)[i].tid = PaxosLog(q)[i].tid

(* README.md:192: "Every time a server records a `CS_PREPARE`, it stores   *)
(* the current time", so that no lock is held for ever.  A prepare that a  *)
(* server took from a peer (server.cc:648, wal.cc:238) or read back from   *)
(* its WAL on a restart has no entry in prepareTimestamps and never times  *)
(* out: only a decision of the client closes it.                           *)
EveryPreparedClosed ==
  \A s \in Server, t \in Tid :
    srv[s].transferIndex[t] # 0 ~> srv[s].transferIndex[t] = 0

(* CHANGES.md:341: "each tid's balance effect applies at most once per     *)
(* server", also when the server restarts in between.                      *)
AppliedAtMostOnce == BalancesMatchLog

(* server.h:113: "quorum needs only 1 of 2 peers, so a live peer still     *)
(* finishes the round": with one peer unreachable a running round still    *)
(* has a call open whose outcome can end it.                               *)
LivePeerFinishesRound ==
  \A s \in Leaders :
    srv[s].is_paxos_running => \E c \in srv[s].outcalls : c.open

(* CHANGES.md:343: "a cross-shard txn commits on both clusters or          *)
(* neither".                                                               *)
TpcAtomicity ==
  \A p, q \in Server, t \in Tid : ServerCluster[p] # ServerCluster[q] =>
    ~ (\E i \in DOMAIN srv[p].log, j \in DOMAIN srv[q].log :
          /\ srv[p].log[i].tid = t /\ srv[p].log[i].status = "COMMITTED"
          /\ srv[q].log[j].tid = t /\ srv[q].log[j].status = "ABORTED")
=============================================================================
