------------------------------- MODULE Server -------------------------------
(***************************************************************************)
(* The servers of the store: batched Multi-Paxos inside a cluster, the     *)
(* two-phase-commit participant, catch-up sync, lock timeouts, simulated   *)
(* disconnection and restart (src/src/server/).                            *)
(*                                                                         *)
(* A server is one thread that runs one handler at a time                  *)
(* (ServerImpl::HandleRPCs), so a handler is one atomic action.  Handlers  *)
(* of different servers, requests, replies, deadlines and lock timeouts    *)
(* interleave freely.  srv[s] is the memory of ServerImpl on server s,     *)
(* with the fields of the class.  The WAL file holds the lines of log and  *)
(* LevelDB holds ballot_num and balances whenever no handler runs, so the  *)
(* durable state has no variables of its own here.                         *)
(***************************************************************************)
EXTENDS Types

CONSTANTS
  Leaders,    \* the servers a client may name as leader of their cluster
  MaxBallot,  \* bound on the ballot numbers explored
  Budget      \* bound on each kind of fault explored, or Unlimited

VARIABLES
  srv,        \* [Server -> ServerState]
  tpc,        \* [Tid -> the coordinator's decision]
  decisions,  \* TpcCommit and TpcAbort requests in flight, <<server, tid>>
  budget      \* the faults that may still happen

vars == <<srv, tpc, decisions, budget>>

FaultKind ==
  {"DEADLINE_EXCEEDED", "UNAVAILABLE", "disconnect", "restart", "lock_timeout"}

Unlimited == -1

ASSUME ServerAssumption ==
  /\ Leaders \subseteq Server
  /\ MaxBallot \in Nat
  /\ Budget \in [FaultKind -> Nat \cup {Unlimited}]

(* ServerImpl::MAJORITY, whatever the size of the cluster. *)
MAJORITY == 2

-----------------------------------------------------------------------------
(***************************************************************************)
(* State.                                                                  *)
(***************************************************************************)

(* An optional protobuf field that is not set. *)
Unset == -1

(* A position counted from 0, as the program does; -1 before the first. *)
Index == Nat \cup {-1}

(* The ballot of a proposal names its proposer. *)
Proposal == [num : Nat, server_id : Server]

PrepareReq == [ballot : Proposal, paxos_index : Index]
AcceptReq  == [ballot : Ballot, batch : Seq(Tid)]
CommitReq  == [ballot : Ballot]
SyncReq    == [last_inserted : Index]

(* Every response repeats the ballot of its request, which the OutCall     *)
(* holds anyway.  The accept_num and accept_val that an acknowledged       *)
(* Prepare returns are left out: no code reads them.                       *)
PrepareRes == [ack : BOOLEAN, latest_ballot_num : Nat \cup {Unset},
               paxos_index : Index]
AcceptRes  == [ack : BOOLEAN]
SyncRes    == [ack : BOOLEAN, logs : Seq(WALEntry), last_inserted_ballot : Ballot]

(* The reply messages as protobuf initialises them. *)
NoReply(type) ==
  CASE type = "PREPARE" -> [ack |-> FALSE, latest_ballot_num |-> Unset, paxos_index |-> Unset]
    [] type = "SYNC"    -> [ack |-> FALSE, logs |-> <<>>, last_inserted_ballot |-> NoBallot]
    [] OTHER            -> [ack |-> FALSE]

(* An OutCall: a request to a peer, whether the peer has handled it, the   *)
(* reply, and whether the caller still waits (open; nobody waits for a     *)
(* Commit).  copy tells apart two outstanding calls with the same          *)
(* contents.                                                               *)
Call(type, Req, Res) ==
  [type : {type}, to : Server, req : Req,
   copy : Nat, open : BOOLEAN, handled : BOOLEAN, reply : Res]

OutCall ==
  Call("PREPARE", PrepareReq, PrepareRes) \cup Call("ACCEPT", AcceptReq, AcceptRes)
    \cup Call("COMMIT", CommitReq, AcceptRes) \cup Call("SYNC", SyncReq, SyncRes)

(* A client's InCall for a transaction: parked in the batch, answered (and *)
(* deleted then), lost with the process that held it, or used after it was *)
(* deleted.                                                                *)
InCallStatus == {"none", "parked", "ack", "nack", "lost", "freed"}

ServerState ==
  [ballot_num : Nat, promised : BOOLEAN, promised_num : Ballot,
   accepted : BOOLEAN, accept_num : Ballot, accept_batch : Seq(Tid),
   pending : Seq(Tid), current : Seq(Tid),
   is_paxos_running : BOOLEAN, in_sync : BOOLEAN,
   await_prepare_decision : BOOLEAN, await_accept_decision : BOOLEAN,
   prepare_successes : Nat, prepare_failures : Nat,
   accept_successes : Nat, accept_failures : Nat,
   locks : SUBSET Account, balances : [Account -> Int],
   balance_applied : SUBSET Tid, prepareTimestamps : SUBSET Tid,
   log : Seq(WALEntry), transferIndex : [Tid -> Nat],
   last_inserted : Index, last_inserted_ballot : Ballot, paxos_index : Index,
   i_am_disconnected : BOOLEAN,
   outcalls : SUBSET OutCall, incall : [Tid -> InCallStatus]]

(* ServerImpl::ServerImpl and the first run() with no files on disk. *)
InitState(s) ==
  [ballot_num |-> 0, promised |-> FALSE, promised_num |-> NoBallot,
   accepted |-> FALSE, accept_num |-> NoBallot, accept_batch |-> <<>>,
   pending |-> <<>>, current |-> <<>>,
   is_paxos_running |-> FALSE, in_sync |-> FALSE,
   await_prepare_decision |-> FALSE, await_accept_decision |-> FALSE,
   prepare_successes |-> 0, prepare_failures |-> 0,
   accept_successes |-> 0, accept_failures |-> 0,
   locks |-> {},
   balances |-> [a \in Account |->
                   IF IsClientInCluster(s, a) THEN InitialBalance ELSE 0],
   balance_applied |-> {}, prepareTimestamps |-> {},
   log |-> <<>>, transferIndex |-> [t \in Tid |-> 0],
   last_inserted |-> -1, last_inserted_ballot |-> NoBallot, paxos_index |-> -1,
   i_am_disconnected |-> FALSE,
   outcalls |-> {}, incall |-> [t \in Tid |-> "none"]]

-----------------------------------------------------------------------------
(***************************************************************************)
(* Parts of handlers, as operators from the state r of server s to its     *)
(* next state.                                                             *)
(***************************************************************************)

(* InCall::completeTransfer for each call of a batch.  A call that was     *)
(* completed, or is in the batch twice, is a pointer to freed memory.      *)
Once(batch, t) == \A i, j \in DOMAIN batch : batch[i] = t /\ batch[j] = t => i = j

CompleteTransfer(r, batch, answer) ==
  [r EXCEPT !.incall =
     [t \in Tid |-> IF t \notin Range(batch) THEN @[t]
                    ELSE IF @[t] \in {"none", "parked"} /\ Once(batch, t) THEN answer
                    ELSE "freed"]]

NewCall(r, type, to, req) ==
  LET same == {c \in r.outcalls : c.type = type /\ c.to = to /\ c.req = req}
  IN  [type |-> type, to |-> to, req |-> req,
       copy |-> CHOOSE n \in 0..Cardinality(same) : \A c \in same : c.copy # n,
       open |-> type # "COMMIT", handled |-> FALSE, reply |-> NoReply(type)]

Send(r, type, peers, req) ==
  [r EXCEPT !.outcalls = @ \cup {NewCall(r, type, p, req) : p \in peers}]

(* Mutant of StartSync: asks from one entry too early. *)
StartSyncEarly(r, p) ==
  Send([r EXCEPT !.in_sync = TRUE], "SYNC", {p},
       [last_inserted |-> r.last_inserted - 1])

(* sendSync with this server's raw log position, to server p. *)
StartSync(r, p) ==
  Send([r EXCEPT !.in_sync = TRUE], "SYNC", {p},
       [last_inserted |-> r.last_inserted])

LogEntries(ts, b, st) == [i \in DOMAIN ts |-> Entry(ts[i], b, st)]

(* The balances of the local accounts after the transactions ts. *)
Apply(r, s, ts) ==
  [a \in Account |->
     IF IsClientInCluster(s, a)
     THEN r.balances[a] + Credits(ts, a) - Debits(ts, a)
     ELSE r.balances[a]]

(* prepareTransaction for each transaction of ts in turn. *)
PrepareTransactions(r, ts, b) ==
  IF ts = <<>> THEN r ELSE
  [r EXCEPT
     !.log = @ \o LogEntries(ts, b, "PREPARED"),
     !.transferIndex = [t \in Tid |->
        IF t \in Range(ts)
        THEN Len(r.log) + (CHOOSE i \in DOMAIN ts : ts[i] = t)
        ELSE @[t]],
     !.last_inserted = Len(r.log) + Len(ts) - 1,
     !.last_inserted_ballot = b,
     !.paxos_index = @ + Len(ts),
     !.prepareTimestamps = @ \cup Range(ts)]

(* commitTransaction for each transaction of ts in turn: one that was      *)
(* applied before is skipped.                                              *)
CommitTransactions(r, s, ts, b) ==
  LET new == Select(ts, {i \in DOMAIN ts : ts[i] \notin r.balance_applied})
  IN  IF new = <<>> THEN r ELSE
      [r EXCEPT
         !.balance_applied = @ \cup Range(new),
         !.log = @ \o LogEntries(new, b, "COMMITTED"),
         !.balances = Apply(r, s, Range(new)),
         !.last_inserted = Len(r.log) + Len(new) - 1,
         !.last_inserted_ballot = b,
         !.paxos_index = @ + Len(new)]

(* Mutant of CloseTransaction: transferIndex.erase is forgotten. *)
CloseKeepsIndex(r, s, t, st) ==
  [r EXCEPT
     !.log = Append(@, Entry(t, r.log[r.transferIndex[t]].ballot, st)),
     !.locks = @ \ LocalAccounts(s, t)]

(* Mutant of CloseTransaction: a 2PC decision bumps paxos_index. *)
CloseCounts(r, s, t, st) ==
  [r EXCEPT
     !.log = Append(@, Entry(t, r.log[r.transferIndex[t]].ballot, st)),
     !.transferIndex[t] = 0,
     !.paxos_index = @ + 1,
     !.locks = @ \ LocalAccounts(s, t)]

(* WAL::commitTransaction(TpcTid) and WAL::abortTransaction(TpcTid): close *)
(* a prepared transaction with an entry that repeats the ballot of its     *)
(* CS_PREPARE line.  The server then pushes the entry and frees the locks. *)
CloseTransaction(r, s, t, st) ==
  [r EXCEPT
     !.log = Append(@, Entry(t, r.log[r.transferIndex[t]].ballot, st)),
     !.transferIndex[t] = 0,
     !.locks = @ \ LocalAccounts(s, t)]

(* Mutant of ReissuePrepareForCurrent: the counters of the last attempt    *)
(* are kept and the leader's own vote is not counted.                      *)
ReissueKeepsVotes(r, s) ==
  LET ballot == [num |-> r.ballot_num + 1, server_id |-> s]
  IN  Send([r EXCEPT !.ballot_num = ballot.num,
                     !.promised = TRUE,
                     !.promised_num = ballot,
                     !.await_prepare_decision = TRUE,
                     !.await_accept_decision = FALSE],
           "PREPARE", Stubs(s), [ballot |-> ballot, paxos_index |-> r.paxos_index])

ReissuePrepareForCurrent(r, s) ==
  LET ballot == [num |-> r.ballot_num + 1, server_id |-> s]
  IN  Send([r EXCEPT !.ballot_num = ballot.num,
                     !.promised = TRUE,
                     !.promised_num = ballot,
                     !.await_prepare_decision = TRUE,
                     !.await_accept_decision = FALSE,
                     !.prepare_successes = 1,
                     !.prepare_failures = 0],
           "PREPARE", Stubs(s), [ballot |-> ballot, paxos_index |-> r.paxos_index])

(* Mutant of StartRound: current_ is copied from pending_, not swapped. *)
StartRoundKeepsPending(r, s) ==
  ReissuePrepareForCurrent(
    [r EXCEPT !.current = r.pending, !.is_paxos_running = TRUE], s)

StartRound(r, s) ==
  ReissuePrepareForCurrent(
    [r EXCEPT !.current = r.pending, !.pending = <<>>, !.is_paxos_running = TRUE], s)

MaybeStartRound(r, s) ==
  IF r.is_paxos_running \/ r.in_sync \/ r.pending = <<>>
  THEN r ELSE StartRound(r, s)

(* Mutant of FinishRound: pending_ is not drained. *)
FinishWithoutDrain(r, s) ==
  [r EXCEPT !.is_paxos_running = FALSE, !.promised = FALSE, !.accepted = FALSE,
            !.await_prepare_decision = FALSE, !.await_accept_decision = FALSE,
            !.current = <<>>, !.accept_batch = <<>>]

FinishRound(r, s) ==
  MaybeStartRound(
    [r EXCEPT !.is_paxos_running = FALSE, !.promised = FALSE, !.accepted = FALSE,
              !.await_prepare_decision = FALSE, !.await_accept_decision = FALSE,
              !.current = <<>>, !.accept_batch = <<>>], s)

(***************************************************************************)
(* The validation loop of onPrepareQuorum visits the entries of the batch  *)
(* in order.  An entry survives iff its local accounts are locked neither  *)
(* before the loop nor by an earlier survivor, and the sender, if local,   *)
(* can pay.  Survivors(r, s) holds the one set of positions that obeys     *)
(* this rule.                                                              *)
(***************************************************************************)
Valid(r, s, K, i) ==
  LET t == r.current[i] IN
  /\ LocalAccounts(s, t) \cap r.locks = {}
  /\ \A j \in K : j < i =>
       LocalAccounts(s, t) \cap LocalAccounts(s, r.current[j]) = {}
  /\ IsClientInCluster(s, Txn[t].sender) =>
       r.balances[Txn[t].sender] >= Txn[t].amount

Survivors(r, s) ==
  {K \in SUBSET DOMAIN r.current :
     \A i \in DOMAIN r.current : i \in K <=> Valid(r, s, K, i)}

(* onPrepareQuorum, with K the positions of the surviving entries. *)
OnPrepareQuorum(r, s, K) ==
  LET kept     == Select(r.current, K)
      dropped  == Select(r.current, DOMAIN r.current \ K)
      prepared == Select(r.current, {i \in K : IsCrossShard(r.current[i])})
      checked  ==
        PrepareTransactions(
          CompleteTransfer(
            [r EXCEPT !.await_prepare_decision = FALSE,
                      !.locks = @ \cup UNION {LocalAccounts(s, r.current[i]) : i \in K},
                      !.current = kept],
            dropped, "nack"),
          prepared, r.promised_num)
  IN  IF K = {} THEN FinishRound(checked, s) ELSE
      Send([checked EXCEPT !.accepted = TRUE,
                           !.accept_num = r.promised_num,
                           !.accept_batch = kept,
                           !.await_accept_decision = TRUE,
                           !.accept_successes = 1,
                           !.accept_failures = 0],
           "ACCEPT", Stubs(s), [ballot |-> r.promised_num, batch |-> kept])

(* Mutants of IntraEntries: the test of is_cross_shard is dropped, or      *)
(* inverted.                                                               *)
AllEntries(batch) == batch
WrongEntries(batch) == Select(batch, {i \in DOMAIN batch : IsCrossShard(batch[i])})

(* The entries of a batch that is_cross_shard leaves out, and the others. *)
IntraEntries(batch) == Select(batch, {i \in DOMAIN batch : ~IsCrossShard(batch[i])})

CrossEntries(batch) == Select(batch, {i \in DOMAIN batch : IsCrossShard(batch[i])})

LockedBy(s, batch) == UNION {LocalAccounts(s, t) : t \in Range(batch)}

OnAcceptQuorum(r, s) ==
  LET intra == IntraEntries(r.current)
      sent  == Send([r EXCEPT !.await_accept_decision = FALSE],
                    "COMMIT", Stubs(s), [ballot |-> r.accept_num])
  IN  FinishRound(
        CompleteTransfer(
          CommitTransactions([sent EXCEPT !.locks = @ \ LockedBy(s, intra)],
                             s, intra, r.accept_num),
          r.current, "ack"), s)

(* Mutant of OnRoundAbort: the calls of the batch are not answered. *)
AbortInSilence(r, s, prepare_phase) ==
  LET freed == IF prepare_phase THEN {} ELSE LockedBy(s, IntraEntries(r.current))
  IN  FinishRound([r EXCEPT !.locks = @ \ freed], s)

OnRoundAbort(r, s, prepare_phase) ==
  LET freed == IF prepare_phase THEN {} ELSE LockedBy(s, IntraEntries(r.current))
  IN  FinishRound(
        CompleteTransfer([r EXCEPT !.locks = @ \ freed],
                         r.current, "nack"), s)

(* Mutant of InsertEntries: balances move for every entry shipped, without *)
(* the balance_applied guard.                                              *)
InsertUnguarded(r, s, logs) ==
  LET at(t)     == {i \in DOMAIN logs : logs[i].tid = t}
      committed == {logs[i].tid : i \in {j \in DOMAIN logs : logs[j].status = "COMMITTED"}}
  IN  [r EXCEPT
         !.log = @ \o logs,
         !.transferIndex = [t \in Tid |->
            IF at(t) = {} THEN @[t]
            ELSE IF logs[Max(at(t))].status = "PREPARED"
                 THEN Len(r.log) + Max(at(t)) ELSE 0],
         !.paxos_index = @ + Cardinality(PaxosPositions(logs)),
         !.balances = Apply(r, s, committed),
         !.balance_applied = @ \cup committed]

(* The entries of a sync reply appended one by one: log.push_back and      *)
(* WAL::insertEntry, where the last entry of a transaction decides whether *)
(* transferIndex keeps it, and balances for the transactions committed     *)
(* here for the first time.                                                *)
InsertEntries(r, s, logs) ==
  LET at(t)     == {i \in DOMAIN logs : logs[i].tid = t}
      committed == {logs[i].tid : i \in {j \in DOMAIN logs : logs[j].status = "COMMITTED"}}
  IN  [r EXCEPT
         !.log = @ \o logs,
         !.transferIndex = [t \in Tid |->
            IF at(t) = {} THEN @[t]
            ELSE IF logs[Max(at(t))].status = "PREPARED"
                 THEN Len(r.log) + Max(at(t)) ELSE 0],
         !.paxos_index = @ + Cardinality(PaxosPositions(logs)),
         !.balances = Apply(r, s, committed \ r.balance_applied),
         !.balance_applied = @ \cup committed]

-----------------------------------------------------------------------------
(***************************************************************************)
(* Actions.                                                                *)
(***************************************************************************)

(* Server s moves to state r within the bound on ballots. *)
Step(s, r) ==
  /\ r.ballot_num <= MaxBallot
  /\ srv' = [srv EXCEPT ![s] = r]

(* One more fault of this kind. *)
Spend(kind) ==
  /\ budget[kind] # 0
  /\ budget' = [budget EXCEPT ![kind] = IF @ = Unlimited THEN @ ELSE @ - 1]

(* The peer handles call c of server s, moves to state rp and replies. *)
Answer(s, c, rp, reply) ==
  LET peer == [srv EXCEPT ![c.to] = rp]
      new  == IF c.open THEN {[c EXCEPT !.handled = TRUE, !.reply = reply]} ELSE {}
  IN  srv' = [peer EXCEPT ![s].outcalls = (@ \ {c}) \cup new]

(* The caller is done with call c.  A request the peer has not seen yet    *)
(* may still reach it.                                                     *)
Close(r, c) ==
  [r EXCEPT !.outcalls = (@ \ {c}) \cup
     (IF c.handled THEN {} ELSE {[c EXCEPT !.open = FALSE]})]

(***************************************************************************)
(* Clients.                                                                *)
(***************************************************************************)

(* enqueueClientTxn: the client's Transfer or TpcPrepare for t reaches the *)
(* server it takes for the leader.  The client sends one per cluster.      *)
EnqueueClientTxn(s, t) ==
  LET r == srv[s] IN
  /\ s \in Leaders
  /\ ServerCluster[s] \in Participants(t)
  /\ \A q \in Stubs(s) \cup {s} : srv[q].incall[t] = "none"
  /\ \/ /\ r.i_am_disconnected
        /\ Step(s, CompleteTransfer(r, <<t>>, "nack"))
     \/ /\ ~r.i_am_disconnected
        /\ Step(s, MaybeStartRound(
                     CompleteTransfer([r EXCEPT !.pending = Append(@, t)],
                                      <<t>>, "parked"), s))
  /\ UNCHANGED <<tpc, decisions, budget>>

(* The answer of cluster k about t, as the client sees it. *)
Voted(t, k, answer) ==
  \E s \in Server : ServerCluster[s] = k /\ srv[s].incall[t] = answer

(* Clusters that exist in the program and have no server in this instance: *)
(* they vote as they like.                                                 *)
Modelled == {ServerCluster[s] : s \in Server}

(* Mutant of ClientDecide: one PREPARED vote is enough. *)
DecideOnOneVote(t, d) ==
  /\ IsCrossShard(t)
  /\ tpc[t] = "none"
  /\ \E k \in Participants(t) \cap Modelled : Voted(t, k, "ack")
  /\ d = "commit"
  /\ tpc' = [tpc EXCEPT ![t] = d]
  /\ decisions' = decisions \cup
       {<<s, t>> : s \in {q \in Server : ServerCluster[q] \in Participants(t)}}
  /\ UNCHANGED <<srv, budget>>

(* Client::consumeReplies with the second vote in: decide t and send the   *)
(* decision to every server of both clusters.                              *)
ClientDecide(t, d) ==
  /\ IsCrossShard(t)
  /\ tpc[t] = "none"
  /\ \A k \in Participants(t) \cap Modelled : Voted(t, k, "ack") \/ Voted(t, k, "nack")
  /\ \/ /\ d = "commit"
        /\ \A k \in Participants(t) \cap Modelled : Voted(t, k, "ack")
     \/ /\ d = "abort"
        /\ \E k \in Participants(t) : k \in Modelled => Voted(t, k, "nack")
  /\ tpc' = [tpc EXCEPT ![t] = d]
  /\ decisions' = decisions \cup
       {<<s, t>> : s \in {q \in Server : ServerCluster[q] \in Participants(t)}}
  /\ UNCHANGED <<srv, budget>>

(* TpcCommit or TpcAbort for t reaches server s. *)
ProcessTpcDecision(s, t) ==
  LET r  == srv[s]
      r1 == [r EXCEPT !.prepareTimestamps = @ \ {t}]
      r2 == CloseTransaction(r1, s, t,
              IF tpc[t] = "commit" THEN "COMMITTED" ELSE "ABORTED")
  IN
  /\ <<s, t>> \in decisions
  /\ \/ r.i_am_disconnected /\ UNCHANGED srv
     \/ ~r.i_am_disconnected /\ r.transferIndex[t] = 0 /\ Step(s, r1)
     \/ /\ ~r.i_am_disconnected /\ r.transferIndex[t] # 0
        /\ IF tpc[t] = "commit"
           THEN Step(s, [r2 EXCEPT !.balances = Apply(r, s, {t} \ r.balance_applied),
                                   !.balance_applied = @ \cup {t}])
           ELSE Step(s, r2)
  /\ decisions' = decisions \ {<<s, t>>}
  /\ UNCHANGED <<tpc, budget>>

(* The sweep at the end of HandleRPCs' loop: t has been prepared here for  *)
(* longer than TPC_LOCK_TIMEOUT_MS.  last_inserted does not move.          *)
LockTimeout(s, t) ==
  LET r  == srv[s]
      r1 == [r EXCEPT !.prepareTimestamps = @ \ {t}]
  IN
  /\ t \in r.prepareTimestamps
  /\ Spend("lock_timeout")
  /\ Step(s, IF r.transferIndex[t] = 0 THEN r1 ELSE CloseTransaction(r1, s, t, "ABORTED"))
  /\ UNCHANGED <<tpc, decisions>>

(***************************************************************************)
(* Requests from peers.                                                    *)
(***************************************************************************)

ProcessPrepareCall(s, c) ==
  LET r     == srv[c.to]
      req   == c.req
      newer == req.ballot.num > r.ballot_num
      Nack  == [ack |-> FALSE,
                latest_ballot_num |-> IF newer THEN Unset ELSE r.ballot_num,
                paxos_index |-> IF req.paxos_index < r.paxos_index
                                THEN r.paxos_index ELSE Unset]
  IN
  /\ c.type = "PREPARE"
  /\ \/ r.i_am_disconnected /\ Answer(s, c, r, NoReply("PREPARE"))
     \/ /\ ~r.i_am_disconnected /\ newer /\ req.paxos_index = r.paxos_index
        /\ Answer(s, c,
                  [r EXCEPT !.promised = TRUE, !.promised_num = req.ballot,
                            !.ballot_num = req.ballot.num],
                  [ack |-> TRUE, latest_ballot_num |-> Unset, paxos_index |-> Unset])
     \/ /\ ~r.i_am_disconnected /\ newer /\ req.paxos_index > r.paxos_index
        /\ Answer(s, c, StartSync(r, req.ballot.server_id), Nack)
     \/ /\ ~r.i_am_disconnected /\ (~newer \/ req.paxos_index < r.paxos_index)
        /\ Answer(s, c, r, Nack)

ProcessAcceptCall(s, c) ==
  LET r   == srv[c.to]
      req == c.req
      promise == ~r.i_am_disconnected /\ r.promised
                   /\ req.ballot.num = r.promised_num.num
  IN
  /\ c.type = "ACCEPT"
  /\ \/ ~promise /\ Answer(s, c, r, [ack |-> FALSE])
     \/ /\ promise
        /\ Answer(s, c,
             PrepareTransactions(
               [r EXCEPT !.accepted = TRUE, !.accept_num = req.ballot,
                         !.accept_batch = req.batch,
                         !.locks = @ \cup LockedBy(c.to, req.batch)],
               CrossEntries(req.batch), req.ballot),
             [ack |-> TRUE])

(* A Commit names a ballot and no values: it commits whatever batch this   *)
(* server accepted last.  Its reply goes to the default case of            *)
(* OutCall::HandleRPCResponse, which deletes the call.                     *)
ProcessCommitCall(s, c) ==
  LET r == srv[c.to]
      current_ballot == ~r.i_am_disconnected
                          /\ r.promised_num.num = c.req.ballot.num
                          /\ r.accept_num.num = c.req.ballot.num
      done == CommitTransactions(
                [r EXCEPT !.locks = @ \ LockedBy(c.to, r.accept_batch),
                          !.promised = FALSE, !.accepted = FALSE],
                c.to, IntraEntries(r.accept_batch), r.accept_num)
      peer == [srv EXCEPT ![c.to] = IF current_ballot THEN done ELSE r]
  IN
  /\ c.type = "COMMIT"
  /\ srv' = [peer EXCEPT ![s].outcalls = @ \ {c}]

(* A disconnected server still serves Sync. *)
ProcessSyncCall(s, c) ==
  LET r   == srv[c.to]
      idx == c.req.last_inserted
  IN
  /\ c.type = "SYNC"
  /\ \/ /\ r.last_inserted > idx
        /\ Answer(s, c, r,
             [ack |-> TRUE, logs |-> SubSeq(r.log, idx + 2, Len(r.log)),
              last_inserted_ballot |-> r.last_inserted_ballot])
     \/ /\ r.last_inserted <= idx
        /\ Answer(s, c, r, NoReply("SYNC"))

(* A request of server s reaches the peer it was sent to. *)
ProcessCall(s, c) ==
  /\ c \in srv[s].outcalls /\ ~c.handled
  /\ \/ ProcessPrepareCall(s, c)
     \/ ProcessAcceptCall(s, c)
     \/ ProcessCommitCall(s, c)
     \/ ProcessSyncCall(s, c)
  /\ UNCHANGED <<tpc, decisions, budget>>

(***************************************************************************)
(* Replies, deadlines and transport errors.                                *)
(***************************************************************************)

HandlePrepareReply(s, c, status) ==
  LET r    == Close(srv[s], c)
      mine == /\ c.req.ballot.num = r.promised_num.num
              /\ c.req.ballot.server_id = s
      ok     == status = "OK" /\ mine
      failed == mine /\ \/ status = "OK" /\ ~c.reply.ack
                        \/ status = "DEADLINE_EXCEEDED"
      stale  == ok /\ c.reply.latest_ballot_num # Unset
      behind == ok /\ ~stale /\ c.reply.paxos_index > r.paxos_index
      n == [r EXCEPT !.prepare_successes = IF ok /\ c.reply.ack THEN @ + 1 ELSE @,
                     !.prepare_failures  = IF failed THEN @ + 1 ELSE @]
  IN
  /\ c.type = "PREPARE"
  /\ \/ ~r.await_prepare_decision /\ Step(s, r)
     \/ /\ r.await_prepare_decision /\ stale
        /\ Step(s, ReissuePrepareForCurrent(
                     [n EXCEPT !.ballot_num = c.reply.latest_ballot_num], s))
     \/ /\ r.await_prepare_decision /\ behind
        /\ Step(s, StartSync([n EXCEPT !.await_prepare_decision = FALSE], c.to))
     \/ /\ r.await_prepare_decision /\ ~stale /\ ~behind
        /\ \/ /\ n.prepare_successes >= MAJORITY
              /\ \E K \in Survivors(n, s) : Step(s, OnPrepareQuorum(n, s, K))
           \/ /\ n.prepare_successes < MAJORITY /\ n.prepare_failures >= MAJORITY
              /\ Step(s, OnRoundAbort(n, s, TRUE))
           \/ /\ n.prepare_successes < MAJORITY /\ n.prepare_failures < MAJORITY
              /\ Step(s, n)

HandleAcceptReply(s, c, status) ==
  LET r    == Close(srv[s], c)
      mine == /\ c.req.ballot.num = r.accept_num.num
              /\ c.req.ballot.server_id = s
      ok     == status = "OK" /\ mine /\ c.reply.ack
      failed == mine /\ \/ status = "OK" /\ ~c.reply.ack
                        \/ status = "DEADLINE_EXCEEDED"
      n == [r EXCEPT !.accept_successes = IF ok THEN @ + 1 ELSE @,
                     !.accept_failures  = IF failed THEN @ + 1 ELSE @]
  IN
  /\ c.type = "ACCEPT"
  /\ \/ ~r.await_accept_decision /\ Step(s, r)
     \/ /\ r.await_accept_decision /\ n.accept_successes >= MAJORITY
        /\ Step(s, OnAcceptQuorum(n, s))
     \/ /\ r.await_accept_decision
        /\ n.accept_successes < MAJORITY /\ n.accept_failures >= MAJORITY
        /\ Step(s, OnRoundAbort(n, s, FALSE))
     \/ /\ r.await_accept_decision
        /\ n.accept_successes < MAJORITY /\ n.accept_failures < MAJORITY
        /\ Step(s, n)

(* The ballot of the peer's last entry replaces this server's ballot_num,  *)
(* even when it is lower.                                                  *)
HandleSyncReply(s, c, status) ==
  LET r      == Close(srv[s], c)
      synced == [InsertEntries(r, s, c.reply.logs) EXCEPT
                   !.ballot_num = c.reply.last_inserted_ballot.num,
                   !.last_inserted = @ + Len(c.reply.logs),
                   !.last_inserted_ballot = c.reply.last_inserted_ballot]
      n == [IF status = "OK" /\ c.reply.ack THEN synced ELSE r
              EXCEPT !.in_sync = FALSE]
  IN
  /\ c.type = "SYNC"
  /\ \/ n.current # <<>> /\ Step(s, ReissuePrepareForCurrent(n, s))
     \/ n.current = <<>> /\ Step(s, MaybeStartRound(n, s))

(* OutCall::HandleRPCResponse.  The status is OK once the peer has         *)
(* replied; until it is read the call may also fail.                       *)
HandleRPCResponse(s, c, status) ==
  /\ c \in srv[s].outcalls /\ c.open
  /\ \/ status = "OK" /\ c.handled /\ UNCHANGED budget
     \/ status \in {"DEADLINE_EXCEEDED", "UNAVAILABLE"} /\ Spend(status)
  /\ \/ HandlePrepareReply(s, c, status)
     \/ HandleAcceptReply(s, c, status)
     \/ HandleSyncReply(s, c, status)
  /\ UNCHANGED <<tpc, decisions>>

(***************************************************************************)
(* Disconnection, simulated by the servers themselves, and restart.        *)
(***************************************************************************)

ProcessDisconnectCall(s, b) ==
  /\ srv[s].i_am_disconnected # b
  /\ IF b THEN Spend("disconnect") ELSE UNCHANGED budget
  /\ Step(s, [srv[s] EXCEPT !.i_am_disconnected = b])
  /\ UNCHANGED <<tpc, decisions>>

(* WAL::recover: the position of the CS_PREPARE line of every transaction  *)
(* whose last line is one.                                                 *)
RecoveredIndex(log) ==
  [t \in Tid |->
     LET at == {i \in DOMAIN log : log[i].tid = t}
     IN  IF at # {} /\ log[Max(at)].status = "PREPARED" THEN Max(at) ELSE 0]

(* The process dies between two handlers and run() starts it again.  The   *)
(* ballot and the balances come back from LevelDB, log, transferIndex and  *)
(* the positions from the WAL; everything else starts afresh.  Parked      *)
(* client calls fail; requests under way may still reach their peer.       *)
Restart(s) ==
  LET r == srv[s] IN
  /\ Spend("restart")
  /\ Step(s,
       [InitState(s) EXCEPT
          !.log = r.log,
          !.balances = r.balances,
          !.ballot_num = Max({r.ballot_num} \cup {r.log[i].ballot.num : i \in DOMAIN r.log}),
          !.transferIndex = RecoveredIndex(r.log),
          !.last_inserted = Len(r.log) - 1,
          !.last_inserted_ballot =
             IF r.log = <<>> THEN NoBallot ELSE r.log[Len(r.log)].ballot,
          !.paxos_index = Cardinality(PaxosPositions(r.log)) - 1,
          !.outcalls = {[c EXCEPT !.open = FALSE] : c \in {d \in r.outcalls : ~d.handled}},
          !.incall = [t \in Tid |-> IF r.incall[t] = "parked" THEN "lost" ELSE r.incall[t]]])
  /\ UNCHANGED <<tpc, decisions>>

-----------------------------------------------------------------------------
Init ==
  /\ srv = [s \in Server |-> InitState(s)]
  /\ tpc = [t \in Tid |-> "none"]
  /\ decisions = {}
  /\ budget = Budget

Next ==
  \/ \E s \in Server, t \in Tid :
       \/ EnqueueClientTxn(s, t)
       \/ ProcessTpcDecision(s, t)
       \/ LockTimeout(s, t)
  \/ \E t \in Tid, d \in {"commit", "abort"} : ClientDecide(t, d)
  \/ \E s \in Server : \E c \in srv[s].outcalls :
       \/ ProcessCall(s, c)
       \/ \E status \in {"OK", "DEADLINE_EXCEEDED", "UNAVAILABLE"} :
            HandleRPCResponse(s, c, status)
  \/ \E s \in Server, b \in BOOLEAN : ProcessDisconnectCall(s, b)
  \/ \E s \in Server : Restart(s)

Spec == Init /\ [][Next]_vars

(***************************************************************************)
(* Fairness.  The event loop polls both completion queues for ever and     *)
(* sweeps prepareTimestamps in every iteration, and gRPC completes every   *)
(* OutCall, with the reply or with DEADLINE_EXCEEDED.  So as long as the   *)
(* servers have work one of them takes a step: weak fairness of            *)
(* ServerStep, with Busy for its enabling condition.  Nothing makes a      *)
(* client send or decide, a peer fail or a process restart.                *)
(***************************************************************************)
ServerStep ==
  \/ \E s \in Server, t \in Tid : ProcessTpcDecision(s, t) \/ LockTimeout(s, t)
  \/ \E s \in Server : \E c \in srv[s].outcalls :
       \/ ProcessCall(s, c)
       \/ \E status \in {"OK", "DEADLINE_EXCEEDED"} : HandleRPCResponse(s, c, status)

Busy ==
  \/ decisions # {}
  \/ \E s \in Server :
       \/ \E c \in srv[s].outcalls : c.open
       \/ srv[s].prepareTimestamps # {} /\ budget["lock_timeout"] # 0

Fairness == []<>(~Busy) \/ []<><<ServerStep>>_vars

FairSpec == Spec /\ Fairness
=============================================================================
