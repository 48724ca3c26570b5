----------------------------- MODULE StoreProofs -----------------------------
(***************************************************************************)
(* The invariants of the queue and of the log of a server, in any          *)
(* instance.                                                               *)
(*                                                                         *)
(* The first part is about one step.  The state of a server has a queue    *)
(* side (the batch, the queue, the clients' calls) and a log side (the     *)
(* log, its indexes, the balances).  QueueStep and LogStep list the few    *)
(* things a step can do to each, and every action of Server.tla is shown   *)
(* to be such a step for every server (NextMoves).  The second part shows  *)
(* that the two relations keep each invariant, and so need not look at     *)
(* some thirty handler branches again.                                     *)
(***************************************************************************)
EXTENDS ServerProofs

(* The fields of the queue side, and of the log side. *)
SameQueue(q, r) ==
  /\ q.pending = r.pending /\ q.current = r.current
  /\ q.is_paxos_running = r.is_paxos_running
  /\ q.await_accept_decision = r.await_accept_decision
  /\ q.incall = r.incall

SameLog(q, r) ==
  /\ q.log = r.log /\ q.transferIndex = r.transferIndex
  /\ q.paxos_index = r.paxos_index /\ q.last_inserted = r.last_inserted
  /\ q.balance_applied = r.balance_applied /\ q.balances = r.balances

Same(q, r) == SameQueue(q, r) /\ SameLog(q, r)

(* Both are transitive. *)
LEMMA SameTrans ==
  ASSUME NEW p, NEW q, NEW r
  PROVE  /\ SameLog(p, q) /\ SameLog(q, r) => SameLog(p, r)
         /\ SameQueue(p, q) /\ SameQueue(q, r) => SameQueue(p, r)
         /\ Same(p, q) /\ Same(q, r) => Same(p, r)
  BY DEF Same, SameLog, SameQueue

-----------------------------------------------------------------------------
(***************************************************************************)
(* The queue side.                                                         *)
(***************************************************************************)

(* The calls of the transactions ts answered. *)
Answered(incall, ts, answer) ==
  [t \in Tid |-> IF t \in ts THEN answer ELSE incall[t]]

(* A disconnected server refuses t. *)
Refused(q, r, t) ==
  /\ r.incall[t] = "none"
  /\ q.incall = Answered(r.incall, {t}, "nack")
  /\ q.pending = r.pending /\ q.current = r.current
  /\ q.is_paxos_running = r.is_paxos_running
  /\ q.await_accept_decision = r.await_accept_decision

(* t joins the queue. *)
Enqueued(q, r, t) ==
  /\ r.incall[t] = "none"
  /\ q.incall = Answered(r.incall, {t}, "parked")
  /\ q.pending = Append(r.pending, t) /\ q.current = r.current
  /\ q.is_paxos_running = r.is_paxos_running
  /\ q.await_accept_decision = r.await_accept_decision

(* The round ends and the whole batch has one answer. *)
Finished(q, r, answer) ==
  /\ answer \in {"ack", "nack"}
  /\ q.incall = Answered(r.incall, Range(r.current), answer)
  /\ q.pending = r.pending /\ q.current = <<>>
  /\ ~q.is_paxos_running /\ ~q.await_accept_decision

(* The batch as it stands is proposed again, or nothing happens. *)
Reissued(q, r) ==
  /\ q.pending = r.pending /\ q.current = r.current
  /\ q.is_paxos_running = r.is_paxos_running
  /\ q.await_accept_decision => r.await_accept_decision
  /\ q.incall = r.incall

(* The queue becomes the batch. *)
Started(q, r) ==
  /\ ~r.is_paxos_running /\ r.pending # <<>>
  /\ q.pending = <<>> /\ q.current = r.pending
  /\ q.is_paxos_running /\ ~q.await_accept_decision
  /\ q.incall = r.incall

Settled(q, r) == SameQueue(q, r) \/ Started(q, r)

(* The entries at the positions K stay in the batch, the others are        *)
(* refused.                                                                *)
Filtered(q, r, K) ==
  /\ K # {}
  /\ q.incall = Answered(r.incall, {r.current[i] : i \in DOMAIN r.current \ K}, "nack")
  /\ q.pending = r.pending /\ q.current = Select(r.current, K)
  /\ q.is_paxos_running = r.is_paxos_running

(* The process that held the calls died. *)
Forgotten(q, r) ==
  /\ q.incall = [t \in Tid |-> IF r.incall[t] = "parked" THEN "lost" ELSE r.incall[t]]
  /\ q.pending = <<>> /\ q.current = <<>>
  /\ ~q.is_paxos_running /\ ~q.await_accept_decision

(* The transactions a client may send to s: s is a leader and no server of *)
(* its cluster has heard of them.                                          *)
Fresh(s) == {t \in Tid : s \in Leaders /\ \A p \in Stubs(s) \cup {s} : srv[p].incall[t] = "none"}

(* What may happen before a new round starts. *)
Turned(s, q, r) ==
  \/ SameQueue(q, r)
  \/ \E t \in Fresh(s) : Enqueued(q, r, t)
  \/ \E a \in {"ack", "nack"} : Finished(q, r, a)

Turns(s, q, r) == \E m \in State : Settled(q, m) /\ Turned(s, m, r)

(* Whether the clients' calls and the batch move by a step of the queue. *)
QueueStep(s, q, r) ==
  \/ Reissued(q, r)
  \/ \E t \in Fresh(s) : Refused(q, r, t)
  \/ Turns(s, q, r)
  \/ \E K \in SUBSET DOMAIN r.current : Filtered(q, r, K)
  \/ Forgotten(q, r)

(* Sending requests touches neither side. *)
LEMMA SendSame ==
  ASSUME NEW r \in State, NEW type, NEW peers, NEW req
  PROVE  Same(Send(r, type, peers, req), r)
<1> DEFINE new == {NewCall(r, type, p, req) : p \in peers}
<1> DEFINE q == [r EXCEPT !.outcalls = r.outcalls \cup new]
<1>1. Send(r, type, peers, req) = q
  BY DEF Send, State, ServerState
<1> HIDE DEF new
<1>2. Same(q, r)
  BY DEF Same, SameQueue, SameLog, State, ServerState
<1> QED
  BY <1>1, <1>2

(* Neither does the start of a sync. *)
LEMMA StartSyncSame ==
  ASSUME NEW r \in State, NEW p \in Server
  PROVE  Same(StartSync(r, p), r)
<1> DEFINE q == [r EXCEPT !.in_sync = TRUE]
<1>1. q \in ServerState /\ SameParts(q, r) /\ Same(q, r)
  BY DEF State, ServerState, SameParts, Same, SameQueue, SameLog
<1>2. q \in State
  BY <1>1, Untouched
<1> HIDE DEF q
<1>3. Same(Send(q, "SYNC", {p}, [last_inserted |-> r.last_inserted]), r)
  BY <1>1, <1>2, SendSame, SameTrans
<1> QED
  BY <1>3 DEF StartSync, q

(* Neither does a call that is done. *)
LEMMA CloseSame ==
  ASSUME NEW r \in State, NEW c
  PROVE  Same(Close(r, c), r)
<1> DEFINE calls == (r.outcalls \ {c}) \cup
                      (IF c.handled THEN {} ELSE {[c EXCEPT !.open = FALSE]})
<1> DEFINE q == [r EXCEPT !.outcalls = calls]
<1>1. Close(r, c) = q
  BY DEF Close, State, ServerState
<1> HIDE DEF calls
<1>2. Same(q, r)
  BY DEF Same, SameQueue, SameLog, State, ServerState
<1> QED
  BY <1>1, <1>2

(* A batch whose calls can be completed, one by one. *)
Open(r, batch) ==
  Distinct(batch) /\ \A t \in Range(batch) : r.incall[t] \in {"none", "parked"}

(* Answering calls. *)
LEMMA CompleteTransferStep ==
  ASSUME NEW r \in State, NEW batch, NEW answer, Open(r, batch)
  PROVE  LET q == CompleteTransfer(r, batch, answer) IN
         /\ SameLog(q, r)
         /\ q.incall = Answered(r.incall, Range(batch), answer)
         /\ q.pending = r.pending /\ q.current = r.current
         /\ q.is_paxos_running = r.is_paxos_running
         /\ q.await_accept_decision = r.await_accept_decision
         /\ q.outcalls = r.outcalls
<1> DEFINE incall == Answered(r.incall, Range(batch), answer)
<1> DEFINE q == [r EXCEPT !.incall = incall]
<1>0. \A t \in Range(batch) : Once(batch, t)
  BY DEF Open, Distinct, Once
<1>1. CompleteTransfer(r, batch, answer) = q
  BY <1>0 DEF CompleteTransfer, Answered, Open, State, ServerState
<1> HIDE DEF incall
<1>2. /\ SameLog(q, r) /\ q.incall = incall
      /\ q.pending = r.pending /\ q.current = r.current
      /\ q.is_paxos_running = r.is_paxos_running
      /\ q.await_accept_decision = r.await_accept_decision
      /\ q.outcalls = r.outcalls
  BY DEF SameLog, State, ServerState
<1> QED
  BY <1>1, <1>2 DEF incall

(* A new Prepare for the batch. *)
LEMMA ReissueStep ==
  ASSUME NEW r \in State, NEW s \in Server
  PROVE  LET q == ReissuePrepareForCurrent(r, s) IN
         SameLog(q, r) /\ Reissued(q, r) /\ ~q.await_accept_decision
<1> DEFINE b == [num |-> r.ballot_num + 1, server_id |-> s]
<1> DEFINE q == [r EXCEPT !.ballot_num = b.num, !.promised = TRUE, !.promised_num = b,
                          !.await_prepare_decision = TRUE,
                          !.await_accept_decision = FALSE,
                          !.prepare_successes = 1, !.prepare_failures = 0]
<1> DEFINE n == Send(q, "PREPARE", Stubs(s), [ballot |-> b, paxos_index |-> r.paxos_index])
<1>1. b \in Ballot /\ b.num \in Nat
  BY DEF Ballot, State, ServerState
<1>2. ReissuePrepareForCurrent(r, s) = n
  BY DEF ReissuePrepareForCurrent
<1> HIDE DEF b
<1>3. q \in ServerState /\ SameParts(q, r)
  BY <1>1 DEF State, ServerState, SameParts
<1>4. SameLog(q, r) /\ Reissued(q, r) /\ ~q.await_accept_decision
  BY DEF State, ServerState, SameLog, Reissued
<1>5. q \in State
  BY <1>3, Untouched
<1> HIDE DEF q
<1>6. Same(n, q)
  BY <1>5, SendSame
<1> HIDE DEF n
<1>7. SameLog(n, r) /\ Reissued(n, r) /\ ~n.await_accept_decision
  BY <1>4, <1>6 DEF Same, SameQueue, SameLog, Reissued
<1> QED
  BY <1>2, <1>7

(* maybeStartRound. *)
LEMMA MaybeStartRoundStep ==
  ASSUME NEW r \in State, NEW s \in Server
  PROVE  LET q == MaybeStartRound(r, s) IN SameLog(q, r) /\ Settled(q, r)
<1> DEFINE m == [r EXCEPT !.current = r.pending, !.pending = <<>>, !.is_paxos_running = TRUE]
<1>1. CASE r.is_paxos_running \/ r.in_sync \/ r.pending = <<>>
  BY <1>1 DEF MaybeStartRound, Settled, SameQueue, SameLog
<1>2. CASE ~(r.is_paxos_running \/ r.in_sync \/ r.pending = <<>>)
  <2> DEFINE q == ReissuePrepareForCurrent(m, s)
  <2>1. <<>> \in Seq(Tid)
    OBVIOUS
  <2>2. m \in ServerState /\ SameParts(m, r)
    BY <2>1 DEF State, ServerState, SameParts
  <2>3. m \in State
    BY <2>2, Untouched
  <2>4. /\ SameLog(m, r) /\ m.current = r.pending /\ m.pending = <<>>
        /\ m.is_paxos_running /\ m.incall = r.incall
    BY DEF SameLog, State, ServerState
  <2>5. MaybeStartRound(r, s) = q
    BY <1>2 DEF MaybeStartRound, StartRound
  <2> HIDE DEF m
  <2>6. SameLog(q, m) /\ Reissued(q, m) /\ ~q.await_accept_decision
    BY <2>3, ReissueStep
  <2> HIDE DEF q
  <2>7. SameLog(q, r) /\ Started(q, r)
    BY <1>2, <2>4, <2>6 DEF SameLog, Reissued, Started
  <2> QED
    BY <2>5, <2>7 DEF Settled
<1> QED
  BY <1>1, <1>2

(* finishRound after the batch's calls, if told is where they are          *)
(* answered.                                                               *)
LEMMA FinishRoundStep ==
  ASSUME NEW told \in State, NEW s \in Server
  PROVE  LET q == FinishRound(told, s) IN
         /\ SameLog(q, told)
         /\ \E m \in State :
              /\ Settled(q, m) /\ m.incall = told.incall
              /\ m.pending = told.pending /\ m.current = <<>>
              /\ ~m.is_paxos_running /\ ~m.await_accept_decision
<1> DEFINE m == [told EXCEPT !.is_paxos_running = FALSE, !.promised = FALSE,
                             !.accepted = FALSE, !.await_prepare_decision = FALSE,
                             !.await_accept_decision = FALSE,
                             !.current = <<>>, !.accept_batch = <<>>]
<1>1. <<>> \in Seq(Tid)
  OBVIOUS
<1>2. m \in ServerState /\ SameParts(m, told)
  BY <1>1, ZenonT(40) DEF State, ServerState, SameParts
<1>3. m \in State
  BY <1>2, Untouched
<1>4. /\ SameLog(m, told) /\ m.incall = told.incall /\ m.pending = told.pending
      /\ m.current = <<>> /\ ~m.is_paxos_running /\ ~m.await_accept_decision
  BY DEF SameLog, State, ServerState
<1>5. FinishRound(told, s) = MaybeStartRound(m, s)
  BY DEF FinishRound
<1> HIDE DEF m
<1>6. SameLog(MaybeStartRound(m, s), m) /\ Settled(MaybeStartRound(m, s), m)
  BY <1>3, MaybeStartRoundStep
<1>7. SameLog(MaybeStartRound(m, s), told)
  BY <1>4, <1>6, SameTrans
<1> QED
  BY <1>3, <1>4, <1>5, <1>6, <1>7

-----------------------------------------------------------------------------
(***************************************************************************)
(* The log side.  D is the set of transactions the coordinator has decided *)
(* to commit.                                                              *)
(***************************************************************************)

(* A transaction is closed as aborted by decision, or by a lock timeout in *)
(* an instance that has them.                                              *)
MayAbort(t, D) == Budget["lock_timeout"] # 0 \/ <<t, "abort">> \in D

(* An entry a server may hold: only cross-shard transactions are prepared, *)
(* and they are committed only by decision.                                *)
EntryOK(e, D) ==
  /\ e.status = "PREPARED" => IsCrossShard(e.tid)
  /\ e.status = "COMMITTED" /\ IsCrossShard(e.tid) => <<e.tid, "commit">> \in D
  /\ e.status = "ABORTED" => MayAbort(e.tid, D)

EntriesOK(log, D) == \A i \in DOMAIN log : EntryOK(log[i], D)

PreparedIn(log, t) == \E i \in DOMAIN log : log[i].tid = t /\ log[i].status = "PREPARED"

(* A transaction prepared here is closed as committed and applied. *)
CommitClosed(r, s, t) ==
  [CloseTransaction(r, s, t, "COMMITTED") EXCEPT
     !.balances = Apply(r, s, {t} \ r.balance_applied),
     !.balance_applied = @ \cup {t}]

(* A sync reply is applied. *)
Synced(r, s, logs) ==
  [InsertEntries(r, s, logs) EXCEPT !.last_inserted = @ + Len(logs)]

(* The process has read its files again, in an instance with restarts. *)
Recovered(q, r) ==
  /\ Budget["restart"] # 0
  /\ q.log = r.log /\ q.balances = r.balances /\ q.balance_applied = {}
  /\ q.transferIndex = RecoveredIndex(r.log)
  /\ q.last_inserted = Len(r.log) - 1
  /\ q.paxos_index = Cardinality(PaxosPositions(r.log)) - 1

LogStep(s, q, r, D) ==
  \/ SameLog(q, r)
  \/ \E ts \in Seq(Tid), b \in Ballot :
       /\ Distinct(ts) /\ \A t \in Range(ts) : IsCrossShard(t)
       /\ SameLog(q, PrepareTransactions(r, ts, b))
  \/ \E ts \in Seq(Tid), b \in Ballot :
       /\ \A t \in Range(ts) : ~IsCrossShard(t)
       /\ SameLog(q, CommitTransactions(r, s, ts, b))
  \/ \E t \in Tid :
       /\ r.transferIndex[t] # 0
       /\ \/ MayAbort(t, D) /\ SameLog(q, CloseTransaction(r, s, t, "ABORTED"))
          \/ <<t, "commit">> \in D /\ SameLog(q, CommitClosed(r, s, t))
  \/ \E logs \in Seq(WALEntry) :
       EntriesOK(logs, D) /\ SameLog(q, Synced(r, s, logs))
  \/ Recovered(q, r)

(* Two states with the same log side stay so when both log a batch of      *)
(* prepares.                                                               *)
LEMMA PrepareSameLog ==
  ASSUME NEW p \in State, NEW r \in State, SameLog(p, r), NEW ts, NEW b
  PROVE  SameLog(PrepareTransactions(p, ts, b), PrepareTransactions(r, ts, b))
<1>1. CASE ts = <<>>
  BY <1>1 DEF PrepareTransactions
<1>2. CASE ts # <<>>
  BY <1>2, SMTT(30) DEF PrepareTransactions, SameLog, State, ServerState
<1> QED
  BY <1>1, <1>2

(* The same for a batch of commits. *)
LEMMA CommitSameLog ==
  ASSUME NEW p \in State, NEW r \in State, SameLog(p, r), NEW s, NEW ts, NEW b
  PROVE  SameLog(CommitTransactions(p, s, ts, b), CommitTransactions(r, s, ts, b))
<1> DEFINE new == Select(ts, {i \in DOMAIN ts : ts[i] \notin r.balance_applied})
<1> DEFINE log == LogEntries(new, b, "COMMITTED")
<1>1. p.balance_applied = r.balance_applied /\ p.log = r.log /\ p.paxos_index = r.paxos_index
  BY DEF SameLog
<1>2. Apply(p, s, Range(new)) = Apply(r, s, Range(new))
  BY DEF SameLog, Apply
<1>3. CASE new = <<>>
  BY <1>1, <1>3 DEF CommitTransactions
<1>4. CASE new # <<>>
  <2> DEFINE cp == [p EXCEPT
         !.balance_applied = @ \cup Range(new),
         !.log = @ \o log,
         !.balances = Apply(p, s, Range(new)),
         !.last_inserted = Len(p.log) + Len(new) - 1,
         !.last_inserted_ballot = b,
         !.paxos_index = @ + Len(new)]
  <2> DEFINE cr == [r EXCEPT
         !.balance_applied = @ \cup Range(new),
         !.log = @ \o log,
         !.balances = Apply(r, s, Range(new)),
         !.last_inserted = Len(r.log) + Len(new) - 1,
         !.last_inserted_ballot = b,
         !.paxos_index = @ + Len(new)]
  <2>1. CommitTransactions(p, s, ts, b) = cp /\ CommitTransactions(r, s, ts, b) = cr
    BY <1>1, <1>4 DEF CommitTransactions
  <2> HIDE DEF new, log
  <2>2. SameLog(cp, cr)
    BY <1>2 DEF SameLog, State, ServerState
  <2> QED
    BY <2>1, <2>2
<1> QED
  BY <1>3, <1>4

(* The same when both close a transaction. *)
LEMMA CloseSameLog ==
  ASSUME NEW p \in State, NEW r \in State, SameLog(p, r), NEW s, NEW t \in Tid, NEW st
  PROVE  /\ SameLog(CloseTransaction(p, s, t, st), CloseTransaction(r, s, t, st))
         /\ SameLog(CommitClosed(p, s, t), CommitClosed(r, s, t))
<1>1. SameLog(CloseTransaction(p, s, t, st), CloseTransaction(r, s, t, st))
  BY DEF CloseTransaction, SameLog, State, ServerState
<1> DEFINE mp == Apply(p, s, {t} \ p.balance_applied)
<1> DEFINE mr == Apply(r, s, {t} \ r.balance_applied)
<1>2. mp = mr
  BY DEF SameLog, Apply
<1> DEFINE log == Append(r.log, Entry(t, r.log[r.transferIndex[t]].ballot, "COMMITTED"))
<1> DEFINE index == [r.transferIndex EXCEPT ![t] = 0]
<1> DEFINE lp == p.locks \ LocalAccounts(s, t)
<1> DEFINE lr == r.locks \ LocalAccounts(s, t)
<1> DEFINE done == r.balance_applied \cup {t}
<1>3. CommitClosed(p, s, t) = [p EXCEPT !.log = log, !.transferIndex = index, !.locks = lp,
                                        !.balances = mp, !.balance_applied = done]
  BY DEF CommitClosed, CloseTransaction, SameLog, State, ServerState
<1>4. CommitClosed(r, s, t) = [r EXCEPT !.log = log, !.transferIndex = index, !.locks = lr,
                                        !.balances = mr, !.balance_applied = done]
  BY DEF CommitClosed, CloseTransaction, State, ServerState
<1> HIDE DEF mp, mr, log, index, lp, lr, done
<1>5. SameLog(CommitClosed(p, s, t), CommitClosed(r, s, t))
  BY <1>2, <1>3, <1>4 DEF SameLog, State, ServerState
<1> QED
  BY <1>1, <1>5

(* The same when both apply a sync reply. *)
LEMMA SyncedSameLog ==
  ASSUME NEW p \in State, NEW r \in State, SameLog(p, r), NEW s, NEW logs
  PROVE  SameLog(Synced(p, s, logs), Synced(r, s, logs))
<1> DEFINE committed == {logs[i].tid : i \in {j \in DOMAIN logs : logs[j].status = "COMMITTED"}}
<1> DEFINE at(t) == {i \in DOMAIN logs : logs[i].tid = t}
<1> DEFINE index == [t \in Tid |->
            IF at(t) = {} THEN r.transferIndex[t]
            ELSE IF logs[Max(at(t))].status = "PREPARED"
                 THEN Len(r.log) + Max(at(t)) ELSE 0]
<1> DEFINE n == Cardinality(PaxosPositions(logs))
<1> DEFINE mp == Apply(p, s, committed \ p.balance_applied)
<1> DEFINE mr == Apply(r, s, committed \ r.balance_applied)
<1>1. mp = mr
  BY DEF SameLog, Apply
<1> DEFINE log == r.log \o logs
<1> DEFINE count == r.paxos_index + n
<1> DEFINE done == r.balance_applied \cup committed
<1> DEFINE last == r.last_inserted + Len(logs)
<1>2. Synced(p, s, logs) = [p EXCEPT !.log = log, !.transferIndex = index,
        !.paxos_index = count, !.balances = mp, !.balance_applied = done,
        !.last_inserted = last]
  BY DEF Synced, InsertEntries, SameLog, State, ServerState
<1>3. Synced(r, s, logs) = [r EXCEPT !.log = log, !.transferIndex = index,
        !.paxos_index = count, !.balances = mr, !.balance_applied = done,
        !.last_inserted = last]
  BY DEF Synced, InsertEntries, SameLog, State, ServerState
<1> HIDE DEF committed, at, index, n, mp, mr, log, count, done, last
<1> QED
  BY <1>1, <1>2, <1>3 DEF SameLog, State, ServerState

(* Logging entries leaves the queue alone. *)
LEMMA LogKeepsQueue ==
  ASSUME NEW r \in State, NEW s, NEW ts, NEW b, NEW t, NEW st, NEW logs
  PROVE  /\ SameQueue(PrepareTransactions(r, ts, b), r)
         /\ PrepareTransactions(r, ts, b).outcalls = r.outcalls
         /\ SameQueue(CommitTransactions(r, s, ts, b), r)
         /\ CommitTransactions(r, s, ts, b).outcalls = r.outcalls
         /\ SameQueue(CloseTransaction(r, s, t, st), r)
         /\ CloseTransaction(r, s, t, st).outcalls = r.outcalls
         /\ SameQueue(InsertEntries(r, s, logs), r)
         /\ InsertEntries(r, s, logs).outcalls = r.outcalls
<1>1. /\ SameQueue(PrepareTransactions(r, ts, b), r)
      /\ PrepareTransactions(r, ts, b).outcalls = r.outcalls
  <2>1. CASE ts = <<>>
    BY <2>1 DEF PrepareTransactions, SameQueue
  <2>2. CASE ts # <<>>
    BY <2>2 DEF PrepareTransactions, SameQueue, State, ServerState
  <2> QED
    BY <2>1, <2>2
<1>2. /\ SameQueue(CommitTransactions(r, s, ts, b), r)
      /\ CommitTransactions(r, s, ts, b).outcalls = r.outcalls
  <2> DEFINE new == Select(ts, {i \in DOMAIN ts : ts[i] \notin r.balance_applied})
  <2>1. CASE new = <<>>
    BY <2>1 DEF CommitTransactions, SameQueue
  <2>2. CASE new # <<>>
    BY <2>2 DEF CommitTransactions, SameQueue, State, ServerState
  <2> QED
    BY <2>1, <2>2
<1>3. /\ SameQueue(CloseTransaction(r, s, t, st), r)
      /\ CloseTransaction(r, s, t, st).outcalls = r.outcalls
  BY DEF CloseTransaction, SameQueue, State, ServerState
<1>4. /\ SameQueue(InsertEntries(r, s, logs), r)
      /\ InsertEntries(r, s, logs).outcalls = r.outcalls
  BY DEF InsertEntries, SameQueue, State, ServerState
<1> QED
  BY <1>1, <1>2, <1>3, <1>4

-----------------------------------------------------------------------------
(***************************************************************************)
(* Both sides together.                                                    *)
(***************************************************************************)

(* A leader waits for an accept quorum only after it has logged the        *)
(* cross-shard entries of its batch.                                       *)
VoteStep(q, r) ==
  q.await_accept_decision =>
    \/ r.await_accept_decision /\ q.current = r.current
    \/ \A t \in Range(q.current) : IsCrossShard(t) => PreparedIn(q.log, t)

(* It answers ack only to its batch, when the quorum is in, with the       *)
(* intra-shard entries committed.                                          *)
AckStep(q, r) ==
  \A t \in Tid : q.incall[t] = "ack" =>
    \/ r.incall[t] = "ack"
    \/ /\ t \in Range(r.current) /\ r.await_accept_decision
       /\ ~IsCrossShard(t) => t \in r.balance_applied \cup CommittedIn(q.log)

Moves(s, q, r, D) ==
  QueueStep(s, q, r) /\ LogStep(s, q, r, D) /\ VoteStep(q, r) /\ AckStep(q, r)

(* Leaving both sides alone is such a step. *)
LEMMA SameMoves ==
  ASSUME NEW s, NEW q, NEW r, NEW D, Same(q, r)
  PROVE  Moves(s, q, r, D)
<1>1. QueueStep(s, q, r)
  BY DEF QueueStep, Reissued, Same, SameQueue
<1>2. LogStep(s, q, r, D)
  BY DEF LogStep, Same
<1>3. VoteStep(q, r) /\ AckStep(q, r)
  BY DEF VoteStep, AckStep, Same, SameQueue
<1> QED
  BY <1>1, <1>2, <1>3 DEF Moves

(* Only the two sides matter before the step. *)
LEMMA MovesFrom ==
  ASSUME NEW s, NEW q, NEW n \in State, NEW r \in State, NEW D,
         Same(n, r), Moves(s, q, n, D)
  PROVE  Moves(s, q, r, D)
<1>1. SameQueue(n, r) /\ SameLog(n, r) /\ QueueStep(s, q, n) /\ LogStep(s, q, n, D)
  BY DEF Moves, Same
<1>2. QueueStep(s, q, r)
  <2>1. CASE Reissued(q, n) \/ Forgotten(q, n)
    BY <1>1, <2>1 DEF QueueStep, Reissued, Forgotten, SameQueue
  <2>2. CASE \E t \in Fresh(s) : Refused(q, n, t)
    BY <1>1, <2>2 DEF QueueStep, Refused, SameQueue
  <2>3. CASE Turns(s, q, n)
    <3>1. PICK m \in State : Settled(q, m) /\ Turned(s, m, n)
      BY <2>3 DEF Turns
    <3>2. \A t : Enqueued(m, n, t) => Enqueued(m, r, t)
      BY <1>1 DEF Enqueued, SameQueue
    <3>3. \A a : Finished(m, n, a) => Finished(m, r, a)
      BY <1>1 DEF Finished, SameQueue
    <3>4. SameQueue(m, n) => SameQueue(m, r)
      BY <1>1, SameTrans
    <3>5. Turned(s, m, r)
      BY <3>1, <3>2, <3>3, <3>4 DEF Turned
    <3> QED
      BY <3>1, <3>5 DEF QueueStep, Turns
  <2>4. CASE \E K \in SUBSET DOMAIN n.current : Filtered(q, n, K)
    <3>1. PICK K \in SUBSET DOMAIN n.current : Filtered(q, n, K)
      BY <2>4
    <3>2. n.current = r.current /\ n.incall = r.incall
      BY <1>1 DEF SameQueue
    <3>3. Filtered(q, r, K) /\ K \in SUBSET DOMAIN r.current
      BY <1>1, <3>1, <3>2 DEF Filtered, SameQueue
    <3> QED
      BY <3>3 DEF QueueStep
  <2> QED
    BY <1>1, <2>1, <2>2, <2>3, <2>4 DEF QueueStep
<1>3. LogStep(s, q, r, D)
  <2>1. CASE SameLog(q, n)
    BY <1>1, <2>1, SameTrans DEF LogStep
  <2>2. CASE \E ts \in Seq(Tid), b \in Ballot :
               /\ Distinct(ts) /\ \A t \in Range(ts) : IsCrossShard(t)
               /\ SameLog(q, PrepareTransactions(n, ts, b))
    <3>1. PICK ts \in Seq(Tid), b \in Ballot :
               /\ Distinct(ts) /\ \A t \in Range(ts) : IsCrossShard(t)
               /\ SameLog(q, PrepareTransactions(n, ts, b))
      BY <2>2
    <3>2. SameLog(q, PrepareTransactions(r, ts, b))
      BY <1>1, <3>1, PrepareSameLog, SameTrans
    <3> QED
      BY <3>1, <3>2 DEF LogStep
  <2>3. CASE \E ts \in Seq(Tid), b \in Ballot :
               /\ \A t \in Range(ts) : ~IsCrossShard(t)
               /\ SameLog(q, CommitTransactions(n, s, ts, b))
    <3>1. PICK ts \in Seq(Tid), b \in Ballot :
               /\ \A t \in Range(ts) : ~IsCrossShard(t)
               /\ SameLog(q, CommitTransactions(n, s, ts, b))
      BY <2>3
    <3>2. SameLog(q, CommitTransactions(r, s, ts, b))
      BY <1>1, <3>1, CommitSameLog, SameTrans
    <3> QED
      BY <3>1, <3>2 DEF LogStep
  <2>4. CASE \E t \in Tid :
               /\ n.transferIndex[t] # 0
               /\ \/ MayAbort(t, D) /\ SameLog(q, CloseTransaction(n, s, t, "ABORTED"))
                  \/ <<t, "commit">> \in D /\ SameLog(q, CommitClosed(n, s, t))
    <3>1. PICK t \in Tid :
               /\ n.transferIndex[t] # 0
               /\ \/ MayAbort(t, D) /\ SameLog(q, CloseTransaction(n, s, t, "ABORTED"))
                  \/ <<t, "commit">> \in D /\ SameLog(q, CommitClosed(n, s, t))
      BY <2>4
    <3>2. /\ r.transferIndex[t] # 0
          /\ \/ MayAbort(t, D) /\ SameLog(q, CloseTransaction(r, s, t, "ABORTED"))
             \/ <<t, "commit">> \in D /\ SameLog(q, CommitClosed(r, s, t))
      BY <1>1, <3>1, CloseSameLog, SameTrans DEF SameLog
    <3> QED
      BY <3>2 DEF LogStep
  <2>5. CASE \E logs \in Seq(WALEntry) :
               EntriesOK(logs, D) /\ SameLog(q, Synced(n, s, logs))
    <3>1. PICK logs \in Seq(WALEntry) :
               EntriesOK(logs, D) /\ SameLog(q, Synced(n, s, logs))
      BY <2>5
    <3>2. SameLog(q, Synced(r, s, logs))
      BY <1>1, <3>1, SyncedSameLog, SameTrans
    <3> QED
      BY <3>1, <3>2 DEF LogStep
  <2>6. CASE Recovered(q, n)
    BY <1>1, <2>6 DEF LogStep, Recovered, SameLog
  <2> QED
    BY <1>1, <2>1, <2>2, <2>3, <2>4, <2>5, <2>6 DEF LogStep
<1>4. VoteStep(q, r) /\ AckStep(q, r)
  BY <1>1 DEF Moves, VoteStep, AckStep, SameQueue, SameLog
<1> QED
  BY <1>2, <1>3, <1>4 DEF Moves

(* The same after the step. *)
LEMMA MovesTo ==
  ASSUME NEW s, NEW q, NEW p, NEW r, NEW D, Same(q, p), Moves(s, p, r, D)
  PROVE  Moves(s, q, r, D)
<1>1. SameQueue(q, p) /\ SameLog(q, p) /\ QueueStep(s, p, r) /\ LogStep(s, p, r, D)
  BY DEF Moves, Same
<1>2. QueueStep(s, q, r)
  <2>a. \A m : Settled(p, m) => Settled(q, m)
    BY <1>1 DEF Settled, Started, SameQueue
  <2>1. Turns(s, p, r) => Turns(s, q, r)
    BY <2>a DEF Turns
  <2>2. Reissued(p, r) => Reissued(q, r)
    BY <1>1 DEF Reissued, SameQueue
  <2>3. \A t : Refused(p, r, t) => Refused(q, r, t)
    BY <1>1 DEF Refused, SameQueue
  <2>4. \A K : Filtered(p, r, K) => Filtered(q, r, K)
    BY <1>1 DEF Filtered, SameQueue
  <2>5. Forgotten(p, r) => Forgotten(q, r)
    BY <1>1 DEF Forgotten, SameQueue
  <2> QED
    BY <1>1, <2>1, <2>2, <2>3, <2>4, <2>5 DEF QueueStep
<1>3. LogStep(s, q, r, D)
  <2>1. \A m : SameLog(p, m) => SameLog(q, m)
    BY <1>1, SameTrans
  <2>2. Recovered(p, r) => Recovered(q, r)
    BY <1>1 DEF Recovered, SameLog
  <2> QED
    BY <1>1, <2>1, <2>2 DEF LogStep
<1>4. VoteStep(q, r) /\ AckStep(q, r)
  BY <1>1 DEF Moves, VoteStep, AckStep, SameQueue, SameLog
<1> QED
  BY <1>2, <1>3, <1>4 DEF Moves

-----------------------------------------------------------------------------
(***************************************************************************)
(* The calls under way.  An Accept names no transaction twice, and the     *)
(* reply to a Sync holds entries that its caller may hold.                 *)
(***************************************************************************)
CallOK(c, D) ==
  /\ c.type = "ACCEPT" => Distinct(c.req.batch)
  /\ c.type = "SYNC" => EntriesOK(c.reply.logs, D)

Calls(r, D) == \A c \in r.outcalls : CallOK(c, D)

(* What is sent. *)
LEMMA SendCalls ==
  ASSUME NEW r \in State, NEW type, NEW peers, NEW req, NEW D, Calls(r, D),
         type = "ACCEPT" => Distinct(req.batch)
  PROVE  Calls(Send(r, type, peers, req), D)
<1> DEFINE new == {NewCall(r, type, p, req) : p \in peers}
<1> DEFINE q == [r EXCEPT !.outcalls = r.outcalls \cup new]
<1>1. Send(r, type, peers, req) = q
  BY DEF Send, State, ServerState
<1>2. ASSUME NEW p \in peers
      PROVE  CallOK(NewCall(r, type, p, req), D)
  <2> DEFINE c == NewCall(r, type, p, req)
  <2>1. c.type = type /\ c.req = req /\ c.reply = NoReply(type)
    BY DEF NewCall
  <2>2. type = "SYNC" => c.reply.logs = <<>>
    BY <2>1 DEF NoReply
  <2> HIDE DEF c
  <2>3. CallOK(c, D)
    BY <2>1, <2>2 DEF CallOK, EntriesOK
  <2> QED
    BY <2>3 DEF c
<1>3. \A c \in new : CallOK(c, D)
  BY <1>2
<1> HIDE DEF new
<1>4. q.outcalls = r.outcalls \cup new
  BY DEF State, ServerState
<1> QED
  BY <1>1, <1>3, <1>4 DEF Calls

(* Starting a sync. *)
LEMMA StartSyncCalls ==
  ASSUME NEW r \in State, NEW p \in Server, NEW D, Calls(r, D)
  PROVE  Calls(StartSync(r, p), D)
<1> DEFINE q == [r EXCEPT !.in_sync = TRUE]
<1>1. q \in ServerState /\ SameParts(q, r)
  BY DEF State, ServerState, SameParts
<1>2. q \in State /\ Calls(q, D)
  BY <1>1, Untouched DEF Calls, SameParts
<1> HIDE DEF q
<1>3. Calls(Send(q, "SYNC", {p}, [last_inserted |-> r.last_inserted]), D)
  BY <1>2, SendCalls
<1> QED
  BY <1>3 DEF StartSync, q

(* A call that is done. *)
LEMMA CloseCalls ==
  ASSUME NEW r \in State, NEW c \in r.outcalls, NEW D, Calls(r, D)
  PROVE  Calls(Close(r, c), D)
<1> DEFINE late == [c EXCEPT !.open = FALSE]
<1> DEFINE new == IF c.handled THEN {} ELSE {late}
<1> DEFINE q == [r EXCEPT !.outcalls = (r.outcalls \ {c}) \cup new]
<1>1. Close(r, c) = q
  BY DEF Close, State, ServerState
<1>2. c \in OutCall /\ CallOK(c, D)
  BY DEF State, ServerState, Calls
<1>3. late.type = c.type /\ late.req = c.req /\ late.reply = c.reply
  BY <1>2 DEF OutCall, Call
<1> HIDE DEF late
<1>4. CallOK(late, D)
  BY <1>2, <1>3 DEF CallOK
<1>5. \A d \in new : CallOK(d, D)
  BY <1>4
<1> HIDE DEF new
<1>6. q.outcalls = (r.outcalls \ {c}) \cup new
  BY DEF State, ServerState
<1> QED
  BY <1>1, <1>5, <1>6 DEF Calls

(* A new Prepare. *)
LEMMA ReissueCalls ==
  ASSUME NEW r \in State, NEW s \in Server, NEW D, Calls(r, D)
  PROVE  Calls(ReissuePrepareForCurrent(r, s), D)
<1> DEFINE b == [num |-> r.ballot_num + 1, server_id |-> s]
<1> DEFINE q == [r EXCEPT !.ballot_num = b.num, !.promised = TRUE, !.promised_num = b,
                          !.await_prepare_decision = TRUE,
                          !.await_accept_decision = FALSE,
                          !.prepare_successes = 1, !.prepare_failures = 0]
<1> DEFINE n == Send(q, "PREPARE", Stubs(s), [ballot |-> b, paxos_index |-> r.paxos_index])
<1>1. b \in Ballot /\ b.num \in Nat
  BY DEF Ballot, State, ServerState
<1>2. ReissuePrepareForCurrent(r, s) = n
  BY DEF ReissuePrepareForCurrent
<1> HIDE DEF b
<1>3. q \in ServerState /\ SameParts(q, r)
  BY <1>1 DEF State, ServerState, SameParts
<1>4. q \in State /\ Calls(q, D)
  BY <1>3, Untouched DEF Calls, SameParts
<1> HIDE DEF q
<1>5. Calls(n, D)
  BY <1>4, SendCalls
<1> QED
  BY <1>2, <1>5

(* maybeStartRound and finishRound. *)
LEMMA FinishRoundCalls ==
  ASSUME NEW r \in State, NEW s \in Server, NEW D, Calls(r, D)
  PROVE  Calls(MaybeStartRound(r, s), D) /\ Calls(FinishRound(r, s), D)
<1>0. <<>> \in Seq(Tid)
  OBVIOUS
<1>1. ASSUME NEW p \in State, Calls(p, D)
      PROVE  Calls(MaybeStartRound(p, s), D)
  <2> DEFINE m == [p EXCEPT !.current = p.pending, !.pending = <<>>, !.is_paxos_running = TRUE]
  <2>1. m \in ServerState /\ SameParts(m, p)
    BY <1>0 DEF State, ServerState, SameParts
  <2>2. m \in State /\ Calls(m, D)
    BY <1>1, <2>1, Untouched DEF Calls, SameParts
  <2>3. Calls(ReissuePrepareForCurrent(m, s), D)
    BY <2>2, ReissueCalls
  <2> QED
    BY <1>1, <2>3 DEF MaybeStartRound, StartRound
<1> DEFINE q == [r EXCEPT !.is_paxos_running = FALSE, !.promised = FALSE,
                          !.accepted = FALSE, !.await_prepare_decision = FALSE,
                          !.await_accept_decision = FALSE,
                          !.current = <<>>, !.accept_batch = <<>>]
<1>2. q \in ServerState /\ SameParts(q, r)
  BY <1>0, ZenonT(40) DEF State, ServerState, SameParts
<1>3. q \in State /\ Calls(q, D)
  BY <1>2, Untouched DEF Calls, SameParts
<1>4. FinishRound(r, s) = MaybeStartRound(q, s)
  BY DEF FinishRound
<1> HIDE DEF q
<1> QED
  BY <1>1, <1>3, <1>4

-----------------------------------------------------------------------------
(***************************************************************************)
(* The parts of handlers that end a phase of the round.                    *)
(***************************************************************************)

(* What two logs one after the other hold. *)
LEMMA ConcatEntries ==
  ASSUME NEW S, NEW log \in Seq(S), NEW new \in Seq(S)
  PROVE  /\ log \o new \in Seq(S)
         /\ Len(log \o new) = Len(log) + Len(new)
         /\ \A i \in 1..Len(log) : (log \o new)[i] = log[i]
         /\ \A i \in 1..Len(new) : Len(log) + i \in DOMAIN (log \o new)
                                     /\ (log \o new)[Len(log) + i] = new[i]
         /\ \A i \in DOMAIN (log \o new) :
              i \in 1..Len(log) \/ \E j \in 1..Len(new) : i = Len(log) + j
<1>1. log \o new \in Seq(S) /\ Len(log \o new) = Len(log) + Len(new)
  OBVIOUS
<1>2. Len(log) \in Nat /\ Len(new) \in Nat
  OBVIOUS
<1>3. DOMAIN (log \o new) = 1..(Len(log) + Len(new))
  BY <1>1, <1>2
<1>4. \A i \in 1..Len(log) : (log \o new)[i] = log[i]
  BY <1>2
<1>5. \A i \in 1..Len(new) : Len(log) + i \in DOMAIN (log \o new)
                                /\ (log \o new)[Len(log) + i] = new[i]
  BY <1>2, <1>3
<1>6. ASSUME NEW i \in DOMAIN (log \o new)
      PROVE  i \in 1..Len(log) \/ \E j \in 1..Len(new) : i = Len(log) + j
  <2>1. CASE i > Len(log)
    <3>1. i - Len(log) \in 1..Len(new) /\ i = Len(log) + (i - Len(log))
      BY <1>2, <1>3, <2>1
    <3> QED
      BY <3>1
  <2>2. CASE ~(i > Len(log))
    BY <1>2, <1>3, <2>2
  <2> QED
    BY <2>1, <2>2
<1> QED
  BY <1>1, <1>4, <1>5, <1>6

(* A transaction prepared is in the log. *)
LEMMA PreparedLogged ==
  ASSUME NEW r \in State, NEW ts \in Seq(Tid), NEW b \in Ballot, NEW t \in Range(ts)
  PROVE  PreparedIn(PrepareTransactions(r, ts, b).log, t)
<1> DEFINE new == LogEntries(ts, b, "PREPARED")
<1>1. PICK i \in 1..Len(ts) : ts[i] = t
  BY DEF Range
<1>2. new \in Seq(WALEntry) /\ Len(new) = Len(ts) /\ new[i] = Entry(t, b, "PREPARED")
  BY <1>1, LogEntriesType DEF Status
<1>3. r.log \in Seq(WALEntry) /\ ts # <<>>
  BY <1>1 DEF State, ServerState
<1>4. PrepareTransactions(r, ts, b).log = r.log \o new
  BY <1>3 DEF PrepareTransactions, State, ServerState
<1> HIDE DEF new
<1> DEFINE j == Len(r.log) + i
<1>5. j \in DOMAIN (r.log \o new) /\ (r.log \o new)[j] = new[i]
  BY <1>2, <1>3, ConcatEntries
<1> HIDE DEF j
<1>6. PreparedIn(r.log \o new, t)
  BY <1>2, <1>5 DEF PreparedIn, Entry
<1> QED
  BY <1>4, <1>6

(* A transaction committed is in the log, unless it was applied before. *)
LEMMA CommittedLogged ==
  ASSUME NEW r \in State, NEW s, NEW ts \in Seq(Tid), NEW b \in Ballot, NEW t \in Range(ts)
  PROVE  t \in r.balance_applied \cup CommittedIn(CommitTransactions(r, s, ts, b).log)
<1> DEFINE I == {i \in DOMAIN ts : ts[i] \notin r.balance_applied}
<1> DEFINE new == Select(ts, I)
<1> DEFINE log == LogEntries(new, b, "COMMITTED")
<1>1. CASE t \in r.balance_applied
  BY <1>1
<1>2. CASE t \notin r.balance_applied
  <2>1. PICK i \in DOMAIN ts : ts[i] = t
    BY DEF Range
  <2>2. i \in I /\ I \in SUBSET DOMAIN ts
    BY <1>2, <2>1
  <2> HIDE DEF I
  <2>3. new \in Seq(Tid) /\ \E k \in DOMAIN new : new[k] = t
    BY <2>1, <2>2, SelectProperties, SelectCovers
  <2> HIDE DEF new
  <2>4. PICK k \in 1..Len(new) : new[k] = t
    BY <2>3
  <2>5. log \in Seq(WALEntry) /\ Len(log) = Len(new) /\ log[k] = Entry(t, b, "COMMITTED")
    BY <2>3, <2>4, LogEntriesType DEF Status
  <2>6. r.log \in Seq(WALEntry) /\ new # <<>>
    BY <2>4 DEF State, ServerState
  <2>7. CommitTransactions(r, s, ts, b).log = r.log \o log
    BY <2>6 DEF CommitTransactions, State, ServerState, new, I
  <2> HIDE DEF log
  <2> DEFINE j == Len(r.log) + k
  <2>8. j \in DOMAIN (r.log \o log) /\ (r.log \o log)[j] = log[k]
    BY <2>5, <2>6, ConcatEntries
  <2> HIDE DEF j
  <2>9. t \in CommittedIn(r.log \o log)
    BY <2>5, <2>8 DEF CommittedIn, Entry
  <2> QED
    BY <2>7, <2>9
<1> QED
  BY <1>1, <1>2

(* The entries that a prepare quorum logs: the cross-shard survivors. *)
LEMMA SurvivorsPrepared ==
  ASSUME NEW batch \in Seq(Tid), NEW K \in SUBSET DOMAIN batch, Distinct(batch)
  PROVE  LET kept     == Select(batch, K)
             prepared == Select(batch, {i \in K : IsCrossShard(batch[i])})
         IN  /\ kept \in Seq(Tid) /\ prepared \in Seq(Tid)
             /\ Distinct(kept) /\ Distinct(prepared)
             /\ \A t \in Range(prepared) : IsCrossShard(t)
             /\ \A t \in Range(kept) : IsCrossShard(t) => t \in Range(prepared)
<1> DEFINE C == {i \in K : IsCrossShard(batch[i])}
<1> DEFINE kept == Select(batch, K)
<1> DEFINE prepared == Select(batch, C)
<1>1. C \in SUBSET DOMAIN batch /\ \A i \in K : i \in C <=> IsCrossShard(batch[i])
  OBVIOUS
<1>a. C \in SUBSET K
  OBVIOUS
<1> HIDE DEF C
<1>2. kept \in Seq(Tid) /\ Distinct(kept)
  BY SelectProperties, SelectDistinct
<1>3. prepared \in Seq(Tid) /\ Distinct(prepared)
  BY <1>1, SelectProperties, SelectDistinct
<1>4. \A t \in Range(prepared) : IsCrossShard(t)
  <2>1. \A k \in DOMAIN prepared : \E i \in C : prepared[k] = batch[i]
    BY <1>1, SelectProperties
  <2> HIDE DEF prepared
  <2> QED
    BY <1>1, <1>a, <2>1 DEF Range
<1>5. ASSUME NEW t \in Range(kept), IsCrossShard(t)
      PROVE  t \in Range(prepared)
  <2>1. \A k \in DOMAIN kept : \E i \in K : kept[k] = batch[i]
    BY SelectProperties
  <2> HIDE DEF kept
  <2>2. PICK i \in K : t = batch[i]
    BY <2>1 DEF Range
  <2>3. i \in C
    BY <1>1, <1>5, <2>2
  <2>4. \E k \in DOMAIN prepared : prepared[k] = t
    BY <1>1, <2>2, <2>3, SelectCovers
  <2> HIDE DEF prepared
  <2> QED
    BY <2>4 DEF Range
<1> QED
  BY <1>2, <1>3, <1>4, <1>5 DEF C

(* The part of the batch that does not survive. *)
LEMMA DroppedOpen ==
  ASSUME NEW r \in State, NEW K \in SUBSET DOMAIN r.current, Open(r, r.current)
  PROVE  LET drop == Select(r.current, DOMAIN r.current \ K) IN
         Open(r, drop) /\ Range(drop) = {r.current[i] : i \in DOMAIN r.current \ K}
<1> DEFINE I == DOMAIN r.current \ K
           drop == Select(r.current, I)
<1>1. r.current \in Seq(Tid) /\ I \in SUBSET DOMAIN r.current
  BY DEF State, ServerState
<1>a. Distinct(r.current)
  BY DEF Open
<1> HIDE DEF I
<1>2. Distinct(drop)
  BY <1>1, <1>a, SelectDistinct
<1>b. \A k \in DOMAIN drop : \E i \in I : drop[k] = r.current[i]
  BY <1>1, SelectProperties
<1>3. \A i \in I : \E k \in DOMAIN drop : drop[k] = r.current[i]
  BY <1>1, SelectCovers
<1> HIDE DEF drop
<1>4. Range(drop) = {r.current[i] : i \in I}
  BY <1>b, <1>3 DEF Range
<1>5. \A t \in Range(drop) : r.incall[t] \in {"none", "parked"}
  BY <1>1, <1>4 DEF Open, Range
<1> QED
  BY <1>2, <1>4, <1>5 DEF Open, drop, I

(* onPrepareQuorum. *)
LEMMA OnPrepareQuorumMoves ==
  ASSUME NEW r \in State, NEW s \in Server, NEW K \in SUBSET DOMAIN r.current, NEW D,
         Open(r, r.current), Calls(r, D)
  PROVE  LET q == OnPrepareQuorum(r, s, K) IN Moves(s, q, r, D) /\ Calls(q, D)
<1> DEFINE kept     == Select(r.current, K)
<1> DEFINE dropped  == {r.current[i] : i \in DOMAIN r.current \ K}
<1> DEFINE drop     == Select(r.current, DOMAIN r.current \ K)
<1> DEFINE prepared == Select(r.current, {i \in K : IsCrossShard(r.current[i])})
<1> DEFINE locks    == r.locks \cup UNION {LocalAccounts(s, r.current[i]) : i \in K}
<1> DEFINE p == [r EXCEPT !.await_prepare_decision = FALSE, !.locks = locks, !.current = kept]
<1> DEFINE told == CompleteTransfer(p, drop, "nack")
<1> DEFINE checked == PrepareTransactions(told, prepared, r.promised_num)
<1> DEFINE ready == [checked EXCEPT !.accepted = TRUE, !.accept_num = r.promised_num,
                                    !.accept_batch = kept, !.await_accept_decision = TRUE,
                                    !.accept_successes = 1, !.accept_failures = 0]
<1> DEFINE sent == Send(ready, "ACCEPT", Stubs(s), [ballot |-> r.promised_num, batch |-> kept])
<1> DEFINE done == FinishRound(checked, s)
<1> DEFINE logged == PrepareTransactions(r, prepared, r.promised_num)
<1>1. r.current \in Seq(Tid) /\ r.promised_num \in Ballot
  BY DEF State, ServerState
<1>2. /\ kept \in Seq(Tid) /\ prepared \in Seq(Tid) /\ Distinct(kept) /\ Distinct(prepared)
      /\ \A t \in Range(prepared) : IsCrossShard(t)
      /\ \A t \in Range(kept) : IsCrossShard(t) => t \in Range(prepared)
  BY <1>1, SurvivorsPrepared DEF Open
<1>3. locks \in SUBSET Account
  <2>1. \A i \in K : LocalAccounts(s, r.current[i]) \in SUBSET Account
    BY <1>1, TypesAssumption DEF LocalAccounts
  <2> QED
    BY <2>1 DEF State, ServerState
<1>a. OnPrepareQuorum(r, s, K) = IF K = {} THEN done ELSE sent
  BY DEF OnPrepareQuorum
<1>b. K = {} => dropped = Range(r.current)
  BY DEF Range
<1>c. Open(r, drop) /\ Range(drop) = dropped
  BY DroppedOpen
<1> HIDE DEF kept, prepared, locks, drop
<1>4. p \in ServerState /\ SameParts(p, r) /\ SameLog(p, r)
  BY <1>2, <1>3 DEF State, ServerState, SameParts, SameLog
<1>5. p \in State /\ Calls(p, D)
  BY <1>4, Untouched DEF Calls, SameParts
<1>6. /\ p.incall = r.incall /\ p.pending = r.pending /\ p.current = kept
      /\ p.is_paxos_running = r.is_paxos_running
  BY DEF State, ServerState
<1> HIDE DEF p, dropped
<1>7. /\ told \in State /\ SameLog(told, r) /\ Calls(told, D)
      /\ told.incall = Answered(r.incall, dropped, "nack")
      /\ told.pending = r.pending /\ told.current = kept
      /\ told.is_paxos_running = r.is_paxos_running
  <2>1. told \in State
    BY <1>5, CompleteTransferType DEF InCallStatus
  <2>a. Open(p, drop)
    BY <1>6, <1>c DEF Open
  <2>2. /\ SameLog(told, p) /\ told.incall = Answered(p.incall, Range(drop), "nack")
        /\ told.pending = p.pending /\ told.current = p.current
        /\ told.is_paxos_running = p.is_paxos_running /\ told.outcalls = p.outcalls
    BY <1>5, <2>a, CompleteTransferStep
  <2> HIDE DEF told
  <2>3. SameLog(told, r)
    BY <1>4, <2>2, SameTrans
  <2> QED
    BY <1>5, <1>6, <1>c, <2>1, <2>2, <2>3 DEF Calls
<1> HIDE DEF told
<1>8. /\ checked \in State /\ SameLog(checked, logged) /\ Calls(checked, D)
      /\ SameQueue(checked, told)
  <2>1. checked \in State
    BY <1>1, <1>2, <1>7, PrepareTransactionsType
  <2>2. SameQueue(checked, told) /\ checked.outcalls = told.outcalls
    BY <1>7, LogKeepsQueue
  <2>3. SameLog(checked, logged)
    BY <1>7, PrepareSameLog
  <2> QED
    BY <1>7, <2>1, <2>2, <2>3 DEF Calls
<1>9. \A t \in Range(kept) : IsCrossShard(t) => PreparedIn(logged.log, t)
  BY <1>1, <1>2, PreparedLogged
<1> HIDE DEF checked
<1>10. ASSUME NEW q, SameLog(q, logged)
       PROVE  LogStep(s, q, r, D)
  BY <1>1, <1>2, <1>10 DEF LogStep
<1> HIDE DEF logged
<1>11. \A t \in Tid : told.incall[t] = "ack" => r.incall[t] = "ack"
  BY <1>7 DEF Answered
<1>12. CASE K = {}
  <2>1. SameLog(done, checked) /\ \E m \in State :
              /\ Settled(done, m) /\ m.incall = checked.incall
              /\ m.pending = checked.pending /\ m.current = <<>>
              /\ ~m.is_paxos_running /\ ~m.await_accept_decision
    BY <1>8, FinishRoundStep
  <2>2. Calls(done, D)
    BY <1>8, FinishRoundCalls
  <2> HIDE DEF done
  <2>3. PICK m \in State :
              /\ Settled(done, m) /\ m.incall = checked.incall
              /\ m.pending = checked.pending /\ m.current = <<>>
              /\ ~m.is_paxos_running /\ ~m.await_accept_decision
    BY <2>1
  <2>4. Finished(m, r, "nack")
    BY <1>b, <1>7, <1>8, <1>12, <2>3 DEF Finished, SameQueue
  <2>5. QueueStep(s, done, r)
    BY <2>3, <2>4 DEF QueueStep, Turns, Turned
  <2>6. LogStep(s, done, r, D)
    BY <1>8, <1>10, <2>1, SameTrans
  <2>7. ~done.await_accept_decision /\ done.incall = told.incall
    BY <1>8, <2>3 DEF Settled, SameQueue, Started
  <2>8. VoteStep(done, r) /\ AckStep(done, r)
    BY <1>11, <2>7 DEF VoteStep, AckStep
  <2> QED
    BY <1>a, <1>12, <2>2, <2>5, <2>6, <2>8 DEF Moves
<1>13. CASE K # {}
  <2>1. ready \in ServerState /\ SameParts(ready, checked) /\ SameLog(ready, checked)
    BY <1>1, <1>2, <1>8 DEF State, ServerState, SameParts, SameLog
  <2>2. ready \in State /\ Calls(ready, D)
    BY <1>8, <2>1, Untouched DEF Calls, SameParts
  <2>3. /\ ready.incall = checked.incall /\ ready.pending = checked.pending
        /\ ready.current = checked.current /\ ready.is_paxos_running = checked.is_paxos_running
    BY <1>8 DEF State, ServerState
  <2> HIDE DEF ready
  <2>4. Same(sent, ready)
    BY <2>2, SendSame
  <2>5. Calls(sent, D)
    BY <1>2, <2>2, SendCalls
  <2> HIDE DEF sent
  <2>6. /\ sent.incall = told.incall /\ sent.pending = r.pending /\ sent.current = kept
        /\ sent.is_paxos_running = r.is_paxos_running
    BY <1>7, <1>8, <2>3, <2>4 DEF Same, SameQueue
  <2>7. Filtered(sent, r, K)
    BY <1>7, <1>13, <2>6 DEF Filtered, kept, dropped
  <2>8. SameLog(sent, logged)
    BY <1>8, <2>1, <2>4 DEF SameLog, Same
  <2>9. LogStep(s, sent, r, D)
    BY <1>10, <2>8
  <2>10. QueueStep(s, sent, r)
    BY <2>7 DEF QueueStep
  <2>11. VoteStep(sent, r)
    BY <1>9, <2>6, <2>8 DEF VoteStep, SameLog
  <2>12. AckStep(sent, r)
    BY <1>11, <2>6 DEF AckStep
  <2> QED
    BY <1>a, <1>13, <2>5, <2>9, <2>10, <2>11, <2>12 DEF Moves
<1> QED
  BY <1>12, <1>13

(* onAcceptQuorum. *)
LEMMA OnAcceptQuorumMoves ==
  ASSUME NEW r \in State, NEW s \in Server, NEW D, r.await_accept_decision, Open(r, r.current),
         Calls(r, D)
  PROVE  LET q == OnAcceptQuorum(r, s) IN Moves(s, q, r, D) /\ Calls(q, D)
<1> DEFINE intra == IntraEntries(r.current)
<1> DEFINE p     == [r EXCEPT !.await_accept_decision = FALSE]
<1> DEFINE sent  == Send(p, "COMMIT", Stubs(s), [ballot |-> r.accept_num])
<1> DEFINE free  == [sent EXCEPT !.locks = @ \ LockedBy(s, intra)]
<1> DEFINE done  == CommitTransactions(free, s, intra, r.accept_num)
<1> DEFINE told  == CompleteTransfer(done, r.current, "ack")
<1> DEFINE q     == FinishRound(told, s)
<1> DEFINE logged == CommitTransactions(r, s, intra, r.accept_num)
<1>1. r.current \in Seq(Tid) /\ r.accept_num \in Ballot
  BY DEF State, ServerState
<1>2. intra \in Seq(Tid) /\ \A t \in Range(intra) : ~IsCrossShard(t)
  BY <1>1, EntriesType
<1>3. \A t \in Range(r.current) : ~IsCrossShard(t) => t \in Range(intra)
  <2> DEFINE I == {i \in DOMAIN r.current : ~IsCrossShard(r.current[i])}
  <2>1. I \in SUBSET DOMAIN r.current /\ intra = Select(r.current, I)
    BY DEF IntraEntries
  <2> SUFFICES ASSUME NEW t \in Range(r.current), ~IsCrossShard(t)
               PROVE  t \in Range(intra)
    OBVIOUS
  <2>2. PICK i \in I : r.current[i] = t
    BY DEF Range
  <2> HIDE DEF I
  <2>3. \E k \in DOMAIN Select(r.current, I) : Select(r.current, I)[k] = r.current[i]
    BY <1>1, <2>1, SelectCovers
  <2> QED
    BY <2>1, <2>2, <2>3 DEF Range
<1>4. OnAcceptQuorum(r, s) = q
  BY DEF OnAcceptQuorum
<1> HIDE DEF intra
<1>5. p \in ServerState /\ SameParts(p, r) /\ SameLog(p, r)
  BY DEF State, ServerState, SameParts, SameLog
<1>6. p \in State /\ Calls(p, D)
  BY <1>5, Untouched DEF Calls, SameParts
<1>7. p.incall = r.incall /\ p.pending = r.pending
  BY DEF State, ServerState
<1> HIDE DEF p
<1>8. sent \in State /\ Same(sent, p) /\ Calls(sent, D)
  <2>1. Fits("COMMIT", [ballot |-> r.accept_num])
    BY <1>1 DEF Fits, CommitReq
  <2> QED
    BY <1>6, <2>1, SendType, SendSame, SendCalls DEF Stubs
<1> HIDE DEF sent
<1>9. free \in ServerState /\ SameParts(free, sent) /\ Same(free, sent)
  BY <1>8 DEF State, ServerState, SameParts, Same, SameQueue, SameLog
<1>10. /\ free \in State /\ SameLog(free, r) /\ Calls(free, D)
       /\ free.incall = r.incall /\ free.pending = r.pending
  BY <1>5, <1>7, <1>8, <1>9, Untouched DEF Calls, SameParts, Same, SameLog, SameQueue
<1> HIDE DEF free
<1>11. /\ done \in State /\ SameLog(done, logged) /\ Calls(done, D)
       /\ done.incall = r.incall /\ done.pending = r.pending
  <2>1. done \in State /\ SameLog(done, logged)
    BY <1>1, <1>2, <1>10, CommitTransactionsType, CommitSameLog
  <2>2. SameQueue(done, free) /\ done.outcalls = free.outcalls
    BY <1>10, LogKeepsQueue
  <2> QED
    BY <1>10, <2>1, <2>2 DEF Calls, SameQueue
<1> HIDE DEF done
<1>12. /\ told \in State /\ SameLog(told, logged) /\ Calls(told, D)
       /\ told.incall = Answered(r.incall, Range(r.current), "ack")
       /\ told.pending = r.pending
  <2>1. told \in State
    BY <1>11, CompleteTransferType DEF InCallStatus
  <2>2. /\ SameLog(told, done) /\ told.incall = Answered(done.incall, Range(r.current), "ack")
        /\ told.pending = done.pending /\ told.outcalls = done.outcalls
    <3>1. Open(done, r.current)
      BY <1>11 DEF Open
    <3> QED
      BY <1>11, <3>1, CompleteTransferStep
  <2> HIDE DEF told
  <2>3. SameLog(told, logged)
    BY <1>11, <2>2, SameTrans
  <2> QED
    BY <1>11, <2>1, <2>2, <2>3 DEF Calls
<1> HIDE DEF told
<1>13. Calls(q, D)
  BY <1>12, FinishRoundCalls
<1>14. SameLog(q, told) /\ \E m \in State :
              /\ Settled(q, m) /\ m.incall = told.incall
              /\ m.pending = told.pending /\ m.current = <<>>
              /\ ~m.is_paxos_running /\ ~m.await_accept_decision
  BY <1>12, FinishRoundStep
<1> HIDE DEF q
<1>15. PICK m \in State :
              /\ Settled(q, m) /\ m.incall = told.incall
              /\ m.pending = told.pending /\ m.current = <<>>
              /\ ~m.is_paxos_running /\ ~m.await_accept_decision
  BY <1>14
<1>16. Finished(m, r, "ack")
  BY <1>12, <1>15 DEF Finished
<1>17. QueueStep(s, q, r)
  BY <1>15, <1>16 DEF QueueStep, Turns, Turned
<1>18. SameLog(q, logged)
  BY <1>12, <1>14, SameTrans
<1>19. LogStep(s, q, r, D)
  BY <1>1, <1>2, <1>18 DEF LogStep
<1>20. ~q.await_accept_decision /\ q.incall = told.incall
  BY <1>15 DEF Settled, SameQueue, Started
<1>21. \A t \in Range(r.current) : ~IsCrossShard(t) =>
          t \in r.balance_applied \cup CommittedIn(logged.log)
  BY <1>1, <1>2, <1>3, CommittedLogged
<1> HIDE DEF logged
<1>22. VoteStep(q, r) /\ AckStep(q, r)
  BY <1>12, <1>18, <1>20, <1>21 DEF VoteStep, AckStep, Answered, SameLog
<1> QED
  BY <1>4, <1>13, <1>17, <1>19, <1>22 DEF Moves

(* onRoundAbort. *)
LEMMA OnRoundAbortMoves ==
  ASSUME NEW r \in State, NEW s \in Server, NEW phase \in BOOLEAN, NEW D, Open(r, r.current),
         Calls(r, D)
  PROVE  LET q == OnRoundAbort(r, s, phase) IN Moves(s, q, r, D) /\ Calls(q, D)
<1> DEFINE freed == IF phase THEN {} ELSE LockedBy(s, IntraEntries(r.current))
<1> DEFINE p == [r EXCEPT !.locks = r.locks \ freed]
<1> DEFINE told == CompleteTransfer(p, r.current, "nack")
<1> DEFINE q == FinishRound(told, s)
<1>1. OnRoundAbort(r, s, phase) = q
  BY DEF OnRoundAbort, State, ServerState
<1> HIDE DEF freed
<1>2. p \in ServerState /\ SameParts(p, r) /\ Same(p, r)
  BY DEF State, ServerState, SameParts, Same, SameQueue, SameLog
<1>3. p \in State /\ Calls(p, D)
  BY <1>2, Untouched DEF Calls, SameParts
<1> HIDE DEF p
<1>4. /\ told \in State /\ SameLog(told, r) /\ Calls(told, D)
      /\ told.incall = Answered(r.incall, Range(r.current), "nack")
      /\ told.pending = r.pending
  <2>1. told \in State
    BY <1>3, CompleteTransferType DEF InCallStatus
  <2>2. /\ SameLog(told, p) /\ told.incall = Answered(p.incall, Range(r.current), "nack")
        /\ told.pending = p.pending /\ told.outcalls = p.outcalls
    <3>1. Open(p, r.current)
      BY <1>2 DEF Open, Same, SameQueue
    <3> QED
      BY <1>3, <3>1, CompleteTransferStep
  <2> HIDE DEF told
  <2> QED
    BY <1>2, <1>3, <2>1, <2>2 DEF Calls, Same, SameLog, SameQueue
<1> HIDE DEF told
<1>5. Calls(q, D)
  BY <1>4, FinishRoundCalls
<1>6. SameLog(q, told) /\ \E m \in State :
              /\ Settled(q, m) /\ m.incall = told.incall
              /\ m.pending = told.pending /\ m.current = <<>>
              /\ ~m.is_paxos_running /\ ~m.await_accept_decision
  BY <1>4, FinishRoundStep
<1> HIDE DEF q
<1>7. PICK m \in State :
              /\ Settled(q, m) /\ m.incall = told.incall
              /\ m.pending = told.pending /\ m.current = <<>>
              /\ ~m.is_paxos_running /\ ~m.await_accept_decision
  BY <1>6
<1>8. Finished(m, r, "nack")
  BY <1>4, <1>7 DEF Finished
<1>9. QueueStep(s, q, r)
  BY <1>7, <1>8 DEF QueueStep, Turns, Turned
<1>10. LogStep(s, q, r, D)
  BY <1>4, <1>6, SameTrans DEF LogStep
<1>11. ~q.await_accept_decision /\ q.incall = told.incall
  BY <1>7 DEF Settled, SameQueue, Started
<1>12. VoteStep(q, r) /\ AckStep(q, r)
  BY <1>4, <1>11 DEF VoteStep, AckStep, Answered
<1> QED
  BY <1>1, <1>5, <1>9, <1>10, <1>12 DEF Moves

-----------------------------------------------------------------------------
(***************************************************************************)
(* The steps of the servers.                                               *)
(***************************************************************************)

(* The decisions taken. *)
Decided == {d \in Tid \X {"commit", "abort"} : tpc[d[1]] = d[2]}

(* What the steps below rely on: the calls of a batch are parked, and peer *)
(* calls and logs hold entries a server may hold.                          *)
Ready(r, D) == Open(r, r.current) /\ Calls(r, D) /\ EntriesOK(r.log, D)

(* An instance without faults of a kind stays without. *)
FaultsBounded == \A kind \in FaultKind : Budget[kind] = 0 => budget[kind] = 0

(* Only decisions that were taken are sent. *)
DecisionsTaken == \A s \in Server, t \in Tid : <<s, t>> \in decisions => tpc[t] # "none"

AllReady ==
  TypeOK /\ FaultsBounded /\ DecisionsTaken /\ \A s \in Server : Ready(srv[s], Decided)

(* What they do to every server. *)
AllMove ==
  \A p \in Server : Moves(p, srv'[p], srv[p], Decided) /\ Calls(srv'[p], Decided)

(* A step of one server. *)
LEMMA StepMoves ==
  ASSUME AllReady, NEW s \in Server, NEW q,
         Moves(s, q, srv[s], Decided), Calls(q, Decided), Step(s, q)
  PROVE  AllMove
<1>1. srv \in [Server -> State]
  BY TypeOKState DEF AllReady
<1>2. srv' = [srv EXCEPT ![s] = q]
  BY DEF Step
<1> SUFFICES ASSUME NEW p \in Server
             PROVE  Moves(p, srv'[p], srv[p], Decided) /\ Calls(srv'[p], Decided)
  BY DEF AllMove
<1>3. CASE p = s
  BY <1>1, <1>2, <1>3
<1>4. CASE p # s
  <2>1. srv'[p] = srv[p]
    BY <1>1, <1>2, <1>4
  <2>2. Same(srv'[p], srv[p])
    BY <2>1 DEF Same, SameQueue, SameLog
  <2>3. Calls(srv[p], Decided)
    BY DEF AllReady, Ready
  <2> QED
    BY <2>1, <2>2, <2>3, SameMoves
<1> QED
  BY <1>3, <1>4

(* Only the queue and log sides of the state before matter. *)
LEMMA StepFrom ==
  ASSUME AllReady, NEW s \in Server, NEW n \in State, Same(n, srv[s]), NEW q,
         Moves(s, q, n, Decided), Calls(q, Decided), Step(s, q)
  PROVE  AllMove
<1>1. srv[s] \in State
  BY TypeOKState DEF AllReady
<1>2. Moves(s, q, srv[s], Decided)
  BY <1>1, MovesFrom
<1> QED
  BY <1>2, StepMoves

(* A step of a peer and a change in the caller's calls. *)
LEMMA PeerMoves ==
  ASSUME AllReady, NEW s \in Server, NEW c \in srv[s].outcalls,
         NEW rp \in State, Moves(c.to, rp, srv[c.to], Decided), Calls(rp, Decided),
         NEW new, \A d \in new : CallOK(d, Decided),
         srv' = [[srv EXCEPT ![c.to] = rp] EXCEPT ![s].outcalls = (@ \ {c}) \cup new]
  PROVE  AllMove
<1> DEFINE mid == [srv EXCEPT ![c.to] = rp]
<1> DEFINE q == [mid[s] EXCEPT !.outcalls = (mid[s].outcalls \ {c}) \cup new]
<1>1. srv \in [Server -> State]
  BY TypeOKState DEF AllReady
<1>2. c.to \in Server
  BY <1>1, CallType
<1>3. mid \in [Server -> State]
  BY <1>1, <1>2
<1>4. \A p \in Server : Moves(p, mid[p], srv[p], Decided) /\ Calls(mid[p], Decided)
  <2> SUFFICES ASSUME NEW p \in Server
               PROVE  Moves(p, mid[p], srv[p], Decided) /\ Calls(mid[p], Decided)
    OBVIOUS
  <2>1. CASE p = c.to
    BY <1>1, <2>1
  <2>2. CASE p # c.to
    <3>1. mid[p] = srv[p]
      BY <1>1, <2>2
    <3>2. Same(mid[p], srv[p])
      BY <3>1 DEF Same, SameQueue, SameLog
    <3>3. Calls(srv[p], Decided)
      BY DEF AllReady, Ready
    <3> HIDE DEF mid
    <3> QED
      BY <3>1, <3>2, <3>3, SameMoves
  <2> QED
    BY <2>1, <2>2
<1>5. srv' = [mid EXCEPT ![s] = q]
  BY <1>3
<1> HIDE DEF mid
<1>6. Same(q, mid[s])
  BY <1>3 DEF Same, SameQueue, SameLog, State, ServerState
<1>7. q.outcalls = (mid[s].outcalls \ {c}) \cup new
  BY <1>3 DEF State, ServerState
<1> HIDE DEF q
<1>8. Calls(q, Decided)
  BY <1>4, <1>7 DEF Calls
<1>9. Moves(s, q, srv[s], Decided)
  BY <1>4, <1>6, MovesTo
<1>10. \A p \in Server : srv'[p] = IF p = s THEN q ELSE mid[p]
  BY <1>3, <1>5
<1> QED
  BY <1>4, <1>8, <1>9, <1>10 DEF AllMove

(* A peer that answers. *)
LEMMA AnswerMoves ==
  ASSUME AllReady, NEW s \in Server, NEW c \in srv[s].outcalls,
         NEW rp \in State, Moves(c.to, rp, srv[c.to], Decided), Calls(rp, Decided),
         NEW reply, c.type = "SYNC" => EntriesOK(reply.logs, Decided),
         Answer(s, c, rp, reply)
  PROVE  AllMove
<1> DEFINE answered == [c EXCEPT !.handled = TRUE, !.reply = reply]
<1> DEFINE new == IF c.open THEN {answered} ELSE {}
<1>1. srv \in [Server -> State]
  BY TypeOKState DEF AllReady
<1>2. c \in OutCall
  BY <1>1, CallType
<1>3. CallOK(c, Decided)
  BY DEF AllReady, Ready, Calls
<1>4. answered.type = c.type /\ answered.req = c.req /\ answered.reply = reply
  BY <1>2 DEF OutCall, Call
<1>a. srv' = [[srv EXCEPT ![c.to] = rp] EXCEPT ![s].outcalls = (@ \ {c}) \cup new]
  BY DEF Answer
<1> HIDE DEF answered
<1>5. CallOK(answered, Decided)
  BY <1>3, <1>4 DEF CallOK
<1>6. \A d \in new : CallOK(d, Decided)
  BY <1>5
<1> HIDE DEF new
<1> QED
  BY <1>a, <1>6, PeerMoves

(* enqueueClientTxn. *)
LEMMA EnqueueClientTxnMoves ==
  ASSUME AllReady, NEW s \in Server, NEW t \in Tid, EnqueueClientTxn(s, t)
  PROVE  AllMove
<1> DEFINE r == srv[s]
<1> DEFINE p == [r EXCEPT !.pending = Append(r.pending, t)]
<1> DEFINE told == CompleteTransfer(p, <<t>>, "parked")
<1> DEFINE nack == CompleteTransfer(r, <<t>>, "nack")
<1> DEFINE q == MaybeStartRound(told, s)
<1>1. r \in State /\ Calls(r, Decided) /\ r.incall[t] = "none" /\ t \in Fresh(s)
  BY TypeOKState DEF AllReady, Ready, EnqueueClientTxn, Fresh
<1>2. Append(r.pending, t) \in Seq(Tid)
  BY <1>1 DEF State, ServerState
<1>3. \/ Step(s, nack)
      \/ Step(s, q)
  BY <1>1 DEF EnqueueClientTxn, State, ServerState
<1> HIDE DEF r
<1>4. p \in ServerState /\ SameParts(p, r) /\ SameLog(p, r)
  BY <1>1, <1>2 DEF State, ServerState, SameParts, SameLog
<1>5. p \in State /\ Calls(p, Decided)
  BY <1>1, <1>4, Untouched DEF Calls, SameParts
<1>6. /\ p.incall = r.incall /\ p.pending = Append(r.pending, t) /\ p.current = r.current
      /\ p.is_paxos_running = r.is_paxos_running
      /\ p.await_accept_decision = r.await_accept_decision
  BY <1>1 DEF State, ServerState
<1> HIDE DEF p
<1>a. Range(<<t>>) = {t} /\ Open(r, <<t>>) /\ Open(p, <<t>>)
  <2>1. DOMAIN <<t>> = {1} /\ <<t>>[1] = t
    OBVIOUS
  <2>2. Range(<<t>>) = {t} /\ Distinct(<<t>>)
    BY <2>1 DEF Range, Distinct
  <2> QED
    BY <1>1, <1>6, <2>2 DEF Open
<1>7. CASE Step(s, nack)
  <2>1. /\ SameLog(nack, r) /\ nack.incall = Answered(r.incall, {t}, "nack")
        /\ nack.pending = r.pending /\ nack.current = r.current
        /\ nack.is_paxos_running = r.is_paxos_running
        /\ nack.await_accept_decision = r.await_accept_decision
        /\ nack.outcalls = r.outcalls
    BY <1>1, <1>a, CompleteTransferStep
  <2> HIDE DEF nack
  <2>2. Refused(nack, r, t)
    BY <1>1, <2>1 DEF Refused
  <2>3. QueueStep(s, nack, r) /\ LogStep(s, nack, r, Decided)
    BY <1>1, <2>1, <2>2 DEF QueueStep, LogStep
  <2>4. VoteStep(nack, r) /\ AckStep(nack, r)
    BY <2>1 DEF VoteStep, AckStep, Answered
  <2>5. Calls(nack, Decided)
    BY <1>1, <2>1 DEF Calls
  <2> QED
    BY <1>7, <2>3, <2>4, <2>5, StepMoves DEF Moves, r
<1>8. CASE Step(s, q)
  <2>1. told \in State
    BY <1>5, CompleteTransferType DEF InCallStatus
  <2>2. /\ SameLog(told, p) /\ told.incall = Answered(p.incall, {t}, "parked")
        /\ told.pending = p.pending /\ told.current = p.current
        /\ told.is_paxos_running = p.is_paxos_running
        /\ told.await_accept_decision = p.await_accept_decision
        /\ told.outcalls = p.outcalls
    BY <1>5, <1>a, CompleteTransferStep
  <2> HIDE DEF told
  <2>3. Enqueued(told, r, t)
    BY <1>1, <1>6, <2>2 DEF Enqueued
  <2>4. SameLog(q, told) /\ Settled(q, told)
    BY <2>1, MaybeStartRoundStep
  <2>5. Calls(q, Decided)
    BY <1>5, <2>1, <2>2, FinishRoundCalls DEF Calls
  <2> HIDE DEF q
  <2>6. QueueStep(s, q, r)
    BY <1>1, <2>1, <2>3, <2>4 DEF QueueStep, Turns, Turned
  <2>7. SameLog(q, r)
    BY <1>4, <2>2, <2>4 DEF SameLog
  <2>8. LogStep(s, q, r, Decided)
    BY <2>7 DEF LogStep
  <2>9. /\ q.incall = told.incall
        /\ q.await_accept_decision => r.await_accept_decision /\ q.current = r.current
    BY <1>6, <2>2, <2>4 DEF Settled, Started, SameQueue
  <2>10. VoteStep(q, r) /\ AckStep(q, r)
    BY <1>6, <2>2, <2>9 DEF VoteStep, AckStep, Answered
  <2> QED
    BY <1>8, <2>5, <2>6, <2>8, <2>10, StepMoves DEF Moves, r
<1> QED
  BY <1>3, <1>7, <1>8

(* A step that leaves the queue alone. *)
LEMMA LogOnlyMoves ==
  ASSUME NEW s, NEW q, NEW r, NEW D, SameQueue(q, r), LogStep(s, q, r, D)
  PROVE  Moves(s, q, r, D)
<1>1. QueueStep(s, q, r)
  BY DEF QueueStep, Reissued, SameQueue
<1>2. VoteStep(q, r) /\ AckStep(q, r)
  BY DEF VoteStep, AckStep, SameQueue
<1> QED
  BY <1>1, <1>2 DEF Moves

(* Forgetting the timestamp of t touches neither side. *)
LEMMA UntimedSame ==
  ASSUME NEW r \in State, NEW s \in Server, NEW t \in Tid
  PROVE  LET r1 == [r EXCEPT !.prepareTimestamps = @ \ {t}] IN
         r1 \in State /\ Same(r1, r) /\ r1.outcalls = r.outcalls
<1> DEFINE r1 == [r EXCEPT !.prepareTimestamps = @ \ {t}]
<1>1. r1 \in ServerState /\ SameParts(r1, r)
  BY DEF State, ServerState, SameParts
<1>2. Same(r1, r) /\ r1.outcalls = r.outcalls
  BY DEF State, ServerState, Same, SameQueue, SameLog
<1> QED
  BY <1>1, <1>2, Untouched

(* Closing t as aborted is a step of the log. *)
LEMMA AbortMoves ==
  ASSUME NEW r \in State, NEW s \in Server, NEW t \in Tid, r.transferIndex[t] # 0,
         NEW r1 \in State, Same(r1, r), r1.outcalls = r.outcalls, NEW D, Calls(r, D),
         MayAbort(t, D)
  PROVE  LET q == CloseTransaction(r1, s, t, "ABORTED") IN
         Moves(s, q, r, D) /\ Calls(q, D)
<1> DEFINE q == CloseTransaction(r1, s, t, "ABORTED")
<1>1. SameQueue(q, r1) /\ q.outcalls = r1.outcalls
  BY LogKeepsQueue
<1>2. SameLog(q, CloseTransaction(r, s, t, "ABORTED"))
  BY CloseSameLog DEF Same
<1> HIDE DEF q
<1>3. SameQueue(q, r) /\ Calls(q, D)
  BY <1>1, SameTrans DEF Same, Calls
<1>4. LogStep(s, q, r, D)
  BY <1>2 DEF LogStep
<1>5. Moves(s, q, r, D)
  BY <1>3, <1>4, LogOnlyMoves
<1> QED
  BY <1>3, <1>5 DEF q

(* processTpcDecision. *)
LEMMA ProcessTpcDecisionMoves ==
  ASSUME AllReady, NEW s \in Server, NEW t \in Tid, ProcessTpcDecision(s, t)
  PROVE  AllMove
<1> DEFINE r  == srv[s]
<1> DEFINE r1 == [r EXCEPT !.prepareTimestamps = @ \ {t}]
<1> DEFINE ra == CloseTransaction(r1, s, t, "ABORTED")
<1> DEFINE rc == CloseTransaction(r1, s, t, "COMMITTED")
<1> DEFINE money == Apply(r, s, {t} \ r.balance_applied)
<1> DEFINE r3 == [rc EXCEPT !.balances = money, !.balance_applied = @ \cup {t}]
<1>1. srv \in [Server -> State] /\ r \in State /\ Calls(r, Decided)
  BY TypeOKState DEF AllReady, Ready
<1>2. \/ srv' = srv
      \/ Step(s, r1)
      \/ r.transferIndex[t] # 0 /\ tpc[t] = "commit" /\ Step(s, r3)
      \/ r.transferIndex[t] # 0 /\ tpc[t] = "abort" /\ Step(s, ra)
  <2>1. <<s, t>> \in decisions
    BY DEF ProcessTpcDecision
  <2>2. tpc[t] # "none"
    BY <2>1 DEF AllReady, DecisionsTaken
  <2>3. tpc[t] \in {"none", "commit", "abort"}
    BY DEF AllReady, TypeOK
  <2> QED
    BY <2>2, <2>3 DEF ProcessTpcDecision
<1> HIDE DEF r
<1>3. r1 \in State /\ Same(r1, r) /\ r1.outcalls = r.outcalls
  BY <1>1, UntimedSame
<1> HIDE DEF r1
<1>4. CASE srv' = srv
  BY <1>4, SameMoves DEF AllReady, Ready, AllMove, Same, SameQueue, SameLog
<1>5. CASE Step(s, r1)
  <2>1. Moves(s, r1, r, Decided) /\ Calls(r1, Decided)
    BY <1>1, <1>3, SameMoves DEF Calls
  <2> QED
    BY <1>5, <2>1, StepMoves DEF r
<1>6. CASE r.transferIndex[t] # 0 /\ tpc[t] = "abort" /\ Step(s, ra)
  <2>0. MayAbort(t, Decided)
    BY <1>6 DEF MayAbort, Decided
  <2>1. Moves(s, ra, r, Decided) /\ Calls(ra, Decided)
    BY <1>1, <1>3, <1>6, <2>0, AbortMoves
  <2> QED
    BY <1>6, <2>1, StepMoves DEF r
<1>7. CASE r.transferIndex[t] # 0 /\ tpc[t] = "commit" /\ Step(s, r3)
  <2>1. Apply(r1, s, {t} \ r1.balance_applied) = money
    BY <1>3 DEF Apply, Same, SameLog
  <2>2. CommitClosed(r1, s, t) = r3
    BY <2>1 DEF CommitClosed
  <2>3. SameLog(r3, CommitClosed(r, s, t))
    BY <1>1, <1>3, <2>2, CloseSameLog DEF Same
  <2>4. SameQueue(rc, r1) /\ rc.outcalls = r1.outcalls
    BY <1>3, LogKeepsQueue
  <2>5. DOMAIN rc = DOMAIN r1
    BY DEF CloseTransaction
  <2> HIDE DEF rc, money
  <2>6. SameQueue(r3, rc) /\ r3.outcalls = rc.outcalls
    BY <1>3, <2>5 DEF SameQueue, State, ServerState
  <2> HIDE DEF r3
  <2>7. SameQueue(r3, r) /\ Calls(r3, Decided)
    BY <1>1, <1>3, <2>4, <2>6, SameTrans DEF Same, Calls
  <2>8. <<t, "commit">> \in Decided
    BY <1>7 DEF Decided
  <2>9. LogStep(s, r3, r, Decided)
    BY <1>7, <2>3, <2>8 DEF LogStep
  <2> QED
    BY <1>7, <2>7, <2>9, LogOnlyMoves, StepMoves DEF r
<1> QED
  BY <1>2, <1>4, <1>5, <1>6, <1>7

(* A lock timeout. *)
LEMMA LockTimeoutMoves ==
  ASSUME AllReady, NEW s \in Server, NEW t \in Tid, LockTimeout(s, t)
  PROVE  AllMove
<1> DEFINE r  == srv[s]
<1> DEFINE r1 == [r EXCEPT !.prepareTimestamps = @ \ {t}]
<1> DEFINE ra == CloseTransaction(r1, s, t, "ABORTED")
<1>1. r \in State /\ Calls(r, Decided)
  BY TypeOKState DEF AllReady, Ready
<1>2. Step(s, r1) \/ (r.transferIndex[t] # 0 /\ Step(s, ra))
  BY DEF LockTimeout
<1> HIDE DEF r
<1>3. r1 \in State /\ Same(r1, r) /\ r1.outcalls = r.outcalls
  BY <1>1, UntimedSame
<1> HIDE DEF r1
<1>4. Moves(s, r1, r, Decided) /\ Calls(r1, Decided)
  BY <1>1, <1>3, SameMoves DEF Calls
<1>a. MayAbort(t, Decided)
  BY DEF LockTimeout, Spend, AllReady, FaultsBounded, FaultKind, MayAbort
<1>5. r.transferIndex[t] # 0 => Moves(s, ra, r, Decided) /\ Calls(ra, Decided)
  BY <1>1, <1>3, <1>a, AbortMoves
<1> HIDE DEF ra
<1> QED
  BY <1>2, <1>4, <1>5, StepMoves DEF r

(* A disconnection. *)
LEMMA ProcessDisconnectCallMoves ==
  ASSUME AllReady, NEW s \in Server, NEW b \in BOOLEAN, ProcessDisconnectCall(s, b)
  PROVE  AllMove
<1> DEFINE r == srv[s]
<1> DEFINE q == [r EXCEPT !.i_am_disconnected = b]
<1>1. r \in State /\ Calls(r, Decided) /\ Step(s, q)
  BY TypeOKState DEF AllReady, Ready, ProcessDisconnectCall
<1> HIDE DEF r
<1>2. Same(q, r) /\ q.outcalls = r.outcalls
  BY <1>1 DEF State, ServerState, Same, SameQueue, SameLog
<1> HIDE DEF q
<1>3. Moves(s, q, r, Decided) /\ Calls(q, Decided)
  BY <1>1, <1>2, SameMoves DEF Calls
<1> QED
  BY <1>1, <1>3, StepMoves DEF r

(* processPrepareCall. *)
LEMMA ProcessPrepareCallMoves ==
  ASSUME AllReady, NEW s \in Server, NEW c \in srv[s].outcalls, ProcessPrepareCall(s, c)
  PROVE  AllMove
<1> DEFINE r == srv[c.to]
<1> DEFINE q == [r EXCEPT !.promised = TRUE, !.promised_num = c.req.ballot,
                          !.ballot_num = c.req.ballot.num]
<1> DEFINE p == StartSync(r, c.req.ballot.server_id)
<1>1. srv \in [Server -> State]
  BY TypeOKState DEF AllReady
<1>2. c.type = "PREPARE" /\ c \in OutCall /\ c.to \in Server /\ r \in State
  BY <1>1, CallType DEF ProcessPrepareCall
<1>3. Calls(r, Decided)
  BY <1>2 DEF AllReady, Ready
<1>4. /\ c.req.ballot \in Ballot /\ c.req.ballot.num \in Nat
      /\ c.req.ballot.server_id \in Server
  <2>1. c.req \in PrepareReq
    BY <1>2 DEF OutCall, Call
  <2> QED
    BY <2>1 DEF PrepareReq, Proposal, Ballot
<1>5. \E reply : Answer(s, c, r, reply) \/ Answer(s, c, q, reply) \/ Answer(s, c, p, reply)
  BY DEF ProcessPrepareCall
<1> HIDE DEF r
<1>6. q \in ServerState /\ SameParts(q, r)
  BY <1>2, <1>4 DEF State, ServerState, SameParts
<1>7. q \in State /\ Same(q, r) /\ Calls(q, Decided)
  <2>1. Same(q, r)
    BY <1>2 DEF State, ServerState, Same, SameQueue, SameLog
  <2> QED
    BY <1>2, <1>3, <1>6, <2>1, Untouched DEF Calls, SameParts
<1>8. p \in State /\ Same(p, r) /\ Calls(p, Decided)
  BY <1>2, <1>3, <1>4, StartSyncType, StartSyncSame, StartSyncCalls
<1> HIDE DEF q, p
<1>9. /\ Moves(c.to, r, r, Decided) /\ Moves(c.to, q, r, Decided)
      /\ Moves(c.to, p, r, Decided)
  BY <1>7, <1>8, SameMoves DEF Same, SameQueue, SameLog
<1> QED
  BY <1>2, <1>3, <1>5, <1>7, <1>8, <1>9, AnswerMoves DEF r

(* What processAcceptCall logs is a step of the log. *)
LEMMA CrossEntriesDistinct ==
  ASSUME NEW batch \in Seq(Tid), Distinct(batch)
  PROVE  /\ CrossEntries(batch) \in Seq(Tid) /\ Distinct(CrossEntries(batch))
         /\ \A t \in Range(CrossEntries(batch)) : IsCrossShard(t)
<1> DEFINE I == {i \in DOMAIN batch : IsCrossShard(batch[i])}
<1>1. I \in SUBSET DOMAIN batch
  OBVIOUS
<1>2. CrossEntries(batch) = Select(batch, I)
  BY DEF CrossEntries
<1>3. \A i \in I : IsCrossShard(batch[i])
  OBVIOUS
<1> HIDE DEF I
<1>4. Select(batch, I) \in Seq(Tid) /\ Distinct(Select(batch, I))
  BY <1>1, SelectProperties, SelectDistinct
<1>5. \A k \in DOMAIN Select(batch, I) : \E i \in I : Select(batch, I)[k] = batch[i]
  BY <1>1, SelectProperties
<1>6. \A t \in Range(Select(batch, I)) : IsCrossShard(t)
  BY <1>3, <1>5 DEF Range
<1> QED
  BY <1>2, <1>4, <1>6

(* What processCommitCall logs. *)
LEMMA IntraEntriesIntra ==
  ASSUME NEW batch \in Seq(Tid)
  PROVE  /\ IntraEntries(batch) \in Seq(Tid)
         /\ \A t \in Range(IntraEntries(batch)) : ~IsCrossShard(t)
<1> DEFINE I == {i \in DOMAIN batch : ~IsCrossShard(batch[i])}
<1>1. I \in SUBSET DOMAIN batch
  OBVIOUS
<1>2. IntraEntries(batch) = Select(batch, I)
  BY DEF IntraEntries
<1>3. \A i \in I : ~IsCrossShard(batch[i])
  OBVIOUS
<1> HIDE DEF I
<1>4. /\ Select(batch, I) \in Seq(Tid)
      /\ \A k \in DOMAIN Select(batch, I) : \E i \in I : Select(batch, I)[k] = batch[i]
  BY <1>1, SelectProperties
<1>5. \A t \in Range(Select(batch, I)) : ~IsCrossShard(t)
  BY <1>3, <1>4 DEF Range
<1> QED
  BY <1>2, <1>4, <1>5

(* processAcceptCall. *)
LEMMA ProcessAcceptCallMoves ==
  ASSUME AllReady, NEW s \in Server, NEW c \in srv[s].outcalls, ProcessAcceptCall(s, c)
  PROVE  AllMove
<1> DEFINE r == srv[c.to]
<1> DEFINE q == [r EXCEPT !.accepted = TRUE, !.accept_num = c.req.ballot,
                          !.accept_batch = c.req.batch,
                          !.locks = @ \cup LockedBy(c.to, c.req.batch)]
<1> DEFINE ts == CrossEntries(c.req.batch)
<1> DEFINE q2 == PrepareTransactions(q, ts, c.req.ballot)
<1>1. srv \in [Server -> State]
  BY TypeOKState DEF AllReady
<1>2. c.type = "ACCEPT" /\ c \in OutCall /\ r \in State /\ c.to \in Server
  BY <1>1, CallType DEF ProcessAcceptCall
<1>3. Calls(r, Decided) /\ CallOK(c, Decided)
  BY <1>2 DEF AllReady, Ready, Calls
<1>4. c.req.ballot \in Ballot /\ c.req.batch \in Seq(Tid)
  <2>1. c.req \in AcceptReq
    BY <1>2 DEF OutCall, Call
  <2> QED
    BY <2>1 DEF AcceptReq
<1>5. LockedBy(c.to, c.req.batch) \in SUBSET Account
  BY <1>4, RangeType, TypesAssumption DEF LockedBy, LocalAccounts
<1>6. ts \in Seq(Tid) /\ Distinct(ts) /\ \A t \in Range(ts) : IsCrossShard(t)
  BY <1>2, <1>3, <1>4, CrossEntriesDistinct DEF CallOK
<1>7. \E reply : Answer(s, c, r, reply) \/ Answer(s, c, q2, reply)
  BY DEF ProcessAcceptCall
<1> HIDE DEF r, ts
<1>8. q \in ServerState /\ SameParts(q, r)
  BY <1>2, <1>4, <1>5 DEF State, ServerState, SameParts
<1>9. q \in State
  BY <1>2, <1>8, Untouched
<1>10. Same(q, r) /\ q.outcalls = r.outcalls
  BY <1>2 DEF State, ServerState, Same, SameQueue, SameLog
<1> HIDE DEF q
<1>11. q2 \in State
  BY <1>4, <1>6, <1>9, PrepareTransactionsType
<1>12. SameQueue(q2, q) /\ q2.outcalls = q.outcalls
  BY <1>9, LogKeepsQueue
<1>13. SameLog(q2, PrepareTransactions(r, ts, c.req.ballot))
  BY <1>2, <1>9, <1>10, PrepareSameLog DEF Same
<1> HIDE DEF q2
<1>14. SameQueue(q2, r) /\ Calls(q2, Decided)
  BY <1>3, <1>10, <1>12, SameTrans DEF Same, Calls
<1>15. LogStep(c.to, q2, r, Decided)
  BY <1>4, <1>6, <1>13 DEF LogStep
<1>16. Moves(c.to, q2, r, Decided) /\ Moves(c.to, r, r, Decided)
  BY <1>14, <1>15, LogOnlyMoves, SameMoves DEF Same, SameQueue, SameLog
<1> QED
  BY <1>2, <1>3, <1>7, <1>11, <1>14, <1>16, AnswerMoves DEF r

(* processCommitCall. *)
LEMMA ProcessCommitCallMoves ==
  ASSUME AllReady, NEW s \in Server, NEW c \in srv[s].outcalls, ProcessCommitCall(s, c)
  PROVE  AllMove
<1> DEFINE r == srv[c.to]
<1> DEFINE q == [r EXCEPT !.locks = @ \ LockedBy(c.to, r.accept_batch),
                          !.promised = FALSE, !.accepted = FALSE]
<1> DEFINE ts == IntraEntries(r.accept_batch)
<1> DEFINE done == CommitTransactions(q, c.to, ts, r.accept_num)
<1>1. srv \in [Server -> State]
  BY TypeOKState DEF AllReady
<1>2. r \in State /\ c.to \in Server
  BY <1>1, CallType
<1>3. r.accept_num \in Ballot /\ r.accept_batch \in Seq(Tid) /\ Calls(r, Decided)
  BY <1>2 DEF State, ServerState, AllReady, Ready
<1>4. ts \in Seq(Tid) /\ \A t \in Range(ts) : ~IsCrossShard(t)
  BY <1>3, IntraEntriesIntra
<1>5. \E rp \in {done, r} :
        srv' = [[srv EXCEPT ![c.to] = rp] EXCEPT ![s].outcalls = @ \ {c}]
  BY DEF ProcessCommitCall
<1> HIDE DEF r, ts
<1>6. q \in ServerState /\ SameParts(q, r)
  BY <1>2 DEF State, ServerState, SameParts
<1>7. q \in State
  BY <1>2, <1>6, Untouched
<1>8. Same(q, r) /\ q.outcalls = r.outcalls
  BY <1>2 DEF State, ServerState, Same, SameQueue, SameLog
<1> HIDE DEF q
<1>9. done \in State
  BY <1>2, <1>3, <1>4, <1>7, CommitTransactionsType
<1>10. SameQueue(done, q) /\ done.outcalls = q.outcalls
  BY <1>7, LogKeepsQueue
<1>11. SameLog(done, CommitTransactions(r, c.to, ts, r.accept_num))
  BY <1>2, <1>7, <1>8, CommitSameLog DEF Same
<1> HIDE DEF done
<1>12. SameQueue(done, r) /\ Calls(done, Decided)
  BY <1>3, <1>8, <1>10, SameTrans DEF Same, Calls
<1>13. LogStep(c.to, done, r, Decided)
  BY <1>3, <1>4, <1>11 DEF LogStep
<1>14. Moves(c.to, done, r, Decided) /\ Moves(c.to, r, r, Decided)
  BY <1>12, <1>13, LogOnlyMoves, SameMoves DEF Same, SameQueue, SameLog
<1>15. PICK rp \in {done, r} :
         srv' = [[srv EXCEPT ![c.to] = rp] EXCEPT ![s].outcalls = @ \ {c}]
  BY <1>5
<1> DEFINE none == {c} \ {c}
<1>16. \A S : S \ {c} = (S \ {c}) \cup none
  OBVIOUS
<1>17. srv' = [[srv EXCEPT ![c.to] = rp] EXCEPT ![s].outcalls = (@ \ {c}) \cup none]
  BY <1>15, <1>16
<1>18. rp \in State /\ Moves(c.to, rp, srv[c.to], Decided) /\ Calls(rp, Decided)
  BY <1>2, <1>3, <1>9, <1>12, <1>14 DEF r
<1>19. \A d \in none : CallOK(d, Decided)
  OBVIOUS
<1> HIDE DEF none
<1> QED
  BY <1>17, <1>18, <1>19, PeerMoves

(* processSyncCall: what it ships was in its log. *)
LEMMA ProcessSyncCallMoves ==
  ASSUME AllReady, NEW s \in Server, NEW c \in srv[s].outcalls, ProcessSyncCall(s, c)
  PROVE  AllMove
<1> DEFINE r == srv[c.to]
<1> DEFINE from == c.req.last_inserted + 2
<1> DEFINE logs == SubSeq(r.log, from, Len(r.log))
<1> DEFINE reply == [ack |-> TRUE, logs |-> logs,
                     last_inserted_ballot |-> r.last_inserted_ballot]
<1>1. srv \in [Server -> State]
  BY TypeOKState DEF AllReady
<1>2. c.type = "SYNC" /\ c \in OutCall /\ c.to \in Server /\ r \in State
  BY <1>1, CallType DEF ProcessSyncCall
<1>3. Calls(r, Decided) /\ EntriesOK(r.log, Decided) /\ r.log \in Seq(WALEntry)
  BY <1>2 DEF AllReady, Ready, State, ServerState
<1>4. from \in Int /\ from >= 1
  <2>1. c.req \in SyncReq
    BY <1>2 DEF OutCall, Call
  <2>2. c.req.last_inserted \in Int /\ c.req.last_inserted >= -1
    BY <2>1 DEF SyncReq, Index
  <2> QED
    BY <2>2
<1>5. Answer(s, c, r, reply) \/ Answer(s, c, r, NoReply("SYNC"))
  BY DEF ProcessSyncCall
<1> HIDE DEF r, from
<1>6. EntriesOK(logs, Decided)
  <2> SUFFICES ASSUME NEW i \in DOMAIN logs PROVE EntryOK(logs[i], Decided)
    BY DEF EntriesOK
  <2>1. \E j \in DOMAIN r.log : logs[i] = r.log[j]
    BY <1>3, <1>4
  <2> HIDE DEF logs
  <2> QED
    BY <1>3, <2>1 DEF EntriesOK
<1> HIDE DEF logs
<1>7. reply.logs = logs /\ NoReply("SYNC").logs = <<>>
  BY DEF NoReply
<1>8. EntriesOK(<<>>, Decided)
  BY DEF EntriesOK
<1>9. Moves(c.to, r, r, Decided)
  BY SameMoves DEF Same, SameQueue, SameLog
<1> HIDE DEF reply
<1> QED
  BY <1>2, <1>3, <1>5, <1>6, <1>7, <1>8, <1>9, AnswerMoves DEF r

(* handlePrepareReply. *)
LEMMA HandlePrepareReplyMoves ==
  ASSUME AllReady, NEW s \in Server, NEW c \in srv[s].outcalls,
         NEW status, HandlePrepareReply(s, c, status)
  PROVE  AllMove
<1> DEFINE r    == Close(srv[s], c)
<1> DEFINE mine == /\ c.req.ballot.num = r.promised_num.num
                   /\ c.req.ballot.server_id = s
<1> DEFINE ok     == status = "OK" /\ mine
<1> DEFINE failed == mine /\ \/ status = "OK" /\ ~c.reply.ack
                             \/ status = "DEADLINE_EXCEEDED"
<1> DEFINE stale  == ok /\ c.reply.latest_ballot_num # Unset
<1> DEFINE up   == IF ok /\ c.reply.ack THEN r.prepare_successes + 1 ELSE r.prepare_successes
<1> DEFINE down == IF failed THEN r.prepare_failures + 1 ELSE r.prepare_failures
<1> DEFINE n == [r EXCEPT !.prepare_successes = up, !.prepare_failures = down]
<1> DEFINE n1 == [n EXCEPT !.ballot_num = c.reply.latest_ballot_num]
<1> DEFINE n2 == [n EXCEPT !.await_prepare_decision = FALSE]
<1>1. srv \in [Server -> State] /\ Ready(srv[s], Decided)
  BY TypeOKState DEF AllReady
<1>2. c.type = "PREPARE" /\ c \in OutCall /\ c.to \in Server /\ r \in State
  BY <1>1, CallType, CloseType DEF HandlePrepareReply
<1>3. Same(r, srv[s]) /\ Calls(r, Decided)
  BY <1>1, CloseSame, CloseCalls DEF Ready
<1>4. c.reply \in PrepareRes
  BY <1>2 DEF OutCall, Call
<1>a. Ready(r, Decided)
  BY <1>1, <1>3 DEF Ready, Open, Same, SameQueue, SameLog
<1> HIDE DEF r, mine, ok, failed
<1>5. up \in Nat /\ down \in Nat
  <2>1. r.prepare_successes \in Nat /\ r.prepare_failures \in Nat
    BY <1>2 DEF State, ServerState
  <2>2. r.prepare_successes + 1 \in Nat /\ r.prepare_failures + 1 \in Nat
    BY <2>1
  <2> QED
    BY <2>1, <2>2, Zenon
<1>6. stale => c.reply.latest_ballot_num \in Nat
  BY <1>4 DEF PrepareRes, Unset
<1> HIDE DEF up, down, stale
<1>7. n \in ServerState /\ SameParts(n, r)
  BY <1>2, <1>5 DEF State, ServerState, SameParts
<1>8. Same(n, r) /\ n.outcalls = r.outcalls
  BY <1>2 DEF State, ServerState, Same, SameQueue, SameLog
<1>9. n = [r EXCEPT !.prepare_successes = IF ok /\ c.reply.ack THEN @ + 1 ELSE @,
                    !.prepare_failures  = IF failed THEN @ + 1 ELSE @]
  BY <1>2 DEF up, down, State, ServerState
<1> HIDE DEF n
<1>10. n \in State /\ Same(n, srv[s]) /\ Ready(n, Decided)
  <2>1. n \in State /\ Same(n, srv[s])
    BY <1>2, <1>3, <1>7, <1>8, Untouched, SameTrans
  <2> QED
    BY <1>8, <1>a, <2>1 DEF Ready, Open, Calls, Same, SameQueue, SameLog
<1>11. \/ Step(s, r)
       \/ r.await_prepare_decision /\ stale /\ Step(s, ReissuePrepareForCurrent(n1, s))
       \/ Step(s, StartSync(n2, c.to))
       \/ \E K \in Survivors(n, s) : Step(s, OnPrepareQuorum(n, s, K))
       \/ Step(s, OnRoundAbort(n, s, TRUE))
       \/ Step(s, n)
  BY <1>9 DEF HandlePrepareReply, stale, ok, failed, mine, r
<1>12. CASE Step(s, r)
  BY <1>3, <1>12, SameMoves, StepMoves
<1>13. CASE stale /\ Step(s, ReissuePrepareForCurrent(n1, s))
  <2> DEFINE q == ReissuePrepareForCurrent(n1, s)
  <2>1. n1 \in ServerState /\ SameParts(n1, n)
    BY <1>6, <1>10, <1>13 DEF State, ServerState, SameParts
  <2>2. Same(n1, n) /\ n1.outcalls = n.outcalls
    BY <1>10 DEF State, ServerState, Same, SameQueue, SameLog
  <2>3. n1 \in State /\ Calls(n1, Decided)
    BY <1>10, <2>1, <2>2, Untouched DEF Ready, Calls
  <2> HIDE DEF n1
  <2>4. SameLog(q, n1) /\ Reissued(q, n1) /\ ~q.await_accept_decision /\ Calls(q, Decided)
    BY <2>3, ReissueStep, ReissueCalls
  <2> HIDE DEF q
  <2>5. Moves(s, q, n1, Decided)
    BY <2>4 DEF Moves, QueueStep, LogStep, VoteStep, AckStep, Reissued
  <2>6. Same(n1, srv[s])
    BY <1>10, <2>2, SameTrans
  <2> QED
    BY <1>13, <2>3, <2>4, <2>5, <2>6, StepFrom DEF q
<1>14. CASE Step(s, StartSync(n2, c.to))
  <2>1. n2 \in ServerState /\ SameParts(n2, n)
    BY <1>10 DEF State, ServerState, SameParts
  <2>2. Same(n2, n) /\ n2.outcalls = n.outcalls
    BY <1>10 DEF State, ServerState, Same, SameQueue, SameLog
  <2>3. n2 \in State /\ Calls(n2, Decided)
    BY <1>10, <2>1, <2>2, Untouched DEF Ready, Calls
  <2> HIDE DEF n2
  <2>4. Same(StartSync(n2, c.to), n2) /\ Calls(StartSync(n2, c.to), Decided)
    BY <1>2, <2>3, StartSyncSame, StartSyncCalls
  <2>5. Same(StartSync(n2, c.to), srv[s])
    BY <1>10, <2>2, <2>4, SameTrans
  <2> QED
    BY <1>14, <2>4, <2>5, SameMoves, StepMoves
<1>15. CASE \E K \in Survivors(n, s) : Step(s, OnPrepareQuorum(n, s, K))
  <2>1. PICK K \in Survivors(n, s) : Step(s, OnPrepareQuorum(n, s, K))
    BY <1>15
  <2>2. K \in SUBSET DOMAIN n.current
    BY DEF Survivors
  <2>3. /\ Moves(s, OnPrepareQuorum(n, s, K), n, Decided)
        /\ Calls(OnPrepareQuorum(n, s, K), Decided)
    BY <1>10, <2>2, OnPrepareQuorumMoves DEF Ready
  <2> QED
    BY <1>10, <2>1, <2>3, StepFrom
<1>16. CASE Step(s, OnRoundAbort(n, s, TRUE))
  <2>1. /\ Moves(s, OnRoundAbort(n, s, TRUE), n, Decided)
        /\ Calls(OnRoundAbort(n, s, TRUE), Decided)
    BY <1>10, OnRoundAbortMoves DEF Ready
  <2> QED
    BY <1>10, <1>16, <2>1, StepFrom
<1>17. CASE Step(s, n)
  BY <1>10, <1>17, SameMoves, StepMoves DEF Ready
<1> QED
  BY <1>11, <1>12, <1>13, <1>14, <1>15, <1>16, <1>17

(* handleAcceptReply. *)
LEMMA HandleAcceptReplyMoves ==
  ASSUME AllReady, NEW s \in Server, NEW c \in srv[s].outcalls,
         NEW status, HandleAcceptReply(s, c, status)
  PROVE  AllMove
<1> DEFINE r    == Close(srv[s], c)
<1> DEFINE mine == /\ c.req.ballot.num = r.accept_num.num
                   /\ c.req.ballot.server_id = s
<1> DEFINE ok     == status = "OK" /\ mine /\ c.reply.ack
<1> DEFINE failed == mine /\ \/ status = "OK" /\ ~c.reply.ack
                             \/ status = "DEADLINE_EXCEEDED"
<1> DEFINE up   == IF ok THEN r.accept_successes + 1 ELSE r.accept_successes
<1> DEFINE down == IF failed THEN r.accept_failures + 1 ELSE r.accept_failures
<1> DEFINE n == [r EXCEPT !.accept_successes = up, !.accept_failures = down]
<1>1. srv \in [Server -> State] /\ Ready(srv[s], Decided)
  BY TypeOKState DEF AllReady
<1>2. c.type = "ACCEPT" /\ r \in State
  BY <1>1, CloseType DEF HandleAcceptReply
<1>3. Same(r, srv[s]) /\ Calls(r, Decided)
  BY <1>1, CloseSame, CloseCalls DEF Ready
<1>a. Ready(r, Decided)
  BY <1>1, <1>3 DEF Ready, Open, Same, SameQueue, SameLog
<1> HIDE DEF r, mine, ok, failed
<1>4. up \in Nat /\ down \in Nat
  <2>1. r.accept_successes \in Nat /\ r.accept_failures \in Nat
    BY <1>2 DEF State, ServerState
  <2>2. r.accept_successes + 1 \in Nat /\ r.accept_failures + 1 \in Nat
    BY <2>1
  <2> QED
    BY <2>1, <2>2, Zenon
<1> HIDE DEF up, down
<1>5. n \in ServerState /\ SameParts(n, r)
  BY <1>2, <1>4 DEF State, ServerState, SameParts
<1>6. Same(n, r) /\ n.outcalls = r.outcalls /\ n.await_accept_decision = r.await_accept_decision
  BY <1>2 DEF State, ServerState, Same, SameQueue, SameLog
<1>7. n = [r EXCEPT !.accept_successes = IF ok THEN @ + 1 ELSE @,
                    !.accept_failures  = IF failed THEN @ + 1 ELSE @]
  BY <1>2 DEF up, down, State, ServerState
<1> HIDE DEF n
<1>8. n \in State /\ Same(n, srv[s]) /\ Ready(n, Decided)
  <2>1. n \in State /\ Same(n, srv[s])
    BY <1>2, <1>3, <1>5, <1>6, Untouched, SameTrans
  <2> QED
    BY <1>6, <1>a, <2>1 DEF Ready, Open, Calls, Same, SameQueue, SameLog
<1>9. \/ Step(s, r)
      \/ r.await_accept_decision /\ Step(s, OnAcceptQuorum(n, s))
      \/ Step(s, OnRoundAbort(n, s, FALSE))
      \/ Step(s, n)
  BY <1>7 DEF HandleAcceptReply, ok, failed, mine, r
<1>10. CASE Step(s, r)
  BY <1>3, <1>10, SameMoves, StepMoves
<1>11. CASE r.await_accept_decision /\ Step(s, OnAcceptQuorum(n, s))
  <2>1. Moves(s, OnAcceptQuorum(n, s), n, Decided) /\ Calls(OnAcceptQuorum(n, s), Decided)
    BY <1>6, <1>8, <1>11, OnAcceptQuorumMoves DEF Ready
  <2> QED
    BY <1>8, <1>11, <2>1, StepFrom
<1>12. CASE Step(s, OnRoundAbort(n, s, FALSE))
  <2>1. /\ Moves(s, OnRoundAbort(n, s, FALSE), n, Decided)
        /\ Calls(OnRoundAbort(n, s, FALSE), Decided)
    BY <1>8, OnRoundAbortMoves DEF Ready
  <2> QED
    BY <1>8, <1>12, <2>1, StepFrom
<1>13. CASE Step(s, n)
  BY <1>8, <1>13, SameMoves, StepMoves DEF Ready
<1> QED
  BY <1>9, <1>10, <1>11, <1>12, <1>13

(* handleSyncReply. *)
LEMMA HandleSyncReplyMoves ==
  ASSUME AllReady, NEW s \in Server, NEW c \in srv[s].outcalls,
         NEW status, HandleSyncReply(s, c, status)
  PROVE  AllMove
<1> DEFINE r  == Close(srv[s], c)
<1> DEFINE logs == c.reply.logs
<1> DEFINE p  == InsertEntries(r, s, logs)
<1> DEFINE synced == [p EXCEPT !.ballot_num = c.reply.last_inserted_ballot.num,
                               !.last_inserted = @ + Len(logs),
                               !.last_inserted_ballot = c.reply.last_inserted_ballot]
<1> DEFINE m == IF status = "OK" /\ c.reply.ack THEN synced ELSE r
<1> DEFINE n == [m EXCEPT !.in_sync = FALSE]
<1>1. srv \in [Server -> State] /\ Ready(srv[s], Decided)
  BY TypeOKState DEF AllReady
<1>2. c.type = "SYNC" /\ c \in OutCall /\ r \in State /\ CallOK(c, Decided)
  BY <1>1, CallType, CloseType DEF HandleSyncReply, Ready, Calls
<1>3. Same(r, srv[s]) /\ Calls(r, Decided)
  BY <1>1, CloseSame, CloseCalls DEF Ready
<1>4. c.reply \in SyncRes
  BY <1>2 DEF OutCall, Call
<1>5. /\ logs \in Seq(WALEntry) /\ EntriesOK(logs, Decided)
      /\ c.reply.last_inserted_ballot \in Ballot
      /\ c.reply.last_inserted_ballot.num \in Nat
  BY <1>2, <1>4 DEF SyncRes, Ballot, CallOK
<1>6. \/ n.current # <<>> /\ Step(s, ReissuePrepareForCurrent(n, s))
      \/ n.current = <<>> /\ Step(s, MaybeStartRound(n, s))
  BY DEF HandleSyncReply
<1> HIDE DEF r, logs
<1>7. p \in State /\ SameQueue(p, r) /\ p.outcalls = r.outcalls
  <2>1. p \in State
    BY <1>2, <1>5, InsertEntriesType
  <2>2. SameQueue(p, r) /\ p.outcalls = r.outcalls
    BY <1>2, LogKeepsQueue
  <2> QED
    BY <2>1, <2>2
<1>8. Synced(r, s, logs) = [p EXCEPT !.last_inserted = @ + Len(logs)]
  BY DEF Synced
<1> HIDE DEF p
<1>9. p.last_inserted + Len(logs) \in Index
  <2>1. p.last_inserted \in Index
    BY <1>7 DEF State, ServerState
  <2>2. Len(logs) \in Nat
    BY <1>5
  <2> QED
    BY <2>1, <2>2, IndexPlus
<1>10. synced \in ServerState /\ SameParts(synced, p)
  BY <1>5, <1>7, <1>9 DEF State, ServerState, SameParts
<1>11. SameQueue(synced, p) /\ SameLog(synced, Synced(r, s, logs))
  BY <1>7, <1>8 DEF State, ServerState, SameQueue, SameLog
<1>12. synced \in State /\ synced.outcalls = r.outcalls
  BY <1>7, <1>10, Untouched DEF SameParts
<1> HIDE DEF synced
<1>13. /\ m \in State /\ SameQueue(m, r) /\ m.outcalls = r.outcalls
       /\ SameLog(m, r) \/ SameLog(m, Synced(r, s, logs))
  <2>1. CASE m = synced
    BY <1>7, <1>11, <1>12, <2>1, SameTrans
  <2>2. CASE m = r
    BY <1>2, <2>2 DEF SameQueue, SameLog
  <2> QED
    BY <2>1, <2>2
<1> HIDE DEF m
<1>14. n \in ServerState /\ SameParts(n, m)
  BY <1>13 DEF State, ServerState, SameParts
<1>15. Same(n, m)
  BY <1>13 DEF State, ServerState, Same, SameQueue, SameLog
<1>16. n \in State /\ Calls(n, Decided)
  BY <1>3, <1>13, <1>14, Untouched DEF SameParts, Calls
<1> HIDE DEF n
<1>17. SameQueue(n, r) /\ (SameLog(n, r) \/ SameLog(n, Synced(r, s, logs)))
  BY <1>13, <1>15, SameTrans DEF Same
<1>18. ASSUME NEW q, SameLog(q, n)
       PROVE  LogStep(s, q, r, Decided)
  <2>1. SameLog(q, r) \/ SameLog(q, Synced(r, s, logs))
    BY <1>17, <1>18, SameTrans
  <2> QED
    BY <1>5, <2>1 DEF LogStep
<1>19. CASE Step(s, ReissuePrepareForCurrent(n, s))
  <2> DEFINE q == ReissuePrepareForCurrent(n, s)
  <2>1. SameLog(q, n) /\ Reissued(q, n) /\ ~q.await_accept_decision /\ Calls(q, Decided)
    BY <1>16, ReissueStep, ReissueCalls
  <2>2. Step(s, q)
    BY <1>19
  <2> HIDE DEF q
  <2>3. Reissued(q, r)
    BY <1>17, <2>1 DEF Reissued, SameQueue
  <2>4. VoteStep(q, r) /\ AckStep(q, r)
    BY <2>1, <2>3 DEF VoteStep, AckStep, Reissued
  <2>5. Moves(s, q, r, Decided)
    BY <1>18, <2>1, <2>3, <2>4 DEF Moves, QueueStep
  <2> QED
    BY <1>2, <1>3, <2>1, <2>2, <2>5, StepFrom
<1>20. CASE Step(s, MaybeStartRound(n, s))
  <2> DEFINE q == MaybeStartRound(n, s)
  <2>1. SameLog(q, n) /\ Settled(q, n) /\ Calls(q, Decided)
    BY <1>16, MaybeStartRoundStep, FinishRoundCalls
  <2>2. Step(s, q)
    BY <1>20
  <2> HIDE DEF q
  <2>3. Settled(q, r)
    BY <1>17, <2>1 DEF Settled, Started, SameQueue
  <2>4. VoteStep(q, r) /\ AckStep(q, r)
    BY <2>3 DEF VoteStep, AckStep, Settled, Started, SameQueue
  <2>5. QueueStep(s, q, r)
    BY <1>2, <2>3 DEF QueueStep, Turns, Turned, SameQueue
  <2>6. Moves(s, q, r, Decided)
    BY <1>18, <2>1, <2>4, <2>5 DEF Moves
  <2> QED
    BY <1>2, <1>3, <2>1, <2>2, <2>6, StepFrom
<1> QED
  BY <1>6, <1>19, <1>20

(* Restart. *)
LEMMA RestartMoves ==
  ASSUME AllReady, NEW s \in Server, Restart(s)
  PROVE  AllMove
<1> DEFINE r     == srv[s]
<1> DEFINE num   == Max({r.ballot_num} \cup {r.log[i].ballot.num : i \in DOMAIN r.log})
<1> DEFINE last  == IF r.log = <<>> THEN NoBallot ELSE r.log[Len(r.log)].ballot
<1> DEFINE count == Cardinality(PaxosPositions(r.log)) - 1
<1> DEFINE calls == {[c EXCEPT !.open = FALSE] : c \in {d \in r.outcalls : ~d.handled}}
<1> DEFINE in    == [t \in Tid |-> IF r.incall[t] = "parked" THEN "lost" ELSE r.incall[t]]
<1> DEFINE q == [InitState(s) EXCEPT
                   !.log = r.log, !.balances = r.balances, !.ballot_num = num,
                   !.transferIndex = RecoveredIndex(r.log),
                   !.last_inserted = Len(r.log) - 1,
                   !.last_inserted_ballot = last, !.paxos_index = count,
                   !.outcalls = calls, !.incall = in]
<1>1. r \in State /\ Calls(r, Decided)
  BY TypeOKState DEF AllReady, Ready
<1>2. Step(s, q)
  BY DEF Restart
<1>3. InitState(s) \in ServerState /\ InitState(s).balance_applied = {}
  BY InitStateType DEF State, InitState
<1>4. /\ InitState(s).pending = <<>> /\ InitState(s).current = <<>>
      /\ ~InitState(s).is_paxos_running /\ ~InitState(s).await_accept_decision
  BY DEF InitState
<1> HIDE DEF r
<1>5. \A d \in calls : CallOK(d, Decided)
  <2> SUFFICES ASSUME NEW c \in r.outcalls PROVE CallOK([c EXCEPT !.open = FALSE], Decided)
    OBVIOUS
  <2> DEFINE d == [c EXCEPT !.open = FALSE]
  <2>1. c \in OutCall /\ CallOK(c, Decided)
    BY <1>1 DEF State, ServerState, Calls
  <2>2. d.type = c.type /\ d.req = c.req /\ d.reply = c.reply
    BY <2>1 DEF OutCall, Call
  <2> HIDE DEF d
  <2>3. CallOK(d, Decided)
    BY <2>1, <2>2 DEF CallOK
  <2> QED
    BY <2>3 DEF d
<1> HIDE DEF num, last, calls, in, count
<1>6. /\ q.log = r.log /\ q.balances = r.balances /\ q.balance_applied = {}
      /\ q.transferIndex = RecoveredIndex(r.log)
      /\ q.last_inserted = Len(r.log) - 1 /\ q.paxos_index = count
  BY <1>3 DEF ServerState
<1>7. /\ q.pending = <<>> /\ q.current = <<>>
      /\ ~q.is_paxos_running /\ ~q.await_accept_decision
      /\ q.outcalls = calls /\ q.incall = in
  BY <1>3, <1>4 DEF ServerState
<1> HIDE DEF q
<1>8. Recovered(q, r)
  <2>1. Budget["restart"] # 0
    BY DEF Restart, Spend, AllReady, FaultsBounded, FaultKind
  <2> QED
    BY <1>6, <2>1 DEF Recovered, count
<1>9. Forgotten(q, r)
  BY <1>7 DEF Forgotten, in
<1>10. QueueStep(s, q, r) /\ LogStep(s, q, r, Decided)
  BY <1>8, <1>9 DEF QueueStep, LogStep
<1>11. VoteStep(q, r) /\ AckStep(q, r)
  <2>1. \A t \in Tid : q.incall[t] = "ack" => r.incall[t] = "ack"
    BY <1>9 DEF Forgotten
  <2> QED
    BY <1>7, <2>1 DEF VoteStep, AckStep
<1>12. Calls(q, Decided)
  BY <1>5, <1>7 DEF Calls
<1> QED
  BY <1>2, <1>10, <1>11, <1>12, StepMoves DEF Moves, r

(* Every step moves every server by a step of its queue and of its log,    *)
(* one case per action.                                                    *)
LEMMA NextMoves ==
  ASSUME AllReady, [Next]_vars
  PROVE  AllMove
<1>0. ASSUME srv' = srv PROVE AllMove
  BY <1>0, SameMoves DEF AllReady, Ready, AllMove, Same, SameQueue, SameLog
<1>1. ASSUME NEW s \in Server, NEW t \in Tid, EnqueueClientTxn(s, t)
      PROVE  AllMove
  BY <1>1, EnqueueClientTxnMoves
<1>2. ASSUME NEW s \in Server, NEW t \in Tid, ProcessTpcDecision(s, t)
      PROVE  AllMove
  BY <1>2, ProcessTpcDecisionMoves
<1>3. ASSUME NEW s \in Server, NEW t \in Tid, LockTimeout(s, t)
      PROVE  AllMove
  BY <1>3, LockTimeoutMoves
<1>4. ASSUME NEW t \in Tid, NEW d \in {"commit", "abort"}, ClientDecide(t, d)
      PROVE  AllMove
  BY <1>0, <1>4 DEF ClientDecide
<1>5. ASSUME NEW s \in Server, NEW c \in srv[s].outcalls, ProcessCall(s, c)
      PROVE  AllMove
  BY <1>5, ProcessPrepareCallMoves, ProcessAcceptCallMoves,
     ProcessCommitCallMoves, ProcessSyncCallMoves DEF ProcessCall
<1>6. ASSUME NEW s \in Server, NEW c \in srv[s].outcalls, NEW status,
             HandleRPCResponse(s, c, status)
      PROVE  AllMove
  BY <1>6, HandlePrepareReplyMoves, HandleAcceptReplyMoves,
     HandleSyncReplyMoves DEF HandleRPCResponse
<1>7. ASSUME NEW s \in Server, NEW b \in BOOLEAN, ProcessDisconnectCall(s, b)
      PROVE  AllMove
  BY <1>7, ProcessDisconnectCallMoves
<1>8. ASSUME NEW s \in Server, Restart(s)
      PROVE  AllMove
  BY <1>8, RestartMoves
<1>9. ASSUME UNCHANGED vars
      PROVE  AllMove
  BY <1>0, <1>9 DEF vars
<1> QED
  BY <1>1, <1>2, <1>3, <1>4, <1>5, <1>6, <1>7, <1>8, <1>9 DEF Next

-----------------------------------------------------------------------------
(***************************************************************************)
(* The queue.                                                              *)
(***************************************************************************)

(* The batch and the queue name each parked transaction once, and nothing  *)
(* else, and there is a batch exactly while a round runs.                  *)
Queued(r) ==
  /\ Distinct(r.current) /\ Distinct(r.pending)
  /\ \A t \in Tid : ~(t \in Range(r.current) /\ t \in Range(r.pending))
  /\ \A t \in Tid : r.incall[t] = "parked" <=> t \in Range(r.current) \/ t \in Range(r.pending)
  /\ \A t \in Tid : r.incall[t] # "freed"
  /\ r.is_paxos_running <=> r.current # <<>>

(* An answer stands. *)
Stands(q, r) ==
  \A t \in Tid : r.incall[t] \in {"ack", "nack", "lost"} => q.incall[t] = r.incall[t]

(* Nothing is in an empty batch. *)
LEMMA EmptyBatch ==
  /\ Distinct(<<>>) /\ Range(<<>>) = {} /\ DOMAIN <<>> = {}
  BY DEF Distinct, Range

(* What one more transaction adds to a queue. *)
LEMMA AppendQueue ==
  ASSUME NEW seq \in Seq(Tid), NEW t \in Tid, Distinct(seq), t \notin Range(seq)
  PROVE  /\ Distinct(Append(seq, t))
         /\ \A u \in Tid : u \in Range(Append(seq, t)) <=> u \in Range(seq) \/ u = t
<1> DEFINE n == Len(seq)
<1> DEFINE new == Append(seq, t)
<1>1. n \in Nat /\ DOMAIN seq = 1..n /\ DOMAIN new = 1..(n + 1)
  OBVIOUS
<1>2. new[n + 1] = t /\ \A i \in 1..n : new[i] = seq[i]
  OBVIOUS
<1>3. \A i \in 1..(n + 1) : i \in 1..n \/ i = n + 1
  BY <1>1
<1>4. \A i \in 1..n : seq[i] # t
  BY <1>1 DEF Range
<1>a. n + 1 \in 1..(n + 1) /\ \A i \in 1..n : i \in 1..(n + 1)
  BY <1>1
<1> HIDE DEF new, n
<1>5. Distinct(new)
  BY <1>1, <1>2, <1>3, <1>4 DEF Distinct
<1>6. \A u \in Tid : u \in Range(new) <=> u \in Range(seq) \/ u = t
  <2> SUFFICES ASSUME NEW u \in Tid
               PROVE  u \in Range(new) <=> u \in Range(seq) \/ u = t
    OBVIOUS
  <2>1. u \in Range(new) <=> \E i \in 1..(n + 1) : new[i] = u
    BY <1>1 DEF Range
  <2>2. u \in Range(seq) <=> \E i \in 1..n : seq[i] = u
    BY <1>1 DEF Range
  <2> QED
    BY <1>2, <1>3, <1>a, <2>1, <2>2
<1> QED
  BY <1>5, <1>6 DEF new

(* The queue is taken over as the batch, or stays. *)
LEMMA SettledQueued ==
  ASSUME NEW q \in State, NEW m \in State, Queued(m), Settled(q, m)
  PROVE  Queued(q) /\ q.incall = m.incall
<1>1. CASE SameQueue(q, m)
  BY <1>1 DEF SameQueue, Queued
<1>2. CASE Started(q, m)
  <2>1. m.current = <<>>
    BY <1>2 DEF Started, Queued
  <2>2. /\ q.current = m.pending /\ q.pending = <<>> /\ q.incall = m.incall
        /\ q.is_paxos_running /\ q.current # <<>>
    BY <1>2 DEF Started
  <2> QED
    BY <2>1, <2>2, EmptyBatch DEF Queued
<1> QED
  BY <1>1, <1>2 DEF Settled

(* A transaction joins the queue or the round ends. *)
LEMMA TurnedQueued ==
  ASSUME NEW s, NEW m \in State, NEW r \in State, Queued(r), Turned(s, m, r)
  PROVE  Queued(m) /\ Stands(m, r)
<1>0. r.current \in Seq(Tid) /\ r.pending \in Seq(Tid)
  BY DEF State, ServerState
<1>1. CASE SameQueue(m, r)
  BY <1>1 DEF SameQueue, Queued, Stands
<1>2. CASE \E t \in Fresh(s) : Enqueued(m, r, t)
  <2>1. PICK t \in Tid : Enqueued(m, r, t)
    BY <1>2 DEF Fresh
  <2>2. t \notin Range(r.current) /\ t \notin Range(r.pending)
    BY <2>1 DEF Enqueued, Queued
  <2>3. /\ Distinct(m.pending)
        /\ \A u \in Tid : u \in Range(m.pending) <=> u \in Range(r.pending) \/ u = t
    BY <1>0, <2>1, <2>2, AppendQueue DEF Enqueued, Queued
  <2>4. /\ m.current = r.current /\ m.is_paxos_running = r.is_paxos_running
        /\ \A u \in Tid : m.incall[u] = IF u = t THEN "parked" ELSE r.incall[u]
    BY <2>1 DEF Enqueued, Answered
  <2>5. Queued(m)
    BY <2>2, <2>3, <2>4 DEF Queued
  <2>6. Stands(m, r)
    BY <2>1, <2>4 DEF Stands, Enqueued
  <2> QED
    BY <2>5, <2>6
<1>3. CASE \E a \in {"ack", "nack"} : Finished(m, r, a)
  <2>1. PICK a \in {"ack", "nack"} : Finished(m, r, a)
    BY <1>3
  <2>2. /\ m.current = <<>> /\ m.pending = r.pending /\ ~m.is_paxos_running
        /\ \A u \in Tid : m.incall[u] = IF u \in Range(r.current) THEN a ELSE r.incall[u]
    BY <2>1 DEF Finished, Answered
  <2>3. a # "parked"
    BY <2>1
  <2>4. \A u \in Tid : m.incall[u] = "parked" <=> u \in Range(r.pending)
    BY <2>2, <2>3 DEF Queued
  <2>5. Queued(m)
    BY <2>2, <2>4, EmptyBatch DEF Queued
  <2>6. Stands(m, r)
    BY <2>2 DEF Stands, Queued
  <2> QED
    BY <2>5, <2>6
<1> QED
  BY <1>1, <1>2, <1>3 DEF Turned

(* The entries that survive keep their calls, the others lose theirs. *)
LEMMA FilteredQueued ==
  ASSUME NEW q \in State, NEW r \in State, Queued(r),
         NEW K \in SUBSET DOMAIN r.current, Filtered(q, r, K)
  PROVE  Queued(q) /\ Stands(q, r)
<1> DEFINE kept == Select(r.current, K)
<1> DEFINE dropped == {r.current[i] : i \in DOMAIN r.current \ K}
<1>1. r.current \in Seq(Tid) /\ Distinct(r.current)
  BY DEF State, ServerState, Queued
<1>2. /\ K # {} /\ q.current = kept /\ q.pending = r.pending
      /\ q.is_paxos_running = r.is_paxos_running
      /\ \A u \in Tid : q.incall[u] = IF u \in dropped THEN "nack" ELSE r.incall[u]
  BY DEF Filtered, Answered
<1>3. /\ kept # <<>> /\ Distinct(kept)
      /\ \A k \in DOMAIN kept : \E i \in K : kept[k] = r.current[i]
  BY <1>1, <1>2, SelectProperties, SelectDistinct
<1>4. \A i \in K : \E k \in DOMAIN kept : kept[k] = r.current[i]
  BY <1>1, SelectCovers
<1> HIDE DEF kept
<1>5. \A u \in Tid : u \in Range(kept) <=> \E i \in K : r.current[i] = u
  <2> SUFFICES ASSUME NEW u \in Tid
               PROVE  u \in Range(kept) <=> \E i \in K : r.current[i] = u
    OBVIOUS
  <2>1. u \in Range(kept) <=> \E k \in DOMAIN kept : kept[k] = u
    BY DEF Range
  <2> QED
    BY <1>3, <1>4, <2>1
<1>6. \A u \in Tid : u \in Range(r.current) <=> u \in Range(kept) \/ u \in dropped
  <2> SUFFICES ASSUME NEW u \in Tid
               PROVE  u \in Range(r.current) <=> u \in Range(kept) \/ u \in dropped
    OBVIOUS
  <2>1. u \in Range(r.current) <=> \E i \in DOMAIN r.current : r.current[i] = u
    BY DEF Range
  <2>2. u \in dropped <=> \E i \in DOMAIN r.current \ K : r.current[i] = u
    OBVIOUS
  <2> QED
    BY <1>5, <2>1, <2>2
<1>7. \A u \in Tid : ~(u \in Range(kept) /\ u \in dropped)
  BY <1>1, <1>5 DEF Distinct
<1>8. r.current # <<>>
  BY <1>2, EmptyBatch
<1> HIDE DEF dropped
<1>9. \A u \in Tid : q.incall[u] = "parked" <=> u \in Range(kept) \/ u \in Range(r.pending)
  BY <1>2, <1>6, <1>7 DEF Queued
<1>10. Queued(q)
  BY <1>2, <1>3, <1>6, <1>8, <1>9 DEF Queued
<1>11. Stands(q, r)
  BY <1>2, <1>6 DEF Queued, Stands
<1> QED
  BY <1>10, <1>11

(* A step of the queue parks every call once and changes no answer. *)
LEMMA QueueStepQueued ==
  ASSUME NEW s, NEW q \in State, NEW r \in State, Queued(r), QueueStep(s, q, r)
  PROVE  Queued(q) /\ Stands(q, r)
<1>1. CASE Reissued(q, r)
  BY <1>1 DEF Reissued, Queued, Stands
<1>2. CASE \E t \in Fresh(s) : Refused(q, r, t)
  <2>1. PICK t \in Tid : Refused(q, r, t)
    BY <1>2 DEF Fresh
  <2>2. /\ q.current = r.current /\ q.pending = r.pending
        /\ q.is_paxos_running = r.is_paxos_running /\ r.incall[t] = "none"
        /\ \A u \in Tid : q.incall[u] = IF u = t THEN "nack" ELSE r.incall[u]
    BY <2>1 DEF Refused, Answered
  <2>3. \A u \in Tid : q.incall[u] = "parked" <=> r.incall[u] = "parked"
    BY <2>2
  <2> QED
    BY <2>2, <2>3 DEF Queued, Stands
<1>3. CASE Turns(s, q, r)
  <2>1. PICK m \in State : Settled(q, m) /\ Turned(s, m, r)
    BY <1>3 DEF Turns
  <2>2. Queued(m) /\ Stands(m, r)
    BY <2>1, TurnedQueued
  <2>3. Queued(q) /\ q.incall = m.incall
    BY <2>1, <2>2, SettledQueued
  <2> QED
    BY <2>2, <2>3 DEF Stands
<1>4. CASE \E K \in SUBSET DOMAIN r.current : Filtered(q, r, K)
  BY <1>4, FilteredQueued
<1>5. CASE Forgotten(q, r)
  <2>1. /\ q.current = <<>> /\ q.pending = <<>> /\ ~q.is_paxos_running
        /\ \A u \in Tid : q.incall[u] = IF r.incall[u] = "parked" THEN "lost" ELSE r.incall[u]
    BY <1>5 DEF Forgotten
  <2>2. \A u \in Tid : q.incall[u] # "parked"
    BY <2>1
  <2> QED
    BY <2>1, <2>2, EmptyBatch DEF Queued, Stands
<1> QED
  BY <1>1, <1>2, <1>3, <1>4, <1>5 DEF QueueStep

(* The batch and the queue as one sequence. *)
LEMMA QueuedParked ==
  ASSUME NEW r \in State, Queued(r)
  PROVE  LET q == r.current \o r.pending IN
         /\ \A t \in Tid : r.incall[t] = "parked" <=> t \in Range(q)
         /\ \A i, j \in DOMAIN q : q[i] = q[j] => i = j
<1> DEFINE m == Len(r.current)
<1> DEFINE n == Len(r.pending)
<1> DEFINE q == r.current \o r.pending
<1>1. r.current \in Seq(Tid) /\ r.pending \in Seq(Tid)
  BY DEF State, ServerState
<1>2. /\ m \in Nat /\ n \in Nat /\ DOMAIN q = 1..(m + n)
      /\ DOMAIN r.current = 1..m /\ DOMAIN r.pending = 1..n
  BY <1>1
<1>3. /\ \A i \in 1..m : q[i] = r.current[i]
      /\ \A i \in 1..(m + n) : i > m => q[i] = r.pending[i - m]
      /\ \A i \in 1..n : q[m + i] = r.pending[i]
  <2>1. \A i \in 1..m : q[i] = r.current[i]
    <3> DEFINE a == r.current
    <3> DEFINE b == r.pending
    <3>1. a \in Seq(Tid) /\ b \in Seq(Tid)
      BY <1>1
    <3> HIDE DEF a, b
    <3>2. \A i \in 1..Len(a) : (a \o b)[i] = a[i]
      BY <3>1, ConcatEntries
    <3> QED
      BY <3>2 DEF a, b
  <2>2. \A i \in 1..(m + n) : i > m => q[i] = r.pending[i - m]
    BY <1>1, <1>2
  <2> HIDE DEF q, m, n
  <2>3. ASSUME NEW i \in 1..n PROVE q[m + i] = r.pending[i]
    <3>1. m + i \in 1..(m + n) /\ m + i > m /\ (m + i) - m = i
      BY <1>2
    <3> QED
      BY <2>2, <3>1
  <2> QED
    BY <2>1, <2>2, <2>3
<1> HIDE DEF q, m, n
<1>4. /\ \A i \in 1..(m + n) : i \in 1..m \/ (i > m /\ i - m \in 1..n)
      /\ \A i \in 1..m : i \in 1..(m + n)
      /\ \A i \in 1..n : m + i \in 1..(m + n)
  BY <1>2
<1>5. \A i \in 1..m, j \in 1..n : r.current[i] # r.pending[j]
  <2> SUFFICES ASSUME NEW i \in 1..m, NEW j \in 1..n PROVE r.current[i] # r.pending[j]
    OBVIOUS
  <2>1. r.current[i] \in Range(r.current) /\ r.pending[j] \in Range(r.pending)
    BY <1>2 DEF Range
  <2>2. r.current[i] \in Tid
    BY <1>1, <1>2
  <2> QED
    BY <2>1, <2>2 DEF Queued
<1>6. ASSUME NEW i \in DOMAIN q, NEW j \in DOMAIN q, q[i] = q[j]
      PROVE  i = j
  <2>0. i \in 1..(m + n) /\ j \in 1..(m + n)
    BY <1>2
  <2>1. CASE i \in 1..m /\ j \in 1..m
    BY <1>2, <1>3, <1>6, <2>1 DEF Queued, Distinct
  <2>2. CASE i > m /\ j > m
    <3>1. r.pending[i - m] = r.pending[j - m] /\ i - m \in 1..n /\ j - m \in 1..n
      BY <1>2, <1>3, <1>4, <1>6, <2>0, <2>2
    <3>2. i - m = j - m
      BY <1>2, <3>1 DEF Queued, Distinct
    <3> QED
      BY <1>2, <2>0, <3>2
  <2>3. CASE i \in 1..m /\ j > m
    <3>1. q[i] = r.current[i] /\ q[j] = r.pending[j - m] /\ j - m \in 1..n
      BY <1>2, <1>3, <1>4, <2>0, <2>3
    <3> QED
      BY <1>5, <1>6, <2>3, <3>1
  <2>4. CASE i > m /\ j \in 1..m
    <3>1. q[j] = r.current[j] /\ q[i] = r.pending[i - m] /\ i - m \in 1..n
      BY <1>2, <1>3, <1>4, <2>0, <2>4
    <3> QED
      BY <1>5, <1>6, <2>4, <3>1
  <2> QED
    BY <1>4, <2>0, <2>1, <2>2, <2>3, <2>4
<1>7. ASSUME NEW t \in Tid
      PROVE  t \in Range(q) <=> t \in Range(r.current) \/ t \in Range(r.pending)
  <2>1. t \in Range(q) <=> \E i \in 1..(m + n) : q[i] = t
    BY <1>2 DEF Range
  <2>2. t \in Range(r.current) <=> \E i \in 1..m : r.current[i] = t
    BY <1>2 DEF Range
  <2>3. t \in Range(r.pending) <=> \E i \in 1..n : r.pending[i] = t
    BY <1>2 DEF Range
  <2>4. ASSUME t \in Range(q) PROVE t \in Range(r.current) \/ t \in Range(r.pending)
    <3>1. PICK i \in 1..(m + n) : q[i] = t
      BY <2>1, <2>4
    <3> QED
      BY <1>3, <1>4, <2>2, <2>3, <3>1
  <2>5. ASSUME t \in Range(r.current) PROVE t \in Range(q)
    BY <1>3, <1>4, <2>1, <2>2, <2>5
  <2>6. ASSUME t \in Range(r.pending) PROVE t \in Range(q)
    BY <1>3, <1>4, <2>1, <2>3, <2>6
  <2> QED
    BY <2>4, <2>5, <2>6
<1> QED
  BY <1>6, <1>7 DEF Queued, q

-----------------------------------------------------------------------------
(***************************************************************************)
(* Two logs, one after the other.                                          *)
(***************************************************************************)

(* The greatest element of a set of positions. *)
LEMMA MaxIs ==
  ASSUME NEW T \in SUBSET Nat, NEW x \in T, \A y \in T : y <= x
  PROVE  Max(T) = x
<1>1. x \in Nat
  OBVIOUS
<1>2. Max(T) \in T /\ \A y \in T : y <= Max(T)
  BY <1>1, MaxOfBounded
<1>3. Max(T) \in Nat /\ Max(T) <= x /\ x <= Max(T)
  BY <1>2
<1> QED
  BY <1>1, <1>3

(* What is committed. *)
LEMMA CommittedConcat ==
  ASSUME NEW log \in Seq(WALEntry), NEW new \in Seq(WALEntry)
  PROVE  CommittedIn(log \o new) = CommittedIn(log) \cup CommittedIn(new)
<1> DEFINE all == log \o new
<1>1. /\ DOMAIN log = 1..Len(log) /\ DOMAIN new = 1..Len(new)
      /\ Len(log) \in Nat /\ Len(new) \in Nat
  OBVIOUS
<1>2. /\ DOMAIN all = 1..(Len(log) + Len(new))
      /\ \A i \in 1..Len(log) : all[i] = log[i]
      /\ \A i \in 1..Len(new) : Len(log) + i \in DOMAIN all /\ all[Len(log) + i] = new[i]
      /\ \A i \in DOMAIN all : i \in 1..Len(log) \/ \E j \in 1..Len(new) : i = Len(log) + j
  BY ConcatEntries
<1>3. \A i \in 1..Len(log) : i \in DOMAIN all
  BY <1>1, <1>2
<1> HIDE DEF all
<1>4. ASSUME NEW t PROVE t \in CommittedIn(all) <=> t \in CommittedIn(log) \/ t \in CommittedIn(new)
  <2>1. t \in CommittedIn(all) <=> \E i \in DOMAIN all : all[i].status = "COMMITTED" /\ all[i].tid = t
    BY DEF CommittedIn
  <2>2. t \in CommittedIn(log) <=> \E i \in 1..Len(log) : log[i].status = "COMMITTED" /\ log[i].tid = t
    BY <1>1 DEF CommittedIn
  <2>3. t \in CommittedIn(new) <=> \E i \in 1..Len(new) : new[i].status = "COMMITTED" /\ new[i].tid = t
    BY <1>1 DEF CommittedIn
  <2>4. ASSUME t \in CommittedIn(all) PROVE t \in CommittedIn(log) \/ t \in CommittedIn(new)
    <3>1. PICK i \in DOMAIN all : all[i].status = "COMMITTED" /\ all[i].tid = t
      BY <2>1, <2>4
    <3> QED
      BY <1>2, <2>2, <2>3, <3>1
  <2>5. ASSUME t \in CommittedIn(log) PROVE t \in CommittedIn(all)
    BY <1>2, <1>3, <2>1, <2>2, <2>5
  <2>6. ASSUME t \in CommittedIn(new) PROVE t \in CommittedIn(all)
    <3>1. PICK j \in 1..Len(new) : new[j].status = "COMMITTED" /\ new[j].tid = t
      BY <2>3, <2>6
    <3> DEFINE i == Len(log) + j
    <3>2. i \in DOMAIN all /\ all[i] = new[j]
      BY <1>2
    <3> HIDE DEF i
    <3> QED
      BY <2>1, <3>1, <3>2
  <2> QED
    BY <2>4, <2>5, <2>6
<1> QED
  BY <1>4 DEF all

(* How many Paxos entries there are. *)
LEMMA PaxosConcat ==
  ASSUME NEW log \in Seq(WALEntry), NEW new \in Seq(WALEntry)
  PROVE  Cardinality(PaxosPositions(log \o new))
           = Cardinality(PaxosPositions(log)) + Cardinality(PaxosPositions(new))
<1> DEFINE all == log \o new
<1> DEFINE m == Len(log)
<1> DEFINE A == PaxosPositions(log)
<1> DEFINE B == PaxosPositions(new)
<1> DEFINE C == {m + j : j \in B}
<1> DEFINE f == [j \in B |-> m + j]
<1>1. /\ DOMAIN log = 1..m /\ DOMAIN new = 1..Len(new)
      /\ m \in Nat /\ Len(new) \in Nat
  OBVIOUS
<1>2. /\ DOMAIN all = 1..(m + Len(new))
      /\ \A i \in 1..m : all[i] = log[i]
      /\ \A i \in 1..Len(new) : m + i \in DOMAIN all /\ all[m + i] = new[i]
      /\ \A i \in DOMAIN all : i \in 1..m \/ \E j \in 1..Len(new) : i = m + j
  BY ConcatEntries
<1>3. \A i \in 1..m : i \in DOMAIN all
  BY <1>1, <1>2
<1>4. IsFiniteSet(A) /\ IsFiniteSet(B) /\ Cardinality(A) \in Nat /\ Cardinality(B) \in Nat
  BY PaxosPositionsType
<1>5. /\ \A i : i \in A <=> i \in 1..m /\ IsPaxosEntry(log[i])
      /\ \A i : i \in B <=> i \in 1..Len(new) /\ IsPaxosEntry(new[i])
      /\ \A i : i \in PaxosPositions(all) <=> i \in DOMAIN all /\ IsPaxosEntry(all[i])
  BY <1>1 DEF PaxosPositions
<1> HIDE DEF all, A, B, m
<1>6. f \in Bijection(B, C)
  <2>1. B \in SUBSET Nat
    BY <1>1, <1>5
  <2>2. f \in [B -> C]
    OBVIOUS
  <2>3. \A i, j \in B : f[i] = f[j] => i = j
    BY <1>1, <2>1
  <2>4. \A c \in C : \E j \in B : f[j] = c
    OBVIOUS
  <2> HIDE DEF f, C
  <2> QED
    BY <2>2, <2>3, <2>4 DEF Bijection, Injection, Surjection, IsInjective
<1>7. IsFiniteSet(C) /\ Cardinality(C) = Cardinality(B)
  BY <1>4, <1>6, FS_Bijection DEF ExistsBijection
<1>8. A \cap C = {}
  <2>1. \A i \in C : i > m
    BY <1>1, <1>5
  <2>2. \A i \in A : ~(i > m)
    BY <1>1, <1>5
  <2> QED
    BY <2>1, <2>2
<1>9. PaxosPositions(all) = A \cup C
  <2>1. ASSUME NEW i \in PaxosPositions(all) PROVE i \in A \cup C
    BY <1>2, <1>5, <2>1
  <2>2. ASSUME NEW i \in A PROVE i \in PaxosPositions(all)
    BY <1>2, <1>3, <1>5, <2>2
  <2>3. ASSUME NEW i \in C PROVE i \in PaxosPositions(all)
    BY <1>2, <1>5, <2>3
  <2> QED
    BY <2>1, <2>2, <2>3
<1> HIDE DEF C
<1>10. Cardinality(A \cup C) = Cardinality(A) + Cardinality(C) - Cardinality(A \cap C)
  BY <1>4, <1>7, FS_Union
<1>11. Cardinality(A \cap C) = 0
  BY <1>8, FS_EmptySet
<1>12. Cardinality(PaxosPositions(all)) = Cardinality(A) + Cardinality(B)
  BY <1>4, <1>7, <1>9, <1>10, <1>11
<1> QED
  BY <1>12 DEF all, A, B

(* The positions of t in a log. *)
At(log, t) == {i \in DOMAIN log : log[i].tid = t}

(* Where t is once new is appended to the log of r, if its last entry is a *)
(* CS_PREPARE line, and 0 otherwise.                                       *)
Position(old, n, new, t) ==
  IF At(new, t) = {} THEN old
  ELSE IF new[Max(At(new, t))].status = "PREPARED" THEN n + Max(At(new, t)) ELSE 0

(* WAL::recover on the longer log. *)
LEMMA RecoveredConcat ==
  ASSUME NEW log \in Seq(WALEntry), NEW new \in Seq(WALEntry), NEW t \in Tid
  PROVE  RecoveredIndex(log \o new)[t] = Position(RecoveredIndex(log)[t], Len(log), new, t)
<1> DEFINE all == log \o new
<1> DEFINE m == Len(log)
<1>1. /\ DOMAIN log = 1..m /\ DOMAIN new = 1..Len(new)
      /\ m \in Nat /\ Len(new) \in Nat
  OBVIOUS
<1>2. /\ DOMAIN all = 1..(m + Len(new))
      /\ \A i \in 1..m : all[i] = log[i]
      /\ \A i \in 1..Len(new) : m + i \in DOMAIN all /\ all[m + i] = new[i]
      /\ \A i \in DOMAIN all : i \in 1..m \/ \E j \in 1..Len(new) : i = m + j
  BY ConcatEntries
<1>3. \A i \in 1..m : i \in DOMAIN all
  BY <1>1, <1>2
<1>4. /\ \A i : i \in At(log, t) <=> i \in 1..m /\ log[i].tid = t
      /\ \A i : i \in At(new, t) <=> i \in 1..Len(new) /\ new[i].tid = t
      /\ \A i : i \in At(all, t) <=> i \in DOMAIN all /\ all[i].tid = t
  BY <1>1 DEF At
<1>5. ASSUME NEW l
      PROVE  RecoveredIndex(l)[t]
               = IF At(l, t) # {} /\ l[Max(At(l, t))].status = "PREPARED"
                 THEN Max(At(l, t)) ELSE 0
  BY DEF RecoveredIndex, At
<1> HIDE DEF all, m
<1>6. CASE At(new, t) = {}
  <2>1. At(all, t) = At(log, t)
    <3>1. ASSUME NEW i \in At(all, t) PROVE i \in At(log, t)
      BY <1>2, <1>4, <1>6, <3>1, SMTT(30)
    <3>2. ASSUME NEW i \in At(log, t) PROVE i \in At(all, t)
      BY <1>2, <1>3, <1>4, <3>2
    <3> QED
      BY <3>1, <3>2
  <2>2. At(log, t) # {} => Max(At(log, t)) \in 1..m
    <3>1. At(log, t) \in SUBSET DOMAIN log
      BY DEF At
    <3> QED
      BY <3>1, LastPosition DEF m
  <2>3. At(log, t) # {} => all[Max(At(log, t))] = log[Max(At(log, t))]
    BY <1>2, <2>2
  <2>4. RecoveredIndex(all)[t] = RecoveredIndex(log)[t]
    BY <1>5, <2>1, <2>3
  <2> QED
    BY <1>6, <2>4 DEF Position, all
<1>7. CASE At(new, t) # {}
  <2> DEFINE k == Max(At(new, t))
  <2> DEFINE x == m + k
  <2>1. k \in At(new, t) /\ k \in 1..Len(new) /\ \A i \in At(new, t) : i <= k
    <3>1. At(new, t) \in SUBSET DOMAIN new
      BY DEF At
    <3> QED
      BY <1>7, <3>1, LastPosition
  <2>2. x \in At(all, t) /\ all[x] = new[k]
    BY <1>2, <1>4, <2>1
  <2>3. ASSUME NEW i \in At(all, t) PROVE i <= x
    <3>1. CASE i \in 1..m
      BY <1>1, <2>1, <3>1
    <3>2. CASE \E j \in 1..Len(new) : i = m + j
      <4>1. PICK j \in 1..Len(new) : i = m + j
        BY <3>2
      <4>2. j \in At(new, t)
        BY <1>2, <1>4, <2>3, <4>1
      <4>3. j <= k
        BY <2>1, <4>2
      <4> QED
        BY <1>1, <2>1, <4>1, <4>3
    <3> QED
      BY <1>2, <1>4, <2>3, <3>1, <3>2
  <2>4. At(all, t) \in SUBSET Nat
    BY <1>1, <1>2, <1>4
  <2>5. Max(At(all, t)) = x
    BY <2>2, <2>3, <2>4, MaxIs
  <2>6. RecoveredIndex(all)[t] = IF new[k].status = "PREPARED" THEN x ELSE 0
    <3> HIDE DEF k, x
    <3> QED
      BY <1>5, <2>2, <2>5
  <2> QED
    BY <1>7, <2>6 DEF Position, all, m
<1> QED
  BY <1>6, <1>7

-----------------------------------------------------------------------------
(***************************************************************************)
(* Every step of the log but a recovery appends entries, as InsertEntries  *)
(* does: the append paths of the code are cases of one.                    *)
(***************************************************************************)
Inserted(q, r, s, new) ==
  /\ q.log = r.log \o new
  /\ \A t \in Tid : q.transferIndex[t] = Position(r.transferIndex[t], Len(r.log), new, t)
  /\ q.paxos_index = r.paxos_index + Cardinality(PaxosPositions(new))
  /\ q.balance_applied = r.balance_applied \cup CommittedIn(new)
  /\ q.balances = Apply(r, s, CommittedIn(new) \ r.balance_applied)
  /\ \/ q.last_inserted = Len(r.log) + Len(new) - 1
     \/ q.last_inserted = r.last_inserted + Len(new)
     \/ q.last_inserted = r.last_inserted /\ PaxosPositions(new) = {}

(* Only the log side of the result matters. *)
LEMMA InsertedTo ==
  ASSUME NEW q, NEW p, NEW r, NEW s, NEW new, SameLog(q, p), Inserted(p, r, s, new)
  PROVE  Inserted(q, r, s, new)
  BY DEF SameLog, Inserted

(* No transactions move no money. *)
LEMMA NoMoney ==
  ASSUME NEW r \in State, NEW s
  PROVE  Apply(r, s, {}) = r.balances
<1>1. \A k : Credits({}, k) = 0 /\ Debits({}, k) = 0
  BY NoneMoves
<1>2. r.balances \in [Account -> Int]
  BY DEF State, ServerState
<1>3. \A k \in Account : r.balances[k] + 0 - 0 = r.balances[k]
  BY <1>2
<1>4. Apply(r, s, {}) = [k \in Account |-> r.balances[k]]
  BY <1>1, <1>3 DEF Apply
<1> QED
  BY <1>2, <1>4

(* The entries of a batch that all have one status. *)
LEMMA UniformLog ==
  ASSUME NEW ts \in Seq(Tid), NEW b \in Ballot, NEW st \in Status
  PROVE  LET new == LogEntries(ts, b, st) IN
         /\ new \in Seq(WALEntry) /\ Len(new) = Len(ts)
         /\ \A i \in DOMAIN new : new[i].tid = ts[i] /\ new[i].status = st
         /\ DOMAIN new = DOMAIN ts
         /\ st = "COMMITTED" => CommittedIn(new) = Range(ts)
         /\ st # "COMMITTED" => CommittedIn(new) = {}
         /\ (\A t \in Range(ts) : IsCrossShard(t)) /\ st = "PREPARED"
              => Cardinality(PaxosPositions(new)) = Len(ts)
         /\ (\A t \in Range(ts) : ~IsCrossShard(t)) /\ st = "COMMITTED"
              => Cardinality(PaxosPositions(new)) = Len(ts)
         /\ \A t : At(new, t) = {i \in DOMAIN ts : ts[i] = t}
<1> DEFINE new == LogEntries(ts, b, st)
<1>1. /\ new \in Seq(WALEntry) /\ Len(new) = Len(ts)
      /\ \A i \in 1..Len(ts) : new[i] = Entry(ts[i], b, st)
  BY LogEntriesType
<1> HIDE DEF new
<1>2. DOMAIN new = DOMAIN ts /\ DOMAIN ts = 1..Len(ts) /\ Len(ts) \in Nat
  BY <1>1
<1>3. \A i \in DOMAIN new : new[i].tid = ts[i] /\ new[i].status = st
  BY <1>1, <1>2 DEF Entry
<1>4. st = "COMMITTED" => CommittedIn(new) = Range(ts)
  BY <1>2, <1>3 DEF CommittedIn, Range
<1>5. st # "COMMITTED" => CommittedIn(new) = {}
  BY <1>3 DEF CommittedIn
<1>6. ASSUME \A i \in DOMAIN new : IsPaxosEntry(new[i])
      PROVE  Cardinality(PaxosPositions(new)) = Len(ts)
  <2>1. PaxosPositions(new) = 1..Len(ts)
    BY <1>2, <1>6 DEF PaxosPositions
  <2>2. Cardinality(1..Len(ts)) = Len(ts)
    BY <1>2, FS_Interval
  <2> QED
    BY <2>1, <2>2
<1>7. ASSUME \A t \in Range(ts) : IsCrossShard(t), st = "PREPARED"
      PROVE  Cardinality(PaxosPositions(new)) = Len(ts)
  <2>1. ASSUME NEW i \in DOMAIN new PROVE IsPaxosEntry(new[i])
    <3>1. ts[i] \in Range(ts) /\ new[i].tid = ts[i] /\ new[i].status = "PREPARED"
      BY <1>2, <1>3, <1>7 DEF Range
    <3> QED
      BY <1>7, <3>1 DEF IsPaxosEntry
  <2> QED
    BY <1>6, <2>1
<1>8. ASSUME \A t \in Range(ts) : ~IsCrossShard(t), st = "COMMITTED"
      PROVE  Cardinality(PaxosPositions(new)) = Len(ts)
  <2>1. ASSUME NEW i \in DOMAIN new PROVE IsPaxosEntry(new[i])
    <3>1. ts[i] \in Range(ts) /\ new[i].tid = ts[i] /\ new[i].status = "COMMITTED"
      BY <1>2, <1>3, <1>8 DEF Range
    <3> QED
      BY <1>8, <3>1 DEF IsPaxosEntry
  <2> QED
    BY <1>6, <2>1
<1>9. \A t : At(new, t) = {i \in DOMAIN ts : ts[i] = t}
  BY <1>2, <1>3 DEF At
<1> QED
  BY <1>1, <1>2, <1>3, <1>4, <1>5, <1>7, <1>8, <1>9 DEF new

(* Nothing appended. *)
LEMMA NoneInserted ==
  ASSUME NEW r \in State, NEW s
  PROVE  Inserted(r, r, s, <<>>)
<1>1. r.log \in Seq(WALEntry) /\ r.paxos_index \in Int /\ r.last_inserted \in Int
  BY DEF State, ServerState, Index
<1>2. r.log \o <<>> = r.log /\ Len(<<>>) = 0
  BY <1>1
<1>3. /\ CommittedIn(<<>>) = {} /\ PaxosPositions(<<>>) = {}
      /\ \A t : At(<<>>, t) = {}
  BY DEF CommittedIn, PaxosPositions, At
<1>4. \A t \in Tid : Position(r.transferIndex[t], Len(r.log), <<>>, t) = r.transferIndex[t]
  BY <1>3 DEF Position
<1>5. Cardinality({}) = 0 /\ r.paxos_index + 0 = r.paxos_index
  BY <1>1, FS_EmptySet
<1>6. Apply(r, s, {} \ r.balance_applied) = r.balances
  <2>1. {} \ r.balance_applied = {}
    OBVIOUS
  <2> QED
    BY <2>1, NoMoney
<1>7. r.balance_applied = r.balance_applied \cup {}
  OBVIOUS
<1> QED
  BY <1>2, <1>3, <1>4, <1>5, <1>6, <1>7 DEF Inserted

(* A batch of prepares. *)
LEMMA PrepareInserted ==
  ASSUME NEW r \in State, NEW s, NEW ts \in Seq(Tid), NEW b \in Ballot,
         Distinct(ts), \A t \in Range(ts) : IsCrossShard(t)
  PROVE  \E new \in Seq(WALEntry) :
           /\ Inserted(PrepareTransactions(r, ts, b), r, s, new)
           /\ \A D : EntriesOK(new, D)
<1> DEFINE q == PrepareTransactions(r, ts, b)
<1>1. CASE ts = <<>>
  <2>1. q = r
    BY <1>1 DEF PrepareTransactions
  <2>2. \A D : EntriesOK(<<>>, D)
    BY DEF EntriesOK
  <2>3. <<>> \in Seq(WALEntry)
    OBVIOUS
  <2> QED
    BY <2>1, <2>2, <2>3, NoneInserted
<1>2. CASE ts # <<>>
  <2> DEFINE new == LogEntries(ts, b, "PREPARED")
  <2> DEFINE pos(t) == CHOOSE i \in DOMAIN ts : ts[i] = t
  <2> DEFINE index == [t \in Tid |-> IF t \in Range(ts) THEN Len(r.log) + pos(t)
                                                        ELSE r.transferIndex[t]]
  <2>1. /\ q.log = r.log \o new /\ q.transferIndex = index
        /\ q.last_inserted = Len(r.log) + Len(ts) - 1
        /\ q.paxos_index = r.paxos_index + Len(ts)
        /\ q.balances = r.balances /\ q.balance_applied = r.balance_applied
    BY <1>2 DEF PrepareTransactions, State, ServerState
  <2>2. /\ new \in Seq(WALEntry) /\ Len(new) = Len(ts)
        /\ \A i \in DOMAIN new : new[i].tid = ts[i] /\ new[i].status = "PREPARED"
        /\ DOMAIN new = DOMAIN ts
        /\ CommittedIn(new) = {}
        /\ Cardinality(PaxosPositions(new)) = Len(ts)
        /\ \A t : At(new, t) = {i \in DOMAIN ts : ts[i] = t}
    BY UniformLog DEF Status
  <2> HIDE DEF new, q
  <2>3. ASSUME NEW t \in Tid
        PROVE  index[t] = Position(r.transferIndex[t], Len(r.log), new, t)
    <3>1. CASE t \in Range(ts)
      <4>1. PICK i \in DOMAIN ts : ts[i] = t
        BY <3>1 DEF Range
      <4>2. \A j \in DOMAIN ts : ts[j] = t => j = i
        BY <4>1 DEF Distinct
      <4>3. pos(t) = i
        BY <4>1, <4>2
      <4>4. At(new, t) = {i} /\ i \in Nat
        BY <2>2, <4>1, <4>2
      <4> HIDE DEF pos
      <4>5. Max({i}) = i
        BY <4>4, MaxIs
      <4>6. new[i].status = "PREPARED" /\ At(new, t) # {}
        BY <2>2, <4>1, <4>4
      <4> QED
        BY <3>1, <4>3, <4>4, <4>5, <4>6 DEF Position
    <3>2. CASE t \notin Range(ts)
      <4>1. At(new, t) = {}
        BY <2>2, <3>2 DEF Range
      <4> QED
        BY <3>2, <4>1 DEF Position
    <3> QED
      BY <3>1, <3>2
  <2>4. \A D : EntriesOK(new, D)
    <3> SUFFICES ASSUME NEW D, NEW i \in DOMAIN new PROVE EntryOK(new[i], D)
      BY DEF EntriesOK
    <3>1. new[i].status = "PREPARED" /\ new[i].tid \in Range(ts)
      BY <2>2 DEF Range
    <3> QED
      BY <3>1 DEF EntryOK
  <2> HIDE DEF index
  <2>5. Apply(r, s, {} \ r.balance_applied) = r.balances
    <3>1. {} \ r.balance_applied = {}
      OBVIOUS
    <3> QED
      BY <3>1, NoMoney
  <2>6. r.balance_applied = r.balance_applied \cup {}
    OBVIOUS
  <2>7. Inserted(q, r, s, new)
    BY <2>1, <2>2, <2>3, <2>5, <2>6 DEF Inserted
  <2> QED
    BY <2>2, <2>4, <2>7 DEF q
<1> QED
  BY <1>1, <1>2

(* transferIndex holds cross-shard transactions only. *)
IndexCross(r) == \A t \in Tid : r.transferIndex[t] # 0 => IsCrossShard(t)

(* A batch of commits. *)
LEMMA CommitInserted ==
  ASSUME NEW r \in State, NEW s, NEW ts \in Seq(Tid), NEW b \in Ballot,
         \A t \in Range(ts) : ~IsCrossShard(t), IndexCross(r)
  PROVE  \E new \in Seq(WALEntry) :
           /\ Inserted(CommitTransactions(r, s, ts, b), r, s, new)
           /\ \A D : EntriesOK(new, D)
<1> DEFINE q == CommitTransactions(r, s, ts, b)
<1> DEFINE I == {i \in DOMAIN ts : ts[i] \notin r.balance_applied}
<1> DEFINE us == Select(ts, I)
<1>1. CASE us = <<>>
  <2>1. q = r
    BY <1>1 DEF CommitTransactions
  <2>2. \A D : EntriesOK(<<>>, D)
    BY DEF EntriesOK
  <2>3. <<>> \in Seq(WALEntry)
    OBVIOUS
  <2> QED
    BY <2>1, <2>2, <2>3, NoneInserted
<1>2. CASE us # <<>>
  <2> DEFINE new == LogEntries(us, b, "COMMITTED")
  <2> DEFINE money == Apply(r, s, Range(us))
  <2> DEFINE done == r.balance_applied \cup Range(us)
  <2>1. /\ q.log = r.log \o new /\ q.transferIndex = r.transferIndex
        /\ q.last_inserted = Len(r.log) + Len(us) - 1
        /\ q.paxos_index = r.paxos_index + Len(us)
        /\ q.balances = money /\ q.balance_applied = done
    BY <1>2 DEF CommitTransactions, State, ServerState
  <2>2. I \in SUBSET DOMAIN ts
    OBVIOUS
  <2>3. \A i \in I : ts[i] \notin r.balance_applied /\ ts[i] \in Range(ts)
    BY DEF Range
  <2> HIDE DEF I
  <2>4. us \in Seq(Tid) /\ \A k \in DOMAIN us : \E i \in I : us[k] = ts[i]
    BY <2>2, SelectProperties
  <2> HIDE DEF us
  <2>5. \A t \in Range(us) : ~IsCrossShard(t) /\ t \notin r.balance_applied
    BY <2>3, <2>4 DEF Range
  <2>6. /\ new \in Seq(WALEntry) /\ Len(new) = Len(us)
        /\ \A i \in DOMAIN new : new[i].tid = us[i] /\ new[i].status = "COMMITTED"
        /\ DOMAIN new = DOMAIN us
        /\ CommittedIn(new) = Range(us)
        /\ Cardinality(PaxosPositions(new)) = Len(us)
        /\ \A t : At(new, t) = {i \in DOMAIN us : us[i] = t}
    BY <2>4, <2>5, UniformLog DEF Status
  <2> HIDE DEF new, q, money, done
  <2>7. ASSUME NEW t \in Tid
        PROVE  r.transferIndex[t] = Position(r.transferIndex[t], Len(r.log), new, t)
    <3>1. CASE t \in Range(us)
      <4>1. At(new, t) # {}
        BY <2>6, <3>1 DEF Range
      <4>2. At(new, t) \in SUBSET DOMAIN new
        BY DEF At
      <4>3. Max(At(new, t)) \in DOMAIN new
        BY <2>6, <4>1, <4>2, LastPosition
      <4>4. new[Max(At(new, t))].status # "PREPARED"
        BY <2>6, <4>3
      <4>5. r.transferIndex[t] = 0
        BY <2>5, <3>1 DEF IndexCross
      <4> QED
        BY <4>1, <4>4, <4>5 DEF Position
    <3>2. CASE t \notin Range(us)
      <4>1. At(new, t) = {}
        BY <2>6, <3>2 DEF Range
      <4> QED
        BY <4>1 DEF Position
    <3> QED
      BY <3>1, <3>2
  <2>8. \A D : EntriesOK(new, D)
    <3> SUFFICES ASSUME NEW D, NEW i \in DOMAIN new PROVE EntryOK(new[i], D)
      BY DEF EntriesOK
    <3>1. new[i].status = "COMMITTED" /\ new[i].tid \in Range(us)
      BY <2>6 DEF Range
    <3> QED
      BY <2>5, <3>1 DEF EntryOK
  <2>9. Range(us) \ r.balance_applied = Range(us)
    BY <2>5
  <2>10. Inserted(q, r, s, new)
    BY <2>1, <2>6, <2>7, <2>9 DEF Inserted, money, done
  <2> QED
    BY <2>6, <2>8, <2>10 DEF q
<1> QED
  BY <1>1, <1>2

(* new closes the cross-shard transaction t, as committed or as aborted. *)
Closes(new, t, st) ==
  /\ new \in Seq(WALEntry) /\ Len(new) = 1
  /\ CommittedIn(new) = IF st = "COMMITTED" THEN {t} ELSE {}
  /\ PaxosPositions(new) = {}
  /\ \A u \in Tid : \A old, n : Position(old, n, new, u) = IF u = t THEN 0 ELSE old
  /\ \A D : (IF st = "COMMITTED" THEN <<t, "commit">> \in D ELSE MayAbort(t, D))
           => EntriesOK(new, D)

(* One entry does. *)
LEMMA OneEntry ==
  ASSUME NEW t \in Tid, NEW b \in Ballot, NEW st \in {"COMMITTED", "ABORTED"}, IsCrossShard(t),
         NEW new, new = <<Entry(t, b, st)>>
  PROVE  Closes(new, t, st)
<1> DEFINE e == Entry(t, b, st)
<1>0. new = <<e>>
  OBVIOUS
<1>1. e \in WALEntry /\ e.tid = t /\ e.status = st
  BY DEF Entry, WALEntry, Status
<1> HIDE DEF e
<1>2. new \in Seq(WALEntry) /\ Len(new) = 1 /\ DOMAIN new = {1} /\ new[1] = e
  <2>1. new \in Seq(WALEntry) /\ Len(new) = 1 /\ DOMAIN new = 1..1 /\ new[1] = e
    BY <1>0, <1>1
  <2>2. 1..1 = {1}
    OBVIOUS
  <2> QED
    BY <2>1, <2>2
<1>3. CommittedIn(new) = IF st = "COMMITTED" THEN {t} ELSE {}
  <2>1. CASE st = "COMMITTED"
    <3>1. {j \in DOMAIN new : new[j].status = "COMMITTED"} = {1}
      BY <1>1, <1>2, <2>1
    <3>2. CommittedIn(new) = {new[i].tid : i \in {1}}
      BY <3>1 DEF CommittedIn
    <3>3. CommittedIn(new) = {t}
      BY <1>1, <1>2, <3>2
    <3> QED
      BY <2>1, <3>3
  <2>2. CASE st # "COMMITTED"
    <3>1. {j \in DOMAIN new : new[j].status = "COMMITTED"} = {}
      BY <1>1, <1>2, <2>2
    <3>2. CommittedIn(new) = {}
      BY <3>1 DEF CommittedIn
    <3> QED
      BY <2>2, <3>2
  <2> QED
    BY <2>1, <2>2
<1>4. PaxosPositions(new) = {}
  BY <1>1, <1>2 DEF PaxosPositions, IsPaxosEntry
<1>5. ASSUME NEW u \in Tid, NEW old, NEW n
      PROVE  Position(old, n, new, u) = IF u = t THEN 0 ELSE old
  <2>1. CASE u = t
    <3>1. At(new, u) = {1}
      BY <1>1, <1>2, <2>1 DEF At
    <3>2. Max({1}) = 1
      BY MaxIs
    <3>3. new[1].status # "PREPARED"
      BY <1>1, <1>2
    <3>4. {1} # {}
      OBVIOUS
    <3> QED
      BY <2>1, <3>1, <3>2, <3>3, <3>4 DEF Position
  <2>2. CASE u # t
    <3>1. At(new, u) = {}
      BY <1>1, <1>2, <2>2 DEF At
    <3> QED
      BY <2>2, <3>1 DEF Position
  <2> QED
    BY <2>1, <2>2
<1>6. \A D : (IF st = "COMMITTED" THEN <<t, "commit">> \in D ELSE MayAbort(t, D))
           => EntriesOK(new, D)
  BY <1>1, <1>2 DEF EntriesOK, EntryOK
<1> QED
  BY <1>2, <1>3, <1>4, <1>5, <1>6 DEF Closes

(* A prepared transaction closed, as aborted or as committed. *)
LEMMA CloseInserted ==
  ASSUME NEW r \in State, NEW s, NEW t \in Tid, r.transferIndex[t] # 0, IndexCross(r)
  PROVE  /\ \E new \in Seq(WALEntry) :
              /\ Inserted(CloseTransaction(r, s, t, "ABORTED"), r, s, new)
              /\ \A D : MayAbort(t, D) => EntriesOK(new, D)
         /\ \E new \in Seq(WALEntry) :
              /\ Inserted(CommitClosed(r, s, t), r, s, new)
              /\ \A D : <<t, "commit">> \in D => EntriesOK(new, D)
<1> DEFINE b == r.log[r.transferIndex[t]].ballot
<1>1. r.log \in Seq(WALEntry) /\ IsCrossShard(t)
  BY DEF State, ServerState, IndexCross
<1>2. b \in Ballot
  <2>1. r.transferIndex[t] \in Nat /\ r.transferIndex[t] <= Len(r.log) /\ Len(r.log) \in Nat
    BY <1>1 DEF State, ServerState, Sound
  <2>2. r.transferIndex[t] \in DOMAIN r.log
    BY <1>1, <2>1
  <2> QED
    BY <1>1, <2>2, LogEntry
<1>3. /\ r.transferIndex \in [Tid -> Nat] /\ r.balance_applied \in SUBSET Tid
      /\ r.last_inserted \in Int /\ r.paxos_index \in Int
  BY DEF State, ServerState, Index
<1>4. ASSUME NEW st
      PROVE  LET q == CloseTransaction(r, s, t, st) IN
             /\ q.log = Append(r.log, Entry(t, b, st))
             /\ q.transferIndex = [r.transferIndex EXCEPT ![t] = 0]
             /\ q.last_inserted = r.last_inserted /\ q.paxos_index = r.paxos_index
             /\ q.balances = r.balances /\ q.balance_applied = r.balance_applied
  BY DEF CloseTransaction, State, ServerState
<1>5. /\ CommitClosed(r, s, t).log = Append(r.log, Entry(t, b, "COMMITTED"))
      /\ CommitClosed(r, s, t).transferIndex = [r.transferIndex EXCEPT ![t] = 0]
      /\ CommitClosed(r, s, t).last_inserted = r.last_inserted
      /\ CommitClosed(r, s, t).paxos_index = r.paxos_index
      /\ CommitClosed(r, s, t).balances = Apply(r, s, {t} \ r.balance_applied)
      /\ CommitClosed(r, s, t).balance_applied = r.balance_applied \cup {t}
  BY DEF CommitClosed, CloseTransaction, State, ServerState
<1> HIDE DEF b
<1>6. ASSUME NEW e \in WALEntry PROVE Append(r.log, e) = r.log \o <<e>>
  BY <1>1
<1>7. \A st \in {"COMMITTED", "ABORTED"} : Entry(t, b, st) \in WALEntry
  BY <1>2 DEF Entry, WALEntry, Status
<1>8. r.paxos_index + 0 = r.paxos_index /\ Cardinality({}) = 0
  BY <1>3, FS_EmptySet
<1>9. ASSUME NEW st \in {"COMMITTED", "ABORTED"}, NEW new, new = <<Entry(t, b, st)>>
      PROVE  /\ Closes(new, t, st)
             /\ \A u \in Tid : [r.transferIndex EXCEPT ![t] = 0][u]
                                 = Position(r.transferIndex[u], Len(r.log), new, u)
  <2>1. Closes(new, t, st)
    BY <1>1, <1>2, <1>9, OneEntry
  <2>2. \A u \in Tid : [r.transferIndex EXCEPT ![t] = 0][u]
                         = Position(r.transferIndex[u], Len(r.log), new, u)
    BY <1>3, <2>1 DEF Closes
  <2> QED
    BY <2>1, <2>2
<1>10. \E new \in Seq(WALEntry) :
              /\ Inserted(CloseTransaction(r, s, t, "ABORTED"), r, s, new)
              /\ \A D : MayAbort(t, D) => EntriesOK(new, D)
  <2> DEFINE new == <<Entry(t, b, "ABORTED")>>
  <2> DEFINE q == CloseTransaction(r, s, t, "ABORTED")
  <2>0. new = <<Entry(t, b, "ABORTED")>>
    OBVIOUS
  <2>1. /\ new \in Seq(WALEntry) /\ CommittedIn(new) = {} /\ PaxosPositions(new) = {}
        /\ \A u \in Tid : [r.transferIndex EXCEPT ![t] = 0][u]
                            = Position(r.transferIndex[u], Len(r.log), new, u)
        /\ \A D : MayAbort(t, D) => EntriesOK(new, D)
    <3> HIDE DEF new
    <3>1. /\ Closes(new, t, "ABORTED")
          /\ \A u \in Tid : [r.transferIndex EXCEPT ![t] = 0][u]
                              = Position(r.transferIndex[u], Len(r.log), new, u)
      BY <1>9, <2>0
    <3> QED
      BY <3>1 DEF Closes
  <2>2. q.log = r.log \o new
    BY <1>4, <1>6, <1>7
  <2>3. /\ q.transferIndex = [r.transferIndex EXCEPT ![t] = 0]
        /\ q.last_inserted = r.last_inserted /\ q.paxos_index = r.paxos_index
        /\ q.balances = r.balances /\ q.balance_applied = r.balance_applied
    BY <1>4
  <2> HIDE DEF new, q
  <2>4. Apply(r, s, {} \ r.balance_applied) = r.balances
    <3>1. {} \ r.balance_applied = {}
      OBVIOUS
    <3> QED
      BY <3>1, NoMoney
  <2>5. r.balance_applied = r.balance_applied \cup {}
    OBVIOUS
  <2>6. Inserted(q, r, s, new)
    BY <1>8, <2>1, <2>2, <2>3, <2>4, <2>5 DEF Inserted
  <2> QED
    BY <2>1, <2>6 DEF q
<1>11. \E new \in Seq(WALEntry) :
              /\ Inserted(CommitClosed(r, s, t), r, s, new)
              /\ \A D : <<t, "commit">> \in D => EntriesOK(new, D)
  <2> DEFINE new == <<Entry(t, b, "COMMITTED")>>
  <2> DEFINE q == CommitClosed(r, s, t)
  <2>0. new = <<Entry(t, b, "COMMITTED")>>
    OBVIOUS
  <2>1. /\ new \in Seq(WALEntry) /\ CommittedIn(new) = {t} /\ PaxosPositions(new) = {}
        /\ \A u \in Tid : [r.transferIndex EXCEPT ![t] = 0][u]
                            = Position(r.transferIndex[u], Len(r.log), new, u)
        /\ \A D : <<t, "commit">> \in D => EntriesOK(new, D)
    <3> HIDE DEF new
    <3>1. /\ Closes(new, t, "COMMITTED")
          /\ \A u \in Tid : [r.transferIndex EXCEPT ![t] = 0][u]
                              = Position(r.transferIndex[u], Len(r.log), new, u)
      BY <1>9, <2>0
    <3> QED
      BY <3>1 DEF Closes
  <2>2. q.log = r.log \o new
    BY <1>5, <1>6, <1>7
  <2>3. /\ q.transferIndex = [r.transferIndex EXCEPT ![t] = 0]
        /\ q.last_inserted = r.last_inserted /\ q.paxos_index = r.paxos_index
        /\ q.balances = Apply(r, s, {t} \ r.balance_applied)
        /\ q.balance_applied = r.balance_applied \cup {t}
    BY <1>5
  <2> HIDE DEF new, q
  <2>4. Inserted(q, r, s, new)
    BY <1>8, <2>1, <2>2, <2>3 DEF Inserted
  <2> QED
    BY <2>1, <2>4 DEF q
<1> QED
  BY <1>10, <1>11

(* A sync reply. *)
LEMMA SyncInserted ==
  ASSUME NEW r \in State, NEW s, NEW logs \in Seq(WALEntry)
  PROVE  Inserted(Synced(r, s, logs), r, s, logs)
<1> DEFINE index == [t \in Tid |-> Position(r.transferIndex[t], Len(r.log), logs, t)]
<1> DEFINE n == Cardinality(PaxosPositions(logs))
<1> DEFINE money == Apply(r, s, CommittedIn(logs) \ r.balance_applied)
<1> DEFINE p == [r EXCEPT !.log = r.log \o logs, !.transferIndex = index,
                          !.paxos_index = r.paxos_index + n,
                          !.balances = money,
                          !.balance_applied = r.balance_applied \cup CommittedIn(logs)]
<1>1. InsertEntries(r, s, logs) = p
  BY DEF InsertEntries, Position, At, CommittedIn, State, ServerState
<1>2. Synced(r, s, logs) = [p EXCEPT !.last_inserted = @ + Len(logs)]
  BY <1>1 DEF Synced
<1> HIDE DEF n, money
<1> DEFINE q == Synced(r, s, logs)
<1>3. /\ q.log = r.log \o logs /\ q.transferIndex = index
      /\ q.paxos_index = r.paxos_index + n /\ q.balances = money
      /\ q.balance_applied = r.balance_applied \cup CommittedIn(logs)
      /\ q.last_inserted = r.last_inserted + Len(logs)
  BY <1>2 DEF State, ServerState
<1> HIDE DEF q
<1>4. \A t \in Tid : q.transferIndex[t] = Position(r.transferIndex[t], Len(r.log), logs, t)
  BY <1>3
<1> HIDE DEF index
<1>5. Inserted(q, r, s, logs)
  BY <1>3, <1>4 DEF Inserted, n, money
<1> QED
  BY <1>5 DEF q

(* Every step of the log. *)
LEMMA LogStepInserts ==
  ASSUME NEW r \in State, NEW q, NEW s, NEW D, LogStep(s, q, r, D), IndexCross(r)
  PROVE  \/ Recovered(q, r)
         \/ \E new \in Seq(WALEntry) : Inserted(q, r, s, new) /\ EntriesOK(new, D)
<1> DEFINE Goal == \E new \in Seq(WALEntry) : Inserted(q, r, s, new) /\ EntriesOK(new, D)
<1>1. CASE SameLog(q, r)
  <2>1. Inserted(q, r, s, <<>>)
    BY <1>1, NoneInserted, InsertedTo
  <2>2. EntriesOK(<<>>, D) /\ <<>> \in Seq(WALEntry)
    BY DEF EntriesOK
  <2> QED
    BY <2>1, <2>2
<1>2. CASE \E ts \in Seq(Tid), b \in Ballot :
             /\ Distinct(ts) /\ \A t \in Range(ts) : IsCrossShard(t)
             /\ SameLog(q, PrepareTransactions(r, ts, b))
  <2>1. PICK ts \in Seq(Tid), b \in Ballot :
             /\ Distinct(ts) /\ \A t \in Range(ts) : IsCrossShard(t)
             /\ SameLog(q, PrepareTransactions(r, ts, b))
    BY <1>2
  <2>2. PICK new \in Seq(WALEntry) :
           /\ Inserted(PrepareTransactions(r, ts, b), r, s, new)
           /\ EntriesOK(new, D)
    BY <2>1, PrepareInserted
  <2> QED
    BY <2>1, <2>2, InsertedTo
<1>3. CASE \E ts \in Seq(Tid), b \in Ballot :
             /\ \A t \in Range(ts) : ~IsCrossShard(t)
             /\ SameLog(q, CommitTransactions(r, s, ts, b))
  <2>1. PICK ts \in Seq(Tid), b \in Ballot :
             /\ \A t \in Range(ts) : ~IsCrossShard(t)
             /\ SameLog(q, CommitTransactions(r, s, ts, b))
    BY <1>3
  <2>2. PICK new \in Seq(WALEntry) :
           /\ Inserted(CommitTransactions(r, s, ts, b), r, s, new)
           /\ EntriesOK(new, D)
    BY <2>1, CommitInserted
  <2> QED
    BY <2>1, <2>2, InsertedTo
<1>4. CASE \E t \in Tid :
             /\ r.transferIndex[t] # 0
             /\ \/ MayAbort(t, D) /\ SameLog(q, CloseTransaction(r, s, t, "ABORTED"))
                \/ <<t, "commit">> \in D /\ SameLog(q, CommitClosed(r, s, t))
  <2>1. PICK t \in Tid :
             /\ r.transferIndex[t] # 0
             /\ \/ MayAbort(t, D) /\ SameLog(q, CloseTransaction(r, s, t, "ABORTED"))
                \/ <<t, "commit">> \in D /\ SameLog(q, CommitClosed(r, s, t))
    BY <1>4
  <2>2. PICK new \in Seq(WALEntry) :
           /\ Inserted(CloseTransaction(r, s, t, "ABORTED"), r, s, new)
           /\ MayAbort(t, D) => EntriesOK(new, D)
    BY <2>1, CloseInserted
  <2>3. PICK log \in Seq(WALEntry) :
           /\ Inserted(CommitClosed(r, s, t), r, s, log)
           /\ <<t, "commit">> \in D => EntriesOK(log, D)
    BY <2>1, CloseInserted
  <2> QED
    BY <2>1, <2>2, <2>3, InsertedTo
<1>5. CASE \E logs \in Seq(WALEntry) :
             EntriesOK(logs, D) /\ SameLog(q, Synced(r, s, logs))
  <2>1. PICK logs \in Seq(WALEntry) :
             EntriesOK(logs, D) /\ SameLog(q, Synced(r, s, logs))
    BY <1>5
  <2> QED
    BY <2>1, SyncInserted, InsertedTo
<1> QED
  BY <1>1, <1>2, <1>3, <1>4, <1>5 DEF LogStep

-----------------------------------------------------------------------------
(***************************************************************************)
(* The log.                                                                *)
(***************************************************************************)
LogOK(r, D) ==
  /\ EntriesOK(r.log, D)
  /\ r.transferIndex = RecoveredIndex(r.log)
  /\ r.paxos_index + 1 = Cardinality(PaxosPositions(r.log))
  /\ r.paxos_index <= r.last_inserted /\ r.last_inserted < Len(r.log)
  /\ r.balance_applied \subseteq CommittedIn(r.log)

(* A log has no more Paxos entries than entries. *)
LEMMA PaxosCount ==
  ASSUME NEW log \in Seq(WALEntry)
  PROVE  /\ Cardinality(PaxosPositions(log)) \in Nat
         /\ Cardinality(PaxosPositions(log)) <= Len(log)
<1>1. PaxosPositions(log) \in SUBSET (1..Len(log))
  BY DEF PaxosPositions
<1>2. Len(log) \in Nat
  OBVIOUS
<1>3. IsFiniteSet(1..Len(log)) /\ Cardinality(1..Len(log)) = Len(log)
  BY <1>2, FS_Interval
<1>4. Cardinality(PaxosPositions(log)) <= Cardinality(1..Len(log))
  BY <1>1, <1>3, FS_Subset
<1> QED
  BY <1>3, <1>4, PaxosPositionsType

(* What recovery keeps is prepared, so it is cross-shard. *)
LEMMA LogOKIndexCross ==
  ASSUME NEW r \in State, NEW D, LogOK(r, D)
  PROVE  IndexCross(r)
<1> SUFFICES ASSUME NEW t \in Tid, r.transferIndex[t] # 0 PROVE IsCrossShard(t)
  BY DEF IndexCross
<1>1. r.log \in Seq(WALEntry)
  BY DEF State, ServerState
<1> DEFINE at == At(r.log, t)
<1>2. at # {} /\ r.log[Max(at)].status = "PREPARED"
  BY DEF LogOK, RecoveredIndex, At
<1>3. at \in SUBSET DOMAIN r.log
  BY DEF At
<1>4. \A i \in at : r.log[i].tid = t
  BY DEF At
<1> HIDE DEF at
<1>5. Max(at) \in at
  BY <1>1, <1>2, <1>3, LastPosition
<1>6. EntryOK(r.log[Max(at)], D)
  BY <1>3, <1>5 DEF LogOK, EntriesOK
<1> QED
  BY <1>2, <1>4, <1>5, <1>6 DEF EntryOK

(* Appending entries keeps the log and its indexes in step. *)
LEMMA InsertedOK ==
  ASSUME NEW r \in State, NEW q \in State, NEW s, NEW D, LogOK(r, D),
         NEW new \in Seq(WALEntry), EntriesOK(new, D), Inserted(q, r, s, new)
  PROVE  LogOK(q, D)
<1>1. r.log \in Seq(WALEntry) /\ q.log = r.log \o new /\ EntriesOK(r.log, D)
  BY DEF State, ServerState, Inserted, LogOK
<1>2. EntriesOK(q.log, D)
  <2> SUFFICES ASSUME NEW i \in DOMAIN q.log PROVE EntryOK(q.log[i], D)
    BY DEF EntriesOK
  <2>1. i \in 1..Len(r.log) \/ \E j \in 1..Len(new) : i = Len(r.log) + j
    BY <1>1, ConcatEntries
  <2>2. CASE i \in 1..Len(r.log)
    <3>1. q.log[i] = r.log[i] /\ i \in DOMAIN r.log
      BY <1>1, <2>2, ConcatEntries
    <3> QED
      BY <1>1, <3>1 DEF EntriesOK
  <2>3. CASE \E j \in 1..Len(new) : i = Len(r.log) + j
    <3>1. PICK j \in 1..Len(new) : i = Len(r.log) + j
      BY <2>3
    <3>2. q.log[i] = new[j] /\ j \in DOMAIN new
      BY <1>1, <3>1, ConcatEntries
    <3> QED
      BY <3>2 DEF EntriesOK
  <2> QED
    BY <2>1, <2>2, <2>3
<1>3. q.transferIndex = RecoveredIndex(q.log)
  <2>1. ASSUME NEW t \in Tid PROVE q.transferIndex[t] = RecoveredIndex(q.log)[t]
    <3>1. RecoveredIndex(r.log \o new)[t] = Position(RecoveredIndex(r.log)[t], Len(r.log), new, t)
      BY <1>1, RecoveredConcat
    <3>2. q.transferIndex[t] = Position(r.transferIndex[t], Len(r.log), new, t)
      BY DEF Inserted
    <3> QED
      BY <1>1, <3>1, <3>2 DEF LogOK
  <2>2. q.transferIndex \in [Tid -> Nat]
    BY DEF State, ServerState
  <2>3. RecoveredIndex(q.log) \in [Tid -> Nat]
    BY RecoveredIndexType DEF State, ServerState
  <2> QED
    BY <2>1, <2>2, <2>3
<1>4. q.paxos_index + 1 = Cardinality(PaxosPositions(q.log))
  <2>1. /\ Cardinality(PaxosPositions(r.log)) \in Nat
        /\ Cardinality(PaxosPositions(new)) \in Nat
    BY <1>1, PaxosCount
  <2>2. Cardinality(PaxosPositions(q.log))
          = Cardinality(PaxosPositions(r.log)) + Cardinality(PaxosPositions(new))
    BY <1>1, PaxosConcat
  <2>3. /\ r.paxos_index + 1 = Cardinality(PaxosPositions(r.log)) /\ r.paxos_index \in Int
        /\ q.paxos_index = r.paxos_index + Cardinality(PaxosPositions(new))
    BY DEF LogOK, Inserted, State, ServerState, Index
  <2> QED
    BY <2>1, <2>2, <2>3
<1>5. q.paxos_index <= q.last_inserted /\ q.last_inserted < Len(q.log)
  <2> DEFINE n == Cardinality(PaxosPositions(new))
  <2> DEFINE m == Len(new)
  <2> DEFINE k == Len(r.log)
  <2>1. n \in Nat /\ n <= m /\ m \in Nat /\ k \in Nat /\ Len(q.log) = k + m
    BY <1>1, PaxosCount, ConcatEntries
  <2>2. Cardinality(PaxosPositions(q.log)) <= k + m /\ Cardinality(PaxosPositions(q.log)) \in Nat
    <3>1. q.log \in Seq(WALEntry)
      BY DEF State, ServerState
    <3> QED
      BY <2>1, <3>1, PaxosCount
  <2>3. PaxosPositions(new) = {} => n = 0
    BY FS_EmptySet
  <2>4. r.paxos_index \in Int /\ r.last_inserted \in Int
    <3>1. r.paxos_index \in Index /\ r.last_inserted \in Index
      BY DEF State, ServerState
    <3> QED
      BY <3>1 DEF Index
  <2>5. q.paxos_index \in Int /\ q.last_inserted \in Int
    <3>1. q.paxos_index \in Index /\ q.last_inserted \in Index
      BY DEF State, ServerState
    <3> QED
      BY <3>1 DEF Index
  <2>6. r.paxos_index <= r.last_inserted /\ r.last_inserted < k
    BY DEF LogOK
  <2>7. q.paxos_index = r.paxos_index + n
    BY DEF Inserted
  <2>8. \/ q.last_inserted = k + m - 1
        \/ q.last_inserted = r.last_inserted + m
        \/ q.last_inserted = r.last_inserted /\ n = 0
    BY <2>3 DEF Inserted
  <2> HIDE DEF n, m, k
  <2>9. q.paxos_index + 1 <= k + m
    BY <1>4, <2>2
  <2>10. CASE q.last_inserted = k + m - 1
    BY <2>1, <2>5, <2>9, <2>10
  <2>11. CASE q.last_inserted = r.last_inserted + m
    BY <2>1, <2>4, <2>5, <2>6, <2>7, <2>11
  <2>12. CASE q.last_inserted = r.last_inserted /\ n = 0
    BY <2>1, <2>4, <2>5, <2>6, <2>7, <2>12
  <2> QED
    BY <2>8, <2>10, <2>11, <2>12
<1>6. q.balance_applied \subseteq CommittedIn(q.log)
  <2>1. CommittedIn(q.log) = CommittedIn(r.log) \cup CommittedIn(new)
    BY <1>1, CommittedConcat
  <2> QED
    BY <2>1 DEF LogOK, Inserted
<1> QED
  BY <1>2, <1>3, <1>4, <1>5, <1>6 DEF LogOK

(* A step of the log keeps it in step with its indexes, and only extends   *)
(* it.                                                                     *)
LEMMA LogStepOK ==
  ASSUME NEW r \in State, NEW q \in State, NEW s, NEW D, LogOK(r, D), LogStep(s, q, r, D)
  PROVE  /\ LogOK(q, D)
         /\ \A i \in DOMAIN r.log : i \in DOMAIN q.log /\ q.log[i] = r.log[i]
<1>1. CASE Recovered(q, r)
  <2>1. r.log \in Seq(WALEntry) /\ Len(r.log) \in Nat
    BY DEF State, ServerState
  <2> DEFINE n == Cardinality(PaxosPositions(r.log))
  <2>2. n \in Nat /\ n <= Len(r.log)
    BY <2>1, PaxosCount
  <2>3. /\ q.log = r.log /\ q.balance_applied = {} /\ q.transferIndex = RecoveredIndex(r.log)
        /\ q.last_inserted = Len(r.log) - 1 /\ q.paxos_index = n - 1
    BY <1>1 DEF Recovered
  <2> HIDE DEF n
  <2>4. /\ q.paxos_index + 1 = n /\ q.paxos_index <= q.last_inserted
        /\ q.last_inserted < Len(q.log)
    BY <2>1, <2>2, <2>3
  <2> QED
    BY <2>3, <2>4 DEF LogOK, n
<1>2. CASE \E new \in Seq(WALEntry) : Inserted(q, r, s, new) /\ EntriesOK(new, D)
  <2>1. PICK new \in Seq(WALEntry) : Inserted(q, r, s, new) /\ EntriesOK(new, D)
    BY <1>2
  <2>2. LogOK(q, D)
    BY <2>1, InsertedOK
  <2>3. r.log \in Seq(WALEntry) /\ q.log = r.log \o new
    BY <2>1 DEF State, ServerState, Inserted
  <2>4. ASSUME NEW i \in DOMAIN r.log PROVE i \in DOMAIN q.log /\ q.log[i] = r.log[i]
    <3>1. i \in 1..Len(r.log) /\ Len(r.log) \in Nat /\ Len(new) \in Nat
      BY <2>3
    <3>2. DOMAIN q.log = 1..(Len(r.log) + Len(new)) /\ q.log[i] = r.log[i]
      BY <2>3, <3>1, ConcatEntries
    <3> QED
      BY <3>1, <3>2
  <2> QED
    BY <2>2, <2>4
<1> QED
  BY <1>1, <1>2, LogStepInserts, LogOKIndexCross

-----------------------------------------------------------------------------
(***************************************************************************)
(* The votes.                                                              *)
(***************************************************************************)

(* A batch whose accept quorum is awaited is in the leader's log. *)
VoteOK(r) ==
  r.await_accept_decision =>
    \A t \in Range(r.current) : IsCrossShard(t) => PreparedIn(r.log, t)

(* So is everything the clients were told is done. *)
AckOK(r) ==
  \A t \in Tid : r.incall[t] = "ack" =>
    \E i \in PaxosPositions(r.log) : r.log[i].tid = t

(* The log is only extended. *)
Extends(log, old) == \A i \in DOMAIN old : i \in DOMAIN log /\ log[i] = old[i]

(* Both survive a step, since the log does. *)
LEMMA VotesKept ==
  ASSUME NEW q \in State, NEW r \in State, Extends(q.log, r.log),
         r.balance_applied \subseteq CommittedIn(r.log),
         VoteOK(r), AckOK(r), VoteStep(q, r), AckStep(q, r)
  PROVE  VoteOK(q) /\ AckOK(q)
<1>1. \A t : PreparedIn(r.log, t) => PreparedIn(q.log, t)
  BY DEF PreparedIn, Extends
<1>2. VoteOK(q)
  BY <1>1 DEF VoteOK, VoteStep
<1>3. \A i \in PaxosPositions(r.log) : i \in PaxosPositions(q.log) /\ q.log[i] = r.log[i]
  BY DEF PaxosPositions, Extends
<1>4. AckOK(q)
  <2> SUFFICES ASSUME NEW t \in Tid, q.incall[t] = "ack"
               PROVE  \E i \in PaxosPositions(q.log) : q.log[i].tid = t
    BY DEF AckOK
  <2>1. CASE r.incall[t] = "ack"
    BY <1>3, <2>1 DEF AckOK
  <2>2. CASE /\ t \in Range(r.current) /\ r.await_accept_decision
             /\ ~IsCrossShard(t) => t \in r.balance_applied \cup CommittedIn(q.log)
    <3>1. CASE IsCrossShard(t)
      <4>1. PreparedIn(q.log, t)
        BY <1>1, <2>2, <3>1 DEF VoteOK
      <4>2. PICK i \in DOMAIN q.log : q.log[i].tid = t /\ q.log[i].status = "PREPARED"
        BY <4>1 DEF PreparedIn
      <4> QED
        BY <3>1, <4>2 DEF PaxosPositions, IsPaxosEntry
    <3>2. CASE ~IsCrossShard(t)
      <4>1. t \in CommittedIn(r.log) \/ t \in CommittedIn(q.log)
        BY <2>2, <3>2
      <4>2. \E i \in DOMAIN q.log : q.log[i].tid = t /\ q.log[i].status = "COMMITTED"
        BY <4>1 DEF CommittedIn, Extends
      <4>3. PICK i \in DOMAIN q.log : q.log[i].tid = t /\ q.log[i].status = "COMMITTED"
        BY <4>2
      <4> QED
        BY <3>2, <4>3 DEF PaxosPositions, IsPaxosEntry
    <3> QED
      BY <3>1, <3>2
  <2> QED
    BY <2>1, <2>2 DEF AckStep
<1> QED
  BY <1>2, <1>4

-----------------------------------------------------------------------------
(***************************************************************************)
(* The inductive invariant of the store.                                   *)
(***************************************************************************)

StoreOK(r, D) == Queued(r) /\ Calls(r, D) /\ LogOK(r, D) /\ VoteOK(r) /\ AckOK(r)

StoreInv ==
  TypeOK /\ FaultsBounded /\ DecisionsTaken /\ \A s \in Server : StoreOK(srv[s], Decided)

(* It is what the steps rely on. *)
LEMMA StoreReady ==
  ASSUME StoreInv
  PROVE  AllReady
<1>1. ASSUME NEW s \in Server PROVE Ready(srv[s], Decided)
  <2>1. srv[s] \in State /\ StoreOK(srv[s], Decided)
    BY TypeOKState DEF StoreInv
  <2>2. \A t \in Range(srv[s].current) : t \in Tid
    BY <2>1 DEF State, ServerState, Range
  <2> QED
    BY <2>1, <2>2 DEF StoreOK, Ready, Open, Queued, LogOK
<1> QED
  BY <1>1 DEF StoreInv, AllReady

(* A further decision takes nothing back. *)
LEMMA MoreDecided ==
  ASSUME NEW r, NEW D, NEW E, D \subseteq E, Calls(r, D), LogOK(r, D)
  PROVE  Calls(r, E) /\ LogOK(r, E)
<1>1. \A e : EntryOK(e, D) => EntryOK(e, E)
  BY DEF EntryOK, MayAbort
<1>2. \A log : EntriesOK(log, D) => EntriesOK(log, E)
  BY <1>1 DEF EntriesOK
<1> QED
  BY <1>2 DEF Calls, CallOK, LogOK

(* A decision is final. *)
LEMMA DecisionsFinal ==
  ASSUME TypeOK, [Next]_vars
  PROVE  \A t \in Tid : tpc[t] # "none" => tpc'[t] = tpc[t]
<1>1. ASSUME NEW t \in Tid, NEW d \in {"commit", "abort"}, ClientDecide(t, d)
      PROVE  \A u \in Tid : tpc[u] # "none" => tpc'[u] = tpc[u]
  <2>1. tpc[t] = "none" /\ tpc' = [tpc EXCEPT ![t] = d]
    BY <1>1 DEF ClientDecide
  <2>2. tpc \in [Tid -> {"none", "commit", "abort"}]
    BY DEF TypeOK
  <2> QED
    BY <2>1, <2>2
<1>2. \A s, t : EnqueueClientTxn(s, t) \/ ProcessTpcDecision(s, t) \/ LockTimeout(s, t)
                  => tpc' = tpc
  BY DEF EnqueueClientTxn, ProcessTpcDecision, LockTimeout
<1>3. \A s, c, status : ProcessCall(s, c) \/ HandleRPCResponse(s, c, status) => tpc' = tpc
  BY DEF ProcessCall, HandleRPCResponse
<1>4. \A s, b : ProcessDisconnectCall(s, b) \/ Restart(s) => tpc' = tpc
  BY DEF ProcessDisconnectCall, Restart
<1> QED
  BY <1>1, <1>2, <1>3, <1>4 DEF Next, vars

(* A decision is taken before it is sent. *)
LEMMA DecisionsStayTaken ==
  ASSUME TypeOK, DecisionsTaken, [Next]_vars
  PROVE  DecisionsTaken'
<1> SUFFICES ASSUME NEW s \in Server, NEW t \in Tid, <<s, t>> \in decisions'
             PROVE  tpc'[t] # "none"
  BY DEF DecisionsTaken
<1>1. CASE <<s, t>> \in decisions
  BY <1>1, DecisionsFinal DEF DecisionsTaken
<1>2. CASE <<s, t>> \notin decisions
  <2>1. \A p, u : EnqueueClientTxn(p, u) \/ ProcessTpcDecision(p, u) \/ LockTimeout(p, u)
                  => <<s, t>> \notin decisions'
    BY <1>2 DEF EnqueueClientTxn, ProcessTpcDecision, LockTimeout
  <2>2. \A p, c, status : ProcessCall(p, c) \/ HandleRPCResponse(p, c, status)
                            => <<s, t>> \notin decisions'
    BY <1>2 DEF ProcessCall, HandleRPCResponse
  <2>3. \A p, b : ProcessDisconnectCall(p, b) \/ Restart(p) => <<s, t>> \notin decisions'
    BY <1>2 DEF ProcessDisconnectCall, Restart
  <2>4. \E u \in Tid, d \in {"commit", "abort"} : ClientDecide(u, d)
    BY <1>2, <2>1, <2>2, <2>3 DEF Next, vars
  <2>5. PICK u \in Tid, d \in {"commit", "abort"} : ClientDecide(u, d)
    BY <2>4
  <2>6. /\ tpc' = [tpc EXCEPT ![u] = d]
        /\ decisions' = decisions \cup
             {<<p, u>> : p \in {q \in Server : ServerCluster[q] \in Participants(u)}}
    BY <2>5 DEF ClientDecide
  <2>7. t = u
    BY <1>2, <2>6
  <2> QED
    BY <2>6, <2>7 DEF TypeOK
<1> QED
  BY <1>1, <1>2

(* No fault budget is ever refilled. *)
LEMMA FaultsStayBounded ==
  ASSUME TypeOK, FaultsBounded, [Next]_vars
  PROVE  FaultsBounded'
<1> SUFFICES ASSUME NEW k \in FaultKind, Budget[k] = 0, budget[k] = 0
             PROVE  budget'[k] = 0
  BY DEF FaultsBounded
<1>0. budget \in [FaultKind -> Nat \cup {Unlimited}]
  BY DEF TypeOK
<1>1. \A kind : Spend(kind) => budget'[k] = 0
  <2> SUFFICES ASSUME NEW kind, Spend(kind) PROVE budget'[k] = 0
    OBVIOUS
  <2>1. kind # k
    BY DEF Spend
  <2>2. budget' = [budget EXCEPT ![kind] = IF @ = Unlimited THEN @ ELSE @ - 1]
    BY DEF Spend
  <2> QED
    BY <1>0, <2>1, <2>2
<1>2. \A s, t : EnqueueClientTxn(s, t) \/ ProcessTpcDecision(s, t) => budget' = budget
  BY DEF EnqueueClientTxn, ProcessTpcDecision
<1>3. \A s, t : LockTimeout(s, t) => Spend("lock_timeout")
  BY DEF LockTimeout
<1>4. \A s, c : ProcessCall(s, c) => budget' = budget
  BY DEF ProcessCall
<1>5. \A s, c, status : HandleRPCResponse(s, c, status) => budget' = budget \/ Spend(status)
  BY DEF HandleRPCResponse
<1>6. \A s, b : ProcessDisconnectCall(s, b) => budget' = budget \/ Spend("disconnect")
  BY DEF ProcessDisconnectCall
<1>7. \A s : Restart(s) => Spend("restart")
  BY DEF Restart
<1>8. \A t, d : ClientDecide(t, d) => budget' = budget
  BY DEF ClientDecide
<1> QED
  BY <1>1, <1>2, <1>3, <1>4, <1>5, <1>6, <1>7, <1>8 DEF Next, vars

(* The state the servers start in. *)
LEMMA StoreInit ==
  ASSUME Init
  PROVE  StoreInv
<1>1. TypeOK
  BY InitType
<1>2. FaultsBounded /\ DecisionsTaken
  BY DEF Init, FaultsBounded, DecisionsTaken
<1>3. ASSUME NEW s \in Server PROVE StoreOK(srv[s], Decided)
  <2> DEFINE r == srv[s]
  <2>1. /\ r.pending = <<>> /\ r.current = <<>> /\ ~r.is_paxos_running
        /\ ~r.await_accept_decision /\ r.outcalls = {} /\ r.log = <<>>
        /\ r.incall = [t \in Tid |-> "none"] /\ r.transferIndex = [t \in Tid |-> 0]
        /\ r.last_inserted = -1 /\ r.paxos_index = -1 /\ r.balance_applied = {}
    BY DEF Init, InitState
  <2> HIDE DEF r
  <2>2. Queued(r)
    BY <2>1, EmptyBatch DEF Queued
  <2>3. Calls(r, Decided) /\ VoteOK(r) /\ AckOK(r)
    BY <2>1 DEF Calls, VoteOK, AckOK
  <2>4. PaxosPositions(r.log) = {} /\ EntriesOK(r.log, Decided)
    BY <2>1, EmptyBatch DEF PaxosPositions, EntriesOK
  <2>5. Cardinality(PaxosPositions(r.log)) = 0 /\ Len(r.log) = 0
    BY <2>1, <2>4, FS_EmptySet
  <2>6. RecoveredIndex(r.log) = [t \in Tid |-> 0]
    BY <2>1, EmptyBatch DEF RecoveredIndex
  <2>7. LogOK(r, Decided)
    BY <2>1, <2>4, <2>5, <2>6 DEF LogOK
  <2> QED
    BY <2>2, <2>3, <2>7 DEF StoreOK, r
<1> QED
  BY <1>1, <1>2, <1>3 DEF StoreInv

(* What a step does to the invariant's view of one server. *)
LEMMA StoreStep ==
  ASSUME StoreInv, [Next]_vars, NEW s \in Server
  PROVE  /\ StoreOK(srv'[s], Decided) /\ Stands(srv'[s], srv[s])
         /\ Extends(srv'[s].log, srv[s].log)
         /\ srv[s] \in State /\ srv'[s] \in State
         /\ LogStep(s, srv'[s], srv[s], Decided)
<1>1. TypeOK /\ TypeOK'
  BY NextType DEF StoreInv
<1>2. srv[s] \in State /\ srv'[s] \in State
  BY <1>1 DEF TypeOK, State, Sound
<1>3. Moves(s, srv'[s], srv[s], Decided) /\ Calls(srv'[s], Decided)
  BY StoreReady, NextMoves DEF AllMove
<1> DEFINE r == srv[s]
<1> DEFINE q == srv'[s]
<1> DEFINE D == Decided
<1>4. StoreOK(r, D)
  BY DEF StoreInv
<1> HIDE DEF r, q, D
<1>5. r \in State /\ q \in State /\ Moves(s, q, r, D) /\ Calls(q, D)
  BY <1>2, <1>3 DEF r, q, D
<1>6. QueueStep(s, q, r) /\ LogStep(s, q, r, D) /\ VoteStep(q, r) /\ AckStep(q, r)
  BY <1>5 DEF Moves
<1>7. Queued(q) /\ Stands(q, r)
  BY <1>4, <1>5, <1>6, QueueStepQueued DEF StoreOK
<1>8. LogOK(q, D) /\ Extends(q.log, r.log)
  BY <1>4, <1>5, <1>6, LogStepOK DEF StoreOK, Extends
<1>9. VoteOK(q) /\ AckOK(q)
  BY <1>4, <1>5, <1>6, <1>8, VotesKept DEF StoreOK, LogOK
<1> QED
  BY <1>5, <1>6, <1>7, <1>8, <1>9 DEF StoreOK, r, q, D

(* The invariant is inductive. *)
LEMMA StoreNext ==
  ASSUME StoreInv, [Next]_vars
  PROVE  StoreInv'
<1>1. TypeOK' /\ FaultsBounded' /\ DecisionsTaken'
  BY NextType, FaultsStayBounded, DecisionsStayTaken DEF StoreInv
<1>2. Decided \subseteq Decided'
  BY DecisionsFinal DEF StoreInv, Decided
<1>3. ASSUME NEW s \in Server PROVE StoreOK(srv'[s], Decided')
  <2>1. StoreOK(srv'[s], Decided)
    BY StoreStep
  <2> QED
    BY <1>2, <2>1, MoreDecided DEF StoreOK
<1> QED
  BY <1>1, <1>3 DEF StoreInv

(* The store keeps its invariant. *)
LEMMA StoreCorrect == Spec => []StoreInv
<1>1. Init => StoreInv
  BY StoreInit
<1>2. StoreInv /\ [Next]_vars => StoreInv'
  BY StoreNext
<1> QED
  BY <1>1, <1>2, PTL DEF Spec

-----------------------------------------------------------------------------
(***************************************************************************)
(* The money.                                                              *)
(***************************************************************************)

(* Every committed entry is applied, and the shard's accounts hold what    *)
(* the applied transactions left.                                          *)
MoneyOK(r, s) ==
  /\ CommittedIn(r.log) \subseteq r.balance_applied
  /\ \A k \in Account : IsClientInCluster(s, k) =>
       r.balances[k] = InitialBalance + Credits(r.balance_applied, k)
                                      - Debits(r.balance_applied, k)
  /\ \A k \in Account : ~IsClientInCluster(s, k) => r.balances[k] = 0

(* A step that inserts entries applies what is new among them, once. *)
LEMMA InsertedMoney ==
  ASSUME NEW r \in State, NEW q, NEW s, NEW new \in Seq(WALEntry),
         Inserted(q, r, s, new), MoneyOK(r, s)
  PROVE  MoneyOK(q, s)
<1> DEFINE A == r.balance_applied
<1> DEFINE C == CommittedIn(new)
<1>1. r.log \in Seq(WALEntry) /\ A \in SUBSET Tid
  BY DEF State, ServerState
<1>2. C \in SUBSET Tid
  <2>1. \A i \in DOMAIN new : new[i] \in WALEntry
    OBVIOUS
  <2> QED
    BY <2>1 DEF CommittedIn, WALEntry
<1>3. CommittedIn(q.log) \subseteq q.balance_applied
  <2>1. CommittedIn(q.log) = CommittedIn(r.log) \cup C
    BY <1>1, CommittedConcat DEF Inserted
  <2> QED
    BY <2>1 DEF Inserted, MoneyOK
<1>4. ASSUME NEW k \in Account, IsClientInCluster(s, k)
      PROVE  q.balances[k] = InitialBalance + Credits(q.balance_applied, k)
                                            - Debits(q.balance_applied, k)
  <2>1. q.balances[k] = r.balances[k] + Credits(C \ A, k) - Debits(C \ A, k)
    BY <1>4 DEF Inserted, Apply
  <2>2. r.balances[k] = InitialBalance + Credits(A, k) - Debits(A, k)
    BY <1>4 DEF MoneyOK
  <2>3. q.balance_applied = A \cup (C \ A)
    BY DEF Inserted
  <2> DEFINE B == C \ A
  <2>4. B \in SUBSET Tid /\ A \cap B = {}
    BY <1>2
  <2> HIDE DEF A, B
  <2>5. /\ Debits(A, k) \in Nat /\ Credits(A, k) \in Nat
        /\ Debits(B, k) \in Nat /\ Credits(B, k) \in Nat
    BY <1>1, <2>4, DebitsCreditsType
  <2>6. /\ Debits(A \cup B, k) = Debits(A, k) + Debits(B, k)
        /\ Credits(A \cup B, k) = Credits(A, k) + Credits(B, k)
    BY <1>1, <2>4, MoneyAdds, ZenonT(40)
  <2>7. InitialBalance \in Int
    BY TypesAssumption
  <2>8. q.balances[k] = r.balances[k] + Credits(B, k) - Debits(B, k)
    BY <2>1 DEF B
  <2>9. q.balance_applied = A \cup B
    BY <2>3 DEF B
  <2> QED
    BY <2>2, <2>5, <2>6, <2>7, <2>8, <2>9
<1>5. \A k \in Account : ~IsClientInCluster(s, k) => q.balances[k] = 0
  BY DEF Inserted, Apply, MoneyOK
<1> QED
  BY <1>3, <1>4, <1>5 DEF MoneyOK

MoneyInv == StoreInv /\ \A s \in Server : MoneyOK(srv[s], s)

LEMMA MoneyInit ==
  ASSUME Init
  PROVE  MoneyInv
<1>1. ASSUME NEW s \in Server PROVE MoneyOK(srv[s], s)
  <2>1. /\ srv[s].log = <<>> /\ srv[s].balance_applied = {}
        /\ srv[s].balances = [k \in Account |->
                                IF IsClientInCluster(s, k) THEN InitialBalance ELSE 0]
    BY <1>1 DEF Init, InitState
  <2>2. CommittedIn(srv[s].log) = {}
    BY <2>1, EmptyBatch DEF CommittedIn
  <2>3. \A k : InitialBalance = InitialBalance + Credits({}, k) - Debits({}, k)
    BY NoneMoves, TypesAssumption
  <2> QED
    BY <2>1, <2>2, <2>3 DEF MoneyOK
<1> QED
  BY <1>1, StoreInit DEF MoneyInv

LEMMA MoneyNext ==
  ASSUME Budget["restart"] = 0, MoneyInv, [Next]_vars
  PROVE  MoneyInv'
<1>0. StoreInv /\ StoreInv'
  BY StoreNext DEF MoneyInv
<1>1. ASSUME NEW s \in Server PROVE MoneyOK(srv'[s], s)
  <2>1. LogStep(s, srv'[s], srv[s], Decided) /\ srv[s] \in State
    BY <1>0, StoreStep
  <2>2. IndexCross(srv[s])
    BY <1>0, <2>1, LogOKIndexCross DEF StoreInv, StoreOK
  <2>3. ~Recovered(srv'[s], srv[s])
    BY DEF Recovered
  <2>4. PICK new \in Seq(WALEntry) : Inserted(srv'[s], srv[s], s, new)
    BY <2>1, <2>2, <2>3, LogStepInserts
  <2>5. MoneyOK(srv[s], s)
    BY DEF MoneyInv
  <2> QED
    BY <2>1, <2>4, <2>5, InsertedMoney
<1> QED
  BY <1>0, <1>1 DEF MoneyInv

-----------------------------------------------------------------------------
(***************************************************************************)
(* The results.                                                            *)
(***************************************************************************)

(* In every instance, a client's call is parked exactly while its          *)
(* transaction is in pending_ or current_, once: whatever mixture of       *)
(* rounds, retries, refusals, disconnections and restarts, no call is      *)
(* forgotten and none is completed twice.                                  *)
THEOREM ParkedCallsHold == Spec => []ParkedCalls
<1>1. StoreInv => ParkedCalls
  <2> SUFFICES ASSUME StoreInv, NEW s \in Server
               PROVE  LET r == srv[s]
                          q == r.current \o r.pending
                      IN  /\ \A t \in Tid : r.incall[t] = "parked" <=> t \in Range(q)
                          /\ \A i, j \in DOMAIN q : q[i] = q[j] => i = j
                          /\ r.is_paxos_running <=> r.current # <<>>
    BY DEF ParkedCalls
  <2>1. srv[s] \in State /\ Queued(srv[s])
    BY TypeOKState DEF StoreInv, StoreOK
  <2>2. srv[s].is_paxos_running <=> srv[s].current # <<>>
    BY <2>1 DEF Queued
  <2> QED
    BY <2>1, <2>2, QueuedParked
<1> QED
  BY <1>1, StoreCorrect, PTL

(* In every instance, completeTransfer never meets a call that it or an    *)
(* earlier process has already completed, nor one twice in its batch, in   *)
(* any handler: no answer is changed, and none is sent again.              *)
THEOREM AnsweredOnceHolds == Spec => AnsweredOnce
<1>1. StoreInv /\ [Next]_vars =>
        [\A s \in Server, t \in Tid :
           /\ srv[s].incall[t] \in {"ack", "nack", "lost"} => srv'[s].incall[t] = srv[s].incall[t]
           /\ srv'[s].incall[t] # "freed"]_vars
  BY StoreStep DEF Stands, StoreOK, Queued
<1> QED
  BY <1>1, StoreCorrect, PTL DEF Spec, AnsweredOnce

(* In every instance, paxos_index counts the Paxos entries of the log      *)
(* whichever handlers appended them, and last_inserted lies between it and *)
(* the end of the log.                                                     *)
THEOREM PaxosIndexCountsHolds == Spec => []PaxosIndexCounts
<1>1. StoreInv => PaxosIndexCounts
  BY DEF StoreInv, StoreOK, LogOK, PaxosIndexCounts
<1> QED
  BY <1>1, StoreCorrect, PTL

(* In every instance, WAL::recover run between any two handlers rebuilds   *)
(* exactly the transferIndex that is in memory.                            *)
THEOREM RecoveryRestoresIndexHolds == Spec => []RecoveryRestoresIndex
<1>1. StoreInv => RecoveryRestoresIndex
  BY DEF StoreInv, StoreOK, LogOK, RecoveryRestoresIndex
<1> QED
  BY <1>1, StoreCorrect, PTL

(* In every instance, a transaction that a client was told is committed or *)
(* prepared is in the log of the server that said so, and stays there.     *)
THEOREM DurableVotesHolds == Spec => []DurableVotes
<1>1. StoreInv => DurableVotes
  BY DEF StoreInv, StoreOK, AckOK, DurableVotes
<1> QED
  BY <1>1, StoreCorrect, PTL

(* In every instance, a cross-shard transaction is logged as committed, or *)
(* applied, only after the coordinator decided so, also on a server that   *)
(* got the entry from a peer's Sync reply.                                 *)
THEOREM CommitOnlyIfDecidedHolds == Spec => []CommitOnlyIfDecided
<1>1. StoreInv => CommitOnlyIfDecided
  <2> SUFFICES ASSUME StoreInv, NEW s \in Server, NEW t \in Tid, IsCrossShard(t),
                      t \in CommittedIn(srv[s].log) \cup srv[s].balance_applied
               PROVE  tpc[t] = "commit"
    BY DEF CommitOnlyIfDecided
  <2>1. LogOK(srv[s], Decided)
    BY DEF StoreInv, StoreOK
  <2>2. t \in CommittedIn(srv[s].log)
    BY <2>1 DEF LogOK
  <2>3. PICK i \in DOMAIN srv[s].log : srv[s].log[i].tid = t /\ srv[s].log[i].status = "COMMITTED"
    BY <2>2 DEF CommittedIn
  <2>4. EntryOK(srv[s].log[i], Decided)
    BY <2>1, <2>3 DEF LogOK, EntriesOK
  <2> QED
    BY <2>3, <2>4 DEF EntryOK, Decided
<1> QED
  BY <1>1, StoreCorrect, PTL

(* In every instance without restarts, every account of a shard holds its  *)
(* initial balance and each transaction committed in the log once, however *)
(* often the entry reached the server by Commit, decision and Sync.  With  *)
(* a restart it does not: balance_applied is not saved (AppliedAtMostOnce  *)
(* is violated).                                                           *)
THEOREM BalancesMatchLogHolds ==
  ASSUME Budget["restart"] = 0
  PROVE  Spec => []BalancesMatchLog
<1>1. Init => MoneyInv
  BY MoneyInit
<1>2. MoneyInv /\ [Next]_vars => MoneyInv'
  BY MoneyNext
<1>3. MoneyInv => BalancesMatchLog
  <2> SUFFICES ASSUME MoneyInv, NEW s \in Server, NEW k \in Account, IsClientInCluster(s, k)
               PROVE  LET done == CommittedIn(srv[s].log) IN
                      srv[s].balances[k] = InitialBalance + Credits(done, k) - Debits(done, k)
    BY DEF BalancesMatchLog
  <2>1. MoneyOK(srv[s], s) /\ LogOK(srv[s], Decided)
    BY DEF MoneyInv, StoreInv, StoreOK
  <2>2. CommittedIn(srv[s].log) = srv[s].balance_applied
    BY <2>1 DEF MoneyOK, LogOK
  <2> QED
    BY <2>1, <2>2 DEF MoneyOK
<1> QED
  BY <1>1, <1>2, <1>3, PTL DEF Spec

-----------------------------------------------------------------------------
(***************************************************************************)
(* The servers as the voters of two-phase commit.                          *)
(***************************************************************************)

(* One server of a cluster, at most, speaks to the client about t. *)
OneVoice ==
  \A t \in Tid, p \in Server, q \in Server :
    p # q /\ ServerCluster[p] = ServerCluster[q] =>
      srv[p].incall[t] = "none" \/ srv[q].incall[t] = "none"

VotingInv == StoreInv /\ OneVoice

(* A step of the queue opens a call only for a transaction the cluster has *)
(* not heard of.                                                           *)
LEMMA OpensFresh ==
  ASSUME NEW s, NEW q \in State, NEW r \in State, Queued(r), QueueStep(s, q, r),
         NEW t \in Tid, r.incall[t] = "none", q.incall[t] # "none"
  PROVE  t \in Fresh(s)
<1>0. ~(t \in Range(r.current)) /\ ~(t \in Range(r.pending))
  BY DEF Queued
<1>1. CASE Reissued(q, r) \/ Forgotten(q, r)
  BY <1>1 DEF Reissued, Forgotten
<1>2. CASE \E u \in Fresh(s) : Refused(q, r, u)
  BY <1>2 DEF Refused, Answered
<1>3. CASE Turns(s, q, r)
  <2>1. PICK m \in State : Settled(q, m) /\ Turned(s, m, r)
    BY <1>3 DEF Turns
  <2>2. m.incall[t] # "none"
    BY <2>1 DEF Settled, Started, SameQueue
  <2>3. CASE SameQueue(m, r)
    BY <2>2, <2>3 DEF SameQueue
  <2>4. CASE \E u \in Fresh(s) : Enqueued(m, r, u)
    BY <2>2, <2>4 DEF Enqueued, Answered
  <2>5. CASE \E a \in {"ack", "nack"} : Finished(m, r, a)
    BY <1>0, <2>2, <2>5 DEF Finished, Answered
  <2> QED
    BY <2>1, <2>3, <2>4, <2>5 DEF Turned
<1>4. CASE \E K \in SUBSET DOMAIN r.current : Filtered(q, r, K)
  <2>1. PICK K \in SUBSET DOMAIN r.current : Filtered(q, r, K)
    BY <1>4
  <2>2. t \in {r.current[i] : i \in DOMAIN r.current \ K}
    BY <2>1 DEF Filtered, Answered
  <2> QED
    BY <1>0, <2>2 DEF Range
<1> QED
  BY <1>1, <1>2, <1>3, <1>4 DEF QueueStep

(* No step changes the clients' calls of two servers. *)
Alone ==
  \A p, q \in Server : p # q =>
    srv'[p].incall = srv[p].incall \/ srv'[q].incall = srv[q].incall

LEMMA StepAlone ==
  ASSUME TypeOK, NEW s \in Server, NEW r, Step(s, r)
  PROVE  Alone
<1>1. srv \in [Server -> State]
  BY TypeOKState
<1>2. \A p \in Server : p # s => srv'[p] = srv[p]
  BY <1>1 DEF Step
<1> QED
  BY <1>2 DEF Alone

(* The peer may, its caller does not. *)
LEMMA PeerAlone ==
  ASSUME TypeOK, NEW s \in Server, NEW c, NEW rp, NEW calls,
         LET peer == [srv EXCEPT ![c.to] = rp]
         IN  srv' = [peer EXCEPT ![s].outcalls = calls]
  PROVE  Alone
<1> DEFINE peer == [srv EXCEPT ![c.to] = rp]
<1>1. srv \in [Server -> State]
  BY TypeOKState
<1>2. /\ \A p \in Server : p # c.to => peer[p] = srv[p]
      /\ DOMAIN peer = Server
  BY <1>1
<1>3. srv' = [peer EXCEPT ![s] = [peer[s] EXCEPT !.outcalls = calls]]
  OBVIOUS
<1> HIDE DEF peer
<1>4. ASSUME NEW p \in Server, p # c.to PROVE srv'[p].incall = srv[p].incall
  <2>1. CASE p # s
    BY <1>2, <1>3, <1>4, <2>1
  <2>2. CASE p = s
    <3>1. srv'[p] = [srv[p] EXCEPT !.outcalls = calls]
      BY <1>2, <1>3, <1>4, <2>2
    <3>2. srv[p] \in ServerState
      BY <1>1 DEF State
    <3> QED
      BY <3>1, <3>2 DEF ServerState
  <2> QED
    BY <2>1, <2>2
<1> QED
  BY <1>4 DEF Alone

LEMMA NextAlone ==
  ASSUME TypeOK, [Next]_vars
  PROVE  Alone
<1>0. ASSUME srv' = srv PROVE Alone
  BY <1>0 DEF Alone
<1>1. ASSUME NEW s \in Server, NEW t \in Tid, EnqueueClientTxn(s, t) PROVE Alone
  <2>1. \E r : Step(s, r)
    BY <1>1 DEF EnqueueClientTxn
  <2> QED
    BY <2>1, StepAlone
<1>2. ASSUME NEW s \in Server, NEW t \in Tid, ProcessTpcDecision(s, t) PROVE Alone
  <2>1. srv' = srv \/ \E r : Step(s, r)
    BY <1>2 DEF ProcessTpcDecision
  <2> QED
    BY <1>0, <2>1, StepAlone
<1>3. ASSUME NEW s \in Server, NEW t \in Tid, LockTimeout(s, t) PROVE Alone
  <2>1. \E r : Step(s, r)
    BY <1>3 DEF LockTimeout
  <2> QED
    BY <2>1, StepAlone
<1>4. ASSUME NEW t, NEW d, ClientDecide(t, d) PROVE Alone
  BY <1>0, <1>4 DEF ClientDecide
<1>5. ASSUME NEW s \in Server, NEW c, ProcessCall(s, c) PROVE Alone
  <2>1. ASSUME NEW rp, NEW reply, Answer(s, c, rp, reply) PROVE Alone
    <3> DEFINE peer == [srv EXCEPT ![c.to] = rp]
    <3> DEFINE new == IF c.open THEN {[c EXCEPT !.handled = TRUE, !.reply = reply]} ELSE {}
    <3>1. srv' = [peer EXCEPT ![s].outcalls = (peer[s].outcalls \ {c}) \cup new]
      BY <2>1 DEF Answer
    <3> QED
      BY <3>1, PeerAlone
  <2>2. CASE ProcessCommitCall(s, c)
    <3>1. \E rp : LET peer == [srv EXCEPT ![c.to] = rp]
                  IN  srv' = [peer EXCEPT ![s].outcalls = peer[s].outcalls \ {c}]
      BY <2>2 DEF ProcessCommitCall
    <3> QED
      BY <3>1, PeerAlone
  <2>3. CASE ProcessPrepareCall(s, c) \/ ProcessAcceptCall(s, c) \/ ProcessSyncCall(s, c)
    <3>1. \E rp, reply : Answer(s, c, rp, reply)
      BY <2>3 DEF ProcessPrepareCall, ProcessAcceptCall, ProcessSyncCall
    <3> QED
      BY <2>1, <3>1
  <2> QED
    BY <1>5, <2>2, <2>3 DEF ProcessCall
<1>6. ASSUME NEW s \in Server, NEW c, NEW status, HandleRPCResponse(s, c, status) PROVE Alone
  <2>1. \E r : Step(s, r)
    BY <1>6 DEF HandleRPCResponse, HandlePrepareReply, HandleAcceptReply, HandleSyncReply
  <2> QED
    BY <2>1, StepAlone
<1>7. ASSUME NEW s \in Server, NEW b, ProcessDisconnectCall(s, b) PROVE Alone
  <2>1. \E r : Step(s, r)
    BY <1>7 DEF ProcessDisconnectCall
  <2> QED
    BY <2>1, StepAlone
<1>8. ASSUME NEW s \in Server, Restart(s) PROVE Alone
  <2>1. \E r : Step(s, r)
    BY <1>8 DEF Restart
  <2> QED
    BY <2>1, StepAlone
<1> QED
  BY <1>0, <1>1, <1>2, <1>3, <1>4, <1>5, <1>6, <1>7, <1>8 DEF Next, vars

(* A cluster keeps one voice. *)
LEMMA VotingNext ==
  ASSUME VotingInv, [Next]_vars
  PROVE  VotingInv'
<1>1. StoreInv /\ StoreInv' /\ TypeOK /\ OneVoice
  BY StoreNext DEF VotingInv, StoreInv
<1>2. ASSUME NEW p \in Server, NEW t \in Tid, srv[p].incall[t] = "none",
             srv'[p].incall[t] # "none"
      PROVE  t \in Fresh(p)
  <2>1. Moves(p, srv'[p], srv[p], Decided) /\ StoreOK(srv[p], Decided)
    BY <1>1, StoreReady, NextMoves DEF AllMove, StoreInv
  <2>2. srv[p] \in State /\ srv'[p] \in State
    BY <1>1, StoreStep
  <2> QED
    BY <1>2, <2>1, <2>2, OpensFresh DEF Moves, StoreOK
<1>3. Alone
  BY <1>1, NextAlone
<1>4. ASSUME NEW t \in Tid, NEW p \in Server, NEW q \in Server,
             p # q, ServerCluster[p] = ServerCluster[q]
      PROVE  srv'[p].incall[t] = "none" \/ srv'[q].incall[t] = "none"
  <2>1. q \in Stubs(p) /\ p \in Stubs(q)
    BY <1>4 DEF Stubs
  <2>2. srv[p].incall[t] = "none" \/ srv[q].incall[t] = "none"
    BY <1>1, <1>4 DEF OneVoice
  <2>3. t \in Fresh(p) \/ t \in Fresh(q) => srv[p].incall[t] = "none" /\ srv[q].incall[t] = "none"
    BY <2>1 DEF Fresh
  <2> QED
    BY <1>2, <1>3, <1>4, <2>2, <2>3 DEF Alone
<1> QED
  BY <1>1, <1>4 DEF VotingInv, OneVoice

(* The decision of the coordinator changes no vote. *)
LEMMA DecisionKeepsCalls ==
  ASSUME TypeOK, NEW s \in Server, NEW t \in Tid, ProcessTpcDecision(s, t)
  PROVE  \A p \in Server : srv'[p].incall = srv[p].incall
<1> DEFINE r  == srv[s]
<1> DEFINE r1 == [r EXCEPT !.prepareTimestamps = @ \ {t}]
<1> DEFINE ra == CloseTransaction(r1, s, t, "ABORTED")
<1> DEFINE rc == CloseTransaction(r1, s, t, "COMMITTED")
<1> DEFINE money == Apply(r, s, {t} \ r.balance_applied)
<1> DEFINE r3 == [rc EXCEPT !.balances = money, !.balance_applied = @ \cup {t}]
<1>1. srv \in [Server -> State] /\ r \in State
  BY TypeOKState
<1>2. srv' = srv \/ Step(s, r1) \/ Step(s, r3) \/ Step(s, ra)
  BY DEF ProcessTpcDecision
<1> HIDE DEF r
<1>3. r1 \in State /\ r1.incall = r.incall
  BY <1>1, UntimedSame DEF Same, SameQueue
<1> HIDE DEF r1
<1>4. rc.incall = r.incall /\ ra.incall = r.incall
  BY <1>3, LogKeepsQueue DEF SameQueue
<1>5. DOMAIN rc = DOMAIN r1
  BY DEF CloseTransaction
<1> HIDE DEF rc, ra, money
<1>6. r3.incall = r.incall
  BY <1>3, <1>4, <1>5 DEF State, ServerState
<1> HIDE DEF r3
<1>7. ASSUME NEW q, Step(s, q), q.incall = r.incall
      PROVE  \A p \in Server : srv'[p].incall = srv[p].incall
  BY <1>1, <1>7 DEF Step, r
<1> QED
  BY <1>2, <1>3, <1>4, <1>6, <1>7

(* The other actions send no decision. *)
LEMMA OnlyVotes ==
  ASSUME [Next]_vars,
         \A t \in Tid, d \in {"commit", "abort"} : ~ClientDecide(t, d),
         \A s \in Server, t \in Tid : ~ProcessTpcDecision(s, t)
  PROVE  UNCHANGED <<tpc, decisions>>
<1>1. \A s, t : EnqueueClientTxn(s, t) \/ LockTimeout(s, t) => UNCHANGED <<tpc, decisions>>
  BY DEF EnqueueClientTxn, LockTimeout
<1>2. \A s, c, status : ProcessCall(s, c) \/ HandleRPCResponse(s, c, status)
                          => UNCHANGED <<tpc, decisions>>
  BY DEF ProcessCall, HandleRPCResponse
<1>3. \A s, b : ProcessDisconnectCall(s, b) \/ Restart(s) => UNCHANGED <<tpc, decisions>>
  BY DEF ProcessDisconnectCall, Restart
<1> QED
  BY <1>1, <1>2, <1>3 DEF Next, vars

(* The clusters' votes are votes. *)
ClusterVotesFacts ==
  /\ ClusterVotes \in [Tid -> [Abstract!Cluster -> Abstract!Vote]]
  /\ \A t \in Tid, k \in Abstract!Cluster :
       /\ ClusterVotes[t][k] \in {"ack", "nack", "none"}
       /\ ClusterVotes[t][k] = "ack" <=> Voted(t, k, "ack")
       /\ ClusterVotes[t][k] = "nack" <=> Voted(t, k, "nack") /\ ~Voted(t, k, "ack")

LEMMA ClusterVotesAre == ClusterVotesFacts
  BY DEF ClusterVotes, ClusterVotesFacts, Abstract!Cluster, Abstract!Vote

(* The clusters that take part in a transaction hold accounts. *)
LEMMA ParticipantsAre ==
  ASSUME NEW t \in Tid
  PROVE  Participants(t) \subseteq Abstract!Cluster
  BY TypesAssumption DEF Participants, Abstract!Cluster

(* A cluster does not answer twice, nor take an answer back. *)
LEMMA VotesStand ==
  ASSUME VotingInv, [Next]_vars, ClusterVotesFacts, ClusterVotesFacts',
         NEW t \in Tid, NEW k \in Abstract!Cluster, ClusterVotes[t][k] # "none"
  PROVE  ClusterVotes'[t][k] = ClusterVotes[t][k]
<1>1. \A s \in Server : Stands(srv'[s], srv[s])
  BY StoreStep DEF VotingInv
<1>2. VotingInv'
  BY VotingNext
<1>3. CASE ClusterVotes[t][k] = "ack"
  <2>1. PICK s \in Server : ServerCluster[s] = k /\ srv[s].incall[t] = "ack"
    BY <1>3 DEF ClusterVotesFacts, Voted
  <2>2. srv'[s].incall[t] = "ack"
    BY <1>1, <2>1 DEF Stands
  <2>3. Voted(t, k, "ack")'
    BY <2>1, <2>2 DEF Voted
  <2> QED
    BY <1>3, <2>3 DEF ClusterVotesFacts
<1>4. CASE ClusterVotes[t][k] = "nack"
  <2>1. PICK s \in Server : ServerCluster[s] = k /\ srv[s].incall[t] = "nack"
    BY <1>4 DEF ClusterVotesFacts, Voted
  <2>2. srv'[s].incall[t] = "nack"
    BY <1>1, <2>1 DEF Stands
  <2>3. Voted(t, k, "nack")'
    BY <2>1, <2>2 DEF Voted
  <2>4. \A p \in Server : ServerCluster[p] = k /\ p # s => srv'[p].incall[t] = "none"
    BY <1>2, <2>1, <2>2 DEF VotingInv, OneVoice
  <2>5. ~Voted(t, k, "ack")'
    BY <2>1, <2>2, <2>4 DEF Voted
  <2> QED
    BY <1>4, <2>3, <2>5 DEF ClusterVotesFacts
<1> QED
  BY <1>3, <1>4 DEF ClusterVotesFacts

(* ClientDecide is the decision of the coordinator. *)
LEMMA DecideImplements ==
  ASSUME VotingInv, ClusterVotesFacts,
         \A t \in Tid : Participants(t) \subseteq Modelled,
         NEW t \in Tid, NEW d \in {"commit", "abort"}, ClientDecide(t, d)
  PROVE  Abstract!Decide(t, d)
<1>1. Participants(t) \cap Modelled = Participants(t)
  OBVIOUS
<1>2. \A k \in Participants(t) : k \in Abstract!Cluster
  BY ParticipantsAre
<1>3. \A k \in Participants(t) : ClusterVotes[t][k] # "none"
  BY <1>1, <1>2 DEF ClientDecide, ClusterVotesFacts
<1>4. d = IF \A k \in Participants(t) : ClusterVotes[t][k] = "ack" THEN "commit" ELSE "abort"
  <2>1. CASE d = "commit"
    BY <1>1, <1>2, <2>1 DEF ClientDecide, ClusterVotesFacts
  <2>2. CASE d = "abort"
    <3>1. PICK k \in Participants(t) : Voted(t, k, "nack")
      BY <1>1, <2>2 DEF ClientDecide
    <3>2. PICK s \in Server : ServerCluster[s] = k /\ srv[s].incall[t] = "nack"
      BY <3>1 DEF Voted
    <3>3. \A p \in Server : ServerCluster[p] = k /\ p # s => srv[p].incall[t] = "none"
      BY <3>2 DEF VotingInv, OneVoice
    <3>4. ~Voted(t, k, "ack")
      BY <3>2, <3>3 DEF Voted
    <3> QED
      BY <1>2, <2>2, <3>1, <3>4 DEF ClusterVotesFacts
  <2> QED
    BY <2>1, <2>2
<1>5. /\ IsCrossShard(t) /\ tpc[t] = "none" /\ tpc' = [tpc EXCEPT ![t] = d]
      /\ decisions' = decisions \cup
           {<<s, t>> : s \in {q \in Server : ServerCluster[q] \in Participants(t)}}
      /\ srv' = srv
  BY DEF ClientDecide
<1>6. ClusterVotes' = ClusterVotes
  BY <1>5 DEF ClusterVotes, Voted
<1>7. Abstract!Participants(t) = Participants(t) /\ Abstract!IsCrossShard(t) = IsCrossShard(t)
  BY DEF Abstract!Participants, Participants, Abstract!IsCrossShard, IsCrossShard
<1>8. Abstract!Informed(t) = {q \in Server : ServerCluster[q] \in Participants(t)}
  BY <1>7 DEF Abstract!Informed
<1>9. Abstract!Informed(t) \X {t} = {<<s, t>> : s \in Abstract!Informed(t)}
  OBVIOUS
<1> QED
  BY <1>3, <1>4, <1>5, <1>6, <1>7, <1>8, <1>9 DEF Abstract!Decide

(* Every step of the servers and of ClientDecide is a step of the          *)
(* coordinator.                                                            *)
LEMMA VotingStep ==
  ASSUME VotingInv, [Next]_vars, ClusterVotesFacts, ClusterVotesFacts',
         \A t \in Tid : Participants(t) \subseteq Modelled
  PROVE  [Abstract!CoordinatorNext]_(Abstract!cvars)
<1>1. CASE \E t \in Tid, d \in {"commit", "abort"} : ClientDecide(t, d)
  BY <1>1, DecideImplements DEF Abstract!CoordinatorNext
<1>2. CASE \E s \in Server, t \in Tid : ProcessTpcDecision(s, t)
  <2>1. PICK s \in Server, t \in Tid : ProcessTpcDecision(s, t)
    BY <1>2
  <2>2. <<s, t>> \in decisions /\ decisions' = decisions \ {<<s, t>>} /\ tpc' = tpc
    BY <2>1 DEF ProcessTpcDecision
  <2>3. \A p \in Server : srv'[p].incall = srv[p].incall
    BY <2>1, DecisionKeepsCalls DEF VotingInv, StoreInv
  <2>4. \A u, k, a : Voted(u, k, a)' <=> Voted(u, k, a)
    BY <2>3 DEF Voted
  <2>5. ClusterVotes' = ClusterVotes
    BY <2>4 DEF ClusterVotes
  <2>6. Abstract!Deliver(s, t)
    BY <2>2, <2>5 DEF Abstract!Deliver
  <2> QED
    BY <2>6 DEF Abstract!CoordinatorNext
<1>3. CASE /\ \A t \in Tid, d \in {"commit", "abort"} : ~ClientDecide(t, d)
           /\ \A s \in Server, t \in Tid : ~ProcessTpcDecision(s, t)
  <2>1. UNCHANGED <<tpc, decisions>>
    BY <1>3, OnlyVotes
  <2>2. ClusterVotes' \in [Tid -> [Abstract!Cluster -> Abstract!Vote]]
    BY DEF ClusterVotesFacts
  <2>3. Abstract!CastVotes
    BY <2>1, <2>2, VotesStand DEF Abstract!CastVotes
  <2> QED
    BY <2>3 DEF Abstract!CoordinatorNext
<1> QED
  BY <1>1, <1>2, <1>3

(* In every instance whose clusters all have servers, the servers and      *)
(* ClientDecide implement the coordinator of Coordinator.tla: a cluster    *)
(* votes once for all its servers and through any faults, the decision is  *)
(* taken once, on all votes, and goes to exactly the servers of the        *)
(* clusters that take part.                                                *)
THEOREM ServersFollowCoordinatorHolds ==
  ASSUME \A t \in Tid : Participants(t) \subseteq Modelled
  PROVE  Spec => ServersFollowCoordinator
<1>1. Init => VotingInv
  <2>1. Init => OneVoice
    BY DEF Init, InitState, OneVoice
  <2> QED
    BY <2>1, StoreInit DEF VotingInv
<1>2. VotingInv /\ [Next]_vars => VotingInv'
  BY VotingNext
<1>3. []ClusterVotesFacts
  BY ClusterVotesAre, PTL
<1>4. Init => Abstract!CoordinatorInit
  <2> SUFFICES ASSUME Init PROVE Abstract!CoordinatorInit
    OBVIOUS
  <2>1. \A t \in Tid : \A k : ~Voted(t, k, "ack") /\ ~Voted(t, k, "nack")
    BY DEF Init, InitState, Voted
  <2>2. ClusterVotes = [t \in Tid |-> [k \in Abstract!Cluster |-> "none"]]
    BY <2>1, ClusterVotesAre DEF ClusterVotesFacts, Abstract!Vote
  <2> QED
    BY <2>2 DEF Abstract!CoordinatorInit, Init
<1>5. VotingInv /\ [Next]_vars /\ ClusterVotesFacts /\ ClusterVotesFacts'
        => [Abstract!CoordinatorNext]_(Abstract!cvars)
  BY VotingStep
<1> QED
  BY <1>1, <1>2, <1>3, <1>4, <1>5, PTL DEF Spec, ServersFollowCoordinator,
     Abstract!CoordinatorSpec


-----------------------------------------------------------------------------
(***************************************************************************)
(* The total.  Every account has one leader, the client's votes come from  *)
(* leaders, and a decision to commit finds the transaction prepared in the *)
(* log of each.  Without lock timeouts nothing but a decision closes it    *)
(* there, so once everything is quiet both leaders have committed it.      *)
(***************************************************************************)

(* The clients know one leader for every shard. *)
OneLeader ==
  \A k \in Account : \E s \in Leaders : \A q \in Leaders : IsClientInCluster(q, k) <=> q = s

LeadersSpeak ==
  \A s \in Server, t \in Tid : srv[s].incall[t] # "none" => s \in Leaders

CommitsPrepared ==
  \A t \in Tid, s \in Leaders :
    tpc[t] = "commit" /\ ServerCluster[s] \in Participants(t) => PreparedIn(srv[s].log, t)

ConservedInv == MoneyInv /\ LeadersSpeak /\ CommitsPrepared

LEMMA ConservedInit ==
  ASSUME Init
  PROVE  ConservedInv
<1>1. MoneyInv
  BY MoneyInit
<1>2. LeadersSpeak
  BY DEF Init, InitState, LeadersSpeak
<1>3. CommitsPrepared
  BY DEF Init, CommitsPrepared
<1> QED
  BY <1>1, <1>2, <1>3 DEF ConservedInv

(* Only the client decides. *)
LEMMA CommitDecided ==
  ASSUME TypeOK, [Next]_vars, NEW t \in Tid, tpc'[t] = "commit", tpc[t] # "commit"
  PROVE  ClientDecide(t, "commit")
<1>1. ASSUME NEW u \in Tid, NEW d \in {"commit", "abort"}, ClientDecide(u, d)
      PROVE  ClientDecide(t, "commit")
  <2>1. tpc' = [tpc EXCEPT ![u] = d]
    BY <1>1 DEF ClientDecide
  <2>2. tpc \in [Tid -> {"none", "commit", "abort"}]
    BY DEF TypeOK
  <2>3. t = u /\ d = "commit"
    BY <2>1, <2>2
  <2> QED
    BY <1>1, <2>3
<1>2. \A s, u : EnqueueClientTxn(s, u) \/ ProcessTpcDecision(s, u) \/ LockTimeout(s, u)
                  => tpc' = tpc
  BY DEF EnqueueClientTxn, ProcessTpcDecision, LockTimeout
<1>3. \A s, c, status : ProcessCall(s, c) \/ HandleRPCResponse(s, c, status) => tpc' = tpc
  BY DEF ProcessCall, HandleRPCResponse
<1>4. \A s, b : ProcessDisconnectCall(s, b) \/ Restart(s) => tpc' = tpc
  BY DEF ProcessDisconnectCall, Restart
<1> QED
  BY <1>1, <1>2, <1>3, <1>4 DEF Next, vars

LEMMA ConservedNext ==
  ASSUME Budget["restart"] = 0, OneLeader, ConservedInv, [Next]_vars
  PROVE  ConservedInv'
<1>1. StoreInv /\ MoneyInv' /\ TypeOK
  BY MoneyNext DEF ConservedInv, MoneyInv, StoreInv
<1>2. LeadersSpeak'
  <2> SUFFICES ASSUME NEW s \in Server, NEW t \in Tid, srv'[s].incall[t] # "none",
                      s \notin Leaders
               PROVE  FALSE
    BY DEF LeadersSpeak
  <2>1. srv[s].incall[t] = "none"
    BY DEF ConservedInv, LeadersSpeak
  <2>2. Moves(s, srv'[s], srv[s], Decided) /\ StoreOK(srv[s], Decided)
    BY <1>1, StoreReady, NextMoves DEF AllMove, StoreInv
  <2>3. srv[s] \in State /\ srv'[s] \in State
    BY <1>1, StoreStep
  <2>4. t \in Fresh(s)
    BY <2>1, <2>2, <2>3, OpensFresh DEF Moves, StoreOK
  <2> QED
    BY <2>4 DEF Fresh
<1>3. CommitsPrepared'
  <2> SUFFICES ASSUME NEW t \in Tid, NEW s \in Leaders, tpc'[t] = "commit",
                      ServerCluster[s] \in Participants(t)
               PROVE  PreparedIn(srv'[s].log, t)
    BY DEF CommitsPrepared
  <2>0. s \in Server
    BY ServerAssumption
  <2>1. PreparedIn(srv[s].log, t)
    <3>1. CASE tpc[t] = "commit"
      BY <3>1 DEF ConservedInv, CommitsPrepared
    <3>2. CASE tpc[t] # "commit"
      <4>1. ClientDecide(t, "commit")
        BY <1>1, <3>2, CommitDecided
      <4>2. IsCrossShard(t) /\ Voted(t, ServerCluster[s], "ack")
        BY <2>0, <4>1 DEF ClientDecide, Modelled
      <4>3. PICK q \in Server : ServerCluster[q] = ServerCluster[s] /\ srv[q].incall[t] = "ack"
        BY <4>2 DEF Voted
      <4>4. q \in Leaders
        BY <4>3 DEF ConservedInv, LeadersSpeak
      <4>5. PICK k \in Account : AccountCluster[k] = ServerCluster[s]
        BY TypesAssumption DEF Participants
      <4>6. q = s
        BY <4>3, <4>4, <4>5 DEF OneLeader, IsClientInCluster
      <4>7. AckOK(srv[s])
        BY <1>1, <2>0 DEF StoreInv, StoreOK
      <4>8. PICK i \in PaxosPositions(srv[s].log) : srv[s].log[i].tid = t
        BY <4>3, <4>6, <4>7 DEF AckOK
      <4>9. i \in DOMAIN srv[s].log /\ srv[s].log[i].status = "PREPARED"
        BY <4>2, <4>8 DEF PaxosPositions, IsPaxosEntry
      <4> QED
        BY <4>8, <4>9 DEF PreparedIn
    <3> QED
      BY <3>1, <3>2
  <2>2. Extends(srv'[s].log, srv[s].log)
    BY <1>1, <2>0, StoreStep
  <2> QED
    BY <2>1, <2>2 DEF PreparedIn, Extends
<1> QED
  BY <1>1, <1>2, <1>3 DEF ConservedInv

(* When nothing is under way, the leaders of the clusters of t have        *)
(* committed it exactly when the coordinator decided so.                   *)
LEMMA QuietCommitted ==
  ASSUME Budget["lock_timeout"] = 0, ConservedInv, Quiet, NEW t \in Tid, IsCrossShard(t),
         NEW s \in Leaders, ServerCluster[s] \in Participants(t)
  PROVE  t \in CommittedIn(srv[s].log) <=> tpc[t] = "commit"
<1>0. s \in Server
  BY ServerAssumption
<1>1. LogOK(srv[s], Decided) /\ srv[s].transferIndex[t] = 0
  BY <1>0 DEF ConservedInv, MoneyInv, StoreInv, StoreOK, Quiet
<1>2. srv[s].log \in Seq(WALEntry)
  BY <1>0 DEF ConservedInv, MoneyInv, StoreInv, TypeOK, ServerState
<1> DEFINE log == srv[s].log
<1> DEFINE at == At(log, t)
<1>3. ASSUME t \in CommittedIn(log) PROVE tpc[t] = "commit"
  <2>1. PICK i \in DOMAIN log : log[i].tid = t /\ log[i].status = "COMMITTED"
    BY <1>3 DEF CommittedIn
  <2>2. EntryOK(log[i], Decided)
    BY <1>1, <2>1 DEF LogOK, EntriesOK
  <2> QED
    BY <2>1, <2>2 DEF EntryOK, Decided
<1>4. ASSUME tpc[t] = "commit" PROVE t \in CommittedIn(log)
  <2>1. PreparedIn(log, t)
    BY <1>4 DEF ConservedInv, CommitsPrepared
  <2>2. at # {} /\ at \in SUBSET DOMAIN log
    BY <2>1 DEF PreparedIn, At
  <2>3. \A i \in at : log[i].tid = t
    BY DEF At
  <2>4. RecoveredIndex(log)[t] = IF at # {} /\ log[Max(at)].status = "PREPARED" THEN Max(at) ELSE 0
    BY DEF RecoveredIndex, At
  <2>5. RecoveredIndex(log)[t] = 0
    BY <1>1 DEF LogOK
  <2> HIDE DEF at, log
  <2>6. Max(at) \in at
    BY <1>2, <2>2, LastPosition DEF log
  <2> DEFINE m == Max(at)
  <2> HIDE DEF m
  <2>7. m \in DOMAIN log /\ m # 0 /\ log[m].tid = t /\ log[m] \in WALEntry
    BY <1>2, <2>2, <2>3, <2>6 DEF m, log
  <2>8. log[m].status # "PREPARED"
    BY <2>2, <2>4, <2>5, <2>7 DEF m
  <2>9. EntryOK(log[m], Decided)
    BY <1>1, <2>7 DEF LogOK, EntriesOK, log
  <2>10. log[m].status # "ABORTED"
    BY <1>4, <2>7, <2>9 DEF EntryOK, MayAbort, Decided
  <2>11. log[m].status = "COMMITTED"
    BY <2>7, <2>8, <2>10 DEF WALEntry, Status
  <2> QED
    BY <2>7, <2>11 DEF CommittedIn
<1> QED
  BY <1>3, <1>4


(* LeaderTotal, given the sum of each leader's balances. *)
LEMMA LeaderTotalIs ==
  ASSUME NEW f \in [Leaders -> Int], \A s \in Leaders : f[s] = SumOf(srv[s].balances, Account),
         NEW e, SumsUp(e, f, Leaders)
  PROVE  LeaderTotal = e[Leaders]
<1> DEFINE Sums(g) ==
      g = [T \in SUBSET Leaders |->
             IF T = {} THEN 0
             ELSE SumOf(srv[SomeOf(T)].balances, Account) + g[T \ {SomeOf(T)}]]
<1> DEFINE h == CHOOSE g : Sums(g)
<1>0. IsFiniteSet(Leaders)
  BY ServerAssumption, TypesAssumption, FS_Subset
<1>1. LeaderTotal = h[Leaders]
  BY DEF LeaderTotal, SumOf, MapThenSumSet, MapThenFoldSet, SomeOf
<1>2. ASSUME NEW g PROVE Sums(g) <=> Results(f, Leaders, g)
  <2>1. \A T \in SUBSET Leaders : T # {} => f[SomeOf(T)] = SumOf(srv[SomeOf(T)].balances, Account)
    BY DEF SomeOf
  <2>2. [T \in SUBSET Leaders |->
           IF T = {} THEN 0
           ELSE SumOf(srv[SomeOf(T)].balances, Account) + g[T \ {SomeOf(T)}]]
          = [T \in SUBSET Leaders |->
               IF T = {} THEN 0 ELSE f[SomeOf(T)] + g[T \ {SomeOf(T)}]]
    BY <2>1
  <2> QED
    BY <2>2 DEF Results
<1>a. Results(f, Leaders, e)
  BY SumResults
<1> HIDE DEF Sums
<1>3. Sums(e)
  BY <1>2, <1>a
<1>4. Sums(h)
  BY <1>3
<1> HIDE DEF h
<1> QED
  BY <1>0, <1>1, <1>2, <1>4, FoldIsSum

(* The units of some of the transactions. *)
LEMMA UnitsOf ==
  ASSUME NEW ts \in SUBSET Tid
  PROVE  /\ Units(ts) = {u \in Units(Tid) : u[1] \in ts}
         /\ \A u \in Units(Tid) : u[1] \in Tid
  BY DEF Units

(* What a leader's shard has to show for: its accounts, and the units of   *)
(* committed transactions whose receiver or sender it stores.              *)
Shard(s) == {k \in Account : IsClientInCluster(s, k)}
Receiver(u) == Txn[u[1]].receiver
Sender(u) == Txn[u[1]].sender
Received(s, done) == {u \in Units(done) : Receiver(u) \in Shard(s)}
Sent(s, done) == {u \in Units(done) : Sender(u) \in Shard(s)}

(* The sum of the balances of one leader. *)
LEMMA ShardTotal ==
  ASSUME NEW s, NEW done \in SUBSET Tid, NEW bal \in [Account -> Int],
         \A k \in Account : bal[k] = IF IsClientInCluster(s, k)
                                     THEN InitialBalance + Credits(done, k) - Debits(done, k)
                                     ELSE 0
  PROVE  SumOf(bal, Account)
           = InitialBalance * Cardinality(Shard(s)) + Cardinality(Received(s, done))
                                                    - Cardinality(Sent(s, done))
<1> DEFINE a == [k \in Shard(s) |-> k]
<1> DEFINE b == [u \in Received(s, done) |-> Receiver(u)]
<1> DEFINE c == [u \in Sent(s, done) |-> Sender(u)]
<1>1. IsFiniteSet(Account) /\ InitialBalance \in Int
  BY TypesAssumption
<1>2. IsFiniteSet(Units(done))
  BY UnitsFinite
<1>3. IsFiniteSet(Shard(s)) /\ IsFiniteSet(Received(s, done)) /\ IsFiniteSet(Sent(s, done))
  BY <1>1, <1>2, FS_Subset DEF Shard, Received, Sent
<1>4. FiniteMap(a) /\ FiniteMap(b) /\ FiniteMap(c)
  BY <1>3 DEF FiniteMap
<1>5. ASSUME NEW k \in Account
      PROVE  bal[k] = Balance(InitialBalance, a, b, c, {k})
  <2>1. CASE k \in Shard(s)
    <3>1. Mapped(a, {k}) = {k}
      BY <2>1 DEF Mapped
    <3>2. Mapped(b, {k}) = {u \in Units(done) : Txn[u[1]].receiver = k}
      BY <2>1 DEF Mapped, Received, Receiver
    <3>3. Mapped(c, {k}) = {u \in Units(done) : Txn[u[1]].sender = k}
      BY <2>1 DEF Mapped, Sent, Sender
    <3>4. Cardinality({k}) = 1
      BY FS_Singleton
    <3>5. Balance(InitialBalance, a, b, c, {k})
            = InitialBalance * 1 + Credits(done, k) - Debits(done, k)
      BY <3>1, <3>2, <3>3, <3>4, Zenon DEF Balance, Credits, Debits
    <3>6. bal[k] = InitialBalance + Credits(done, k) - Debits(done, k)
      BY <2>1 DEF Shard
    <3>7. InitialBalance * 1 = InitialBalance
      BY <1>1
    <3> QED
      BY <3>5, <3>6, <3>7
  <2>2. CASE k \notin Shard(s)
    <3>1. Mapped(a, {k}) = {} /\ Mapped(b, {k}) = {} /\ Mapped(c, {k}) = {}
      BY <2>2 DEF Mapped, Received, Sent
    <3>2. Cardinality({}) = 0
      BY FS_EmptySet
    <3>3. Balance(InitialBalance, a, b, c, {k}) = InitialBalance * 0 + 0 - 0
      BY <3>1, <3>2, Zenon DEF Balance
    <3>4. InitialBalance * 0 + 0 - 0 = 0
      BY <1>1
    <3>5. bal[k] = 0
      BY <2>2 DEF Shard
    <3> QED
      BY <3>3, <3>4, <3>5
  <2> QED
    BY <2>1, <2>2
<1> DEFINE e == [T \in SUBSET Account |-> Balance(InitialBalance, a, b, c, T)]
<1>6. Mapped(a, Account) = Shard(s)
  BY DEF Mapped, Shard
<1>7. Mapped(b, Account) = Received(s, done)
  BY DEF Mapped, Received, Shard
<1>8. Mapped(c, Account) = Sent(s, done)
  BY DEF Mapped, Sent, Shard
<1> HIDE DEF a, b, c
<1>10. /\ e = [T \in SUBSET Account |-> Balance(InitialBalance, a, b, c, T)]
       /\ e[Account] = Balance(InitialBalance, a, b, c, Account)
  OBVIOUS
<1> HIDE DEF e
<1>a. Balances(e, bal, InitialBalance, a, b, c, Account)
  BY <1>5, <1>10 DEF Balances
<1>9. SumsUp(e, bal, Account)
  BY <1>1, <1>4, <1>a, BalancesSumUp
<1>11. SumOf(bal, Account) = e[Account]
  BY <1>1, <1>9, SumIs
<1> QED
  BY <1>6, <1>7, <1>8, <1>10, <1>11 DEF Balance

(* The leaders together, where each transaction is committed by the        *)
(* leaders of both its accounts or by neither.                             *)
LEMMA TotalOfLeaders ==
  ASSUME NEW L \in [Account -> Leaders],
         \A k \in Account, s \in Leaders : IsClientInCluster(s, k) <=> s = L[k],
         NEW done \in [Leaders -> SUBSET Tid],
         \A t \in Tid : t \in done[L[Txn[t].receiver]] <=> t \in done[L[Txn[t].sender]],
         \A s \in Leaders : srv[s].balances \in [Account -> Int],
         \A s \in Leaders, k \in Account :
           srv[s].balances[k] = IF IsClientInCluster(s, k)
                                THEN InitialBalance + Credits(done[s], k) - Debits(done[s], k)
                                ELSE 0
  PROVE  LeaderTotal = InitialBalance * Cardinality(Account)
<1> DEFINE V == {u \in Units(Tid) : u[1] \in done[L[Receiver(u)]]}
<1> DEFINE a == L
<1> DEFINE b == [u \in V |-> L[Receiver(u)]]
<1> DEFINE c == [u \in V |-> L[Sender(u)]]
<1> DEFINE f == [s \in Leaders |-> SumOf(srv[s].balances, Account)]
<1> DEFINE e == [T \in SUBSET Leaders |-> Balance(InitialBalance, a, b, c, T)]
<1>1. IsFiniteSet(Account) /\ InitialBalance \in Int
  BY TypesAssumption
<1>2. IsFiniteSet(V)
  BY UnitsFinite, FS_Subset
<1>3. FiniteMap(a) /\ FiniteMap(b) /\ FiniteMap(c)
  BY <1>1, <1>2 DEF FiniteMap
<1>4. \A u \in Units(Tid) : u[1] \in Tid /\ Receiver(u) \in Account /\ Sender(u) \in Account
  BY UnitsOf, TypesAssumption DEF Receiver, Sender
<1>5. V = {u \in Units(Tid) : u[1] \in done[L[Sender(u)]]}
  BY <1>4 DEF Receiver, Sender
<1>6. ASSUME NEW s \in Leaders
      PROVE  f[s] = Balance(InitialBalance, a, b, c, {s})
  <2>1. SumOf(srv[s].balances, Account)
          = InitialBalance * Cardinality(Shard(s)) + Cardinality(Received(s, done[s]))
                                                   - Cardinality(Sent(s, done[s]))
    BY ShardTotal
  <2>2. Units(done[s]) = {u \in Units(Tid) : u[1] \in done[s]}
    BY UnitsOf
  <2>3. Mapped(a, {s}) = Shard(s)
    BY DEF Mapped, Shard
  <2>4. Mapped(b, {s}) = Received(s, done[s])
    <3>1. \A u \in Units(Tid) : Receiver(u) \in Shard(s) <=> L[Receiver(u)] = s
      BY <1>4 DEF Shard
    <3>2. Mapped(b, {s}) = {u \in V : L[Receiver(u)] = s}
      BY DEF Mapped
    <3>3. Received(s, done[s]) = {u \in Units(done[s]) : Receiver(u) \in Shard(s)}
      BY DEF Received
    <3>4. V = {u \in Units(Tid) : u[1] \in done[L[Receiver(u)]]}
      OBVIOUS
    <3> HIDE DEF V, b
    <3>5. ASSUME NEW u PROVE u \in Mapped(b, {s}) <=> u \in Received(s, done[s])
      BY <2>2, <3>1, <3>2, <3>3, <3>4
    <3> QED
      BY <3>5
  <2>5. Mapped(c, {s}) = Sent(s, done[s])
    <3>1. \A u \in Units(Tid) : Sender(u) \in Shard(s) <=> L[Sender(u)] = s
      BY <1>4 DEF Shard
    <3>2. Mapped(c, {s}) = {u \in V : L[Sender(u)] = s}
      BY DEF Mapped
    <3>3. Sent(s, done[s]) = {u \in Units(done[s]) : Sender(u) \in Shard(s)}
      BY DEF Sent
    <3> HIDE DEF V, c
    <3>5. ASSUME NEW u PROVE u \in Mapped(c, {s}) <=> u \in Sent(s, done[s])
      BY <1>5, <2>2, <3>1, <3>2, <3>3
    <3> QED
      BY <3>5
  <2>6. f[s] = SumOf(srv[s].balances, Account)
    OBVIOUS
  <2> HIDE DEF a, b, c, f, V
  <2> QED
    BY <2>1, <2>3, <2>4, <2>5, <2>6 DEF Balance
<1>7. Mapped(a, Leaders) = Account
  BY DEF Mapped
<1>8. Mapped(b, Leaders) = V
  BY <1>4 DEF Mapped
<1>9. Mapped(c, Leaders) = V
  BY <1>4 DEF Mapped
<1>10. \A s \in Leaders : f[s] = SumOf(srv[s].balances, Account)
  OBVIOUS
<1>11. DOMAIN f = Leaders /\ f = [s \in Leaders |-> f[s]]
  OBVIOUS
<1>12. /\ e = [T \in SUBSET Leaders |-> Balance(InitialBalance, a, b, c, T)]
       /\ e[Leaders] = Balance(InitialBalance, a, b, c, Leaders)
  OBVIOUS
<1> HIDE DEF a, b, c, f, e, V
<1>13. ASSUME NEW T PROVE Balance(InitialBalance, a, b, c, T) \in Int
  <2> DEFINE C(m) == Cardinality(Mapped(m, T))
  <2>1. ASSUME NEW m, FiniteMap(m) PROVE C(m) \in Nat
    BY <2>1, FS_Subset, FS_CardinalityType DEF FiniteMap, Mapped
  <2>2. C(a) \in Nat /\ C(b) \in Nat /\ C(c) \in Nat
    BY <1>3, <2>1
  <2>3. Balance(InitialBalance, a, b, c, T) = InitialBalance * C(a) + C(b) - C(c)
    BY DEF Balance
  <2> HIDE DEF C
  <2> QED
    BY <1>1, <2>2, <2>3
<1>14. f \in [Leaders -> Int]
  <2>1. ASSUME NEW s \in Leaders PROVE f[s] \in Int
    <3>1. Balance(InitialBalance, a, b, c, {s}) \in Int
      BY <1>13
    <3> QED
      BY <1>6, <3>1
  <2> QED
    BY <1>11, <2>1
<1>b. Balances(e, f, InitialBalance, a, b, c, Leaders)
  BY <1>6, <1>12 DEF Balances
<1>15. SumsUp(e, f, Leaders)
  BY <1>1, <1>3, <1>14, <1>b, BalancesSumUp
<1>16. LeaderTotal = e[Leaders]
  BY <1>10, <1>14, <1>15, LeaderTotalIs
<1>17. Cardinality(V) \in Nat /\ Cardinality(Account) \in Nat
  BY <1>1, <1>2, FS_CardinalityType
<1>18. LeaderTotal = InitialBalance * Cardinality(Account) + Cardinality(V) - Cardinality(V)
  BY <1>7, <1>8, <1>9, <1>12, <1>16, Zenon DEF Balance
<1>19. InitialBalance * Cardinality(Account) \in Int
  BY <1>1, <1>17
<1> QED
  BY <1>17, <1>18, <1>19

(* In every instance in which the clients know one leader for every shard, *)
(* no lock times out and no server restarts, the money of the leaders'     *)
(* shards is the initial total whenever nothing is under way, through any  *)
(* deadlines, unreachable peers, disconnections and syncs.  Both           *)
(* hypotheses on the faults are needed: a lock timeout aborts at one       *)
(* cluster what the other commits (TpcAtomicity is violated), and after a  *)
(* restart a transaction can be applied again (AppliedAtMostOnce).         *)
THEOREM MoneyConservedHolds ==
  ASSUME Budget["restart"] = 0, Budget["lock_timeout"] = 0, OneLeader
  PROVE  Spec => []MoneyConserved
<1>1. Init => ConservedInv
  BY ConservedInit
<1>2. ConservedInv /\ [Next]_vars => ConservedInv'
  BY ConservedNext
<1>3. ConservedInv => MoneyConserved
  <2> SUFFICES ASSUME ConservedInv, Quiet
               PROVE  LeaderTotal = InitialBalance * Cardinality(Account)
    BY DEF MoneyConserved
  <2> DEFINE L == [k \in Account |-> CHOOSE s \in Leaders :
                                       \A q \in Leaders : IsClientInCluster(q, k) <=> q = s]
  <2> DEFINE done == [s \in Leaders |-> CommittedIn(srv[s].log)]
  <2>1. ASSUME NEW k \in Account
        PROVE  L[k] \in Leaders /\ \A q \in Leaders : IsClientInCluster(q, k) <=> q = L[k]
    BY DEF OneLeader
  <2>2. L \in [Account -> Leaders]
    BY <2>1
  <2>3. ASSUME NEW s \in Leaders
        PROVE  /\ srv[s].log \in Seq(WALEntry) /\ srv[s].balances \in [Account -> Int]
               /\ MoneyOK(srv[s], s) /\ LogOK(srv[s], Decided)
    <3>1. s \in Server
      BY ServerAssumption
    <3> QED
      BY <3>1 DEF ConservedInv, MoneyInv, StoreInv, StoreOK, TypeOK, ServerState
  <2>4. ASSUME NEW s \in Leaders
        PROVE  CommittedIn(srv[s].log) \in SUBSET Tid
    <3>1. \A i \in DOMAIN srv[s].log : srv[s].log[i] \in WALEntry
      BY <2>3
    <3> QED
      BY <3>1 DEF CommittedIn, WALEntry
  <2>5. done \in [Leaders -> SUBSET Tid]
    BY <2>4
  <2>6. ASSUME NEW s \in Leaders, NEW k \in Account
        PROVE  srv[s].balances[k] = IF IsClientInCluster(s, k)
                                    THEN InitialBalance + Credits(done[s], k) - Debits(done[s], k)
                                    ELSE 0
    <3>1. CommittedIn(srv[s].log) = srv[s].balance_applied
      BY <2>3 DEF MoneyOK, LogOK
    <3>2. done[s] = srv[s].balance_applied
      BY <3>1
    <3> QED
      BY <2>3, <3>2 DEF MoneyOK
  <2> HIDE DEF L
  <2>7. ASSUME NEW t \in Tid
        PROVE  t \in done[L[Txn[t].receiver]] <=> t \in done[L[Txn[t].sender]]
    <3>1. Txn[t].receiver \in Account /\ Txn[t].sender \in Account
      BY TypesAssumption
    <3> DEFINE p == L[Txn[t].receiver]
    <3> DEFINE q == L[Txn[t].sender]
    <3>2. /\ p \in Leaders /\ ServerCluster[p] = AccountCluster[Txn[t].receiver]
          /\ q \in Leaders /\ ServerCluster[q] = AccountCluster[Txn[t].sender]
      BY <2>1, <3>1 DEF IsClientInCluster
    <3>3. CASE IsCrossShard(t)
      BY <3>2, <3>3, QuietCommitted DEF Participants
    <3>4. CASE ~IsCrossShard(t)
      <4>1. p = q
        BY <2>1, <3>1, <3>2, <3>4 DEF IsCrossShard, IsClientInCluster
      <4> QED
        BY <4>1
    <3> QED
      BY <3>3, <3>4
  <2> HIDE DEF done
  <2> QED
    BY <2>1, <2>2, <2>3, <2>5, <2>6, <2>7, TotalOfLeaders
<1> QED
  BY <1>1, <1>2, <1>3, PTL DEF Spec
=============================================================================
