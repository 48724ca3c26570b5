---------------------------- MODULE WakeupProofs ----------------------------
(***************************************************************************)
(* What keeps a round going, in any instance.  First: a queued command     *)
(* always has a round or a sync before it, a running round is in one of    *)
(* its phases or behind a sync, and a sync has its call open.              *)
(* NoLostWakeup is not inductive: the end of a sync looks at current_ and  *)
(* not at is_paxos_running, so the invariant also says that the two agree. *)
(* Second: a phase that waits has enough votes counted or to come.         *)
(***************************************************************************)
EXTENDS ServerProofs

(* An open Sync call. *)
Syncing(r) == \E c \in r.outcalls : c.type = "SYNC" /\ c.open

(* A running round is in a phase or behind a sync, a sync has its call. *)
Runs(r) ==
  /\ r.is_paxos_running <=> r.current # <<>>
  /\ r.is_paxos_running =>
       r.await_prepare_decision \/ r.await_accept_decision \/ r.in_sync
  /\ r.in_sync => Syncing(r)

(* And the queue is behind a round or a sync. *)
Awake(r) ==
  /\ Runs(r)
  /\ r.pending # <<>> => r.is_paxos_running \/ r.in_sync

WakeupInv == TypeOK /\ \A s \in Server : Awake(srv[s])

(* Two states that agree on the round, and on Sync calls in one direction. *)
SameRound(q, r) ==
  /\ q.pending = r.pending /\ q.current = r.current
  /\ q.is_paxos_running = r.is_paxos_running /\ q.in_sync = r.in_sync
  /\ q.await_prepare_decision = r.await_prepare_decision
  /\ q.await_accept_decision = r.await_accept_decision
  /\ Syncing(r) => Syncing(q)

(* A step that leaves the round alone keeps it awake. *)
LEMMA SameRoundAwake ==
  ASSUME NEW q, NEW r, SameRound(q, r), Awake(r)
  PROVE  Awake(q)
  BY DEF SameRound, Awake, Runs

(* Agreement on the round is transitive. *)
LEMMA SameRoundTrans ==
  ASSUME NEW p, NEW q, NEW r, SameRound(p, q), SameRound(q, r)
  PROVE  SameRound(p, r)
  BY DEF SameRound

(* Sending requests leaves the round alone. *)
LEMMA SendFrame ==
  ASSUME NEW r \in State, NEW type, NEW peers, NEW req
  PROVE  SameRound(Send(r, type, peers, req), r)
<1> DEFINE new == {NewCall(r, type, p, req) : p \in peers}
<1> DEFINE q == [r EXCEPT !.outcalls = r.outcalls \cup new]
<1>1. Send(r, type, peers, req) = q
  BY DEF Send, State, ServerState
<1> HIDE DEF new
<1>2. q.outcalls = r.outcalls \cup new
  BY DEF State, ServerState
<1>3. Syncing(r) => Syncing(q)
  BY <1>2 DEF Syncing
<1>4. SameRound(q, r)
  BY <1>3 DEF SameRound, State, ServerState
<1> QED
  BY <1>1, <1>4

(* Answering clients leaves the round alone. *)
LEMMA CompleteTransferFrame ==
  ASSUME NEW r \in State, NEW batch, NEW answer
  PROVE  SameRound(CompleteTransfer(r, batch, answer), r)
<1> DEFINE incall == CompleteTransfer(r, batch, answer).incall
<1> DEFINE q == [r EXCEPT !.incall = incall]
<1>1. CompleteTransfer(r, batch, answer) = q
  BY DEF CompleteTransfer, State, ServerState
<1> HIDE DEF incall
<1>2. SameRound(q, r)
  BY DEF SameRound, Syncing, State, ServerState
<1> QED
  BY <1>1, <1>2

(* Logging 2PC prepares leaves the round alone. *)
LEMMA PrepareTransactionsFrame ==
  ASSUME NEW r \in State, NEW ts, NEW b
  PROVE  SameRound(PrepareTransactions(r, ts, b), r)
<1>1. CASE ts = <<>>
  BY <1>1 DEF PrepareTransactions, SameRound
<1>2. CASE ts # <<>>
  BY <1>2 DEF PrepareTransactions, SameRound, Syncing, State, ServerState
<1> QED
  BY <1>1, <1>2

(* Committing a batch leaves the round alone. *)
LEMMA CommitTransactionsFrame ==
  ASSUME NEW r \in State, NEW s, NEW ts, NEW b
  PROVE  SameRound(CommitTransactions(r, s, ts, b), r)
<1> DEFINE new == Select(ts, {i \in DOMAIN ts : ts[i] \notin r.balance_applied})
<1>1. CASE new = <<>>
  BY <1>1 DEF CommitTransactions, SameRound
<1>2. CASE new # <<>>
  BY <1>2 DEF CommitTransactions, SameRound, Syncing, State, ServerState
<1> QED
  BY <1>1, <1>2

(* Applying the entries of a sync leaves the round alone. *)
LEMMA InsertEntriesFrame ==
  ASSUME NEW r \in State, NEW s, NEW logs
  PROVE  SameRound(InsertEntries(r, s, logs), r)
  BY DEF InsertEntries, SameRound, Syncing, State, ServerState

(* Closing a 2PC transaction leaves the round alone. *)
LEMMA CloseTransactionFrame ==
  ASSUME NEW r \in State, NEW s, NEW t, NEW st
  PROVE  SameRound(CloseTransaction(r, s, t, st), r)
  BY DEF CloseTransaction, SameRound, Syncing, State, ServerState

(* A call that is done, unless it is a Sync, leaves the round alone. *)
LEMMA CloseFrame ==
  ASSUME NEW r \in State, NEW c, c.type # "SYNC"
  PROVE  SameRound(Close(r, c), r)
<1> DEFINE new == IF c.handled THEN {} ELSE {[c EXCEPT !.open = FALSE]}
<1> DEFINE q == [r EXCEPT !.outcalls = (r.outcalls \ {c}) \cup new]
<1>1. Close(r, c) = q
  BY DEF Close, State, ServerState
<1> HIDE DEF new
<1>2. q.outcalls = (r.outcalls \ {c}) \cup new
  BY DEF State, ServerState
<1>3. Syncing(r) => Syncing(q)
  BY <1>2 DEF Syncing
<1>4. SameRound(q, r)
  BY <1>3 DEF SameRound, State, ServerState
<1> QED
  BY <1>1, <1>4

(* A new Prepare leaves the round waiting for its answers. *)
LEMMA ReissueAwake ==
  ASSUME NEW r \in State, NEW s \in Server,
         r.is_paxos_running <=> r.current # <<>>, r.in_sync => Syncing(r),
         r.pending # <<>> => r.is_paxos_running \/ r.in_sync
  PROVE  Awake(ReissuePrepareForCurrent(r, s))
<1> DEFINE b == [num |-> r.ballot_num + 1, server_id |-> s]
<1> DEFINE q == [r EXCEPT !.ballot_num = b.num, !.promised = TRUE, !.promised_num = b,
                          !.await_prepare_decision = TRUE,
                          !.await_accept_decision = FALSE,
                          !.prepare_successes = 1, !.prepare_failures = 0]
<1>1. b \in Ballot /\ b.num \in Nat
  BY DEF Ballot, State, ServerState
<1> HIDE DEF b
<1>2. q \in ServerState /\ SameParts(q, r)
  BY <1>1 DEF State, ServerState, SameParts
<1>3. q \in State
  BY <1>2, Untouched
<1>4. /\ q.await_prepare_decision /\ q.in_sync = r.in_sync /\ q.is_paxos_running = r.is_paxos_running
      /\ q.current = r.current /\ q.outcalls = r.outcalls /\ q.pending = r.pending
  BY DEF State, ServerState
<1>5. Awake(q)
  BY <1>4 DEF Awake, Runs, Syncing
<1> HIDE DEF q
<1>6. Awake(Send(q, "PREPARE", Stubs(s), [ballot |-> b, paxos_index |-> r.paxos_index]))
  BY <1>3, <1>5, SendFrame, SameRoundAwake
<1> QED
  BY <1>6 DEF ReissuePrepareForCurrent, q, b

(* maybeStartRound leaves nobody in the queue without a waker. *)
LEMMA MaybeStartRoundAwake ==
  ASSUME NEW r \in State, NEW s \in Server, Runs(r)
  PROVE  Awake(MaybeStartRound(r, s))
<1> DEFINE q == [r EXCEPT !.current = r.pending, !.pending = <<>>, !.is_paxos_running = TRUE]
<1>1. CASE r.is_paxos_running \/ r.in_sync \/ r.pending = <<>>
  BY <1>1 DEF MaybeStartRound, Awake
<1>2. CASE ~(r.is_paxos_running \/ r.in_sync \/ r.pending = <<>>)
  <2>1. <<>> \in Seq(Tid)
    OBVIOUS
  <2>2. q \in ServerState /\ SameParts(q, r)
    BY <2>1 DEF State, ServerState, SameParts
  <2>3. q \in State
    BY <2>2, Untouched
  <2>4. q.current # <<>> /\ q.is_paxos_running /\ ~q.in_sync
    BY <1>2 DEF State, ServerState
  <2>5. MaybeStartRound(r, s) = ReissuePrepareForCurrent(q, s)
    BY <1>2 DEF MaybeStartRound, StartRound
  <2> HIDE DEF q
  <2> QED
    BY <2>3, <2>4, <2>5, ReissueAwake
<1> QED
  BY <1>1, <1>2

(* finishRound wakes the queue. *)
LEMMA FinishRoundAwake ==
  ASSUME NEW r \in State, NEW s \in Server, r.in_sync => Syncing(r)
  PROVE  Awake(FinishRound(r, s))
<1> DEFINE q == [r EXCEPT !.is_paxos_running = FALSE, !.promised = FALSE,
                          !.accepted = FALSE, !.await_prepare_decision = FALSE,
                          !.await_accept_decision = FALSE,
                          !.current = <<>>, !.accept_batch = <<>>]
<1>1. <<>> \in Seq(Tid)
  OBVIOUS
<1>2. q \in ServerState /\ SameParts(q, r)
  BY <1>1 DEF State, ServerState, SameParts
<1>3. q \in State
  BY <1>2, Untouched
<1>4. ~q.is_paxos_running /\ q.current = <<>> /\ q.in_sync = r.in_sync /\ q.outcalls = r.outcalls
  BY DEF State, ServerState
<1>5. Runs(q)
  BY <1>4 DEF Runs, Syncing
<1> HIDE DEF q
<1>6. Awake(MaybeStartRound(q, s))
  BY <1>3, <1>5, MaybeStartRoundAwake
<1> QED
  BY <1>6 DEF FinishRound, q

(* A sync that starts will end. *)
LEMMA StartSyncAwake ==
  ASSUME NEW r \in State, NEW p \in Server, r.is_paxos_running <=> r.current # <<>>
  PROVE  Awake(StartSync(r, p))
<1> DEFINE q == [r EXCEPT !.in_sync = TRUE]
<1> DEFINE c == NewCall(q, "SYNC", p, [last_inserted |-> r.last_inserted])
<1> DEFINE n == [q EXCEPT !.outcalls = q.outcalls \cup {c}]
<1>1. StartSync(r, p) = n
  BY DEF StartSync, Send, State, ServerState
<1>2. c.type = "SYNC" /\ c.open
  BY DEF NewCall
<1> HIDE DEF c
<1>3. /\ n.in_sync /\ n.outcalls = r.outcalls \cup {c}
      /\ n.is_paxos_running = r.is_paxos_running /\ n.current = r.current
  BY DEF State, ServerState
<1>4. Awake(n)
  BY <1>2, <1>3 DEF Awake, Runs, Syncing
<1> QED
  BY <1>1, <1>4

(* Validating a batch either proposes the survivors or ends the round. *)
LEMMA OnPrepareQuorumAwake ==
  ASSUME NEW r \in State, NEW s \in Server, NEW K \in SUBSET DOMAIN r.current, Awake(r)
  PROVE  Awake(OnPrepareQuorum(r, s, K))
<1> DEFINE kept     == Select(r.current, K)
<1> DEFINE dropped  == Select(r.current, DOMAIN r.current \ K)
<1> DEFINE prepared == Select(r.current, {i \in K : IsCrossShard(r.current[i])})
<1> DEFINE locks    == r.locks \cup UNION {LocalAccounts(s, r.current[i]) : i \in K}
<1> DEFINE q == [r EXCEPT !.await_prepare_decision = FALSE, !.locks = locks, !.current = kept]
<1> DEFINE told == CompleteTransfer(q, dropped, "nack")
<1> DEFINE checked == PrepareTransactions(told, prepared, r.promised_num)
<1> DEFINE sent == [checked EXCEPT !.accepted = TRUE, !.accept_num = r.promised_num,
                                   !.accept_batch = kept, !.await_accept_decision = TRUE,
                                   !.accept_successes = 1, !.accept_failures = 0]
<1>1. r.current \in Seq(Tid) /\ r.promised_num \in Ballot
  BY DEF State, ServerState
<1>2. kept \in Seq(Tid) /\ prepared \in Seq(Tid)
  BY <1>1, SelectProperties
<1>3. locks \in SUBSET Account
  <2>1. \A i \in K : LocalAccounts(s, r.current[i]) \in SUBSET Account
    BY <1>1, TypesAssumption DEF LocalAccounts
  <2> QED
    BY <2>1 DEF State, ServerState
<1>4. K # {} => kept # <<>> /\ r.current # <<>>
  <2>1. SUFFICES ASSUME K # {}
                 PROVE  kept # <<>> /\ r.current # <<>>
    OBVIOUS
  <2>2. IsFiniteSet(K)
    BY <1>1, FS_Subset, FS_Interval
  <2>3. Cardinality(K) \in Nat /\ Cardinality(K) # 0
    BY <2>1, <2>2, FS_CardinalityType, FS_EmptySet
  <2>4. 1 \in DOMAIN kept
    BY <2>3 DEF Select
  <2>5. r.current # <<>>
    BY <2>1, <1>1
  <2> QED
    BY <2>4, <2>5
<1> HIDE DEF kept, prepared, locks, dropped
<1>5. q \in ServerState /\ SameParts(q, r)
  BY <1>2, <1>3 DEF State, ServerState, SameParts
<1>6. q \in State
  BY <1>5, Untouched
<1>7. /\ q.in_sync = r.in_sync /\ q.outcalls = r.outcalls /\ q.current = kept
      /\ q.is_paxos_running = r.is_paxos_running
  BY DEF State, ServerState
<1> HIDE DEF q
<1>8. told \in State /\ SameRound(told, q)
  BY <1>6, CompleteTransferType, CompleteTransferFrame DEF InCallStatus
<1> HIDE DEF told
<1>9. checked \in State /\ SameRound(checked, q)
  BY <1>1, <1>2, <1>8, PrepareTransactionsType, PrepareTransactionsFrame, SameRoundTrans
<1> HIDE DEF checked
<1>10. checked.in_sync => Syncing(checked)
  BY <1>7, <1>9 DEF SameRound, Awake, Runs, Syncing
<1>11. CASE K = {}
  <2>1. Awake(FinishRound(checked, s))
    BY <1>9, <1>10, FinishRoundAwake
  <2> QED
    BY <1>11, <2>1 DEF OnPrepareQuorum, checked, told, q, kept, prepared, locks, dropped
<1>12. CASE K # {}
  <2>1. sent \in ServerState /\ SameParts(sent, checked)
    BY <1>1, <1>2, <1>9 DEF State, ServerState, SameParts
  <2>2. sent \in State
    BY <1>9, <2>1, Untouched
  <2>3. /\ sent.await_accept_decision /\ sent.current = checked.current
        /\ sent.is_paxos_running = checked.is_paxos_running
        /\ sent.in_sync = checked.in_sync /\ sent.outcalls = checked.outcalls
    BY <1>9 DEF State, ServerState
  <2>4. sent.is_paxos_running /\ sent.current # <<>>
    BY <1>4, <1>7, <1>9, <1>12, <2>3 DEF SameRound, Awake, Runs
  <2>5. Awake(sent)
    BY <1>10, <2>3, <2>4 DEF Awake, Runs, Syncing
  <2> HIDE DEF sent
  <2>6. Awake(Send(sent, "ACCEPT", Stubs(s), [ballot |-> r.promised_num, batch |-> kept]))
    BY <2>2, <2>5, SendFrame, SameRoundAwake
  <2> QED
    BY <1>12, <2>6 DEF OnPrepareQuorum, sent, checked, told, q, kept, prepared, locks, dropped
<1> QED
  BY <1>11, <1>12

(* An accept quorum ends the round. *)
LEMMA OnAcceptQuorumAwake ==
  ASSUME NEW r \in State, NEW s \in Server, Awake(r)
  PROVE  Awake(OnAcceptQuorum(r, s))
<1> DEFINE intra == IntraEntries(r.current)
<1> DEFINE q     == [r EXCEPT !.await_accept_decision = FALSE]
<1> DEFINE sent  == Send(q, "COMMIT", Stubs(s), [ballot |-> r.accept_num])
<1> DEFINE free  == [sent EXCEPT !.locks = @ \ LockedBy(s, intra)]
<1> DEFINE done  == CommitTransactions(free, s, intra, r.accept_num)
<1> DEFINE told  == CompleteTransfer(done, r.current, "ack")
<1>1. r.current \in Seq(Tid) /\ r.accept_num \in Ballot
  BY DEF State, ServerState
<1>2. intra \in Seq(Tid)
  BY <1>1, EntriesType
<1> HIDE DEF intra
<1>3. q \in ServerState /\ SameParts(q, r)
  BY DEF State, ServerState, SameParts
<1>4. q \in State /\ q.in_sync = r.in_sync
  BY <1>3, Untouched DEF State, ServerState
<1> HIDE DEF q
<1>5. Fits("COMMIT", [ballot |-> r.accept_num])
  BY <1>1 DEF Fits, CommitReq
<1>6. sent \in State /\ SameRound(sent, q)
  BY <1>4, <1>5, SendType, SendFrame DEF Stubs
<1> HIDE DEF sent
<1>7. free \in ServerState /\ SameParts(free, sent) /\ free.in_sync = sent.in_sync
  BY <1>6 DEF State, ServerState, SameParts
<1>8. free \in State
  BY <1>6, <1>7, Untouched
<1> HIDE DEF free
<1>9. done \in State /\ SameRound(done, free)
  BY <1>1, <1>2, <1>8, CommitTransactionsType, CommitTransactionsFrame
<1> HIDE DEF done
<1>10. told \in State /\ SameRound(told, done)
  BY <1>9, CompleteTransferType, CompleteTransferFrame DEF InCallStatus
<1> HIDE DEF told
<1>11. told.in_sync => Syncing(told)
  <2>1. Syncing(r) => Syncing(q)
    BY <1>3 DEF SameParts, Syncing
  <2>2. Syncing(sent) => Syncing(free)
    BY <1>7 DEF SameParts, Syncing
  <2> QED
    BY <1>4, <1>6, <1>7, <1>9, <1>10, <2>1, <2>2 DEF SameRound, Awake, Runs
<1>12. Awake(FinishRound(told, s))
  BY <1>10, <1>11, FinishRoundAwake
<1> QED
  BY <1>12 DEF OnAcceptQuorum, told, done, free, sent, q, intra

(* So does an aborted round. *)
LEMMA OnRoundAbortAwake ==
  ASSUME NEW r \in State, NEW s \in Server, NEW phase \in BOOLEAN, Awake(r)
  PROVE  Awake(OnRoundAbort(r, s, phase))
<1> DEFINE freed == IF phase THEN {} ELSE LockedBy(s, IntraEntries(r.current))
<1> DEFINE q == [r EXCEPT !.locks = r.locks \ freed]
<1> DEFINE told == CompleteTransfer(q, r.current, "nack")
<1>1. OnRoundAbort(r, s, phase) = FinishRound(told, s)
  BY DEF OnRoundAbort, State, ServerState
<1> HIDE DEF freed
<1>2. q \in ServerState /\ SameParts(q, r) /\ q.in_sync = r.in_sync
  BY DEF State, ServerState, SameParts
<1>3. q \in State
  BY <1>2, Untouched
<1> HIDE DEF q
<1>4. told \in State /\ SameRound(told, q)
  BY <1>3, CompleteTransferType, CompleteTransferFrame DEF InCallStatus
<1> HIDE DEF told
<1>5. told.in_sync => Syncing(told)
  BY <1>2, <1>4 DEF SameRound, SameParts, Syncing, Awake, Runs
<1> QED
  BY <1>1, <1>4, <1>5, FinishRoundAwake

-----------------------------------------------------------------------------
(***************************************************************************)
(* The steps of the servers.                                               *)
(***************************************************************************)

(* A step of one server to a state that is awake. *)
LEMMA StepAwake ==
  ASSUME srv \in [Server -> State], \A p \in Server : Awake(srv[p]),
         NEW s \in Server, NEW r, Awake(r), Step(s, r)
  PROVE  \A p \in Server : Awake(srv'[p])
  BY DEF Step

(* A peer that moves to a state that is awake and replies. *)
LEMMA AnswerAwake ==
  ASSUME srv \in [Server -> State], \A p \in Server : Awake(srv[p]),
         NEW s \in Server, NEW c \in srv[s].outcalls,
         NEW rp \in State, Awake(rp), NEW reply, Answer(s, c, rp, reply)
  PROVE  \A p \in Server : Awake(srv'[p])
<1> DEFINE answered == [c EXCEPT !.handled = TRUE, !.reply = reply]
<1> DEFINE new == IF c.open THEN {answered} ELSE {}
<1> DEFINE mid == [srv EXCEPT ![c.to] = rp]
<1> DEFINE q == [mid[s] EXCEPT !.outcalls = (mid[s].outcalls \ {c}) \cup new]
<1>1. c \in OutCall /\ c.to \in Server
  BY CallType
<1>2. answered.type = c.type /\ answered.open = c.open
  BY <1>1 DEF OutCall, Call
<1> HIDE DEF answered
<1>3. mid \in [Server -> State] /\ \A p \in Server : Awake(mid[p])
  BY <1>1
<1>4. srv' = [mid EXCEPT ![s] = q]
  <2>1. srv' = [mid EXCEPT ![s].outcalls = (mid[s].outcalls \ {c}) \cup new]
    BY DEF Answer, answered
  <2> QED
    BY <2>1
<1> HIDE DEF mid
<1>5. q.outcalls = (mid[s].outcalls \ {c}) \cup new
  BY <1>3 DEF State, ServerState
<1>6. Syncing(mid[s]) => Syncing(q)
  BY <1>2, <1>5 DEF Syncing
<1>7. SameRound(q, mid[s])
  BY <1>3, <1>6 DEF SameRound, State, ServerState
<1> HIDE DEF q
<1>8. Awake(q)
  BY <1>3, <1>7, SameRoundAwake
<1> QED
  BY <1>3, <1>4, <1>8

(* enqueueClientTxn leaves every server awake. *)
LEMMA EnqueueClientTxnAwake ==
  ASSUME WakeupInv, NEW s \in Server, NEW t \in Tid, EnqueueClientTxn(s, t)
  PROVE  \A p \in Server : Awake(srv'[p])
<1> DEFINE r == srv[s]
<1> DEFINE q == [r EXCEPT !.pending = Append(r.pending, t)]
<1> DEFINE told == CompleteTransfer(q, <<t>>, "parked")
<1>1. srv \in [Server -> State] /\ r \in State /\ Awake(r) /\ \A p \in Server : Awake(srv[p])
  BY TypeOKState DEF WakeupInv
<1>2. Append(r.pending, t) \in Seq(Tid)
  BY <1>1 DEF State, ServerState
<1> HIDE DEF r
<1>3. q \in ServerState /\ SameParts(q, r)
  BY <1>1, <1>2 DEF State, ServerState, SameParts
<1>4. q = [r EXCEPT !.pending = Append(@, t)]
  BY <1>1 DEF State, ServerState
<1>5. q \in State
  BY <1>1, <1>3, Untouched
<1>6. Runs(q)
  <2>1. /\ q.current = r.current /\ q.is_paxos_running = r.is_paxos_running
        /\ q.in_sync = r.in_sync /\ q.await_prepare_decision = r.await_prepare_decision
        /\ q.await_accept_decision = r.await_accept_decision /\ q.outcalls = r.outcalls
    BY <1>1 DEF State, ServerState
  <2> QED
    BY <1>1, <2>1 DEF Awake, Runs, Syncing
<1> HIDE DEF q
<1>7. told \in State /\ SameRound(told, q)
  BY <1>5, CompleteTransferType, CompleteTransferFrame DEF InCallStatus
<1> HIDE DEF told
<1>8. Runs(told)
  BY <1>6, <1>7 DEF SameRound, Runs
<1>9. Awake(MaybeStartRound(told, s))
  BY <1>7, <1>8, MaybeStartRoundAwake
<1>10. Awake(CompleteTransfer(r, <<t>>, "nack"))
  BY <1>1, CompleteTransferFrame, SameRoundAwake
<1>11. \/ Step(s, CompleteTransfer(r, <<t>>, "nack"))
       \/ Step(s, MaybeStartRound(told, s))
  BY <1>4 DEF EnqueueClientTxn, r, told
<1> QED
  BY <1>1, <1>9, <1>10, <1>11, StepAwake

(* Forgetting the timestamp of t, with or without closing t. *)
LEMMA ClosingFrame ==
  ASSUME NEW r \in State, NEW s \in Server, NEW t \in Tid, NEW st
  PROVE  LET r1 == [r EXCEPT !.prepareTimestamps = @ \ {t}] IN
         /\ SameRound(r1, r)
         /\ SameRound(CloseTransaction(r1, s, t, st), r)
<1> DEFINE r1 == [r EXCEPT !.prepareTimestamps = @ \ {t}]
<1>1. r1 \in ServerState /\ SameParts(r1, r)
  BY DEF State, ServerState, SameParts
<1>2. r1 \in State
  BY <1>1, Untouched
<1>3. SameRound(r1, r)
  BY DEF SameRound, Syncing, State, ServerState
<1> HIDE DEF r1
<1>4. SameRound(CloseTransaction(r1, s, t, st), r)
  BY <1>2, <1>3, CloseTransactionFrame, SameRoundTrans
<1> QED
  BY <1>3, <1>4 DEF r1

(* processTpcDecision leaves every server awake. *)
LEMMA ProcessTpcDecisionAwake ==
  ASSUME WakeupInv, NEW s \in Server, NEW t \in Tid, ProcessTpcDecision(s, t)
  PROVE  \A p \in Server : Awake(srv'[p])
<1> DEFINE r  == srv[s]
<1> DEFINE r1 == [r EXCEPT !.prepareTimestamps = @ \ {t}]
<1> DEFINE st == IF tpc[t] = "commit" THEN "COMMITTED" ELSE "ABORTED"
<1> DEFINE r2 == CloseTransaction(r1, s, t, st)
<1> DEFINE money == Apply(r, s, {t} \ r.balance_applied)
<1> DEFINE r3 == [r2 EXCEPT !.balances = money, !.balance_applied = @ \cup {t}]
<1>1. srv \in [Server -> State] /\ r \in State /\ Awake(r) /\ \A p \in Server : Awake(srv[p])
  BY TypeOKState DEF WakeupInv
<1>2. st \in Status
  BY DEF Status
<1> HIDE DEF r, st
<1>3. SameRound(r1, r) /\ SameRound(r2, r)
  BY <1>1, ClosingFrame
<1>4. r.transferIndex[t] # 0 => r2 \in State
  BY <1>1, <1>2, ClosingType
<1> HIDE DEF r1, r2, money
<1>5. ASSUME r2 \in State PROVE SameRound(r3, r)
  <2>1. SameRound(r3, r2)
    BY <1>5 DEF SameRound, Syncing, State, ServerState
  <2> QED
    BY <1>3, <2>1, SameRoundTrans
<1> HIDE DEF r3
<1>6. \/ srv' = srv
      \/ Step(s, r1)
      \/ r.transferIndex[t] # 0 /\ Step(s, r3)
      \/ r.transferIndex[t] # 0 /\ Step(s, r2)
  BY DEF ProcessTpcDecision, r, r1, r2, r3, st, money
<1>7. Awake(r1) /\ Awake(r2) /\ (r2 \in State => Awake(r3))
  BY <1>1, <1>3, <1>5, SameRoundAwake
<1> QED
  BY <1>1, <1>4, <1>6, <1>7, StepAwake

(* A lock timeout leaves every server awake. *)
LEMMA LockTimeoutAwake ==
  ASSUME WakeupInv, NEW s \in Server, NEW t \in Tid, LockTimeout(s, t)
  PROVE  \A p \in Server : Awake(srv'[p])
<1> DEFINE r  == srv[s]
<1> DEFINE r1 == [r EXCEPT !.prepareTimestamps = @ \ {t}]
<1> DEFINE r2 == CloseTransaction(r1, s, t, "ABORTED")
<1>1. srv \in [Server -> State] /\ r \in State /\ Awake(r) /\ \A p \in Server : Awake(srv[p])
  BY TypeOKState DEF WakeupInv
<1> HIDE DEF r
<1>2. Awake(r1) /\ Awake(r2)
  BY <1>1, ClosingFrame, SameRoundAwake
<1> HIDE DEF r1, r2
<1>3. Step(s, r1) \/ Step(s, r2)
  BY DEF LockTimeout, r, r1, r2
<1> QED
  BY <1>1, <1>2, <1>3, StepAwake

(* processPrepareCall leaves every server awake. *)
LEMMA ProcessPrepareCallAwake ==
  ASSUME WakeupInv, NEW s \in Server, NEW c \in srv[s].outcalls, ProcessPrepareCall(s, c)
  PROVE  \A p \in Server : Awake(srv'[p])
<1> DEFINE r     == srv[c.to]
<1> DEFINE q     == [r EXCEPT !.promised = TRUE, !.promised_num = c.req.ballot,
                              !.ballot_num = c.req.ballot.num]
<1>1. srv \in [Server -> State] /\ \A p \in Server : Awake(srv[p])
  BY TypeOKState DEF WakeupInv
<1>2. c.type = "PREPARE" /\ c \in OutCall /\ r \in State /\ Awake(r)
  BY <1>1, CallType DEF ProcessPrepareCall
<1>3. c.req \in PrepareReq
  BY <1>2 DEF OutCall, Call
<1>4. c.req.ballot \in Ballot /\ c.req.ballot.num \in Nat /\ c.req.ballot.server_id \in Server
  BY <1>3 DEF PrepareReq, Proposal, Ballot
<1> HIDE DEF r
<1>5. q \in ServerState /\ SameParts(q, r)
  BY <1>2, <1>4 DEF State, ServerState, SameParts
<1>6. SameRound(q, r)
  BY <1>2 DEF SameRound, Syncing, State, ServerState
<1>7. q \in State /\ Awake(q)
  BY <1>2, <1>5, <1>6, Untouched, SameRoundAwake
<1> DEFINE q2 == StartSync(r, c.req.ballot.server_id)
<1>8. q2 \in State /\ Awake(q2)
  BY <1>2, <1>4, StartSyncType, StartSyncAwake DEF Awake, Runs
<1> HIDE DEF q, q2
<1>9. \E reply : \/ Answer(s, c, r, reply)
                 \/ Answer(s, c, q, reply)
                 \/ Answer(s, c, q2, reply)
  BY DEF ProcessPrepareCall, r, q, q2
<1> QED
  BY <1>1, <1>2, <1>7, <1>8, <1>9, AnswerAwake

(* processAcceptCall leaves every server awake. *)
LEMMA ProcessAcceptCallAwake ==
  ASSUME WakeupInv, NEW s \in Server, NEW c \in srv[s].outcalls, ProcessAcceptCall(s, c)
  PROVE  \A p \in Server : Awake(srv'[p])
<1> DEFINE r == srv[c.to]
<1> DEFINE q == [r EXCEPT !.accepted = TRUE, !.accept_num = c.req.ballot,
                          !.accept_batch = c.req.batch,
                          !.locks = @ \cup LockedBy(c.to, c.req.batch)]
<1> DEFINE q2 == PrepareTransactions(q, CrossEntries(c.req.batch), c.req.ballot)
<1>1. srv \in [Server -> State] /\ \A p \in Server : Awake(srv[p])
  BY TypeOKState DEF WakeupInv
<1>2. c.type = "ACCEPT" /\ c \in OutCall /\ r \in State /\ c.to \in Server /\ Awake(r)
  BY <1>1, CallType DEF ProcessAcceptCall
<1>3. c.req \in AcceptReq
  BY <1>2 DEF OutCall, Call
<1>4. c.req.ballot \in Ballot /\ c.req.batch \in Seq(Tid)
  BY <1>3 DEF AcceptReq
<1>5. LockedBy(c.to, c.req.batch) \in SUBSET Account
  BY <1>4, RangeType, TypesAssumption DEF LockedBy, LocalAccounts
<1> HIDE DEF r
<1>6. q \in ServerState /\ SameParts(q, r)
  BY <1>2, <1>4, <1>5 DEF State, ServerState, SameParts
<1>7. SameRound(q, r)
  BY <1>2 DEF SameRound, Syncing, State, ServerState
<1>8. q \in State
  BY <1>2, <1>6, Untouched
<1> HIDE DEF q
<1>9. q2 \in State
  BY <1>4, <1>8, EntriesType, PrepareTransactionsType
<1>10. Awake(q2)
  BY <1>2, <1>7, <1>8, PrepareTransactionsFrame, SameRoundAwake
<1> HIDE DEF q2
<1>11. Answer(s, c, r, [ack |-> FALSE]) \/ Answer(s, c, q2, [ack |-> TRUE])
  BY DEF ProcessAcceptCall, r, q, q2
<1> QED
  BY <1>1, <1>2, <1>9, <1>10, <1>11, AnswerAwake

(* processCommitCall leaves every server awake. *)
LEMMA ProcessCommitCallAwake ==
  ASSUME WakeupInv, NEW s \in Server, NEW c \in srv[s].outcalls, ProcessCommitCall(s, c)
  PROVE  \A p \in Server : Awake(srv'[p])
<1> DEFINE r == srv[c.to]
<1> DEFINE q == [r EXCEPT !.locks = @ \ LockedBy(c.to, r.accept_batch),
                          !.promised = FALSE, !.accepted = FALSE]
<1> DEFINE done == CommitTransactions(q, c.to, IntraEntries(r.accept_batch), r.accept_num)
<1>1. srv \in [Server -> State] /\ \A p \in Server : Awake(srv[p])
  BY TypeOKState DEF WakeupInv
<1>2. c.type = "COMMIT" /\ r \in State /\ c.to \in Server /\ Awake(r)
  BY <1>1, CallType DEF ProcessCommitCall
<1>3. r.accept_num \in Ballot /\ r.accept_batch \in Seq(Tid)
  BY <1>2 DEF State, ServerState
<1> HIDE DEF r
<1>4. q \in ServerState /\ SameParts(q, r)
  BY <1>2 DEF State, ServerState, SameParts
<1>5. SameRound(q, r)
  BY <1>2 DEF SameRound, Syncing, State, ServerState
<1>6. q \in State
  BY <1>2, <1>4, Untouched
<1> HIDE DEF q
<1>7. done \in State
  BY <1>2, <1>3, <1>6, EntriesType, CommitTransactionsType
<1>8. Awake(done)
  BY <1>2, <1>5, <1>6, CommitTransactionsFrame, SameRoundAwake
<1> HIDE DEF done
<1>9. PICK rp \in State :
        Awake(rp) /\ srv' = [[srv EXCEPT ![c.to] = rp] EXCEPT ![s].outcalls = @ \ {c}]
  <2> DEFINE now == ~r.i_am_disconnected /\ r.promised_num.num = c.req.ballot.num
                      /\ r.accept_num.num = c.req.ballot.num
  <2> DEFINE x == IF now THEN done ELSE r
  <2>1. srv' = [[srv EXCEPT ![c.to] = x] EXCEPT ![s].outcalls = @ \ {c}]
    BY DEF ProcessCommitCall, done, q, r
  <2>2. x \in State /\ Awake(x)
    BY <1>2, <1>7, <1>8
  <2> HIDE DEF x
  <2> QED
    BY <2>1, <2>2
<1> DEFINE mid == [srv EXCEPT ![c.to] = rp]
<1> DEFINE m == [mid[s] EXCEPT !.outcalls = mid[s].outcalls \ {c}]
<1>10. mid \in [Server -> State] /\ \A p \in Server : Awake(mid[p])
  BY <1>1, <1>2, <1>9
<1>11. srv' = [mid EXCEPT ![s] = m]
  BY <1>9
<1> HIDE DEF mid
<1>12. m.outcalls = mid[s].outcalls \ {c}
  BY <1>10 DEF State, ServerState
<1>13. Syncing(mid[s]) => Syncing(m)
  BY <1>2, <1>12 DEF Syncing
<1>14. SameRound(m, mid[s])
  BY <1>10, <1>13 DEF SameRound, State, ServerState
<1> HIDE DEF m
<1> QED
  BY <1>10, <1>11, <1>14, SameRoundAwake

(* processSyncCall leaves every server awake. *)
LEMMA ProcessSyncCallAwake ==
  ASSUME WakeupInv, NEW s \in Server, NEW c \in srv[s].outcalls, ProcessSyncCall(s, c)
  PROVE  \A p \in Server : Awake(srv'[p])
<1> DEFINE r == srv[c.to]
<1>1. srv \in [Server -> State] /\ \A p \in Server : Awake(srv[p])
  BY TypeOKState DEF WakeupInv
<1>2. r \in State /\ Awake(r)
  BY <1>1, CallType
<1> HIDE DEF r
<1>3. \E reply : Answer(s, c, r, reply)
  BY DEF ProcessSyncCall, r
<1> QED
  BY <1>1, <1>2, <1>3, AnswerAwake

(* handlePrepareReply leaves every server awake. *)
LEMMA HandlePrepareReplyAwake ==
  ASSUME WakeupInv, NEW s \in Server, NEW c \in srv[s].outcalls,
         NEW status, HandlePrepareReply(s, c, status)
  PROVE  \A p \in Server : Awake(srv'[p])
<1> DEFINE r    == Close(srv[s], c)
<1> DEFINE mine == /\ c.req.ballot.num = r.promised_num.num
                   /\ c.req.ballot.server_id = s
<1> DEFINE ok     == status = "OK" /\ mine
<1> DEFINE failed == mine /\ \/ status = "OK" /\ ~c.reply.ack
                             \/ status = "DEADLINE_EXCEEDED"
<1> DEFINE stale  == ok /\ c.reply.latest_ballot_num # Unset
<1> DEFINE up   == IF ok /\ c.reply.ack THEN r.prepare_successes + 1 ELSE r.prepare_successes
<1> DEFINE down == IF failed THEN r.prepare_failures + 1 ELSE r.prepare_failures
<1> DEFINE n == [r EXCEPT !.prepare_successes = up, !.prepare_failures = down]
<1> DEFINE n1 == [n EXCEPT !.ballot_num = c.reply.latest_ballot_num]
<1> DEFINE n2 == [n EXCEPT !.await_prepare_decision = FALSE]
<1>1. srv \in [Server -> State] /\ \A p \in Server : Awake(srv[p])
  BY TypeOKState DEF WakeupInv
<1>2. c.type = "PREPARE" /\ c \in OutCall /\ c.to \in Server /\ r \in State
  BY <1>1, CallType, CloseType DEF HandlePrepareReply
<1>3. Awake(r)
  BY <1>1, <1>2, CloseFrame, SameRoundAwake
<1>4. c.reply \in PrepareRes
  BY <1>2 DEF OutCall, Call
<1> HIDE DEF r, mine, ok, failed
<1>5. up \in Nat /\ down \in Nat
  <2>1. r.prepare_successes \in Nat /\ r.prepare_failures \in Nat
    BY <1>2 DEF State, ServerState
  <2>2. r.prepare_successes + 1 \in Nat /\ r.prepare_failures + 1 \in Nat
    BY <2>1
  <2> QED
    BY <2>1, <2>2, Zenon
<1>6. stale => c.reply.latest_ballot_num \in Nat
  BY <1>4 DEF PrepareRes, Unset
<1> HIDE DEF up, down, stale
<1>7. n \in ServerState /\ SameParts(n, r) /\ SameRound(n, r)
  BY <1>2, <1>5 DEF State, ServerState, SameParts, SameRound, Syncing
<1>8. n \in State /\ Awake(n)
  BY <1>2, <1>3, <1>7, Untouched, SameRoundAwake
<1>9. n = [r EXCEPT !.prepare_successes = IF ok /\ c.reply.ack THEN @ + 1 ELSE @,
                    !.prepare_failures  = IF failed THEN @ + 1 ELSE @]
  BY <1>2 DEF up, down, State, ServerState
<1> HIDE DEF n
<1>10. \/ Step(s, r)
       \/ r.await_prepare_decision /\ stale /\ Step(s, ReissuePrepareForCurrent(n1, s))
       \/ Step(s, StartSync(n2, c.to))
       \/ \E K \in Survivors(n, s) : Step(s, OnPrepareQuorum(n, s, K))
       \/ Step(s, OnRoundAbort(n, s, TRUE))
       \/ Step(s, n)
  BY <1>9 DEF HandlePrepareReply, stale, ok, failed, mine, r
<1>11. CASE Step(s, r)
  BY <1>1, <1>3, <1>11, StepAwake
<1>12. CASE r.await_prepare_decision /\ stale /\ Step(s, ReissuePrepareForCurrent(n1, s))
  <2>1. n1 \in ServerState /\ SameParts(n1, n) /\ SameRound(n1, n)
    BY <1>6, <1>8, <1>12 DEF State, ServerState, SameParts, SameRound, Syncing
  <2>2. n1 \in State /\ Awake(n1)
    BY <1>8, <2>1, Untouched, SameRoundAwake
  <2> HIDE DEF n1
  <2>3. Awake(ReissuePrepareForCurrent(n1, s))
    BY <2>2, ReissueAwake DEF Awake, Runs
  <2> QED
    BY <1>1, <1>12, <2>3, StepAwake
<1>13. CASE Step(s, StartSync(n2, c.to))
  <2>1. n2 \in ServerState /\ SameParts(n2, n)
    BY <1>8 DEF State, ServerState, SameParts
  <2>2. n2.is_paxos_running = n.is_paxos_running /\ n2.current = n.current
    BY <1>8 DEF State, ServerState
  <2>3. n2 \in State /\ (n2.is_paxos_running <=> n2.current # <<>>)
    BY <1>8, <2>1, <2>2, Untouched DEF Awake, Runs
  <2> HIDE DEF n2
  <2>4. Awake(StartSync(n2, c.to))
    BY <1>2, <2>3, StartSyncAwake
  <2> QED
    BY <1>1, <1>13, <2>4, StepAwake
<1>14. CASE \E K \in Survivors(n, s) : Step(s, OnPrepareQuorum(n, s, K))
  <2>1. PICK K \in Survivors(n, s) : Step(s, OnPrepareQuorum(n, s, K))
    BY <1>14
  <2>2. K \in SUBSET DOMAIN n.current
    BY DEF Survivors
  <2> QED
    BY <1>1, <1>8, <2>1, <2>2, OnPrepareQuorumAwake, StepAwake
<1>15. CASE Step(s, OnRoundAbort(n, s, TRUE))
  BY <1>1, <1>8, <1>15, OnRoundAbortAwake, StepAwake
<1>16. CASE Step(s, n)
  BY <1>1, <1>8, <1>16, StepAwake
<1> QED
  BY <1>10, <1>11, <1>12, <1>13, <1>14, <1>15, <1>16

(* handleAcceptReply leaves every server awake. *)
LEMMA HandleAcceptReplyAwake ==
  ASSUME WakeupInv, NEW s \in Server, NEW c \in srv[s].outcalls,
         NEW status, HandleAcceptReply(s, c, status)
  PROVE  \A p \in Server : Awake(srv'[p])
<1> DEFINE r    == Close(srv[s], c)
<1> DEFINE mine == /\ c.req.ballot.num = r.accept_num.num
                   /\ c.req.ballot.server_id = s
<1> DEFINE ok     == status = "OK" /\ mine /\ c.reply.ack
<1> DEFINE failed == mine /\ \/ status = "OK" /\ ~c.reply.ack
                             \/ status = "DEADLINE_EXCEEDED"
<1> DEFINE up   == IF ok THEN r.accept_successes + 1 ELSE r.accept_successes
<1> DEFINE down == IF failed THEN r.accept_failures + 1 ELSE r.accept_failures
<1> DEFINE n == [r EXCEPT !.accept_successes = up, !.accept_failures = down]
<1>1. srv \in [Server -> State] /\ \A p \in Server : Awake(srv[p])
  BY TypeOKState DEF WakeupInv
<1>2. c.type = "ACCEPT" /\ r \in State
  BY <1>1, CloseType DEF HandleAcceptReply
<1>3. Awake(r)
  BY <1>1, <1>2, CloseFrame, SameRoundAwake
<1> HIDE DEF r, mine, ok, failed
<1>4. up \in Nat /\ down \in Nat
  <2>1. r.accept_successes \in Nat /\ r.accept_failures \in Nat
    BY <1>2 DEF State, ServerState
  <2>2. r.accept_successes + 1 \in Nat /\ r.accept_failures + 1 \in Nat
    BY <2>1
  <2> QED
    BY <2>1, <2>2, Zenon
<1> HIDE DEF up, down
<1>5. n \in ServerState /\ SameParts(n, r) /\ SameRound(n, r)
  BY <1>2, <1>4 DEF State, ServerState, SameParts, SameRound, Syncing
<1>6. n \in State /\ Awake(n)
  BY <1>2, <1>3, <1>5, Untouched, SameRoundAwake
<1>7. n = [r EXCEPT !.accept_successes = IF ok THEN @ + 1 ELSE @,
                    !.accept_failures  = IF failed THEN @ + 1 ELSE @]
  BY <1>2 DEF up, down, State, ServerState
<1> HIDE DEF n
<1>8. \/ Step(s, r)
      \/ Step(s, OnAcceptQuorum(n, s))
      \/ Step(s, OnRoundAbort(n, s, FALSE))
      \/ Step(s, n)
  BY <1>7 DEF HandleAcceptReply, ok, failed, mine, r
<1>9. Awake(OnAcceptQuorum(n, s)) /\ Awake(OnRoundAbort(n, s, FALSE))
  BY <1>6, OnAcceptQuorumAwake, OnRoundAbortAwake
<1> QED
  BY <1>1, <1>3, <1>6, <1>8, <1>9, StepAwake

(* handleSyncReply ends the sync and wakes the round, if there is one, or  *)
(* the queue: here is_paxos_running has to agree with current_.            *)
LEMMA HandleSyncReplyAwake ==
  ASSUME WakeupInv, NEW s \in Server, NEW c \in srv[s].outcalls,
         NEW status, HandleSyncReply(s, c, status)
  PROVE  \A p \in Server : Awake(srv'[p])
<1> DEFINE r  == Close(srv[s], c)
<1> DEFINE q  == InsertEntries(r, s, c.reply.logs)
<1> DEFINE synced == [q EXCEPT !.ballot_num = c.reply.last_inserted_ballot.num,
                               !.last_inserted = @ + Len(c.reply.logs),
                               !.last_inserted_ballot = c.reply.last_inserted_ballot]
<1> DEFINE m == IF status = "OK" /\ c.reply.ack THEN synced ELSE r
<1> DEFINE n == [m EXCEPT !.in_sync = FALSE]
<1>1. srv \in [Server -> State] /\ \A p \in Server : Awake(srv[p])
  BY TypeOKState DEF WakeupInv
<1>2. c.type = "SYNC" /\ c \in OutCall /\ r \in State
  BY <1>1, CallType, CloseType DEF HandleSyncReply
<1>3. r.is_paxos_running = srv[s].is_paxos_running /\ r.current = srv[s].current
  BY <1>1 DEF Close, State, ServerState
<1>4. r.is_paxos_running <=> r.current # <<>>
  BY <1>1, <1>3 DEF Awake, Runs
<1>5. c.reply \in SyncRes
  BY <1>2 DEF OutCall, Call
<1>6. /\ c.reply.logs \in Seq(WALEntry)
      /\ c.reply.last_inserted_ballot \in Ballot
      /\ c.reply.last_inserted_ballot.num \in Nat
  BY <1>5 DEF SyncRes, Ballot
<1> HIDE DEF r
<1>7. q \in State
  BY <1>2, <1>6, InsertEntriesType
<1>8. SameRound(q, r)
  BY <1>2, InsertEntriesFrame
<1> HIDE DEF q
<1>9. q.last_inserted + Len(c.reply.logs) \in Index
  <2>1. q.last_inserted \in Index
    BY <1>7 DEF State, ServerState
  <2>2. Len(c.reply.logs) \in Nat
    BY <1>6
  <2> QED
    BY <2>1, <2>2, IndexPlus
<1>10. synced \in ServerState /\ SameParts(synced, q)
  BY <1>6, <1>7, <1>9 DEF State, ServerState, SameParts
<1>11. synced.is_paxos_running = q.is_paxos_running /\ synced.current = q.current
  BY <1>7 DEF State, ServerState
<1>12. synced \in State
  BY <1>7, <1>10, Untouched
<1> HIDE DEF synced
<1>13. m \in State /\ m.is_paxos_running = r.is_paxos_running /\ m.current = r.current
  BY <1>2, <1>8, <1>11, <1>12 DEF SameRound
<1> HIDE DEF m
<1>14. n \in ServerState /\ SameParts(n, m)
  BY <1>13 DEF State, ServerState, SameParts
<1>15. n.is_paxos_running = m.is_paxos_running /\ n.current = m.current /\ ~n.in_sync
  BY <1>13 DEF State, ServerState
<1>16. n \in State /\ (n.is_paxos_running <=> n.current # <<>>)
  BY <1>4, <1>13, <1>14, <1>15, Untouched
<1> HIDE DEF n
<1>17. \/ n.current # <<>> /\ Step(s, ReissuePrepareForCurrent(n, s))
       \/ n.current = <<>> /\ Step(s, MaybeStartRound(n, s))
  BY DEF HandleSyncReply, n, m, synced, q, r
<1>18. CASE n.current # <<>> /\ Step(s, ReissuePrepareForCurrent(n, s))
  <2>1. Awake(ReissuePrepareForCurrent(n, s))
    BY <1>15, <1>16, <1>18, ReissueAwake
  <2> QED
    BY <1>1, <1>18, <2>1, StepAwake
<1>19. CASE n.current = <<>> /\ Step(s, MaybeStartRound(n, s))
  <2>1. Runs(n)
    BY <1>15, <1>16, <1>19 DEF Runs
  <2>2. Awake(MaybeStartRound(n, s))
    BY <1>16, <2>1, MaybeStartRoundAwake
  <2> QED
    BY <1>1, <1>19, <2>2, StepAwake
<1> QED
  BY <1>17, <1>18, <1>19

(* A server without a round, a queue or a sync is awake. *)
LEMMA InitStateAwake ==
  ASSUME NEW s \in Server
  PROVE  Awake(InitState(s))
<1>1. LET r == InitState(s) IN
      r.pending = <<>> /\ r.current = <<>> /\ ~r.is_paxos_running /\ ~r.in_sync
  BY DEF InitState
<1> QED
  BY <1>1 DEF Awake, Runs

(* A restart forgets the round, the queue and the sync. *)
LEMMA RestartAwake ==
  ASSUME WakeupInv, NEW s \in Server, Restart(s)
  PROVE  \A p \in Server : Awake(srv'[p])
<1> DEFINE r     == srv[s]
<1> DEFINE num   == Max({r.ballot_num} \cup {r.log[i].ballot.num : i \in DOMAIN r.log})
<1> DEFINE last  == IF r.log = <<>> THEN NoBallot ELSE r.log[Len(r.log)].ballot
<1> DEFINE count == Cardinality(PaxosPositions(r.log)) - 1
<1> DEFINE calls == {[c EXCEPT !.open = FALSE] : c \in {d \in r.outcalls : ~d.handled}}
<1> DEFINE in    == [t \in Tid |-> IF r.incall[t] = "parked" THEN "lost" ELSE r.incall[t]]
<1> DEFINE q == [InitState(s) EXCEPT
                   !.log = r.log, !.balances = r.balances, !.ballot_num = num,
                   !.transferIndex = RecoveredIndex(r.log),
                   !.last_inserted = Len(r.log) - 1,
                   !.last_inserted_ballot = last, !.paxos_index = count,
                   !.outcalls = calls, !.incall = in]
<1>1. srv \in [Server -> State] /\ \A p \in Server : Awake(srv[p])
  BY TypeOKState DEF WakeupInv
<1>2. Step(s, q)
  BY DEF Restart
<1> HIDE DEF r, num, last, count, calls, in
<1>3. q.pending = <<>> /\ q.current = <<>> /\ ~q.is_paxos_running /\ ~q.in_sync
  BY DEF InitState
<1>4. Awake(q)
  BY <1>3 DEF Awake, Runs
<1> HIDE DEF q
<1> QED
  BY <1>1, <1>2, <1>4, StepAwake

(* Disconnecting a server leaves its round alone. *)
LEMMA ProcessDisconnectCallAwake ==
  ASSUME WakeupInv, NEW s \in Server, NEW b \in BOOLEAN, ProcessDisconnectCall(s, b)
  PROVE  \A p \in Server : Awake(srv'[p])
<1> DEFINE r == srv[s]
<1> DEFINE q == [r EXCEPT !.i_am_disconnected = b]
<1>1. srv \in [Server -> State] /\ r \in State /\ \A p \in Server : Awake(srv[p])
  BY TypeOKState DEF WakeupInv
<1>2. Step(s, q) /\ Awake(r)
  BY <1>1 DEF ProcessDisconnectCall
<1> HIDE DEF r
<1>3. SameRound(q, r)
  BY <1>1 DEF SameRound, Syncing, State, ServerState
<1> HIDE DEF q
<1> QED
  BY <1>1, <1>2, <1>3, SameRoundAwake, StepAwake

(* Every step keeps every server awake, one case per action. *)
LEMMA WakeupNext ==
  ASSUME WakeupInv, [Next]_vars
  PROVE  WakeupInv'
<1>0. TypeOK'
  BY NextType DEF WakeupInv
<1> DEFINE AllAwake == \A p \in Server : Awake(srv'[p])
<1>1. ASSUME NEW s \in Server, NEW t \in Tid, EnqueueClientTxn(s, t)
      PROVE  AllAwake
  BY <1>1, EnqueueClientTxnAwake
<1>2. ASSUME NEW s \in Server, NEW t \in Tid, ProcessTpcDecision(s, t)
      PROVE  AllAwake
  BY <1>2, ProcessTpcDecisionAwake
<1>3. ASSUME NEW s \in Server, NEW t \in Tid, LockTimeout(s, t)
      PROVE  AllAwake
  BY <1>3, LockTimeoutAwake
<1>4. ASSUME NEW t \in Tid, NEW d \in {"commit", "abort"}, ClientDecide(t, d)
      PROVE  AllAwake
  BY <1>4 DEF ClientDecide, WakeupInv
<1>5. ASSUME NEW s \in Server, NEW c \in srv[s].outcalls, ProcessCall(s, c)
      PROVE  AllAwake
  BY <1>5, ProcessPrepareCallAwake, ProcessAcceptCallAwake,
     ProcessCommitCallAwake, ProcessSyncCallAwake DEF ProcessCall
<1>6. ASSUME NEW s \in Server, NEW c \in srv[s].outcalls, NEW status,
             HandleRPCResponse(s, c, status)
      PROVE  AllAwake
  BY <1>6, HandlePrepareReplyAwake, HandleAcceptReplyAwake,
     HandleSyncReplyAwake DEF HandleRPCResponse
<1>7. ASSUME NEW s \in Server, NEW b \in BOOLEAN, ProcessDisconnectCall(s, b)
      PROVE  AllAwake
  BY <1>7, ProcessDisconnectCallAwake
<1>8. ASSUME NEW s \in Server, Restart(s)
      PROVE  AllAwake
  BY <1>8, RestartAwake
<1>9. ASSUME UNCHANGED vars
      PROVE  AllAwake
  BY <1>9 DEF vars, WakeupInv
<1> HIDE DEF AllAwake
<1>10. AllAwake
  BY <1>1, <1>2, <1>3, <1>4, <1>5, <1>6, <1>7, <1>8, <1>9 DEF Next
<1> QED
  BY <1>0, <1>10 DEF WakeupInv, AllAwake, Awake, Runs, Syncing

(* In every reachable state of every instance a queued command is behind a *)
(* round or a sync, a running round waits in one of its phases or for a    *)
(* sync, and a sync has its call open: the early returns of                *)
(* maybeStartRound never lose a wakeup, whatever the order of replies,     *)
(* deadlines, syncs, disconnections and restarts.                          *)
THEOREM NoLostWakeupHolds == Spec => []NoLostWakeup
<1>1. Init => WakeupInv
  <2>1. ASSUME Init PROVE \A s \in Server : Awake(srv[s])
    BY <2>1, InitStateAwake DEF Init
  <2> QED
    BY <2>1, InitType DEF WakeupInv
<1>2. WakeupInv /\ [Next]_vars => WakeupInv'
  BY WakeupNext
<1>3. WakeupInv => NoLostWakeup
  BY DEF WakeupInv, NoLostWakeup, Awake, Runs, Syncing
<1> QED
  BY <1>1, <1>2, <1>3, PTL DEF Spec
-----------------------------------------------------------------------------
(***************************************************************************)
(* What a waiting round can still count on.  The votes counted and the     *)
(* calls that are open add up to the cluster as long as every call that is *)
(* done is counted: no call fails as UNAVAILABLE, which is counted         *)
(* nowhere, and no other leader of the cluster replaces promised_num or    *)
(* accept_num under the round.                                             *)
(***************************************************************************)

(* The calls of a phase that are still to be answered. *)
Open(r, type, b) == {c \in r.outcalls : c.open /\ c.type = type /\ c.req.ballot = b}

(* The same request to the same peer, by its copy. *)
SameCall(c, d) == c.type = d.type /\ c.to = d.to /\ c.req = d.req /\ c.copy = d.copy

(* Calls differ by their copies, and only leaders propose, to their peers. *)
CallsOK(r, s) ==
  /\ \A c, d \in r.outcalls : SameCall(c, d) => c = d
  /\ \A c \in r.outcalls :
       c.type \in {"PREPARE", "ACCEPT"} => s \in Leaders /\ c.to \in Stubs(s)

(* A server that leads nothing. *)
Follows(r) ==
  /\ r.pending = <<>> /\ r.current = <<>>
  /\ ~r.await_prepare_decision /\ ~r.await_accept_decision

(* A round that waits for promises waits for its own, and enough of them   *)
(* are counted or to come.                                                 *)
PrepareCounted(r, s) ==
  r.await_prepare_decision =>
    /\ r.promised_num.server_id = s
    /\ r.prepare_successes + r.prepare_failures
         + Cardinality(Open(r, "PREPARE", r.promised_num)) >= Cardinality(Stubs(s)) + 1

(* The same of a round that waits for acceptances. *)
AcceptCounted(r, s) ==
  r.await_accept_decision =>
    /\ r.accept_num.server_id = s
    /\ r.accept_successes + r.accept_failures
         + Cardinality(Open(r, "ACCEPT", r.accept_num)) >= Cardinality(Stubs(s)) + 1

Counted(r, s) ==
  /\ CallsOK(r, s)
  /\ s \notin Leaders => Follows(r)
  /\ PrepareCounted(r, s)
  /\ AcceptCounted(r, s)

(* No call fails as UNAVAILABLE. *)
NoneUnavailable == budget["UNAVAILABLE"] = 0

VotesInv == TypeOK /\ NoneUnavailable /\ \A s \in Server : Counted(srv[s], s)

(* Two states that agree on all of this. *)
SameVotes(q, r) ==
  /\ q.outcalls = r.outcalls /\ q.pending = r.pending /\ q.current = r.current
  /\ q.await_prepare_decision = r.await_prepare_decision
  /\ q.await_accept_decision = r.await_accept_decision
  /\ q.promised_num = r.promised_num /\ q.accept_num = r.accept_num
  /\ q.prepare_successes = r.prepare_successes /\ q.prepare_failures = r.prepare_failures
  /\ q.accept_successes = r.accept_successes /\ q.accept_failures = r.accept_failures

(* A step that leaves the votes alone keeps the count. *)
LEMMA SameVotesCounted ==
  ASSUME NEW q, NEW r, NEW s, SameVotes(q, r), Counted(r, s)
  PROVE  Counted(q, s)
  BY DEF SameVotes, Counted, CallsOK, Follows, PrepareCounted, AcceptCounted, Open

(* Agreement on the votes is transitive. *)
LEMMA SameVotesTrans ==
  ASSUME NEW p, NEW q, NEW r, SameVotes(p, q), SameVotes(q, r)
  PROVE  SameVotes(p, r)
  BY DEF SameVotes

(* Answering clients leaves the votes alone. *)
LEMMA CompleteTransferVotes ==
  ASSUME NEW r \in State, NEW batch, NEW answer
  PROVE  SameVotes(CompleteTransfer(r, batch, answer), r)
<1> DEFINE incall == CompleteTransfer(r, batch, answer).incall
<1> DEFINE q == [r EXCEPT !.incall = incall]
<1>1. CompleteTransfer(r, batch, answer) = q
  BY DEF CompleteTransfer, State, ServerState
<1> HIDE DEF incall
<1>2. SameVotes(q, r)
  BY DEF SameVotes, State, ServerState
<1> QED
  BY <1>1, <1>2

(* So does logging 2PC prepares. *)
LEMMA PrepareTransactionsVotes ==
  ASSUME NEW r \in State, NEW ts, NEW b
  PROVE  SameVotes(PrepareTransactions(r, ts, b), r)
<1>1. CASE ts = <<>>
  BY <1>1 DEF PrepareTransactions, SameVotes
<1>2. CASE ts # <<>>
  BY <1>2 DEF PrepareTransactions, SameVotes, State, ServerState
<1> QED
  BY <1>1, <1>2

(* So does committing a batch. *)
LEMMA CommitTransactionsVotes ==
  ASSUME NEW r \in State, NEW s, NEW ts, NEW b
  PROVE  SameVotes(CommitTransactions(r, s, ts, b), r)
<1> DEFINE new == Select(ts, {i \in DOMAIN ts : ts[i] \notin r.balance_applied})
<1>1. CASE new = <<>>
  BY <1>1 DEF CommitTransactions, SameVotes
<1>2. CASE new # <<>>
  BY <1>2 DEF CommitTransactions, SameVotes, State, ServerState
<1> QED
  BY <1>1, <1>2

(* So does applying the entries of a sync. *)
LEMMA InsertEntriesVotes ==
  ASSUME NEW r \in State, NEW s, NEW logs
  PROVE  SameVotes(InsertEntries(r, s, logs), r)
  BY DEF InsertEntries, SameVotes, State, ServerState

(* So does forgetting the timestamp of t, with or without closing t. *)
LEMMA ClosingVotes ==
  ASSUME NEW r \in State, NEW s \in Server, NEW t \in Tid, NEW st
  PROVE  LET r1 == [r EXCEPT !.prepareTimestamps = @ \ {t}] IN
         /\ SameVotes(r1, r)
         /\ SameVotes(CloseTransaction(r1, s, t, st), r)
<1> DEFINE r1 == [r EXCEPT !.prepareTimestamps = @ \ {t}]
<1>1. r1 \in ServerState
  BY DEF State, ServerState
<1>2. SameVotes(r1, r)
  BY DEF SameVotes, State, ServerState
<1> HIDE DEF r1
<1>3. SameVotes(CloseTransaction(r1, s, t, st), r1)
  BY <1>1 DEF CloseTransaction, SameVotes, ServerState
<1> QED
  BY <1>2, <1>3, SameVotesTrans DEF r1

(* A set of open calls is finite. *)
LEMMA OpenFinite ==
  ASSUME NEW r \in State, NEW type, NEW b
  PROVE  IsFiniteSet(Open(r, type, b)) /\ Cardinality(Open(r, type, b)) \in Nat
<1>1. Open(r, type, b) \subseteq r.outcalls
  BY DEF Open
<1>2. IsFiniteSet(r.outcalls)
  BY DEF State, Sound
<1> QED
  BY <1>1, <1>2, FS_Subset, FS_CardinalityType

(* What a new call looks like. *)
LEMMA NewCallIs ==
  ASSUME NEW r \in State, NEW type, NEW p, NEW req
  PROVE  /\ NewCall(r, type, p, req).type = type /\ NewCall(r, type, p, req).to = p
         /\ NewCall(r, type, p, req).req = req
         /\ type # "COMMIT" => NewCall(r, type, p, req).open
         /\ \A c \in r.outcalls : ~SameCall(c, NewCall(r, type, p, req))
<1> DEFINE same == {c \in r.outcalls : c.type = type /\ c.to = p /\ c.req = req}
<1> DEFINE copy == CHOOSE n \in 0..Cardinality(same) : \A c \in same : c.copy # n
<1> DEFINE new == [type |-> type, to |-> p, req |-> req, copy |-> copy,
                   open |-> type # "COMMIT", handled |-> FALSE, reply |-> NoReply(type)]
<1>1. IsFiniteSet(r.outcalls) /\ same \subseteq r.outcalls
  BY DEF State, Sound
<1>2. IsFiniteSet(same)
  BY <1>1, FS_Subset
<1>3. \A c \in same : c.copy # copy
  <2>1. \E n \in 0..Cardinality(same) : \A c \in same : c.copy # n
    BY <1>2, NewCallCopy
  <2> QED
    BY <2>1
<1>4. NewCall(r, type, p, req) = new
  BY DEF NewCall
<1> HIDE DEF copy
<1>5. new.type = type /\ new.to = p /\ new.req = req /\ new.copy = copy /\ (type # "COMMIT" => new.open)
  OBVIOUS
<1> HIDE DEF new
<1>6. \A c \in r.outcalls : ~SameCall(c, new)
  BY <1>3, <1>5 DEF SameCall
<1> QED
  BY <1>4, <1>5, <1>6

(* Sending keeps the calls apart and closes none. *)
LEMMA SendCalls ==
  ASSUME NEW r \in State, NEW s \in Server, NEW type, NEW peers \in SUBSET Server, NEW req,
         CallsOK(r, s),
         type \in {"PREPARE", "ACCEPT"} => s \in Leaders /\ peers \subseteq Stubs(s)
  PROVE  LET q == Send(r, type, peers, req) IN
         /\ CallsOK(q, s)
         /\ \A ty, b : Open(r, ty, b) \subseteq Open(q, ty, b)
<1> DEFINE new == {NewCall(r, type, p, req) : p \in peers}
<1> DEFINE q == Send(r, type, peers, req)
<1>1. q.outcalls = r.outcalls \cup new
  BY DEF Send, State, ServerState
<1>2. \A p \in peers :
        LET c == NewCall(r, type, p, req) IN
        /\ c.type = type /\ c.to = p /\ \A d \in r.outcalls : ~SameCall(d, c)
  BY NewCallIs
<1>3. \A c \in new : \E p \in peers : c = NewCall(r, type, p, req)
  OBVIOUS
<1>4. \A c \in new : c.type = type /\ c.to \in peers /\ c = NewCall(r, type, c.to, req)
                     /\ \A d \in r.outcalls : ~SameCall(d, c)
  BY <1>2, <1>3
<1> HIDE DEF new, q
<1>5. \A c, d \in new : SameCall(c, d) => c = d
  BY <1>4 DEF SameCall
<1>6. \A c \in new, d \in r.outcalls : ~SameCall(c, d) /\ ~SameCall(d, c)
  BY <1>4 DEF SameCall
<1>7. \A c, d \in q.outcalls : SameCall(c, d) => c = d
  BY <1>1, <1>5, <1>6 DEF CallsOK
<1>8. \A c \in q.outcalls :
        c.type \in {"PREPARE", "ACCEPT"} => s \in Leaders /\ c.to \in Stubs(s)
  BY <1>1, <1>4 DEF CallsOK
<1>9. \A ty, b : Open(r, ty, b) \subseteq Open(q, ty, b)
  BY <1>1 DEF Open
<1> QED
  BY <1>7, <1>8, <1>9 DEF CallsOK, q

(* A proposal is out to every peer. *)
LEMMA SendOpens ==
  ASSUME NEW r \in State, NEW s \in Server, NEW type \in {"PREPARE", "ACCEPT"}, NEW req,
         Fits(type, req)
  PROVE  Cardinality(Open(Send(r, type, Stubs(s), req), type, req.ballot))
           >= Cardinality(Stubs(s))
<1> DEFINE F(p) == NewCall(r, type, p, req)
<1> DEFINE new == {F(p) : p \in Stubs(s)}
<1> DEFINE q == Send(r, type, Stubs(s), req)
<1> DEFINE f == [p \in Stubs(s) |-> F(p)]
<1>1. q \in State /\ Stubs(s) \subseteq Server
  BY SendType DEF Stubs
<1>2. q.outcalls = r.outcalls \cup new
  BY DEF Send, State, ServerState
<1>3. \A p \in Stubs(s) : F(p).type = type /\ F(p).to = p /\ F(p).req = req /\ F(p).open
  <2>1. type # "COMMIT"
    OBVIOUS
  <2> QED
    BY <2>1, NewCallIs
<1> HIDE DEF F, q
<1>4. new \subseteq Open(q, type, req.ballot)
  BY <1>2, <1>3 DEF Open
<1>5. f \in Bijection(Stubs(s), new)
  <2>1. f \in [Stubs(s) -> new]
    OBVIOUS
  <2>2. \A a, b \in Stubs(s) : f[a] = f[b] => a = b
    BY <1>3
  <2>3. \A c \in new : \E p \in Stubs(s) : f[p] = c
    OBVIOUS
  <2> HIDE DEF f, new
  <2> QED
    BY <2>1, <2>2, <2>3 DEF Bijection, Injection, Surjection, IsInjective
<1>6. IsFiniteSet(Stubs(s))
  BY <1>1, TypesAssumption, FS_Subset
<1> HIDE DEF f, new
<1>7. Cardinality(new) = Cardinality(Stubs(s))
  <2>1. ExistsBijection(Stubs(s), new)
    BY <1>5 DEF ExistsBijection
  <2> QED
    BY <1>6, <2>1, FS_Bijection
<1>8. IsFiniteSet(Open(q, type, req.ballot))
  BY <1>1, OpenFinite
<1>9. Cardinality(new) <= Cardinality(Open(q, type, req.ballot))
  BY <1>4, <1>8, FS_Subset
<1>10. /\ Cardinality(Open(q, type, req.ballot)) \in Nat
       /\ Cardinality(Stubs(s)) \in Nat
  BY <1>6, <1>8, FS_CardinalityType
<1> QED
  BY <1>7, <1>9, <1>10 DEF q

(* A cluster is finite. *)
LEMMA StubsFinite ==
  ASSUME NEW s \in Server
  PROVE  IsFiniteSet(Stubs(s)) /\ Cardinality(Stubs(s)) \in Nat
<1>1. Stubs(s) \subseteq Server
  BY DEF Stubs
<1> QED
  BY <1>1, TypesAssumption, FS_Subset, FS_CardinalityType

(* A Sync leaves the proposals out. *)
LEMMA StartSyncCounted ==
  ASSUME NEW r \in State, NEW s \in Server, NEW p \in Server, Counted(r, s)
  PROVE  Counted(StartSync(r, p), s)
<1> DEFINE q == [r EXCEPT !.in_sync = TRUE]
<1> DEFINE req == [last_inserted |-> r.last_inserted]
<1> DEFINE n == Send(q, "SYNC", {p}, req)
<1>1. q \in ServerState /\ SameParts(q, r) /\ SameVotes(q, r)
  BY DEF State, ServerState, SameParts, SameVotes
<1>2. q \in State /\ Counted(q, s)
  BY <1>1, Untouched, SameVotesCounted
<1>3. Fits("SYNC", req)
  BY DEF Fits, SyncReq, State, ServerState
<1>4. StartSync(r, p) = n
  BY DEF StartSync
<1> HIDE DEF q, req
<1>5. n \in State
  BY <1>2, <1>3, SendType
<1>6. CallsOK(n, s) /\ \A ty, b : Open(q, ty, b) \subseteq Open(n, ty, b)
  BY <1>2, SendCalls DEF Counted
<1>7. /\ n.pending = q.pending /\ n.current = q.current
      /\ n.await_prepare_decision = q.await_prepare_decision
      /\ n.await_accept_decision = q.await_accept_decision
      /\ n.promised_num = q.promised_num /\ n.accept_num = q.accept_num
      /\ n.prepare_successes = q.prepare_successes /\ n.prepare_failures = q.prepare_failures
      /\ n.accept_successes = q.accept_successes /\ n.accept_failures = q.accept_failures
  BY <1>2 DEF Send, State, ServerState
<1> HIDE DEF n
<1>8. \A ty, b : /\ Cardinality(Open(q, ty, b)) <= Cardinality(Open(n, ty, b))
                 /\ Cardinality(Open(q, ty, b)) \in Nat /\ Cardinality(Open(n, ty, b)) \in Nat
  BY <1>2, <1>5, <1>6, OpenFinite, FS_Subset
<1>9. /\ q.prepare_successes + q.prepare_failures \in Nat
      /\ q.accept_successes + q.accept_failures \in Nat
  <2>1. /\ q.prepare_successes \in Nat /\ q.prepare_failures \in Nat
        /\ q.accept_successes \in Nat /\ q.accept_failures \in Nat
    BY <1>2 DEF State, ServerState
  <2> QED
    BY <2>1
<1>10. Cardinality(Stubs(s)) \in Nat
  BY StubsFinite
<1>11. PrepareCounted(n, s)
  <2>1. SUFFICES ASSUME n.await_prepare_decision
                 PROVE  /\ n.promised_num.server_id = s
                        /\ n.prepare_successes + n.prepare_failures
                             + Cardinality(Open(n, "PREPARE", n.promised_num))
                             >= Cardinality(Stubs(s)) + 1
    BY DEF PrepareCounted
  <2>2. /\ q.promised_num.server_id = s
        /\ q.prepare_successes + q.prepare_failures
             + Cardinality(Open(q, "PREPARE", q.promised_num)) >= Cardinality(Stubs(s)) + 1
    BY <1>2, <1>7, <2>1 DEF Counted, PrepareCounted
  <2> QED
    BY <1>7, <1>8, <1>9, <1>10, <2>2
<1>12. AcceptCounted(n, s)
  <2>1. SUFFICES ASSUME n.await_accept_decision
                 PROVE  /\ n.accept_num.server_id = s
                        /\ n.accept_successes + n.accept_failures
                             + Cardinality(Open(n, "ACCEPT", n.accept_num))
                             >= Cardinality(Stubs(s)) + 1
    BY DEF AcceptCounted
  <2>2. /\ q.accept_num.server_id = s
        /\ q.accept_successes + q.accept_failures
             + Cardinality(Open(q, "ACCEPT", q.accept_num)) >= Cardinality(Stubs(s)) + 1
    BY <1>2, <1>7, <2>1 DEF Counted, AcceptCounted
  <2> QED
    BY <1>7, <1>8, <1>9, <1>10, <2>2
<1>13. s \notin Leaders => Follows(n)
  BY <1>2, <1>7 DEF Counted, Follows
<1> QED
  BY <1>4, <1>6, <1>11, <1>12, <1>13 DEF Counted

(* A new Prepare counts the leader itself and is out to all its peers. *)
LEMMA ReissueCounted ==
  ASSUME NEW r \in State, NEW s \in Server, s \in Leaders, CallsOK(r, s)
  PROVE  Counted(ReissuePrepareForCurrent(r, s), s)
<1> DEFINE b == [num |-> r.ballot_num + 1, server_id |-> s]
<1> DEFINE q == [r EXCEPT !.ballot_num = b.num, !.promised = TRUE, !.promised_num = b,
                          !.await_prepare_decision = TRUE,
                          !.await_accept_decision = FALSE,
                          !.prepare_successes = 1, !.prepare_failures = 0]
<1> DEFINE req == [ballot |-> b, paxos_index |-> r.paxos_index]
<1> DEFINE n == Send(q, "PREPARE", Stubs(s), req)
<1>1. b \in Ballot /\ b.num \in Nat /\ b.server_id = s /\ b \in Proposal
  BY DEF Ballot, Proposal, State, ServerState
<1>2. ReissuePrepareForCurrent(r, s) = n
  BY DEF ReissuePrepareForCurrent
<1> HIDE DEF b
<1>3. q \in ServerState /\ SameParts(q, r)
  BY <1>1 DEF State, ServerState, SameParts
<1>4. q \in State /\ CallsOK(q, s)
  BY <1>3, Untouched DEF CallsOK, SameParts
<1>5. Fits("PREPARE", req) /\ req.ballot = b
  BY <1>1 DEF Fits, PrepareReq, State, ServerState
<1>6. /\ n.promised_num = b /\ ~n.await_accept_decision
      /\ n.prepare_successes = 1 /\ n.prepare_failures = 0
  BY DEF Send, State, ServerState
<1> HIDE DEF q, req
<1>7. n \in State /\ CallsOK(n, s)
  BY <1>4, <1>5, SendType, SendCalls DEF Stubs
<1>8. Cardinality(Open(n, "PREPARE", b)) >= Cardinality(Stubs(s))
  BY <1>4, <1>5, SendOpens
<1> HIDE DEF n
<1>9. Cardinality(Open(n, "PREPARE", b)) \in Nat /\ Cardinality(Stubs(s)) \in Nat
  BY <1>7, OpenFinite, StubsFinite
<1>10. 1 + 0 + Cardinality(Open(n, "PREPARE", b)) >= Cardinality(Stubs(s)) + 1
  BY <1>8, <1>9
<1>11. PrepareCounted(n, s) /\ AcceptCounted(n, s)
  BY <1>1, <1>6, <1>10 DEF PrepareCounted, AcceptCounted
<1> QED
  BY <1>2, <1>7, <1>11 DEF Counted

(* maybeStartRound finds a queue on a leader only. *)
LEMMA MaybeStartRoundCounted ==
  ASSUME NEW r \in State, NEW s \in Server, Counted(r, s)
  PROVE  Counted(MaybeStartRound(r, s), s)
<1> DEFINE q == [r EXCEPT !.current = r.pending, !.pending = <<>>, !.is_paxos_running = TRUE]
<1>1. CASE r.is_paxos_running \/ r.in_sync \/ r.pending = <<>>
  BY <1>1 DEF MaybeStartRound
<1>2. CASE ~(r.is_paxos_running \/ r.in_sync \/ r.pending = <<>>)
  <2>1. <<>> \in Seq(Tid)
    OBVIOUS
  <2>2. q \in ServerState /\ SameParts(q, r)
    BY <2>1 DEF State, ServerState, SameParts
  <2>3. q \in State /\ CallsOK(q, s)
    BY <2>2, Untouched DEF Counted, CallsOK, SameParts
  <2>4. s \in Leaders
    BY <1>2 DEF Counted, Follows
  <2>5. MaybeStartRound(r, s) = ReissuePrepareForCurrent(q, s)
    BY <1>2 DEF MaybeStartRound, StartRound
  <2> HIDE DEF q
  <2> QED
    BY <2>3, <2>4, <2>5, ReissueCounted
<1> QED
  BY <1>1, <1>2

(* finishRound waits for nothing, or starts over. *)
LEMMA FinishRoundCounted ==
  ASSUME NEW r \in State, NEW s \in Server, CallsOK(r, s),
         s \notin Leaders => r.pending = <<>>
  PROVE  Counted(FinishRound(r, s), s)
<1> DEFINE q == [r EXCEPT !.is_paxos_running = FALSE, !.promised = FALSE,
                          !.accepted = FALSE, !.await_prepare_decision = FALSE,
                          !.await_accept_decision = FALSE,
                          !.current = <<>>, !.accept_batch = <<>>]
<1>1. <<>> \in Seq(Tid)
  OBVIOUS
<1>2. q \in ServerState /\ SameParts(q, r)
  <2>1. r \in ServerState
    BY DEF State
  <2>2. q \in ServerState
    BY ONLY <1>1, <2>1 DEF ServerState
  <2> QED
    BY <2>1, <2>2 DEF SameParts, ServerState
<1>3. q \in State /\ CallsOK(q, s)
  BY <1>2, Untouched DEF CallsOK, SameParts
<1>4. /\ q.current = <<>> /\ q.pending = r.pending
      /\ ~q.await_prepare_decision /\ ~q.await_accept_decision
  BY DEF State, ServerState
<1> HIDE DEF q
<1>5. Counted(q, s)
  BY <1>3, <1>4 DEF Counted, Follows, PrepareCounted, AcceptCounted
<1>6. Counted(MaybeStartRound(q, s), s)
  BY <1>3, <1>5, MaybeStartRoundCounted
<1> QED
  BY <1>6 DEF FinishRound, q

(* Validating a batch ends the round or sends the survivors to all peers   *)
(* under the ballot that was promised.                                     *)
LEMMA OnPrepareQuorumCounted ==
  ASSUME NEW r \in State, NEW s \in Server, NEW K \in SUBSET DOMAIN r.current,
         Counted(r, s), r.await_prepare_decision
  PROVE  Counted(OnPrepareQuorum(r, s, K), s)
<1> DEFINE kept     == Select(r.current, K)
<1> DEFINE dropped  == Select(r.current, DOMAIN r.current \ K)
<1> DEFINE prepared == Select(r.current, {i \in K : IsCrossShard(r.current[i])})
<1> DEFINE locks    == r.locks \cup UNION {LocalAccounts(s, r.current[i]) : i \in K}
<1> DEFINE q == [r EXCEPT !.await_prepare_decision = FALSE, !.locks = locks, !.current = kept]
<1> DEFINE told == CompleteTransfer(q, dropped, "nack")
<1> DEFINE checked == PrepareTransactions(told, prepared, r.promised_num)
<1> DEFINE sent == [checked EXCEPT !.accepted = TRUE, !.accept_num = r.promised_num,
                                   !.accept_batch = kept, !.await_accept_decision = TRUE,
                                   !.accept_successes = 1, !.accept_failures = 0]
<1> DEFINE req == [ballot |-> r.promised_num, batch |-> kept]
<1> DEFINE n == Send(sent, "ACCEPT", Stubs(s), req)
<1>1. r.current \in Seq(Tid) /\ r.promised_num \in Ballot
  BY DEF State, ServerState
<1>2. kept \in Seq(Tid) /\ prepared \in Seq(Tid)
  BY <1>1, SelectProperties
<1>3. locks \in SUBSET Account
  <2>1. \A i \in K : LocalAccounts(s, r.current[i]) \in SUBSET Account
    BY <1>1, TypesAssumption DEF LocalAccounts
  <2> QED
    BY <2>1 DEF State, ServerState
<1>4. s \in Leaders /\ r.promised_num.server_id = s
  BY DEF Counted, Follows, PrepareCounted
<1> HIDE DEF kept, prepared, locks, dropped
<1>5. q \in ServerState /\ SameParts(q, r) /\ ~q.await_prepare_decision
  BY <1>2, <1>3 DEF State, ServerState, SameParts
<1>6. q \in State /\ CallsOK(q, s)
  BY <1>5, Untouched DEF Counted, CallsOK, SameParts
<1> HIDE DEF q
<1>7. told \in State /\ SameVotes(told, q)
  BY <1>6, CompleteTransferType, CompleteTransferVotes DEF InCallStatus
<1> HIDE DEF told
<1>8. checked \in State /\ SameVotes(checked, q)
  BY <1>1, <1>2, <1>7, PrepareTransactionsType, PrepareTransactionsVotes, SameVotesTrans
<1> HIDE DEF checked
<1>9. CallsOK(checked, s) /\ ~checked.await_prepare_decision
  BY <1>5, <1>6, <1>8 DEF SameVotes, CallsOK
<1>10. CASE K = {}
  <2>1. Counted(FinishRound(checked, s), s)
    BY <1>4, <1>8, <1>9, FinishRoundCounted
  <2> QED
    BY <1>10, <2>1 DEF OnPrepareQuorum, checked, told, q, kept, prepared, locks, dropped
<1>11. CASE K # {}
  <2>1. sent \in ServerState /\ SameParts(sent, checked)
    BY <1>1, <1>2, <1>8 DEF State, ServerState, SameParts
  <2>2. sent \in State /\ CallsOK(sent, s)
    BY <1>8, <1>9, <2>1, Untouched DEF CallsOK, SameParts
  <2>3. Fits("ACCEPT", req) /\ req.ballot = r.promised_num
    BY <1>1, <1>2 DEF Fits, AcceptReq
  <2>4. /\ n.accept_num = r.promised_num /\ ~n.await_prepare_decision
        /\ n.accept_successes = 1 /\ n.accept_failures = 0
    BY <1>8, <1>9 DEF Send, State, ServerState
  <2> HIDE DEF sent, req
  <2>5. n \in State /\ CallsOK(n, s)
    BY <1>4, <2>2, <2>3, SendType, SendCalls DEF Stubs
  <2>6. Cardinality(Open(n, "ACCEPT", r.promised_num)) >= Cardinality(Stubs(s))
    BY <2>2, <2>3, SendOpens
  <2> HIDE DEF n
  <2>7. /\ Cardinality(Open(n, "ACCEPT", r.promised_num)) \in Nat
        /\ Cardinality(Stubs(s)) \in Nat
    BY <2>5, OpenFinite, StubsFinite
  <2>8. 1 + 0 + Cardinality(Open(n, "ACCEPT", r.promised_num)) >= Cardinality(Stubs(s)) + 1
    BY <2>6, <2>7
  <2>9. PrepareCounted(n, s) /\ AcceptCounted(n, s)
    BY <1>4, <2>4, <2>8 DEF PrepareCounted, AcceptCounted
  <2>10. Counted(n, s)
    BY <1>4, <2>5, <2>9 DEF Counted
  <2> QED
    BY <1>11, <2>10 DEF OnPrepareQuorum, n, req, sent, checked, told, q, kept, prepared, locks, dropped
<1> QED
  BY <1>10, <1>11

(* An accept quorum ends the round. *)
LEMMA OnAcceptQuorumCounted ==
  ASSUME NEW r \in State, NEW s \in Server, Counted(r, s)
  PROVE  Counted(OnAcceptQuorum(r, s), s)
<1> DEFINE intra == IntraEntries(r.current)
<1> DEFINE q     == [r EXCEPT !.await_accept_decision = FALSE]
<1> DEFINE sent  == Send(q, "COMMIT", Stubs(s), [ballot |-> r.accept_num])
<1> DEFINE free  == [sent EXCEPT !.locks = @ \ LockedBy(s, intra)]
<1> DEFINE done  == CommitTransactions(free, s, intra, r.accept_num)
<1> DEFINE told  == CompleteTransfer(done, r.current, "ack")
<1>1. r.current \in Seq(Tid) /\ r.accept_num \in Ballot
  BY DEF State, ServerState
<1>2. intra \in Seq(Tid)
  BY <1>1, EntriesType
<1> HIDE DEF intra
<1>3. q \in ServerState /\ SameParts(q, r) /\ q.pending = r.pending
  BY DEF State, ServerState, SameParts
<1>4. q \in State /\ CallsOK(q, s)
  BY <1>3, Untouched DEF Counted, CallsOK, SameParts
<1> HIDE DEF q
<1>5. Fits("COMMIT", [ballot |-> r.accept_num])
  BY <1>1 DEF Fits, CommitReq
<1>6. sent \in State /\ CallsOK(sent, s)
  BY <1>4, <1>5, SendType, SendCalls DEF Stubs
<1>7. sent.pending = q.pending
  BY <1>4 DEF Send, State, ServerState
<1> HIDE DEF sent
<1>8. free \in ServerState /\ SameParts(free, sent) /\ SameVotes(free, sent)
  BY <1>6 DEF State, ServerState, SameParts, SameVotes
<1>9. free \in State
  BY <1>6, <1>8, Untouched
<1> HIDE DEF free
<1>10. done \in State /\ SameVotes(done, free)
  BY <1>1, <1>2, <1>9, CommitTransactionsType, CommitTransactionsVotes
<1> HIDE DEF done
<1>11. told \in State /\ SameVotes(told, done)
  BY <1>10, CompleteTransferType, CompleteTransferVotes DEF InCallStatus
<1> HIDE DEF told
<1>12. SameVotes(told, sent)
  BY <1>8, <1>10, <1>11, SameVotesTrans
<1>13. CallsOK(told, s) /\ told.pending = r.pending
  BY <1>3, <1>6, <1>7, <1>12 DEF SameVotes, CallsOK
<1>14. s \notin Leaders => told.pending = <<>>
  BY <1>13 DEF Counted, Follows
<1>15. Counted(FinishRound(told, s), s)
  BY <1>11, <1>13, <1>14, FinishRoundCounted
<1> QED
  BY <1>15 DEF OnAcceptQuorum, told, done, free, sent, q, intra

(* So does an aborted round. *)
LEMMA OnRoundAbortCounted ==
  ASSUME NEW r \in State, NEW s \in Server, NEW phase \in BOOLEAN, Counted(r, s)
  PROVE  Counted(OnRoundAbort(r, s, phase), s)
<1> DEFINE freed == IF phase THEN {} ELSE LockedBy(s, IntraEntries(r.current))
<1> DEFINE q == [r EXCEPT !.locks = r.locks \ freed]
<1> DEFINE told == CompleteTransfer(q, r.current, "nack")
<1>1. OnRoundAbort(r, s, phase) = FinishRound(told, s)
  BY DEF OnRoundAbort, State, ServerState
<1> HIDE DEF freed
<1>2. q \in ServerState /\ SameParts(q, r) /\ SameVotes(q, r)
  BY DEF State, ServerState, SameParts, SameVotes
<1>3. q \in State
  BY <1>2, Untouched
<1> HIDE DEF q
<1>4. told \in State /\ SameVotes(told, q)
  BY <1>3, CompleteTransferType, CompleteTransferVotes DEF InCallStatus
<1> HIDE DEF told
<1>5. Counted(told, s)
  BY <1>2, <1>4, SameVotesCounted
<1> QED
  BY <1>1, <1>4, <1>5, FinishRoundCounted DEF Counted, Follows

(* A call that is done is no longer open, and nothing else changes. *)
LEMMA CloseCalls ==
  ASSUME NEW r \in State, NEW s \in Server, NEW c \in r.outcalls, CallsOK(r, s)
  PROVE  /\ CallsOK(Close(r, c), s)
         /\ \A ty, b : Open(Close(r, c), ty, b) = Open(r, ty, b) \ {c}
<1> DEFINE shut == [c EXCEPT !.open = FALSE]
<1> DEFINE new == IF c.handled THEN {} ELSE {shut}
<1> DEFINE q == [r EXCEPT !.outcalls = (r.outcalls \ {c}) \cup new]
<1>1. Close(r, c) = q
  BY DEF Close, State, ServerState
<1>2. c \in OutCall
  BY DEF State, ServerState
<1>3. ~shut.open /\ shut.type = c.type /\ SameCall(shut, c)
  BY <1>2 DEF OutCall, Call, SameCall
<1> HIDE DEF shut
<1>4. q.outcalls = (r.outcalls \ {c}) \cup new /\ new \subseteq {shut}
  BY DEF State, ServerState
<1> HIDE DEF q, new
<1>5. \A d \in r.outcalls \ {c} : ~SameCall(d, shut) /\ ~SameCall(shut, d)
  BY <1>3 DEF CallsOK, SameCall
<1>6. CallsOK(q, s)
  <2>1. \A d, e \in q.outcalls : SameCall(d, e) => d = e
    BY <1>4, <1>5 DEF CallsOK
  <2>2. \A d \in q.outcalls :
          d.type \in {"PREPARE", "ACCEPT"} => s \in Leaders /\ d.to \in Stubs(s)
    BY <1>3, <1>4 DEF CallsOK, SameCall
  <2> QED
    BY <2>1, <2>2 DEF CallsOK
<1>7. ASSUME NEW ty, NEW b
      PROVE  Open(q, ty, b) = Open(r, ty, b) \ {c}
  BY <1>3, <1>4 DEF Open
<1> QED
  BY <1>1, <1>6, <1>7

(* And the rest of the state is as before. *)
LEMMA CloseIs ==
  ASSUME NEW r \in State, NEW c
  PROVE  LET q == Close(r, c) IN
         /\ q.pending = r.pending /\ q.current = r.current
         /\ q.await_prepare_decision = r.await_prepare_decision
         /\ q.await_accept_decision = r.await_accept_decision
         /\ q.promised_num = r.promised_num /\ q.accept_num = r.accept_num
         /\ q.prepare_successes = r.prepare_successes /\ q.prepare_failures = r.prepare_failures
         /\ q.accept_successes = r.accept_successes /\ q.accept_failures = r.accept_failures
  BY DEF Close, State, ServerState

(* A call of another kind that is done leaves the count alone. *)
LEMMA ClosePrepareCounted ==
  ASSUME NEW r \in State, NEW s \in Server, NEW c \in r.outcalls, Counted(r, s),
         c.type # "PREPARE"
  PROVE  PrepareCounted(Close(r, c), s)
<1>1. Open(Close(r, c), "PREPARE", r.promised_num) = Open(r, "PREPARE", r.promised_num)
  <2>1. c \notin Open(r, "PREPARE", r.promised_num)
    BY DEF Open
  <2> QED
    BY <2>1, CloseCalls DEF Counted
<1> QED
  BY <1>1, CloseIs DEF Counted, PrepareCounted

(* The same for the Accept phase. *)
LEMMA CloseAcceptCounted ==
  ASSUME NEW r \in State, NEW s \in Server, NEW c \in r.outcalls, Counted(r, s),
         c.type # "ACCEPT"
  PROVE  AcceptCounted(Close(r, c), s)
<1>1. Open(Close(r, c), "ACCEPT", r.accept_num) = Open(r, "ACCEPT", r.accept_num)
  <2>1. c \notin Open(r, "ACCEPT", r.accept_num)
    BY DEF Open
  <2> QED
    BY <2>1, CloseCalls DEF Counted
<1> QED
  BY <1>1, CloseIs DEF Counted, AcceptCounted

(* One call done is one vote fewer to come, at most. *)
LEMMA CloseLosesOne ==
  ASSUME NEW r \in State, NEW s \in Server, NEW c \in r.outcalls, CallsOK(r, s),
         NEW ty, NEW b
  PROVE  LET was == Cardinality(Open(r, ty, b))
             is  == Cardinality(Open(Close(r, c), ty, b))
         IN  /\ was \in Nat /\ is \in Nat
             /\ is + 1 >= was
             /\ c.type # ty \/ c.req.ballot # b => is = was
<1> DEFINE A == Open(r, ty, b)
<1> DEFINE B == Open(Close(r, c), ty, b)
<1>1. B = A \ {c}
  BY CloseCalls
<1>2. IsFiniteSet(A) /\ Cardinality(A) \in Nat
  BY OpenFinite
<1>3. c.type # ty \/ c.req.ballot # b => c \notin A
  BY DEF Open
<1> HIDE DEF A, B
<1>4. CASE c \in A
  <2>1. Cardinality(B) = Cardinality(A) - 1 /\ IsFiniteSet(B)
    BY <1>1, <1>2, <1>4, FS_RemoveElement
  <2>2. Cardinality(B) \in Nat
    BY <2>1, FS_CardinalityType
  <2> QED
    BY <1>2, <1>3, <1>4, <2>1, <2>2 DEF A, B
<1>5. CASE c \notin A
  <2>1. B = A
    BY <1>1, <1>5
  <2> QED
    BY <1>2, <2>1 DEF A, B
<1> QED
  BY <1>4, <1>5

(* A server that steps to a counted state, and the others. *)
LEMMA StepCounted ==
  ASSUME srv \in [Server -> State], \A p \in Server : Counted(srv[p], p),
         NEW s \in Server, NEW r, Counted(r, s), Step(s, r)
  PROVE  \A p \in Server : Counted(srv'[p], p)
  BY DEF Step

(* A call that is answered stays open: a vote to come is still to come. *)
LEMMA AnswerCounted ==
  ASSUME srv \in [Server -> State], \A p \in Server : Counted(srv[p], p),
         NEW s \in Server, NEW c \in srv[s].outcalls,
         NEW rp \in State, Counted(rp, c.to), srv[c.to].outcalls \subseteq rp.outcalls,
         NEW reply, Answer(s, c, rp, reply)
  PROVE  \A p \in Server : Counted(srv'[p], p)
<1> DEFINE done == [c EXCEPT !.handled = TRUE, !.reply = reply]
<1> DEFINE new == IF c.open THEN {done} ELSE {}
<1> DEFINE mid == [srv EXCEPT ![c.to] = rp]
<1> DEFINE m == mid[s]
<1> DEFINE q == [m EXCEPT !.outcalls = (m.outcalls \ {c}) \cup new]
<1>1. c \in OutCall /\ c.to \in Server
  BY CallType
<1>2. done.open = c.open /\ done.type = c.type /\ done.req = c.req /\ SameCall(done, c)
  BY <1>1 DEF OutCall, Call, SameCall
<1> HIDE DEF done
<1>3. mid \in [Server -> State] /\ \A p \in Server : Counted(mid[p], p)
  BY <1>1
<1>4. c \in m.outcalls /\ m \in State /\ Counted(m, s)
  BY <1>1, <1>3
<1>5. srv' = [mid EXCEPT ![s] = q]
  <2>1. srv' = [mid EXCEPT ![s].outcalls = (mid[s].outcalls \ {c}) \cup new]
    BY DEF Answer, done
  <2> QED
    BY <2>1
<1> HIDE DEF mid, m
<1>6. q.outcalls = (m.outcalls \ {c}) \cup new
  BY <1>4 DEF State, ServerState
<1>7. /\ q.pending = m.pending /\ q.current = m.current
      /\ q.await_prepare_decision = m.await_prepare_decision
      /\ q.await_accept_decision = m.await_accept_decision
      /\ q.promised_num = m.promised_num /\ q.accept_num = m.accept_num
      /\ q.prepare_successes = m.prepare_successes /\ q.prepare_failures = m.prepare_failures
      /\ q.accept_successes = m.accept_successes /\ q.accept_failures = m.accept_failures
  BY <1>4 DEF State, ServerState
<1> HIDE DEF q
<1>8. \A d \in m.outcalls \ {c} : ~SameCall(d, done) /\ ~SameCall(done, d)
  BY <1>2, <1>4 DEF Counted, CallsOK, SameCall
<1>9. CallsOK(q, s)
  <2>1. \A d, e \in q.outcalls : SameCall(d, e) => d = e
    BY <1>4, <1>6, <1>8 DEF Counted, CallsOK
  <2>2. \A d \in q.outcalls :
          d.type \in {"PREPARE", "ACCEPT"} => s \in Leaders /\ d.to \in Stubs(s)
    BY <1>2, <1>4, <1>6 DEF Counted, CallsOK, SameCall
  <2> QED
    BY <2>1, <2>2 DEF CallsOK
<1>10. ASSUME NEW ty, NEW b
       PROVE  Cardinality(Open(q, ty, b)) = Cardinality(Open(m, ty, b))
  <2> DEFINE A == Open(m, ty, b)
  <2> DEFINE B == Open(q, ty, b)
  <2>1. IsFiniteSet(A) /\ Cardinality(A) \in Nat
    BY <1>4, OpenFinite
  <2>2. CASE c \in A
    <3>1. c.open /\ c.type = ty /\ c.req.ballot = b
      BY <2>2 DEF Open
    <3>2. B = (A \ {c}) \cup {done} /\ done \notin A \ {c}
      <4>1. q.outcalls = (m.outcalls \ {c}) \cup {done}
        BY <1>6, <3>1
      <4>2. done.open /\ done.type = ty /\ done.req.ballot = b
        BY <1>2, <3>1
      <4>3. SameCall(done, done)
        BY DEF SameCall
      <4> QED
        BY <1>8, <4>1, <4>2, <4>3 DEF Open
    <3> HIDE DEF A, B
    <3>3. Cardinality(A \ {c}) = Cardinality(A) - 1 /\ IsFiniteSet(A \ {c})
      BY <2>1, <2>2, FS_RemoveElement
    <3>4. Cardinality(B) = Cardinality(A \ {c}) + 1
      BY <3>2, <3>3, FS_AddElement
    <3> QED
      BY <2>1, <3>3, <3>4 DEF A, B
  <2>3. CASE c \notin A
    <3>1. B = A
      BY <1>2, <1>4, <1>6, <2>3 DEF Open
    <3> QED
      BY <3>1
  <2> QED
    BY <2>2, <2>3
<1>11. PrepareCounted(q, s) /\ AcceptCounted(q, s)
  BY <1>4, <1>7, <1>10 DEF Counted, PrepareCounted, AcceptCounted
<1>12. s \notin Leaders => Follows(q)
  BY <1>4, <1>7 DEF Counted, Follows
<1>13. Counted(q, s)
  BY <1>9, <1>11, <1>12 DEF Counted
<1> QED
  BY <1>3, <1>5, <1>13

(* enqueueClientTxn runs on leaders only. *)
LEMMA EnqueueClientTxnCounted ==
  ASSUME VotesInv, NEW s \in Server, NEW t \in Tid, EnqueueClientTxn(s, t)
  PROVE  \A p \in Server : Counted(srv'[p], p)
<1> DEFINE r == srv[s]
<1> DEFINE q == [r EXCEPT !.pending = Append(r.pending, t)]
<1> DEFINE told == CompleteTransfer(q, <<t>>, "parked")
<1>1. /\ srv \in [Server -> State] /\ r \in State /\ Counted(r, s)
      /\ \A p \in Server : Counted(srv[p], p)
  BY TypeOKState DEF VotesInv
<1>2. Append(r.pending, t) \in Seq(Tid)
  BY <1>1 DEF State, ServerState
<1>3. s \in Leaders
  BY DEF EnqueueClientTxn
<1> HIDE DEF r
<1>4. q \in ServerState /\ SameParts(q, r)
  BY <1>1, <1>2 DEF State, ServerState, SameParts
<1>5. q = [r EXCEPT !.pending = Append(@, t)]
  BY <1>1 DEF State, ServerState
<1>6. q \in State
  BY <1>1, <1>4, Untouched
<1>7. Counted(q, s)
  <2>1. /\ q.await_prepare_decision = r.await_prepare_decision
        /\ q.await_accept_decision = r.await_accept_decision
        /\ q.promised_num = r.promised_num /\ q.accept_num = r.accept_num
        /\ q.prepare_successes = r.prepare_successes /\ q.prepare_failures = r.prepare_failures
        /\ q.accept_successes = r.accept_successes /\ q.accept_failures = r.accept_failures
        /\ q.outcalls = r.outcalls
    BY <1>1 DEF State, ServerState
  <2> HIDE DEF q
  <2> QED
    BY <1>1, <1>3, <2>1 DEF Counted, CallsOK, PrepareCounted, AcceptCounted, Open
<1> HIDE DEF q
<1>8. told \in State /\ SameVotes(told, q)
  BY <1>6, CompleteTransferType, CompleteTransferVotes DEF InCallStatus
<1> HIDE DEF told
<1>9. Counted(MaybeStartRound(told, s), s)
  BY <1>7, <1>8, SameVotesCounted, MaybeStartRoundCounted
<1>10. Counted(CompleteTransfer(r, <<t>>, "nack"), s)
  BY <1>1, CompleteTransferVotes, SameVotesCounted
<1>11. \/ Step(s, CompleteTransfer(r, <<t>>, "nack"))
       \/ Step(s, MaybeStartRound(told, s))
  BY <1>5 DEF EnqueueClientTxn, r, told
<1> QED
  BY <1>1, <1>9, <1>10, <1>11, StepCounted

(* processTpcDecision leaves the votes alone. *)
LEMMA ProcessTpcDecisionCounted ==
  ASSUME VotesInv, NEW s \in Server, NEW t \in Tid, ProcessTpcDecision(s, t)
  PROVE  \A p \in Server : Counted(srv'[p], p)
<1> DEFINE r  == srv[s]
<1> DEFINE r1 == [r EXCEPT !.prepareTimestamps = @ \ {t}]
<1> DEFINE st == IF tpc[t] = "commit" THEN "COMMITTED" ELSE "ABORTED"
<1> DEFINE r2 == CloseTransaction(r1, s, t, st)
<1> DEFINE money == Apply(r, s, {t} \ r.balance_applied)
<1> DEFINE r3 == [r2 EXCEPT !.balances = money, !.balance_applied = @ \cup {t}]
<1>1. /\ srv \in [Server -> State] /\ r \in State /\ Counted(r, s)
      /\ \A p \in Server : Counted(srv[p], p)
  BY TypeOKState DEF VotesInv
<1>2. st \in Status
  BY DEF Status
<1> HIDE DEF r, st
<1>3. SameVotes(r1, r) /\ SameVotes(r2, r)
  BY <1>1, ClosingVotes
<1>4. r.transferIndex[t] # 0 => r2 \in State
  BY <1>1, <1>2, ClosingType
<1> HIDE DEF r1, r2, money
<1>5. ASSUME r2 \in State PROVE SameVotes(r3, r)
  <2>1. SameVotes(r3, r2)
    BY <1>5 DEF SameVotes, State, ServerState
  <2> QED
    BY <1>3, <2>1, SameVotesTrans
<1> HIDE DEF r3
<1>6. \/ srv' = srv
      \/ Step(s, r1)
      \/ r.transferIndex[t] # 0 /\ Step(s, r3)
      \/ r.transferIndex[t] # 0 /\ Step(s, r2)
  BY DEF ProcessTpcDecision, r, r1, r2, r3, st, money
<1>7. Counted(r1, s) /\ Counted(r2, s) /\ (r2 \in State => Counted(r3, s))
  BY <1>1, <1>3, <1>5, SameVotesCounted
<1> QED
  BY <1>1, <1>4, <1>6, <1>7, StepCounted

(* So does a lock timeout. *)
LEMMA LockTimeoutCounted ==
  ASSUME VotesInv, NEW s \in Server, NEW t \in Tid, LockTimeout(s, t)
  PROVE  \A p \in Server : Counted(srv'[p], p)
<1> DEFINE r  == srv[s]
<1> DEFINE r1 == [r EXCEPT !.prepareTimestamps = @ \ {t}]
<1> DEFINE r2 == CloseTransaction(r1, s, t, "ABORTED")
<1>1. /\ srv \in [Server -> State] /\ r \in State /\ Counted(r, s)
      /\ \A p \in Server : Counted(srv[p], p)
  BY TypeOKState DEF VotesInv
<1> HIDE DEF r
<1>2. Counted(r1, s) /\ Counted(r2, s)
  BY <1>1, ClosingVotes, SameVotesCounted
<1> HIDE DEF r1, r2
<1>3. Step(s, r1) \/ Step(s, r2)
  BY DEF LockTimeout, r, r1, r2
<1> QED
  BY <1>1, <1>2, <1>3, StepCounted

(* The leaders of a cluster, if there is more than one, would take each    *)
(* other's promises; there is not.                                         *)
OneLeader == \A p, q \in Leaders : ServerCluster[p] = ServerCluster[q] => p = q

(* Whoever gets a proposal leads nothing. *)
LEMMA ProposedToFollower ==
  ASSUME VotesInv, OneLeader, NEW s \in Server, NEW c \in srv[s].outcalls,
         c.type \in {"PREPARE", "ACCEPT"}
  PROVE  c.to \notin Leaders /\ Follows(srv[c.to])
<1>1. s \in Leaders /\ c.to \in Stubs(s)
  BY DEF VotesInv, Counted, CallsOK
<1>2. c.to \notin Leaders
  BY <1>1, ServerAssumption DEF OneLeader, Stubs
<1> QED
  BY <1>1, <1>2 DEF VotesInv, Counted, Stubs

(* processPrepareCall promises on a server that leads nothing. *)
LEMMA ProcessPrepareCallCounted ==
  ASSUME VotesInv, OneLeader, NEW s \in Server, NEW c \in srv[s].outcalls,
         ProcessPrepareCall(s, c)
  PROVE  \A p \in Server : Counted(srv'[p], p)
<1> DEFINE r  == srv[c.to]
<1> DEFINE q  == [r EXCEPT !.promised = TRUE, !.promised_num = c.req.ballot,
                           !.ballot_num = c.req.ballot.num]
<1> DEFINE q2 == StartSync(r, c.req.ballot.server_id)
<1>1. srv \in [Server -> State] /\ \A p \in Server : Counted(srv[p], p)
  BY TypeOKState DEF VotesInv
<1>2. /\ c.type = "PREPARE" /\ c \in OutCall /\ c.to \in Server
      /\ r \in State /\ Counted(r, c.to)
  BY <1>1, CallType DEF ProcessPrepareCall
<1>3. c.req \in PrepareReq
  BY <1>2 DEF OutCall, Call
<1>4. c.req.ballot \in Ballot /\ c.req.ballot.num \in Nat /\ c.req.ballot.server_id \in Server
  BY <1>3 DEF PrepareReq, Proposal, Ballot
<1>5. Follows(r)
  BY <1>2, ProposedToFollower
<1> HIDE DEF r
<1>6. q \in ServerState /\ SameParts(q, r)
  BY <1>2, <1>4 DEF State, ServerState, SameParts
<1>7. q.outcalls = r.outcalls /\ Follows(q)
  BY <1>2, <1>5 DEF State, ServerState, Follows
<1>8. q \in State /\ Counted(q, c.to)
  BY <1>2, <1>6, <1>7, Untouched DEF Counted, CallsOK, Follows, PrepareCounted, AcceptCounted
<1>9. q2 \in State /\ Counted(q2, c.to)
  BY <1>2, <1>4, StartSyncType, StartSyncCounted
<1>10. r.outcalls \subseteq q2.outcalls
  BY <1>2 DEF StartSync, Send, State, ServerState
<1> HIDE DEF q, q2
<1>11. \E reply : \/ Answer(s, c, r, reply)
                  \/ Answer(s, c, q, reply)
                  \/ Answer(s, c, q2, reply)
  BY DEF ProcessPrepareCall, r, q, q2
<1>12. PICK reply : \/ Answer(s, c, r, reply)
                    \/ Answer(s, c, q, reply)
                    \/ Answer(s, c, q2, reply)
  BY <1>11
<1>13. PICK rp \in State : /\ Counted(rp, c.to) /\ r.outcalls \subseteq rp.outcalls
                           /\ Answer(s, c, rp, reply)
  BY <1>2, <1>7, <1>8, <1>9, <1>10, <1>12
<1> QED
  BY <1>1, <1>13, AnswerCounted DEF r

(* processAcceptCall accepts on a server that leads nothing. *)
LEMMA ProcessAcceptCallCounted ==
  ASSUME VotesInv, OneLeader, NEW s \in Server, NEW c \in srv[s].outcalls,
         ProcessAcceptCall(s, c)
  PROVE  \A p \in Server : Counted(srv'[p], p)
<1> DEFINE r == srv[c.to]
<1> DEFINE q == [r EXCEPT !.accepted = TRUE, !.accept_num = c.req.ballot,
                          !.accept_batch = c.req.batch,
                          !.locks = @ \cup LockedBy(c.to, c.req.batch)]
<1> DEFINE q2 == PrepareTransactions(q, CrossEntries(c.req.batch), c.req.ballot)
<1>1. srv \in [Server -> State] /\ \A p \in Server : Counted(srv[p], p)
  BY TypeOKState DEF VotesInv
<1>2. /\ c.type = "ACCEPT" /\ c \in OutCall /\ r \in State /\ c.to \in Server
      /\ Counted(r, c.to)
  BY <1>1, CallType DEF ProcessAcceptCall
<1>3. c.req \in AcceptReq
  BY <1>2 DEF OutCall, Call
<1>4. c.req.ballot \in Ballot /\ c.req.batch \in Seq(Tid)
  BY <1>3 DEF AcceptReq
<1>5. LockedBy(c.to, c.req.batch) \in SUBSET Account
  BY <1>4, RangeType, TypesAssumption DEF LockedBy, LocalAccounts
<1>6. Follows(r)
  BY <1>2, ProposedToFollower
<1> HIDE DEF r
<1>7. q \in ServerState /\ SameParts(q, r)
  BY <1>2, <1>4, <1>5 DEF State, ServerState, SameParts
<1>8. q.outcalls = r.outcalls /\ Follows(q)
  BY <1>2, <1>6 DEF State, ServerState, Follows
<1>9. q \in State /\ Counted(q, c.to)
  BY <1>2, <1>7, <1>8, Untouched DEF Counted, CallsOK, Follows, PrepareCounted, AcceptCounted
<1> HIDE DEF q
<1>10. q2 \in State /\ SameVotes(q2, q)
  BY <1>4, <1>9, EntriesType, PrepareTransactionsType, PrepareTransactionsVotes
<1>11. Counted(q2, c.to) /\ r.outcalls \subseteq q2.outcalls
  BY <1>8, <1>9, <1>10, SameVotesCounted DEF SameVotes
<1> HIDE DEF q2
<1>12. Answer(s, c, r, [ack |-> FALSE]) \/ Answer(s, c, q2, [ack |-> TRUE])
  BY DEF ProcessAcceptCall, r, q, q2
<1> QED
  BY <1>1, <1>2, <1>10, <1>11, <1>12, AnswerCounted DEF r

(* processCommitCall touches neither the votes nor the ballots. *)
LEMMA ProcessCommitCallCounted ==
  ASSUME VotesInv, NEW s \in Server, NEW c \in srv[s].outcalls, ProcessCommitCall(s, c)
  PROVE  \A p \in Server : Counted(srv'[p], p)
<1> DEFINE r == srv[c.to]
<1> DEFINE q == [r EXCEPT !.locks = @ \ LockedBy(c.to, r.accept_batch),
                          !.promised = FALSE, !.accepted = FALSE]
<1> DEFINE done == CommitTransactions(q, c.to, IntraEntries(r.accept_batch), r.accept_num)
<1>1. srv \in [Server -> State] /\ \A p \in Server : Counted(srv[p], p)
  BY TypeOKState DEF VotesInv
<1>2. c.type = "COMMIT" /\ r \in State /\ c.to \in Server /\ Counted(r, c.to)
  BY <1>1, CallType DEF ProcessCommitCall
<1>3. r.accept_num \in Ballot /\ r.accept_batch \in Seq(Tid)
  BY <1>2 DEF State, ServerState
<1> HIDE DEF r
<1>4. q \in ServerState /\ SameParts(q, r)
  BY <1>2 DEF State, ServerState, SameParts
<1>5. SameVotes(q, r)
  BY <1>2 DEF SameVotes, State, ServerState
<1>6. q \in State
  BY <1>2, <1>4, Untouched
<1> HIDE DEF q
<1>7. done \in State /\ SameVotes(done, q)
  BY <1>2, <1>3, <1>6, EntriesType, CommitTransactionsType, CommitTransactionsVotes
<1>8. Counted(done, c.to)
  BY <1>2, <1>5, <1>7, SameVotesCounted
<1> HIDE DEF done
<1>9. PICK rp \in State :
        Counted(rp, c.to) /\ srv' = [[srv EXCEPT ![c.to] = rp] EXCEPT ![s].outcalls = @ \ {c}]
  <2> DEFINE now == ~r.i_am_disconnected /\ r.promised_num.num = c.req.ballot.num
                      /\ r.accept_num.num = c.req.ballot.num
  <2> DEFINE x == IF now THEN done ELSE r
  <2>1. srv' = [[srv EXCEPT ![c.to] = x] EXCEPT ![s].outcalls = @ \ {c}]
    BY DEF ProcessCommitCall, done, q, r
  <2>2. x \in State /\ Counted(x, c.to)
    BY <1>2, <1>7, <1>8
  <2> HIDE DEF x
  <2> QED
    BY <2>1, <2>2
<1> DEFINE mid == [srv EXCEPT ![c.to] = rp]
<1> DEFINE m == mid[s]
<1> DEFINE n == [m EXCEPT !.outcalls = m.outcalls \ {c}]
<1>10. mid \in [Server -> State] /\ \A p \in Server : Counted(mid[p], p)
  BY <1>1, <1>2, <1>9
<1>11. srv' = [mid EXCEPT ![s] = n]
  BY <1>9
<1>12. m \in State /\ Counted(m, s)
  BY <1>10
<1> HIDE DEF mid, m
<1>13. n.outcalls = m.outcalls \ {c}
  BY <1>12 DEF State, ServerState
<1>14. /\ n.pending = m.pending /\ n.current = m.current
       /\ n.await_prepare_decision = m.await_prepare_decision
       /\ n.await_accept_decision = m.await_accept_decision
       /\ n.promised_num = m.promised_num /\ n.accept_num = m.accept_num
       /\ n.prepare_successes = m.prepare_successes /\ n.prepare_failures = m.prepare_failures
       /\ n.accept_successes = m.accept_successes /\ n.accept_failures = m.accept_failures
  BY <1>12 DEF State, ServerState
<1> HIDE DEF n
<1>15. \A b : /\ Open(n, "PREPARE", b) = Open(m, "PREPARE", b)
              /\ Open(n, "ACCEPT", b) = Open(m, "ACCEPT", b)
  BY <1>2, <1>13 DEF Open
<1>16. CallsOK(n, s)
  BY <1>12, <1>13 DEF Counted, CallsOK
<1>17. Counted(n, s)
  BY <1>12, <1>14, <1>15, <1>16 DEF Counted, Follows, PrepareCounted, AcceptCounted
<1> QED
  BY <1>10, <1>11, <1>17

(* processSyncCall only answers. *)
LEMMA ProcessSyncCallCounted ==
  ASSUME VotesInv, NEW s \in Server, NEW c \in srv[s].outcalls, ProcessSyncCall(s, c)
  PROVE  \A p \in Server : Counted(srv'[p], p)
<1> DEFINE r == srv[c.to]
<1>1. srv \in [Server -> State] /\ \A p \in Server : Counted(srv[p], p)
  BY TypeOKState DEF VotesInv
<1>2. r \in State /\ Counted(r, c.to)
  BY <1>1, CallType
<1> HIDE DEF r
<1>3. \E reply : Answer(s, c, r, reply)
  BY DEF ProcessSyncCall, r
<1> QED
  BY <1>1, <1>2, <1>3, AnswerCounted DEF r

(* handlePrepareReply: a vote that came, or did not come in time, is       *)
(* counted as it leaves the calls that are open.                           *)
LEMMA HandlePrepareReplyCounted ==
  ASSUME VotesInv, NEW s \in Server, NEW c \in srv[s].outcalls,
         NEW status \in {"OK", "DEADLINE_EXCEEDED"}, HandlePrepareReply(s, c, status)
  PROVE  \A p \in Server : Counted(srv'[p], p)
<1> DEFINE o    == srv[s]
<1> DEFINE r    == Close(o, c)
<1> DEFINE mine == /\ c.req.ballot.num = r.promised_num.num
                   /\ c.req.ballot.server_id = s
<1> DEFINE ok     == status = "OK" /\ mine
<1> DEFINE failed == mine /\ \/ status = "OK" /\ ~c.reply.ack
                             \/ status = "DEADLINE_EXCEEDED"
<1> DEFINE stale  == ok /\ c.reply.latest_ballot_num # Unset
<1> DEFINE up   == IF ok /\ c.reply.ack THEN r.prepare_successes + 1 ELSE r.prepare_successes
<1> DEFINE down == IF failed THEN r.prepare_failures + 1 ELSE r.prepare_failures
<1> DEFINE n == [r EXCEPT !.prepare_successes = up, !.prepare_failures = down]
<1> DEFINE n1 == [n EXCEPT !.ballot_num = c.reply.latest_ballot_num]
<1> DEFINE n2 == [n EXCEPT !.await_prepare_decision = FALSE]
<1>1. /\ srv \in [Server -> State] /\ o \in State /\ c \in o.outcalls /\ Counted(o, s)
      /\ \A p \in Server : Counted(srv[p], p)
  BY TypeOKState DEF VotesInv
<1>2. c.type = "PREPARE" /\ c \in OutCall /\ c.to \in Server /\ r \in State
  BY <1>1, CallType, CloseType DEF HandlePrepareReply
<1>3. c.reply \in PrepareRes /\ c.reply.ack \in BOOLEAN
  BY <1>2 DEF OutCall, Call, PrepareRes
<1> HIDE DEF o
<1>4. /\ r.pending = o.pending /\ r.current = o.current
      /\ r.await_prepare_decision = o.await_prepare_decision
      /\ r.await_accept_decision = o.await_accept_decision
      /\ r.promised_num = o.promised_num /\ r.accept_num = o.accept_num
      /\ r.prepare_successes = o.prepare_successes /\ r.prepare_failures = o.prepare_failures
  BY <1>1, CloseIs
<1>5. CallsOK(r, s) /\ AcceptCounted(r, s) /\ (s \notin Leaders => Follows(r))
  BY <1>1, <1>2, <1>4, CloseCalls, CloseAcceptCounted DEF Counted, Follows
<1>6. LET was == Cardinality(Open(o, "PREPARE", o.promised_num))
          is  == Cardinality(Open(r, "PREPARE", o.promised_num))
      IN  /\ was \in Nat /\ is \in Nat
          /\ is + 1 >= was
          /\ c.req.ballot # o.promised_num => is = was
  BY <1>1, CloseLosesOne DEF Counted
<1> HIDE DEF r
<1>7. up \in Nat /\ down \in Nat /\ r.prepare_successes \in Nat /\ r.prepare_failures \in Nat
  <2>1. r.prepare_successes \in Nat /\ r.prepare_failures \in Nat
    BY <1>2 DEF State, ServerState
  <2>2. r.prepare_successes + 1 \in Nat /\ r.prepare_failures + 1 \in Nat
    BY <2>1
  <2> QED
    BY <2>1, <2>2, Zenon
<1>8. /\ up >= r.prepare_successes /\ down >= r.prepare_failures
      /\ mine => up + down = r.prepare_successes + r.prepare_failures + 1
  <2>1. CASE ok /\ c.reply.ack
    <3>1. ~failed /\ up = r.prepare_successes + 1 /\ down = r.prepare_failures
      BY <2>1
    <3> QED
      BY <1>7, <3>1
  <2>2. CASE failed
    <3>1. ~(ok /\ c.reply.ack) /\ up = r.prepare_successes /\ down = r.prepare_failures + 1
      BY <2>2
    <3> QED
      BY <1>7, <3>1
  <2>3. CASE ~(ok /\ c.reply.ack) /\ ~failed
    <3>1. ~mine
      BY <1>3, <2>3
    <3>2. up = r.prepare_successes /\ down = r.prepare_failures
      BY <2>3
    <3> QED
      BY <1>7, <3>1, <3>2
  <2> QED
    BY <2>1, <2>2, <2>3
<1>9. n = [r EXCEPT !.prepare_successes = IF ok /\ c.reply.ack THEN @ + 1 ELSE @,
                    !.prepare_failures  = IF failed THEN @ + 1 ELSE @]
  BY <1>2 DEF State, ServerState
<1>10. stale => c.reply.latest_ballot_num \in Nat
  BY <1>3 DEF PrepareRes, Unset
<1>11. c.req.ballot = o.promised_num /\ o.promised_num.server_id = s => mine
  BY <1>4
<1>12. \/ ~r.await_prepare_decision /\ Step(s, r)
       \/ r.await_prepare_decision /\ stale /\ Step(s, ReissuePrepareForCurrent(n1, s))
       \/ r.await_prepare_decision /\ Step(s, StartSync(n2, c.to))
       \/ /\ r.await_prepare_decision
          /\ \E K \in Survivors(n, s) : Step(s, OnPrepareQuorum(n, s, K))
       \/ Step(s, OnRoundAbort(n, s, TRUE)) /\ r.await_prepare_decision
       \/ Step(s, n) /\ r.await_prepare_decision
  BY <1>9 DEF HandlePrepareReply, r, o
<1> HIDE DEF mine, ok, failed, stale, up, down
<1>13. n \in ServerState /\ SameParts(n, r)
  BY <1>2, <1>7 DEF State, ServerState, SameParts
<1>14. n \in State
  BY <1>2, <1>13, Untouched
<1>15. /\ n.pending = r.pending /\ n.current = r.current
       /\ n.await_prepare_decision = r.await_prepare_decision
       /\ n.await_accept_decision = r.await_accept_decision
       /\ n.promised_num = r.promised_num /\ n.accept_num = r.accept_num
       /\ n.prepare_successes = up /\ n.prepare_failures = down
       /\ n.accept_successes = r.accept_successes /\ n.accept_failures = r.accept_failures
       /\ n.outcalls = r.outcalls
  BY <1>2 DEF State, ServerState
<1> HIDE DEF n
<1>16. CallsOK(n, s) /\ AcceptCounted(n, s) /\ (s \notin Leaders => Follows(n))
  BY <1>5, <1>15 DEF CallsOK, AcceptCounted, Follows, Open
<1>17. PrepareCounted(n, s)
  <2>1. SUFFICES ASSUME n.await_prepare_decision
                 PROVE  /\ n.promised_num.server_id = s
                        /\ n.prepare_successes + n.prepare_failures
                             + Cardinality(Open(n, "PREPARE", n.promised_num))
                             >= Cardinality(Stubs(s)) + 1
    BY DEF PrepareCounted
  <2> DEFINE was == Cardinality(Open(o, "PREPARE", o.promised_num))
  <2> DEFINE is  == Cardinality(Open(n, "PREPARE", o.promised_num))
  <2> DEFINE all == Cardinality(Stubs(s))
  <2>2. /\ o.promised_num.server_id = s
        /\ o.prepare_successes + o.prepare_failures + was >= all + 1
    BY <1>1, <1>4, <1>15, <2>1 DEF Counted, PrepareCounted
  <2>3. Open(n, "PREPARE", o.promised_num) = Open(r, "PREPARE", o.promised_num)
    BY <1>15 DEF Open
  <2>4. was \in Nat /\ is \in Nat /\ is + 1 >= was /\ (c.req.ballot # o.promised_num => is = was)
    BY <1>6, <2>3
  <2>5. all \in Nat
    BY StubsFinite
  <2> HIDE DEF was, is, all
  <2>6. r.prepare_successes + r.prepare_failures + was >= all + 1
    BY <1>4, <2>2
  <2>7. up + down + is >= all + 1
    <3>1. CASE mine
      BY <1>7, <1>8, <2>4, <2>5, <2>6, <3>1
    <3>2. CASE ~mine
      <4>1. is = was
        BY <1>11, <2>2, <2>4, <3>2
      <4> QED
        BY <1>7, <1>8, <2>4, <2>5, <2>6, <4>1
    <3> QED
      BY <3>1, <3>2
  <2> QED
    BY <1>4, <1>15, <2>2, <2>7 DEF is, all
<1>18. Counted(n, s)
  BY <1>16, <1>17 DEF Counted
<1>19. CASE ~r.await_prepare_decision /\ Step(s, r)
  <2>1. Counted(r, s)
    BY <1>5, <1>19 DEF Counted, PrepareCounted
  <2> QED
    BY <1>1, <1>19, <2>1, StepCounted
<1>20. CASE r.await_prepare_decision /\ stale /\ Step(s, ReissuePrepareForCurrent(n1, s))
  <2>1. n1 \in ServerState /\ SameParts(n1, n)
    BY <1>10, <1>14, <1>20 DEF State, ServerState, SameParts
  <2>2. n1 \in State /\ CallsOK(n1, s)
    BY <1>14, <1>16, <2>1, Untouched DEF CallsOK, SameParts
  <2>3. s \in Leaders
    BY <1>5, <1>20 DEF Follows
  <2> HIDE DEF n1
  <2>4. Counted(ReissuePrepareForCurrent(n1, s), s)
    BY <2>2, <2>3, ReissueCounted
  <2> QED
    BY <1>1, <1>20, <2>4, StepCounted
<1>21. CASE Step(s, StartSync(n2, c.to))
  <2>1. n2 \in ServerState /\ SameParts(n2, n)
    BY <1>14 DEF State, ServerState, SameParts
  <2>2. /\ n2.pending = n.pending /\ n2.current = n.current /\ ~n2.await_prepare_decision
        /\ n2.await_accept_decision = n.await_accept_decision /\ n2.accept_num = n.accept_num
        /\ n2.accept_successes = n.accept_successes /\ n2.accept_failures = n.accept_failures
        /\ n2.outcalls = n.outcalls
    BY <1>14 DEF State, ServerState
  <2> HIDE DEF n2
  <2>3. n2 \in State /\ Counted(n2, s)
    BY <1>14, <1>16, <2>1, <2>2, Untouched
    DEF Counted, CallsOK, PrepareCounted, AcceptCounted, Follows, Open
  <2> QED
    BY <1>1, <1>2, <1>21, <2>3, StartSyncCounted, StepCounted
<1>22. CASE /\ r.await_prepare_decision
            /\ \E K \in Survivors(n, s) : Step(s, OnPrepareQuorum(n, s, K))
  <2>1. PICK K \in Survivors(n, s) : Step(s, OnPrepareQuorum(n, s, K))
    BY <1>22
  <2>2. K \in SUBSET DOMAIN n.current
    BY DEF Survivors
  <2>3. Counted(OnPrepareQuorum(n, s, K), s)
    BY <1>14, <1>15, <1>18, <1>22, <2>2, OnPrepareQuorumCounted
  <2> QED
    BY <1>1, <2>1, <2>3, StepCounted
<1>23. CASE Step(s, OnRoundAbort(n, s, TRUE))
  BY <1>1, <1>14, <1>18, <1>23, OnRoundAbortCounted, StepCounted
<1>24. CASE Step(s, n)
  BY <1>1, <1>18, <1>24, StepCounted
<1> QED
  BY <1>12, <1>19, <1>20, <1>21, <1>22, <1>23, <1>24

(* handleAcceptReply counts in the same way. *)
LEMMA HandleAcceptReplyCounted ==
  ASSUME VotesInv, NEW s \in Server, NEW c \in srv[s].outcalls,
         NEW status \in {"OK", "DEADLINE_EXCEEDED"}, HandleAcceptReply(s, c, status)
  PROVE  \A p \in Server : Counted(srv'[p], p)
<1> DEFINE o    == srv[s]
<1> DEFINE r    == Close(o, c)
<1> DEFINE mine == /\ c.req.ballot.num = r.accept_num.num
                   /\ c.req.ballot.server_id = s
<1> DEFINE ok     == status = "OK" /\ mine /\ c.reply.ack
<1> DEFINE failed == mine /\ \/ status = "OK" /\ ~c.reply.ack
                             \/ status = "DEADLINE_EXCEEDED"
<1> DEFINE up   == IF ok THEN r.accept_successes + 1 ELSE r.accept_successes
<1> DEFINE down == IF failed THEN r.accept_failures + 1 ELSE r.accept_failures
<1> DEFINE n == [r EXCEPT !.accept_successes = up, !.accept_failures = down]
<1>1. /\ srv \in [Server -> State] /\ o \in State /\ c \in o.outcalls /\ Counted(o, s)
      /\ \A p \in Server : Counted(srv[p], p)
  BY TypeOKState DEF VotesInv
<1>2. c.type = "ACCEPT" /\ c \in OutCall /\ r \in State
  BY <1>1, CallType, CloseType DEF HandleAcceptReply
<1>3. c.reply.ack \in BOOLEAN
  BY <1>2 DEF OutCall, Call, AcceptRes
<1> HIDE DEF o
<1>4. /\ r.pending = o.pending /\ r.current = o.current
      /\ r.await_prepare_decision = o.await_prepare_decision
      /\ r.await_accept_decision = o.await_accept_decision
      /\ r.promised_num = o.promised_num /\ r.accept_num = o.accept_num
      /\ r.accept_successes = o.accept_successes /\ r.accept_failures = o.accept_failures
  BY <1>1, CloseIs
<1>5. CallsOK(r, s) /\ PrepareCounted(r, s) /\ (s \notin Leaders => Follows(r))
  BY <1>1, <1>2, <1>4, CloseCalls, ClosePrepareCounted DEF Counted, Follows
<1>6. LET was == Cardinality(Open(o, "ACCEPT", o.accept_num))
          is  == Cardinality(Open(r, "ACCEPT", o.accept_num))
      IN  /\ was \in Nat /\ is \in Nat
          /\ is + 1 >= was
          /\ c.req.ballot # o.accept_num => is = was
  BY <1>1, CloseLosesOne DEF Counted
<1> HIDE DEF r
<1>7. up \in Nat /\ down \in Nat /\ r.accept_successes \in Nat /\ r.accept_failures \in Nat
  <2>1. r.accept_successes \in Nat /\ r.accept_failures \in Nat
    BY <1>2 DEF State, ServerState
  <2>2. r.accept_successes + 1 \in Nat /\ r.accept_failures + 1 \in Nat
    BY <2>1
  <2> QED
    BY <2>1, <2>2, Zenon
<1>8. /\ up >= r.accept_successes /\ down >= r.accept_failures
      /\ mine => up + down = r.accept_successes + r.accept_failures + 1
  <2>1. CASE ok
    <3>1. ~failed /\ up = r.accept_successes + 1 /\ down = r.accept_failures
      BY <2>1
    <3> QED
      BY <1>7, <3>1
  <2>2. CASE failed
    <3>1. ~ok /\ up = r.accept_successes /\ down = r.accept_failures + 1
      BY <2>2
    <3> QED
      BY <1>7, <3>1
  <2>3. CASE ~ok /\ ~failed
    <3>1. ~mine
      BY <1>3, <2>3
    <3>2. up = r.accept_successes /\ down = r.accept_failures
      BY <2>3
    <3> QED
      BY <1>7, <3>1, <3>2
  <2> QED
    BY <2>1, <2>2, <2>3
<1>9. n = [r EXCEPT !.accept_successes = IF ok THEN @ + 1 ELSE @,
                    !.accept_failures  = IF failed THEN @ + 1 ELSE @]
  BY <1>2 DEF State, ServerState
<1>10. c.req.ballot = o.accept_num /\ o.accept_num.server_id = s => mine
  BY <1>4
<1>11. \/ ~r.await_accept_decision /\ Step(s, r)
       \/ Step(s, OnAcceptQuorum(n, s))
       \/ Step(s, OnRoundAbort(n, s, FALSE))
       \/ Step(s, n)
  BY <1>9 DEF HandleAcceptReply, r, o
<1> HIDE DEF mine, ok, failed, up, down
<1>12. n \in ServerState /\ SameParts(n, r)
  BY <1>2, <1>7 DEF State, ServerState, SameParts
<1>13. n \in State
  BY <1>2, <1>12, Untouched
<1>14. /\ n.pending = r.pending /\ n.current = r.current
       /\ n.await_prepare_decision = r.await_prepare_decision
       /\ n.await_accept_decision = r.await_accept_decision
       /\ n.promised_num = r.promised_num /\ n.accept_num = r.accept_num
       /\ n.accept_successes = up /\ n.accept_failures = down
       /\ n.prepare_successes = r.prepare_successes /\ n.prepare_failures = r.prepare_failures
       /\ n.outcalls = r.outcalls
  BY <1>2 DEF State, ServerState
<1> HIDE DEF n
<1>15. CallsOK(n, s) /\ PrepareCounted(n, s) /\ (s \notin Leaders => Follows(n))
  BY <1>5, <1>14 DEF CallsOK, PrepareCounted, Follows, Open
<1>16. AcceptCounted(n, s)
  <2>1. SUFFICES ASSUME n.await_accept_decision
                 PROVE  /\ n.accept_num.server_id = s
                        /\ n.accept_successes + n.accept_failures
                             + Cardinality(Open(n, "ACCEPT", n.accept_num))
                             >= Cardinality(Stubs(s)) + 1
    BY DEF AcceptCounted
  <2> DEFINE was == Cardinality(Open(o, "ACCEPT", o.accept_num))
  <2> DEFINE is  == Cardinality(Open(n, "ACCEPT", o.accept_num))
  <2> DEFINE all == Cardinality(Stubs(s))
  <2>2. /\ o.accept_num.server_id = s
        /\ o.accept_successes + o.accept_failures + was >= all + 1
    BY <1>1, <1>4, <1>14, <2>1 DEF Counted, AcceptCounted
  <2>3. Open(n, "ACCEPT", o.accept_num) = Open(r, "ACCEPT", o.accept_num)
    BY <1>14 DEF Open
  <2>4. was \in Nat /\ is \in Nat /\ is + 1 >= was /\ (c.req.ballot # o.accept_num => is = was)
    BY <1>6, <2>3
  <2>5. all \in Nat
    BY StubsFinite
  <2> HIDE DEF was, is, all
  <2>6. r.accept_successes + r.accept_failures + was >= all + 1
    BY <1>4, <2>2
  <2>7. up + down + is >= all + 1
    <3>1. CASE mine
      BY <1>7, <1>8, <2>4, <2>5, <2>6, <3>1
    <3>2. CASE ~mine
      <4>1. is = was
        BY <1>10, <2>2, <2>4, <3>2
      <4> QED
        BY <1>7, <1>8, <2>4, <2>5, <2>6, <4>1
    <3> QED
      BY <3>1, <3>2
  <2> QED
    BY <1>4, <1>14, <2>2, <2>7 DEF is, all
<1>17. Counted(n, s)
  BY <1>15, <1>16 DEF Counted
<1>18. CASE ~r.await_accept_decision /\ Step(s, r)
  <2>1. Counted(r, s)
    BY <1>5, <1>18 DEF Counted, AcceptCounted
  <2> QED
    BY <1>1, <1>18, <2>1, StepCounted
<1>19. Counted(OnAcceptQuorum(n, s), s) /\ Counted(OnRoundAbort(n, s, FALSE), s)
  BY <1>13, <1>17, OnAcceptQuorumCounted, OnRoundAbortCounted
<1> QED
  BY <1>1, <1>11, <1>17, <1>18, <1>19, StepCounted

(* handleSyncReply prepares again on a leader only. *)
LEMMA HandleSyncReplyCounted ==
  ASSUME VotesInv, NEW s \in Server, NEW c \in srv[s].outcalls,
         NEW status, HandleSyncReply(s, c, status)
  PROVE  \A p \in Server : Counted(srv'[p], p)
<1> DEFINE o  == srv[s]
<1> DEFINE r  == Close(o, c)
<1> DEFINE q  == InsertEntries(r, s, c.reply.logs)
<1> DEFINE synced == [q EXCEPT !.ballot_num = c.reply.last_inserted_ballot.num,
                               !.last_inserted = @ + Len(c.reply.logs),
                               !.last_inserted_ballot = c.reply.last_inserted_ballot]
<1> DEFINE m == IF status = "OK" /\ c.reply.ack THEN synced ELSE r
<1> DEFINE n == [m EXCEPT !.in_sync = FALSE]
<1>1. /\ srv \in [Server -> State] /\ o \in State /\ c \in o.outcalls /\ Counted(o, s)
      /\ \A p \in Server : Counted(srv[p], p)
  BY TypeOKState DEF VotesInv
<1>2. c.type = "SYNC" /\ c \in OutCall /\ r \in State
  BY <1>1, CallType, CloseType DEF HandleSyncReply
<1> HIDE DEF o
<1>3. Counted(r, s)
  <2>1. CallsOK(r, s) /\ PrepareCounted(r, s) /\ AcceptCounted(r, s)
    BY <1>1, <1>2, CloseCalls, ClosePrepareCounted, CloseAcceptCounted DEF Counted
  <2>2. s \notin Leaders => Follows(r)
    BY <1>1, CloseIs DEF Counted, Follows
  <2> QED
    BY <2>1, <2>2 DEF Counted
<1>4. c.reply \in SyncRes
  BY <1>2 DEF OutCall, Call
<1>5. /\ c.reply.logs \in Seq(WALEntry)
      /\ c.reply.last_inserted_ballot \in Ballot
      /\ c.reply.last_inserted_ballot.num \in Nat
  BY <1>4 DEF SyncRes, Ballot
<1> HIDE DEF r
<1>6. q \in State /\ SameVotes(q, r)
  BY <1>2, <1>5, InsertEntriesType, InsertEntriesVotes
<1> HIDE DEF q
<1>7. q.last_inserted + Len(c.reply.logs) \in Index
  <2>1. q.last_inserted \in Index
    BY <1>6 DEF State, ServerState
  <2>2. Len(c.reply.logs) \in Nat
    BY <1>5
  <2> QED
    BY <2>1, <2>2, IndexPlus
<1>8. synced \in ServerState /\ SameParts(synced, q)
  BY <1>5, <1>6, <1>7 DEF State, ServerState, SameParts
<1>9. SameVotes(synced, q)
  BY <1>6 DEF SameVotes, State, ServerState
<1>10. synced \in State /\ Counted(synced, s)
  BY <1>3, <1>6, <1>8, <1>9, Untouched, SameVotesCounted
<1> HIDE DEF synced
<1>11. m \in State /\ Counted(m, s)
  BY <1>2, <1>3, <1>10
<1> HIDE DEF m
<1>12. n \in ServerState /\ SameParts(n, m)
  BY <1>11 DEF State, ServerState, SameParts
<1>13. SameVotes(n, m)
  BY <1>11 DEF State, ServerState, SameVotes
<1>14. n \in State /\ Counted(n, s)
  BY <1>11, <1>12, <1>13, Untouched, SameVotesCounted
<1> HIDE DEF n
<1>15. \/ n.current # <<>> /\ Step(s, ReissuePrepareForCurrent(n, s))
       \/ Step(s, MaybeStartRound(n, s))
  BY DEF HandleSyncReply, n, m, synced, q, r, o
<1>16. CASE n.current # <<>> /\ Step(s, ReissuePrepareForCurrent(n, s))
  <2>1. s \in Leaders /\ CallsOK(n, s)
    BY <1>14, <1>16 DEF Counted, Follows
  <2>2. Counted(ReissuePrepareForCurrent(n, s), s)
    BY <1>14, <2>1, ReissueCounted
  <2> QED
    BY <1>1, <1>16, <2>2, StepCounted
<1>17. CASE Step(s, MaybeStartRound(n, s))
  BY <1>1, <1>14, <1>17, MaybeStartRoundCounted, StepCounted
<1> QED
  BY <1>15, <1>16, <1>17

(* A restart waits for nothing and keeps the requests apart. *)
LEMMA RestartCounted ==
  ASSUME VotesInv, NEW s \in Server, Restart(s)
  PROVE  \A p \in Server : Counted(srv'[p], p)
<1> DEFINE r     == srv[s]
<1> DEFINE num   == Max({r.ballot_num} \cup {r.log[i].ballot.num : i \in DOMAIN r.log})
<1> DEFINE last  == IF r.log = <<>> THEN NoBallot ELSE r.log[Len(r.log)].ballot
<1> DEFINE count == Cardinality(PaxosPositions(r.log)) - 1
<1> DEFINE unseen == {d \in r.outcalls : ~d.handled}
<1> DEFINE shut(c) == [c EXCEPT !.open = FALSE]
<1> DEFINE calls == {shut(c) : c \in unseen}
<1> DEFINE in    == [t \in Tid |-> IF r.incall[t] = "parked" THEN "lost" ELSE r.incall[t]]
<1> DEFINE q == [InitState(s) EXCEPT
                   !.log = r.log, !.balances = r.balances, !.ballot_num = num,
                   !.transferIndex = RecoveredIndex(r.log),
                   !.last_inserted = Len(r.log) - 1,
                   !.last_inserted_ballot = last, !.paxos_index = count,
                   !.outcalls = calls, !.incall = in]
<1>1. /\ srv \in [Server -> State] /\ r \in State /\ Counted(r, s)
      /\ \A p \in Server : Counted(srv[p], p)
  BY TypeOKState DEF VotesInv
<1>2. Step(s, q)
  BY DEF Restart
<1>3. unseen \subseteq r.outcalls /\ r.outcalls \subseteq OutCall
  BY <1>1 DEF State, ServerState
<1> HIDE DEF r, num, last, count, in, unseen
<1>4. \A c \in unseen : SameCall(shut(c), c)
  BY <1>3 DEF OutCall, Call, SameCall
<1> HIDE DEF shut
<1>5. \A d \in calls : \E c \in unseen : d = shut(c) /\ SameCall(d, c)
  BY <1>4
<1> HIDE DEF calls
<1>6. /\ q.pending = <<>> /\ q.current = <<>> /\ q.outcalls = calls
      /\ ~q.await_prepare_decision /\ ~q.await_accept_decision
  BY DEF InitState
<1> HIDE DEF q
<1>7. \A d, e \in calls : SameCall(d, e) => d = e
  <2>1. SUFFICES ASSUME NEW d \in calls, NEW e \in calls, SameCall(d, e)
                 PROVE  d = e
    OBVIOUS
  <2>2. PICK a \in unseen : d = shut(a) /\ SameCall(d, a)
    BY <1>5
  <2>3. PICK b \in unseen : e = shut(b) /\ SameCall(e, b)
    BY <1>5
  <2>4. SameCall(a, b)
    BY <2>1, <2>2, <2>3 DEF SameCall
  <2>5. a = b
    BY <1>1, <1>3, <2>4 DEF Counted, CallsOK
  <2> QED
    BY <2>2, <2>3, <2>5
<1>8. \A d \in calls : d.type \in {"PREPARE", "ACCEPT"} => s \in Leaders /\ d.to \in Stubs(s)
  BY <1>1, <1>3, <1>5 DEF Counted, CallsOK, SameCall
<1>9. Counted(q, s)
  BY <1>6, <1>7, <1>8 DEF Counted, CallsOK, Follows, PrepareCounted, AcceptCounted
<1> QED
  BY <1>1, <1>2, <1>9, StepCounted

(* Disconnecting a server leaves its votes alone. *)
LEMMA ProcessDisconnectCallCounted ==
  ASSUME VotesInv, NEW s \in Server, NEW b \in BOOLEAN, ProcessDisconnectCall(s, b)
  PROVE  \A p \in Server : Counted(srv'[p], p)
<1> DEFINE r == srv[s]
<1> DEFINE q == [r EXCEPT !.i_am_disconnected = b]
<1>1. /\ srv \in [Server -> State] /\ r \in State /\ Counted(r, s)
      /\ \A p \in Server : Counted(srv[p], p)
  BY TypeOKState DEF VotesInv
<1>2. Step(s, q)
  BY DEF ProcessDisconnectCall
<1> HIDE DEF r
<1>3. SameVotes(q, r)
  BY <1>1 DEF SameVotes, State, ServerState
<1> HIDE DEF q
<1> QED
  BY <1>1, <1>2, <1>3, SameVotesCounted, StepCounted

(* A fault that may not happen stays so. *)
LEMMA NoneUnavailableNext ==
  ASSUME TypeOK, NoneUnavailable, [Next]_vars
  PROVE  NoneUnavailable'
<1>1. budget \in [FaultKind -> Nat \cup {Unlimited}] /\ "UNAVAILABLE" \in FaultKind
  BY DEF TypeOK, FaultKind
<1>2. ASSUME NEW kind, Spend(kind)
      PROVE  NoneUnavailable'
  <2>1. kind # "UNAVAILABLE"
    BY <1>2 DEF Spend, NoneUnavailable
  <2> QED
    BY <1>1, <1>2, <2>1 DEF Spend, NoneUnavailable
<1> HIDE DEF NoneUnavailable
<1>3. ASSUME UNCHANGED budget
      PROVE  NoneUnavailable'
  BY <1>3 DEF NoneUnavailable
<1>4. ASSUME NEW s \in Server, NEW t \in Tid,
             EnqueueClientTxn(s, t) \/ ProcessTpcDecision(s, t) \/ LockTimeout(s, t)
      PROVE  NoneUnavailable'
  BY <1>2, <1>3, <1>4 DEF EnqueueClientTxn, ProcessTpcDecision, LockTimeout
<1>5. ASSUME NEW t \in Tid, NEW d \in {"commit", "abort"}, ClientDecide(t, d)
      PROVE  NoneUnavailable'
  BY <1>3, <1>5 DEF ClientDecide
<1>6. ASSUME NEW s \in Server, NEW c \in srv[s].outcalls, ProcessCall(s, c)
      PROVE  NoneUnavailable'
  BY <1>3, <1>6 DEF ProcessCall
<1>7. ASSUME NEW s \in Server, NEW c \in srv[s].outcalls, NEW status,
             HandleRPCResponse(s, c, status)
      PROVE  NoneUnavailable'
  BY <1>2, <1>3, <1>7 DEF HandleRPCResponse
<1>8. ASSUME NEW s \in Server, NEW b \in BOOLEAN, ProcessDisconnectCall(s, b)
      PROVE  NoneUnavailable'
  BY <1>2, <1>3, <1>8 DEF ProcessDisconnectCall
<1>9. ASSUME NEW s \in Server, Restart(s)
      PROVE  NoneUnavailable'
  BY <1>2, <1>9 DEF Restart
<1>10. ASSUME UNCHANGED vars
       PROVE  NoneUnavailable'
  BY <1>3, <1>10 DEF vars
<1> QED
  BY <1>4, <1>5, <1>6, <1>7, <1>8, <1>9, <1>10 DEF Next

(* Every step keeps the count, one case per action. *)
LEMMA VotesNext ==
  ASSUME VotesInv, OneLeader, [Next]_vars
  PROVE  VotesInv'
<1>0. TypeOK' /\ NoneUnavailable'
  BY NextType, NoneUnavailableNext DEF VotesInv
<1> DEFINE AllCounted == \A p \in Server : Counted(srv'[p], p)
<1>1. ASSUME NEW s \in Server, NEW t \in Tid, EnqueueClientTxn(s, t)
      PROVE  AllCounted
  BY <1>1, EnqueueClientTxnCounted
<1>2. ASSUME NEW s \in Server, NEW t \in Tid, ProcessTpcDecision(s, t)
      PROVE  AllCounted
  BY <1>2, ProcessTpcDecisionCounted
<1>3. ASSUME NEW s \in Server, NEW t \in Tid, LockTimeout(s, t)
      PROVE  AllCounted
  BY <1>3, LockTimeoutCounted
<1>4. ASSUME NEW t \in Tid, NEW d \in {"commit", "abort"}, ClientDecide(t, d)
      PROVE  AllCounted
  BY <1>4 DEF ClientDecide, VotesInv
<1>5. ASSUME NEW s \in Server, NEW c \in srv[s].outcalls, ProcessCall(s, c)
      PROVE  AllCounted
  BY <1>5, ProcessPrepareCallCounted, ProcessAcceptCallCounted,
     ProcessCommitCallCounted, ProcessSyncCallCounted DEF ProcessCall
<1>6. ASSUME NEW s \in Server, NEW c \in srv[s].outcalls,
             NEW status \in {"OK", "DEADLINE_EXCEEDED", "UNAVAILABLE"},
             HandleRPCResponse(s, c, status)
      PROVE  AllCounted
  <2>1. status # "UNAVAILABLE"
    BY <1>6 DEF HandleRPCResponse, Spend, VotesInv, NoneUnavailable
  <2>2. status \in {"OK", "DEADLINE_EXCEEDED"}
    BY <2>1
  <2> QED
    BY <1>6, <2>2, HandlePrepareReplyCounted, HandleAcceptReplyCounted,
       HandleSyncReplyCounted DEF HandleRPCResponse
<1>7. ASSUME NEW s \in Server, NEW b \in BOOLEAN, ProcessDisconnectCall(s, b)
      PROVE  AllCounted
  BY <1>7, ProcessDisconnectCallCounted
<1>8. ASSUME NEW s \in Server, Restart(s)
      PROVE  AllCounted
  BY <1>8, RestartCounted
<1>9. ASSUME UNCHANGED vars
      PROVE  AllCounted
  BY <1>9 DEF vars, VotesInv
<1> HIDE DEF AllCounted
<1>10. AllCounted
  BY <1>1, <1>2, <1>3, <1>4, <1>5, <1>6, <1>7, <1>8, <1>9 DEF Next
<1> QED
  BY <1>0, <1>10 DEF VotesInv, AllCounted, Counted, CallsOK, Follows, PrepareCounted,
     AcceptCounted, Open, SameCall

(* In every instance with one leader per cluster and calls that are        *)
(* answered or time out, a round that waits for promises or acceptances    *)
(* has as many votes counted and calls open as the cluster has servers,    *)
(* through any deadlines, retries with a new or an old ballot, syncs,      *)
(* disconnections and restarts: it never waits for votes that cannot come. *)
(* Both hypotheses are needed: an UNAVAILABLE call is counted nowhere, and *)
(* a second leader's Prepare replaces promised_num under a running round.  *)
THEOREM VotesAccountedHolds ==
  ASSUME Budget["UNAVAILABLE"] = 0,
         \A p, q \in Leaders : ServerCluster[p] = ServerCluster[q] => p = q
  PROVE  Spec => []VotesAccounted
<1>1. OneLeader
  BY DEF OneLeader
<1>2. Init => VotesInv
  <2>1. ASSUME Init, NEW s \in Server PROVE Counted(srv[s], s)
    <3>1. LET r == srv[s] IN
          /\ r.pending = <<>> /\ r.current = <<>> /\ r.outcalls = {}
          /\ ~r.await_prepare_decision /\ ~r.await_accept_decision
      BY <2>1 DEF Init, InitState
    <3> QED
      BY <3>1 DEF Counted, CallsOK, Follows, PrepareCounted, AcceptCounted
  <2>2. Init => NoneUnavailable
    BY DEF Init, NoneUnavailable
  <2> QED
    BY <2>1, <2>2, InitType DEF VotesInv
<1>3. VotesInv /\ [Next]_vars => VotesInv'
  BY <1>1, VotesNext
<1>4. VotesInv => VotesAccounted
  BY DEF VotesInv, VotesAccounted, Counted, PrepareCounted, AcceptCounted, Open
<1> QED
  BY <1>2, <1>3, <1>4, PTL DEF Spec
=============================================================================
