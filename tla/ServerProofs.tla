---------------------------- MODULE ServerProofs ----------------------------
(***************************************************************************)
(* Theorems about the servers, for every cluster layout, every set of      *)
(* transactions and every bound.  First one lemma per part of a handler:   *)
(* it takes a state of a server to a state of a server.                    *)
(***************************************************************************)
EXTENDS ServerProps, TypesProofs

(* A state of a server, with finitely many calls under way and a           *)
(* transferIndex that points into the log.                                 *)
Sound(r) ==
  /\ IsFiniteSet(r.outcalls)
  /\ \A t \in Tid : r.transferIndex[t] <= Len(r.log)

State == {r \in ServerState : Sound(r)}

(* Two states that differ in none of the parts Sound looks at. *)
SameParts(q, r) ==
  q.outcalls = r.outcalls /\ q.transferIndex = r.transferIndex /\ q.log = r.log

(* A step that leaves those parts alone need only keep the record's type. *)
LEMMA Untouched ==
  ASSUME NEW r \in State, NEW q \in ServerState, SameParts(q, r)
  PROVE  q \in State
  BY DEF State, Sound, SameParts

(* The request belongs to a call of this type. *)
Fits(type, req) ==
  \/ type = "PREPARE" /\ req \in PrepareReq
  \/ type = "ACCEPT" /\ req \in AcceptReq
  \/ type = "COMMIT" /\ req \in CommitReq
  \/ type = "SYNC" /\ req \in SyncReq

(* The initial ballot is a ballot. *)
LEMMA NoBallotType == NoBallot \in Ballot
  BY DEF NoBallot, Ballot

(* A position moved forward is a position. *)
LEMMA IndexPlus ==
  ASSUME NEW i \in Index, NEW n \in Nat
  PROVE  i + n \in Index /\ n - 1 \in Index
  BY DEF Index

(* InCall::completeTransfer keeps the type. *)
LEMMA CompleteTransferType ==
  ASSUME NEW r \in State, NEW batch, NEW answer \in InCallStatus
  PROVE  CompleteTransfer(r, batch, answer) \in State
<1>1. CompleteTransfer(r, batch, answer) \in ServerState
  BY DEF CompleteTransfer, State, ServerState, InCallStatus
<1>2. SameParts(CompleteTransfer(r, batch, answer), r)
  BY DEF CompleteTransfer, SameParts, State, ServerState
<1> QED
  BY <1>1, <1>2 DEF State, SameParts, Sound

(* The copy number of a new call is a number no equal call has. *)
LEMMA NewCallCopy ==
  ASSUME NEW calls, IsFiniteSet(calls)
  PROVE  \E n \in 0..Cardinality(calls) : \A c \in calls : c.copy # n
<1> DEFINE n == Cardinality(calls)
<1> DEFINE copies == {c.copy : c \in calls}
<1> DEFINE f == [c \in calls |-> c.copy]
<1>1. n \in Nat
  BY FS_CardinalityType
<1>2. f \in Surjection(calls, copies)
  BY DEF Surjection
<1>3. IsFiniteSet(copies) /\ Cardinality(copies) <= n
  BY <1>2, FS_Surjection
<1>4. IsFiniteSet(0..n) /\ Cardinality(0..n) = n + 1
  BY <1>1, FS_Interval
<1>5. Cardinality(copies) \in Nat
  BY <1>3, FS_CardinalityType
<1>6. ~(0..n \subseteq copies)
  <2>1. SUFFICES ASSUME 0..n \in SUBSET copies PROVE FALSE
    OBVIOUS
  <2>2. Cardinality(0..n) <= Cardinality(copies)
    BY <1>3, <2>1, FS_Subset
  <2> QED
    BY <1>1, <1>3, <1>4, <1>5, <2>2
<1> QED
  BY <1>6

(* A request sent is an OutCall. *)
LEMMA NewCallType ==
  ASSUME NEW r \in State, NEW type, NEW to \in Server, NEW req, Fits(type, req)
  PROVE  NewCall(r, type, to, req) \in OutCall
<1> DEFINE same == {c \in r.outcalls : c.type = type /\ c.to = to /\ c.req = req}
<1> DEFINE copy == CHOOSE n \in 0..Cardinality(same) : \A c \in same : c.copy # n
<1>1. IsFiniteSet(same) /\ Cardinality(same) \in Nat
  BY FS_Subset, FS_CardinalityType DEF State, Sound
<1>2. \E n \in 0..Cardinality(same) : \A c \in same : c.copy # n
  BY <1>1, NewCallCopy
<1>3. copy \in 0..Cardinality(same)
  BY <1>2
<1>4. copy \in Nat
  BY <1>1, <1>3
<1> HIDE DEF copy
<1>5. NewCall(r, type, to, req) =
        [type |-> type, to |-> to, req |-> req, copy |-> copy,
         open |-> type # "COMMIT", handled |-> FALSE, reply |-> NoReply(type)]
  BY DEF NewCall, copy
<1>6. <<>> \in Seq(WALEntry)
  OBVIOUS
<1>7. CASE type = "PREPARE" /\ req \in PrepareReq
  BY <1>4, <1>5, <1>7 DEF OutCall, Call, NoReply, PrepareRes, Unset, Index
<1>8. CASE type = "ACCEPT" /\ req \in AcceptReq
  BY <1>4, <1>5, <1>8 DEF OutCall, Call, NoReply, AcceptRes
<1>9. CASE type = "COMMIT" /\ req \in CommitReq
  BY <1>4, <1>5, <1>9 DEF OutCall, Call, NoReply, AcceptRes
<1>10. CASE type = "SYNC" /\ req \in SyncReq
  BY <1>4, <1>5, <1>6, <1>10, NoBallotType DEF OutCall, Call, NoReply, SyncRes
<1> QED
  BY <1>7, <1>8, <1>9, <1>10 DEF Fits

(* Sending a request to some servers keeps the type and changes only       *)
(* outcalls.                                                               *)
LEMMA SendType ==
  ASSUME NEW r \in State, NEW type, NEW peers \in SUBSET Server, NEW req,
         Fits(type, req)
  PROVE  Send(r, type, peers, req) \in State
<1> DEFINE new == {NewCall(r, type, p, req) : p \in peers}
<1> DEFINE f == [p \in peers |-> NewCall(r, type, p, req)]
<1>1. f \in Surjection(peers, new)
  BY DEF Surjection
<1>2. IsFiniteSet(peers)
  BY TypesAssumption, FS_Subset
<1>3. IsFiniteSet(new)
  BY <1>1, <1>2, FS_Surjection
<1>4. new \subseteq OutCall
  BY NewCallType
<1> HIDE DEF new
<1>5. IsFiniteSet(r.outcalls \cup new)
  BY <1>3, FS_Union DEF State, Sound
<1>6. Send(r, type, peers, req) = [r EXCEPT !.outcalls = r.outcalls \cup new]
  BY DEF Send, new, State, ServerState
<1>7. r.outcalls \cup new \subseteq OutCall
  BY <1>4 DEF State, ServerState
<1>8. [r EXCEPT !.outcalls = r.outcalls \cup new] \in ServerState
  BY <1>7 DEF State, ServerState
<1>9. LET q == [r EXCEPT !.outcalls = r.outcalls \cup new] IN
      q.outcalls = r.outcalls \cup new /\ q.log = r.log /\ q.transferIndex = r.transferIndex
  BY DEF State, ServerState
<1> QED
  BY <1>5, <1>6, <1>8, <1>9 DEF State, Sound

(* Starting a sync keeps the type. *)
LEMMA StartSyncType ==
  ASSUME NEW r \in State, NEW p \in Server
  PROVE  StartSync(r, p) \in State
<1> DEFINE q == [r EXCEPT !.in_sync = TRUE]
<1>1. q \in ServerState /\ SameParts(q, r)
  BY DEF State, ServerState, SameParts
<1>2. q \in State
  BY <1>1 DEF State, Sound, SameParts
<1>3. Fits("SYNC", [last_inserted |-> r.last_inserted])
  BY DEF Fits, SyncReq, State, ServerState
<1> HIDE DEF q
<1>4. Send(q, "SYNC", {p}, [last_inserted |-> r.last_inserted]) \in State
  BY <1>2, <1>3, SendType
<1> QED
  BY <1>4 DEF StartSync, q

(* Entries made from a batch are log entries, one for each transaction. *)
LEMMA LogEntriesType ==
  ASSUME NEW ts \in Seq(Tid), NEW b \in Ballot, NEW st \in Status
  PROVE  /\ LogEntries(ts, b, st) \in Seq(WALEntry)
         /\ Len(LogEntries(ts, b, st)) = Len(ts)
         /\ \A i \in 1..Len(ts) : LogEntries(ts, b, st)[i] = Entry(ts[i], b, st)
<1>1. \A i \in 1..Len(ts) : Entry(ts[i], b, st) \in WALEntry
  BY DEF Entry, WALEntry
<1>2. LogEntries(ts, b, st) = [i \in 1..Len(ts) |-> Entry(ts[i], b, st)]
  BY DEF LogEntries
<1> QED
  BY <1>1, <1>2

(* Balances stay integers. *)
LEMMA ApplyType ==
  ASSUME NEW r \in State, NEW s \in Server, NEW ts \in SUBSET Tid
  PROVE  Apply(r, s, ts) \in [Account -> Int]
<1>1. \A k \in Account : r.balances[k] \in Int
  BY DEF State, ServerState
<1>2. \A k \in Account : r.balances[k] + Credits(ts, k) - Debits(ts, k) \in Int
  BY <1>1, DebitsCreditsType
<1> QED
  BY <1>1, <1>2 DEF Apply

(* The transactions of a batch. *)
LEMMA RangeType ==
  ASSUME NEW ts \in Seq(Tid)
  PROVE  Range(ts) \in SUBSET Tid
  BY DEF Range

(* prepareTransaction keeps the type. *)
LEMMA PrepareTransactionsType ==
  ASSUME NEW r \in State, NEW ts \in Seq(Tid), NEW b \in Ballot
  PROVE  PrepareTransactions(r, ts, b) \in State
<1>1. CASE ts = <<>>
  BY <1>1 DEF PrepareTransactions
<1>2. CASE ts # <<>>
  <2> DEFINE log == r.log \o LogEntries(ts, b, "PREPARED")
  <2> DEFINE index == [t \in Tid |->
        IF t \in Range(ts)
        THEN Len(r.log) + (CHOOSE i \in DOMAIN ts : ts[i] = t)
        ELSE r.transferIndex[t]]
  <2> DEFINE stamps == r.prepareTimestamps \cup Range(ts)
  <2>1. log \in Seq(WALEntry)
    BY LogEntriesType DEF State, ServerState, Status
  <2>2. index \in [Tid -> Nat] /\ \A t \in Tid : index[t] <= Len(log)
    <3> DEFINE pos(t) == CHOOSE i \in DOMAIN ts : ts[i] = t
    <3>1. \A t \in Range(ts) : pos(t) \in DOMAIN ts
      BY DEF Range
    <3> HIDE DEF pos
    <3>2. \A t \in Range(ts) : pos(t) \in Nat /\ pos(t) <= Len(ts)
      BY <3>1
    <3>3. Len(r.log) \in Nat /\ \A t \in Tid : r.transferIndex[t] \in Nat
      BY DEF State, ServerState
    <3>4. Len(log) = Len(r.log) + Len(ts)
      <4> DEFINE new == LogEntries(ts, b, "PREPARED")
      <4>1. new \in Seq(WALEntry) /\ Len(new) = Len(ts)
        BY LogEntriesType DEF Status
      <4>2. r.log \in Seq(WALEntry)
        BY DEF State, ServerState
      <4> HIDE DEF new
      <4>3. Len(r.log \o new) = Len(r.log) + Len(new)
        BY <4>1, <4>2
      <4> QED
        BY <4>1, <4>3 DEF new
    <3>5. \A t \in Tid : r.transferIndex[t] <= Len(r.log)
      BY DEF State, Sound
    <3> HIDE DEF log
    <3>6. LET f == [t \in Tid |-> IF t \in Range(ts) THEN Len(r.log) + pos(t)
                                                     ELSE r.transferIndex[t]]
          IN  f \in [Tid -> Nat] /\ \A t \in Tid : f[t] <= Len(log)
      BY <3>2, <3>3, <3>4, <3>5
    <3> QED
      BY <3>6 DEF pos
  <2>3. stamps \in SUBSET Tid
    BY RangeType DEF State, ServerState
  <2>4. Len(r.log) + Len(ts) - 1 \in Index /\ r.paxos_index + Len(ts) \in Index
    <3>1. Len(r.log) + Len(ts) \in Nat /\ Len(ts) \in Nat /\ r.paxos_index \in Index
      BY DEF State, ServerState
    <3> QED
      BY <3>1, IndexPlus
  <2> HIDE DEF log, index, stamps
  <2> DEFINE q == [r EXCEPT !.log = log, !.transferIndex = index,
                            !.last_inserted = Len(r.log) + Len(ts) - 1,
                            !.last_inserted_ballot = b,
                            !.paxos_index = r.paxos_index + Len(ts),
                            !.prepareTimestamps = stamps]
  <2>5. PrepareTransactions(r, ts, b) = q
    BY <1>2 DEF PrepareTransactions, log, index, stamps, State, ServerState
  <2>6. q \in ServerState
    BY <2>1, <2>2, <2>3, <2>4 DEF State, ServerState
  <2>7. q.outcalls = r.outcalls /\ q.log = log /\ q.transferIndex = index
    BY DEF State, ServerState
  <2> QED
    BY <2>2, <2>5, <2>6, <2>7 DEF State, Sound
<1> QED
  BY <1>1, <1>2

(* commitTransaction keeps the type. *)
LEMMA CommitTransactionsType ==
  ASSUME NEW r \in State, NEW s \in Server, NEW ts \in Seq(Tid), NEW b \in Ballot
  PROVE  CommitTransactions(r, s, ts, b) \in State
<1> DEFINE new == Select(ts, {i \in DOMAIN ts : ts[i] \notin r.balance_applied})
<1>1. new \in Seq(Tid)
  BY SelectProperties
<1> HIDE DEF new
<1>2. CASE new = <<>>
  BY <1>2 DEF CommitTransactions, new
<1>3. CASE new # <<>>
  <2> DEFINE log == r.log \o LogEntries(new, b, "COMMITTED")
  <2> DEFINE applied == r.balance_applied \cup Range(new)
  <2> DEFINE money == Apply(r, s, Range(new))
  <2>1. log \in Seq(WALEntry)
    BY <1>1, LogEntriesType DEF State, ServerState, Status
  <2>2. applied \in SUBSET Tid
    BY <1>1, RangeType DEF State, ServerState
  <2>3. money \in [Account -> Int]
    BY <1>1, RangeType, ApplyType
  <2>4. Len(r.log) + Len(new) - 1 \in Index /\ r.paxos_index + Len(new) \in Index
    <3>1. Len(r.log) + Len(new) \in Nat /\ Len(new) \in Nat /\ r.paxos_index \in Index
      BY <1>1 DEF State, ServerState
    <3>2. (Len(r.log) + Len(new)) - 1 \in Index
      BY <3>1, IndexPlus
    <3>3. r.paxos_index + Len(new) \in Index
      BY <3>1, IndexPlus
    <3> QED
      BY <3>2, <3>3
  <2> HIDE DEF log, applied, money
  <2> DEFINE q == [r EXCEPT !.balance_applied = applied, !.log = log,
                            !.balances = money,
                            !.last_inserted = Len(r.log) + Len(new) - 1,
                            !.last_inserted_ballot = b,
                            !.paxos_index = r.paxos_index + Len(new)]
  <2>5. CommitTransactions(r, s, ts, b) = q
    BY <1>3 DEF CommitTransactions, new, log, applied, money, State, ServerState
  <2>6. q \in ServerState
    BY <2>1, <2>2, <2>3, <2>4 DEF State, ServerState
  <2>7. q.outcalls = r.outcalls /\ q.log = log /\ q.transferIndex = r.transferIndex
    BY DEF State, ServerState
  <2>8. Len(r.log) <= Len(log)
    BY <1>1, LogEntriesType DEF log, State, ServerState, Status
  <2>9. \A t \in Tid : r.transferIndex[t] <= Len(log)
    BY <2>1, <2>8 DEF State, Sound, ServerState
  <2> QED
    BY <2>5, <2>6, <2>7, <2>9 DEF State, Sound
<1> QED
  BY <1>2, <1>3

(* Closing a prepared transaction keeps the type, provided transferIndex   *)
(* points into the log.                                                    *)
LEMMA CloseTransactionType ==
  ASSUME NEW r \in State, NEW s \in Server, NEW t \in Tid, NEW st \in Status,
         r.transferIndex[t] \in DOMAIN r.log
  PROVE  CloseTransaction(r, s, t, st) \in State
<1> DEFINE log == Append(r.log, Entry(t, r.log[r.transferIndex[t]].ballot, st))
<1> DEFINE index == [r.transferIndex EXCEPT ![t] = 0]
<1> DEFINE locks == r.locks \ LocalAccounts(s, t)
<1>1. r.log[r.transferIndex[t]] \in WALEntry
  BY DEF State, ServerState
<1>2. Entry(t, r.log[r.transferIndex[t]].ballot, st) \in WALEntry
  BY <1>1 DEF WALEntry, Entry
<1>3. log \in Seq(WALEntry)
  BY <1>2 DEF State, ServerState
<1>4. index \in [Tid -> Nat] /\ locks \in SUBSET Account
  BY DEF State, ServerState
<1> HIDE DEF log, index, locks
<1> DEFINE q == [r EXCEPT !.log = log, !.transferIndex = index, !.locks = locks]
<1>5. CloseTransaction(r, s, t, st) = q
  BY DEF CloseTransaction, log, index, locks, State, ServerState
<1>6. q \in ServerState
  BY <1>3, <1>4 DEF State, ServerState
<1>7. q.outcalls = r.outcalls /\ q.log = log /\ q.transferIndex = index
  BY DEF State, ServerState
<1>8. Len(r.log) \in Nat /\ Len(log) = Len(r.log) + 1
  BY <1>2 DEF log, State, ServerState
<1>9. \A u \in Tid : index[u] <= Len(log)
  BY <1>8 DEF index, State, Sound, ServerState
<1> QED
  BY <1>5, <1>6, <1>7, <1>9 DEF State, Sound

(* A new Prepare keeps the type. *)
LEMMA ReissuePrepareType ==
  ASSUME NEW r \in State, NEW s \in Server
  PROVE  ReissuePrepareForCurrent(r, s) \in State
<1> DEFINE b == [num |-> r.ballot_num + 1, server_id |-> s]
<1> DEFINE q == [r EXCEPT !.ballot_num = b.num, !.promised = TRUE, !.promised_num = b,
                          !.await_prepare_decision = TRUE,
                          !.await_accept_decision = FALSE,
                          !.prepare_successes = 1, !.prepare_failures = 0]
<1>1. b \in Ballot /\ b \in Proposal /\ b.num \in Nat
  BY DEF Ballot, Proposal, State, ServerState
<1> HIDE DEF b
<1>2. q \in ServerState /\ SameParts(q, r)
  BY <1>1 DEF State, ServerState, SameParts
<1>3. q \in State
  BY <1>2, Untouched
<1>4. Fits("PREPARE", [ballot |-> b, paxos_index |-> r.paxos_index])
  BY <1>1 DEF Fits, PrepareReq, State, ServerState
<1>5. Stubs(s) \in SUBSET Server
  BY DEF Stubs
<1> HIDE DEF q
<1>6. Send(q, "PREPARE", Stubs(s), [ballot |-> b, paxos_index |-> r.paxos_index]) \in State
  BY <1>3, <1>4, <1>5, SendType
<1> QED
  BY <1>6 DEF ReissuePrepareForCurrent, q, b

(* maybeStartRound keeps the type. *)
LEMMA MaybeStartRoundType ==
  ASSUME NEW r \in State, NEW s \in Server
  PROVE  MaybeStartRound(r, s) \in State
<1> DEFINE q == [r EXCEPT !.current = r.pending, !.pending = <<>>, !.is_paxos_running = TRUE]
<1>1. <<>> \in Seq(Tid)
  OBVIOUS
<1>2. q \in ServerState /\ SameParts(q, r)
  BY <1>1 DEF State, ServerState, SameParts
<1>3. ReissuePrepareForCurrent(q, s) \in State
  BY <1>2, Untouched, ReissuePrepareType
<1> QED
  BY <1>3 DEF MaybeStartRound, StartRound

(* finishRound keeps the type. *)
LEMMA FinishRoundType ==
  ASSUME NEW r \in State, NEW s \in Server
  PROVE  FinishRound(r, s) \in State
<1> DEFINE q == [r EXCEPT !.is_paxos_running = FALSE, !.promised = FALSE,
                          !.accepted = FALSE, !.await_prepare_decision = FALSE,
                          !.await_accept_decision = FALSE,
                          !.current = <<>>, !.accept_batch = <<>>]
<1>1. <<>> \in Seq(Tid)
  OBVIOUS
<1>2. q \in ServerState /\ SameParts(q, r)
  BY <1>1, ZenonT(40) DEF State, ServerState, SameParts
<1>3. MaybeStartRound(q, s) \in State
  BY <1>2, Untouched, MaybeStartRoundType
<1> QED
  BY <1>3 DEF FinishRound

(* onPrepareQuorum keeps the type. *)
LEMMA OnPrepareQuorumType ==
  ASSUME NEW r \in State, NEW s \in Server, NEW K \in SUBSET DOMAIN r.current
  PROVE  OnPrepareQuorum(r, s, K) \in State
<1> DEFINE kept     == Select(r.current, K)
<1> DEFINE dropped  == Select(r.current, DOMAIN r.current \ K)
<1> DEFINE prepared == Select(r.current, {i \in K : IsCrossShard(r.current[i])})
<1> DEFINE locks    == r.locks \cup UNION {LocalAccounts(s, r.current[i]) : i \in K}
<1> DEFINE q == [r EXCEPT !.await_prepare_decision = FALSE, !.locks = locks, !.current = kept]
<1> DEFINE checked == PrepareTransactions(CompleteTransfer(q, dropped, "nack"), prepared, r.promised_num)
<1> DEFINE sent == [checked EXCEPT !.accepted = TRUE, !.accept_num = r.promised_num,
                                   !.accept_batch = kept, !.await_accept_decision = TRUE,
                                   !.accept_successes = 1, !.accept_failures = 0]
<1>1. r.current \in Seq(Tid) /\ r.promised_num \in Ballot
  BY DEF State, ServerState
<1>2. kept \in Seq(Tid) /\ prepared \in Seq(Tid)
  BY <1>1, SelectProperties
<1>3. locks \in SUBSET Account
  <2>1. \A i \in K : LocalAccounts(s, r.current[i]) \in SUBSET Account
    BY <1>1, TypesAssumption DEF LocalAccounts
  <2> QED
    BY <2>1 DEF State, ServerState
<1> HIDE DEF kept, prepared, locks, dropped
<1>4. q \in ServerState /\ SameParts(q, r)
  BY <1>2, <1>3 DEF State, ServerState, SameParts
<1>5. q \in State
  BY <1>4, Untouched
<1> HIDE DEF q
<1>6. checked \in State
  BY <1>1, <1>2, <1>5, CompleteTransferType, PrepareTransactionsType DEF InCallStatus
<1> HIDE DEF checked
<1>7. FinishRound(checked, s) \in State
  BY <1>6, FinishRoundType
<1>8. sent \in ServerState /\ SameParts(sent, checked)
  BY <1>1, <1>2, <1>6 DEF State, ServerState, SameParts
<1>9. sent \in State
  BY <1>6, <1>8, Untouched
<1> HIDE DEF sent
<1>10. Fits("ACCEPT", [ballot |-> r.promised_num, batch |-> kept])
  BY <1>1, <1>2 DEF Fits, AcceptReq
<1>11. Send(sent, "ACCEPT", Stubs(s), [ballot |-> r.promised_num, batch |-> kept]) \in State
  BY <1>9, <1>10, SendType DEF Stubs
<1> QED
  BY <1>7, <1>11 DEF OnPrepareQuorum, sent, checked, q, kept, prepared, locks, dropped

(* The two halves of a batch are batches. *)
LEMMA EntriesType ==
  ASSUME NEW batch \in Seq(Tid)
  PROVE  /\ IntraEntries(batch) \in Seq(Tid)
         /\ CrossEntries(batch) \in Seq(Tid)
         /\ \A t \in Range(IntraEntries(batch)) : ~IsCrossShard(t)
         /\ \A t \in Range(CrossEntries(batch)) : IsCrossShard(t)
<1> DEFINE I == {i \in DOMAIN batch : ~IsCrossShard(batch[i])}
<1> DEFINE C == {i \in DOMAIN batch : IsCrossShard(batch[i])}
<1>1. /\ Select(batch, I) \in Seq(Tid)
      /\ \A k \in DOMAIN Select(batch, I) : \E i \in I : Select(batch, I)[k] = batch[i]
  <2>1. I \in SUBSET DOMAIN batch
    OBVIOUS
  <2> HIDE DEF I
  <2> QED
    BY <2>1, SelectProperties
<1>2. /\ Select(batch, C) \in Seq(Tid)
      /\ \A k \in DOMAIN Select(batch, C) : \E i \in C : Select(batch, C)[k] = batch[i]
  <2>1. C \in SUBSET DOMAIN batch
    OBVIOUS
  <2> HIDE DEF C
  <2> QED
    BY <2>1, SelectProperties
<1> QED
  BY <1>1, <1>2, ZenonT(40) DEF IntraEntries, CrossEntries, Range

(* onAcceptQuorum keeps the type. *)
LEMMA OnAcceptQuorumType ==
  ASSUME NEW r \in State, NEW s \in Server
  PROVE  OnAcceptQuorum(r, s) \in State
<1> DEFINE intra == IntraEntries(r.current)
<1> DEFINE q == [r EXCEPT !.await_accept_decision = FALSE]
<1> DEFINE sent == Send(q, "COMMIT", Stubs(s), [ballot |-> r.accept_num])
<1> DEFINE freed == [sent EXCEPT !.locks = sent.locks \ LockedBy(s, intra)]
<1>1. r.current \in Seq(Tid) /\ r.accept_num \in Ballot
  BY DEF State, ServerState
<1>2. intra \in Seq(Tid)
  BY <1>1, EntriesType
<1> HIDE DEF intra
<1>3. q \in ServerState /\ SameParts(q, r)
  BY DEF State, ServerState, SameParts
<1>4. q \in State
  BY <1>3, Untouched
<1> HIDE DEF q
<1>5. Fits("COMMIT", [ballot |-> r.accept_num])
  BY <1>1 DEF Fits, CommitReq
<1>6. sent \in State
  BY <1>4, <1>5, SendType DEF Stubs
<1> HIDE DEF sent
<1>7. freed \in ServerState /\ SameParts(freed, sent)
  BY <1>6 DEF State, ServerState, SameParts
<1>8. freed \in State
  BY <1>6, <1>7, Untouched
<1>9. freed = [sent EXCEPT !.locks = @ \ LockedBy(s, intra)]
  BY <1>6 DEF State, ServerState
<1> HIDE DEF freed
<1>10. CommitTransactions(freed, s, intra, r.accept_num) \in State
  BY <1>1, <1>2, <1>8, CommitTransactionsType
<1>11. CompleteTransfer(CommitTransactions(freed, s, intra, r.accept_num), r.current, "ack") \in State
  BY <1>10, CompleteTransferType DEF InCallStatus
<1> QED
  BY <1>9, <1>11, FinishRoundType DEF OnAcceptQuorum, sent, q, intra

(* onRoundAbort keeps the type. *)
LEMMA OnRoundAbortType ==
  ASSUME NEW r \in State, NEW s \in Server, NEW phase \in BOOLEAN
  PROVE  OnRoundAbort(r, s, phase) \in State
<1> DEFINE freed == IF phase THEN {} ELSE LockedBy(s, IntraEntries(r.current))
<1> DEFINE q == [r EXCEPT !.locks = @ \ freed]
<1> HIDE DEF freed
<1>1. q \in ServerState /\ SameParts(q, r)
  BY DEF State, ServerState, SameParts
<1>2. q \in State
  BY <1>1, Untouched
<1> HIDE DEF q
<1>3. CompleteTransfer(q, r.current, "nack") \in State
  BY <1>2, CompleteTransferType DEF InCallStatus
<1> QED
  BY <1>3, FinishRoundType DEF OnRoundAbort, q, freed

(* What is in a log. *)
LEMMA LogEntry ==
  ASSUME NEW log \in Seq(WALEntry), NEW i \in DOMAIN log
  PROVE  /\ log[i] \in WALEntry
         /\ log[i].tid \in Tid /\ log[i].ballot \in Ballot /\ log[i].ballot.num \in Nat
<1>1. log[i] \in WALEntry
  OBVIOUS
<1> QED
  BY <1>1 DEF WALEntry, Ballot

(* The Paxos entries of a log can be counted. *)
LEMMA PaxosPositionsType ==
  ASSUME NEW log \in Seq(WALEntry)
  PROVE  /\ IsFiniteSet(PaxosPositions(log))
         /\ Cardinality(PaxosPositions(log)) \in Nat
<1>1. PaxosPositions(log) \in SUBSET (1..Len(log))
  BY DEF PaxosPositions
<1>2. Len(log) \in Nat /\ IsFiniteSet(1..Len(log))
  BY FS_Interval
<1> QED
  BY <1>1, <1>2, FS_Subset, FS_CardinalityType

(* The last position of transaction t in a log. *)
LEMMA LastPosition ==
  ASSUME NEW log \in Seq(WALEntry), NEW at \in SUBSET DOMAIN log, at # {}
  PROVE  Max(at) \in at /\ Max(at) \in 1..Len(log) /\ \A i \in at : i <= Max(at)
<1>1. Len(log) \in Nat /\ at \in SUBSET (1..Len(log))
  OBVIOUS
<1>2. at \in SUBSET Nat /\ \A i \in at : i <= Len(log)
  BY <1>1
<1>3. Max(at) \in at /\ \A i \in at : i <= Max(at)
  BY <1>1, <1>2, MaxOfBounded
<1> QED
  BY <1>1, <1>3

(* Appending the entries of a sync reply keeps the type. *)
LEMMA InsertEntriesType ==
  ASSUME NEW r \in State, NEW s \in Server, NEW logs \in Seq(WALEntry)
  PROVE  InsertEntries(r, s, logs) \in State
<1> DEFINE at(t) == {i \in DOMAIN logs : logs[i].tid = t}
<1> DEFINE committed == {logs[i].tid : i \in {j \in DOMAIN logs : logs[j].status = "COMMITTED"}}
<1> DEFINE log == r.log \o logs
<1> DEFINE index == [t \in Tid |->
            IF at(t) = {} THEN r.transferIndex[t]
            ELSE IF logs[Max(at(t))].status = "PREPARED"
                 THEN Len(r.log) + Max(at(t)) ELSE 0]
<1> DEFINE n == Cardinality(PaxosPositions(logs))
<1> DEFINE money == Apply(r, s, committed \ r.balance_applied)
<1>1. /\ r.log \in Seq(WALEntry) /\ Len(r.log) \in Nat
      /\ \A t \in Tid : r.transferIndex[t] \in Nat /\ r.transferIndex[t] <= Len(r.log)
  BY DEF State, ServerState, Sound
<1>2. log \in Seq(WALEntry) /\ Len(log) = Len(r.log) + Len(logs) /\ Len(logs) \in Nat
  BY <1>1
<1>3. \A t \in Tid : at(t) # {} => Max(at(t)) \in 1..Len(logs)
  <2> SUFFICES ASSUME NEW t \in Tid, at(t) # {} PROVE Max(at(t)) \in 1..Len(logs)
    OBVIOUS
  <2>1. at(t) \in SUBSET DOMAIN logs
    OBVIOUS
  <2> HIDE DEF at
  <2> QED
    BY <2>1, LastPosition
<1> HIDE DEF at, log
<1>4. index \in [Tid -> Nat] /\ \A t \in Tid : index[t] <= Len(log)
  BY <1>1, <1>2, <1>3, SMTT(30)
<1>5. committed \in SUBSET Tid
  <2>1. \A i \in DOMAIN logs : logs[i].tid \in Tid
    BY LogEntry
  <2> QED
    BY <2>1
<1> HIDE DEF index, committed
<1>6. money \in [Account -> Int]
  BY <1>5, ApplyType
<1>7. n \in Nat
  BY PaxosPositionsType
<1> HIDE DEF money, n
<1> DEFINE q == [r EXCEPT !.log = log, !.transferIndex = index,
                          !.paxos_index = r.paxos_index + n,
                          !.balances = money,
                          !.balance_applied = r.balance_applied \cup committed]
<1>8. InsertEntries(r, s, logs) = q
  BY DEF InsertEntries, log, index, n, money, committed, at, State, ServerState
<1>a. r.paxos_index + n \in Index /\ r.balance_applied \cup committed \in SUBSET Tid
  <2>1. r.paxos_index \in Index
    BY DEF State, ServerState
  <2>2. r.balance_applied \cup committed \in SUBSET Tid
    BY <1>5 DEF State, ServerState
  <2> QED
    BY <1>7, <2>1, <2>2, IndexPlus
<1>9. q \in ServerState
  BY <1>2, <1>4, <1>6, <1>a DEF State, ServerState
<1>10. q.outcalls = r.outcalls /\ q.log = log /\ q.transferIndex = index
  BY DEF State, ServerState
<1> QED
  BY <1>4, <1>8, <1>9, <1>10 DEF State, Sound

(* A call stays a call when its caller is done with it. *)
LEMMA ClosedCallType ==
  ASSUME NEW c \in OutCall
  PROVE  [c EXCEPT !.open = FALSE] \in OutCall
  BY DEF OutCall, Call

(* The reply belongs to a call of this type. *)
Replies(type, reply) ==
  \/ type = "PREPARE" /\ reply \in PrepareRes
  \/ type = "ACCEPT" /\ reply \in AcceptRes
  \/ type = "SYNC" /\ reply \in SyncRes

(* A call stays a call when its peer replies. *)
LEMMA AnsweredCallType ==
  ASSUME NEW c \in OutCall, NEW reply, Replies(c.type, reply)
  PROVE  [c EXCEPT !.handled = TRUE, !.reply = reply] \in OutCall
  BY DEF OutCall, Call, Replies

(* Fewer calls, or one call replaced by another, keep the type. *)
LEMMA OutcallsType ==
  ASSUME NEW r \in State, NEW c, NEW new \in SUBSET OutCall, IsFiniteSet(new)
  PROVE  [r EXCEPT !.outcalls = (r.outcalls \ {c}) \cup new] \in State
<1> DEFINE calls == (r.outcalls \ {c}) \cup new
<1> DEFINE q == [r EXCEPT !.outcalls = calls]
<1>1. IsFiniteSet(r.outcalls) /\ r.outcalls \in SUBSET OutCall
  BY DEF State, Sound, ServerState
<1>2. IsFiniteSet(r.outcalls \ {c})
  BY <1>1, FS_Difference
<1>3. IsFiniteSet(calls) /\ calls \in SUBSET OutCall
  BY <1>1, <1>2, FS_Union
<1> HIDE DEF calls
<1>4. q \in ServerState /\ q.outcalls = calls /\ q.log = r.log /\ q.transferIndex = r.transferIndex
  BY <1>3 DEF State, ServerState
<1>5. q \in State
  BY <1>3, <1>4 DEF State, Sound
<1> QED
  BY <1>5 DEF calls

(* OutCall's destructor keeps the type. *)
LEMMA CloseType ==
  ASSUME NEW r \in State, NEW c \in r.outcalls
  PROVE  Close(r, c) \in State
<1> DEFINE new == IF c.handled THEN {} ELSE {[c EXCEPT !.open = FALSE]}
<1>1. c \in OutCall
  BY DEF State, ServerState
<1>2. new \in SUBSET OutCall
  BY <1>1, ClosedCallType
<1>3. IsFiniteSet(new)
  BY FS_EmptySet, FS_Singleton
<1> HIDE DEF new
<1>4. Close(r, c) = [r EXCEPT !.outcalls = (r.outcalls \ {c}) \cup new]
  BY DEF Close, new, State, ServerState
<1> QED
  BY <1>2, <1>3, <1>4, OutcallsType

(* Every value RecoveredIndex gives is a position of the log. *)
LEMMA RecoveredIndexType ==
  ASSUME NEW log \in Seq(WALEntry)
  PROVE  /\ RecoveredIndex(log) \in [Tid -> Nat]
         /\ \A t \in Tid : RecoveredIndex(log)[t] <= Len(log)
<1> DEFINE at(t) == {i \in DOMAIN log : log[i].tid = t}
<1>1. \A t \in Tid : at(t) # {} => Max(at(t)) \in 1..Len(log)
  <2> SUFFICES ASSUME NEW t \in Tid, at(t) # {} PROVE Max(at(t)) \in 1..Len(log)
    OBVIOUS
  <2>1. at(t) \in SUBSET DOMAIN log
    OBVIOUS
  <2> HIDE DEF at
  <2> QED
    BY <2>1, LastPosition
<1>2. RecoveredIndex(log) =
        [t \in Tid |-> IF at(t) # {} /\ log[Max(at(t))].status = "PREPARED"
                       THEN Max(at(t)) ELSE 0]
  BY DEF RecoveredIndex
<1> HIDE DEF at
<1>3. Len(log) \in Nat
  OBVIOUS
<1> QED
  BY <1>1, <1>2, <1>3

-----------------------------------------------------------------------------
(***************************************************************************)
(* The steps of the servers.                                               *)
(***************************************************************************)

(* TypeOK, in terms of State. *)
LEMMA TypeOKState ==
  TypeOK <=> /\ srv \in [Server -> State]
             /\ tpc \in [Tid -> {"none", "commit", "abort"}]
             /\ decisions \subseteq Server \X Tid
             /\ budget \in [FaultKind -> Nat \cup {Unlimited}]
  BY DEF TypeOK, State, Sound

(* A step of one server to a state is a step of the cluster. *)
LEMMA StepType ==
  ASSUME srv \in [Server -> State], NEW s \in Server, NEW r \in State, Step(s, r)
  PROVE  srv' \in [Server -> State]
  BY DEF Step

(* Spending a fault keeps the type of budget. *)
LEMMA SpendType ==
  ASSUME budget \in [FaultKind -> Nat \cup {Unlimited}],
         NEW kind \in FaultKind, Spend(kind)
  PROVE  budget' \in [FaultKind -> Nat \cup {Unlimited}]
  BY DEF Spend, Unlimited

(* A call under way. *)
LEMMA CallType ==
  ASSUME srv \in [Server -> State], NEW s \in Server, NEW c \in srv[s].outcalls
  PROVE  c \in OutCall /\ c.to \in Server /\ srv[c.to] \in State
<1>1. c \in OutCall
  BY DEF State, ServerState
<1> QED
  BY <1>1 DEF OutCall, Call

(* A peer that moves to a state and replies is a step of the cluster. *)
LEMMA AnswerType ==
  ASSUME srv \in [Server -> State], NEW s \in Server, NEW c \in srv[s].outcalls,
         NEW rp \in State, NEW reply, Replies(c.type, reply), Answer(s, c, rp, reply)
  PROVE  srv' \in [Server -> State]
<1> DEFINE new == IF c.open THEN {[c EXCEPT !.handled = TRUE, !.reply = reply]} ELSE {}
<1> DEFINE mid == [srv EXCEPT ![c.to] = rp]
<1>1. c \in OutCall /\ c.to \in Server
  BY CallType
<1>2. new \in SUBSET OutCall
  BY <1>1, AnsweredCallType
<1>3. IsFiniteSet(new)
  BY FS_EmptySet, FS_Singleton
<1> HIDE DEF new
<1>4. mid \in [Server -> State]
  BY <1>1
<1>5. srv' = [mid EXCEPT ![s] = [mid[s] EXCEPT !.outcalls = (mid[s].outcalls \ {c}) \cup new]]
  <2>1. srv' = [mid EXCEPT ![s].outcalls = (mid[s].outcalls \ {c}) \cup new]
    BY DEF Answer, new
  <2> QED
    BY <2>1
<1> HIDE DEF mid
<1>6. [mid[s] EXCEPT !.outcalls = (mid[s].outcalls \ {c}) \cup new] \in State
  BY <1>2, <1>3, <1>4, OutcallsType
<1> QED
  BY <1>4, <1>5, <1>6

(* What is left to show of a step of the servers. *)
LEMMA TypeOKPrime ==
  ASSUME srv' \in [Server -> State],
         tpc' \in [Tid -> {"none", "commit", "abort"}],
         decisions' \subseteq Server \X Tid,
         budget' \in [FaultKind -> Nat \cup {Unlimited}]
  PROVE  TypeOK'
  BY DEF TypeOK, State, Sound

(* enqueueClientTxn keeps the type. *)
LEMMA EnqueueClientTxnType ==
  ASSUME TypeOK, NEW s \in Server, NEW t \in Tid, EnqueueClientTxn(s, t)
  PROVE  TypeOK'
<1> DEFINE r == srv[s]
<1> DEFINE q == [r EXCEPT !.pending = Append(r.pending, t)]
<1>1. srv \in [Server -> State] /\ r \in State
  BY TypeOKState
<1>2. Append(r.pending, t) \in Seq(Tid)
  BY <1>1 DEF State, ServerState
<1> HIDE DEF r
<1>3. q \in ServerState /\ SameParts(q, r)
  BY <1>1, <1>2 DEF State, ServerState, SameParts
<1>4. q = [r EXCEPT !.pending = Append(@, t)]
  BY <1>1 DEF State, ServerState
<1>5. q \in State
  BY <1>1, <1>3, Untouched
<1> HIDE DEF q
<1>6. MaybeStartRound(CompleteTransfer(q, <<t>>, "parked"), s) \in State
  BY <1>5, CompleteTransferType, MaybeStartRoundType DEF InCallStatus
<1>7. CompleteTransfer(r, <<t>>, "nack") \in State
  BY <1>1, CompleteTransferType DEF InCallStatus
<1>8. \/ Step(s, CompleteTransfer(r, <<t>>, "nack"))
      \/ Step(s, MaybeStartRound(CompleteTransfer(q, <<t>>, "parked"), s))
  BY <1>4 DEF EnqueueClientTxn, r
<1>9. srv' \in [Server -> State]
  BY <1>1, <1>6, <1>7, <1>8, StepType
<1> QED
  BY <1>9, TypeOKState, TypeOKPrime DEF EnqueueClientTxn

(* The client's decision keeps the type. *)
LEMMA ClientDecideType ==
  ASSUME TypeOK, NEW t \in Tid, NEW d \in {"commit", "abort"}, ClientDecide(t, d)
  PROVE  TypeOK'
<1>1. srv' = srv /\ budget' = budget
  BY DEF ClientDecide
<1>2. tpc' \in [Tid -> {"none", "commit", "abort"}]
  BY DEF ClientDecide, TypeOK
<1>3. decisions' \subseteq Server \X Tid
  BY DEF ClientDecide, TypeOK
<1> QED
  BY <1>1, <1>2, <1>3, TypeOKState, TypeOKPrime

(* Forgetting the timestamp of t, with or without closing t, keeps the     *)
(* type.                                                                   *)
LEMMA ClosingType ==
  ASSUME NEW r \in State, NEW s \in Server, NEW t \in Tid, NEW st \in Status
  PROVE  LET r1 == [r EXCEPT !.prepareTimestamps = @ \ {t}] IN
         /\ r1 \in State
         /\ r.transferIndex[t] # 0 => CloseTransaction(r1, s, t, st) \in State
<1> DEFINE r1 == [r EXCEPT !.prepareTimestamps = @ \ {t}]
<1>1. r1 \in ServerState /\ SameParts(r1, r)
  BY DEF State, ServerState, SameParts
<1>2. r1 \in State
  BY <1>1, Untouched
<1>3. r.transferIndex[t] # 0 => r1.transferIndex[t] \in DOMAIN r1.log
  <2>1. r.log \in Seq(WALEntry) /\ r.transferIndex[t] \in Nat
    BY DEF State, ServerState
  <2>2. r.transferIndex[t] <= Len(r.log)
    BY DEF State, Sound
  <2>3. r.transferIndex[t] # 0 => r.transferIndex[t] \in DOMAIN r.log
    BY <2>1, <2>2
  <2> QED
    BY <1>1, <2>3 DEF SameParts
<1> HIDE DEF r1
<1>4. r.transferIndex[t] # 0 => CloseTransaction(r1, s, t, st) \in State
  BY <1>2, <1>3, CloseTransactionType
<1> QED
  BY <1>2, <1>4 DEF r1

(* processTpcDecision keeps the type. *)
LEMMA ProcessTpcDecisionType ==
  ASSUME TypeOK, NEW s \in Server, NEW t \in Tid, ProcessTpcDecision(s, t)
  PROVE  TypeOK'
<1> DEFINE r  == srv[s]
<1> DEFINE r1 == [r EXCEPT !.prepareTimestamps = @ \ {t}]
<1> DEFINE st == IF tpc[t] = "commit" THEN "COMMITTED" ELSE "ABORTED"
<1> DEFINE r2 == CloseTransaction(r1, s, t, st)
<1> DEFINE money == Apply(r, s, {t} \ r.balance_applied)
<1> DEFINE r3 == [r2 EXCEPT !.balances = money, !.balance_applied = @ \cup {t}]
<1>1. srv \in [Server -> State] /\ r \in State
  BY TypeOKState
<1>2. st \in Status
  BY DEF Status
<1> HIDE DEF r, st
<1>3. r1 \in State /\ (r.transferIndex[t] # 0 => r2 \in State)
  BY <1>1, <1>2, ClosingType
<1>4. money \in [Account -> Int]
  BY <1>1, ApplyType
<1> HIDE DEF r1, r2, money
<1>5. ASSUME r2 \in State PROVE r3 \in State
  <2>1. r3 \in ServerState /\ SameParts(r3, r2)
    BY <1>4, <1>5 DEF State, ServerState, SameParts
  <2> QED
    BY <1>5, <2>1, Untouched
<1> HIDE DEF r3
<1>6. \/ srv' = srv
      \/ Step(s, r1)
      \/ r.transferIndex[t] # 0 /\ Step(s, r3)
      \/ r.transferIndex[t] # 0 /\ Step(s, r2)
  BY DEF ProcessTpcDecision, r, r1, r2, r3, st, money
<1>7. srv' \in [Server -> State]
  BY <1>1, <1>3, <1>5, <1>6, StepType
<1>8. decisions' \subseteq Server \X Tid
  BY DEF ProcessTpcDecision, TypeOK
<1>9. tpc' = tpc /\ budget' = budget
  BY DEF ProcessTpcDecision
<1> QED
  BY <1>7, <1>8, <1>9, TypeOKState, TypeOKPrime

(* A lock timeout keeps the type. *)
LEMMA LockTimeoutType ==
  ASSUME TypeOK, NEW s \in Server, NEW t \in Tid, LockTimeout(s, t)
  PROVE  TypeOK'
<1> DEFINE r  == srv[s]
<1> DEFINE r1 == [r EXCEPT !.prepareTimestamps = @ \ {t}]
<1> DEFINE r2 == CloseTransaction(r1, s, t, "ABORTED")
<1>1. srv \in [Server -> State] /\ r \in State
  BY TypeOKState
<1> HIDE DEF r
<1>2. r1 \in State /\ (r.transferIndex[t] # 0 => r2 \in State)
  BY <1>1, ClosingType DEF Status
<1> HIDE DEF r1, r2
<1>3. \/ Step(s, r1)
      \/ r.transferIndex[t] # 0 /\ Step(s, r2)
  BY DEF LockTimeout, r, r1, r2
<1>4. srv' \in [Server -> State]
  BY <1>1, <1>2, <1>3, StepType
<1>5. budget' \in [FaultKind -> Nat \cup {Unlimited}]
  BY SpendType DEF LockTimeout, TypeOK, FaultKind
<1>6. tpc' = tpc /\ decisions' = decisions
  BY DEF LockTimeout
<1> QED
  BY <1>4, <1>5, <1>6, TypeOKState, TypeOKPrime

(* processPrepareCall keeps the type. *)
LEMMA ProcessPrepareCallType ==
  ASSUME srv \in [Server -> State], NEW s \in Server, NEW c \in srv[s].outcalls,
         ProcessPrepareCall(s, c)
  PROVE  srv' \in [Server -> State]
<1> DEFINE r     == srv[c.to]
<1> DEFINE newer == c.req.ballot.num > r.ballot_num
<1> DEFINE nack  == [ack |-> FALSE,
                     latest_ballot_num |-> IF newer THEN Unset ELSE r.ballot_num,
                     paxos_index |-> IF c.req.paxos_index < r.paxos_index
                                     THEN r.paxos_index ELSE Unset]
<1> DEFINE ack   == [ack |-> TRUE, latest_ballot_num |-> Unset, paxos_index |-> Unset]
<1> DEFINE q     == [r EXCEPT !.promised = TRUE, !.promised_num = c.req.ballot,
                              !.ballot_num = c.req.ballot.num]
<1>1. c.type = "PREPARE" /\ c \in OutCall /\ r \in State
  BY CallType DEF ProcessPrepareCall
<1>2. c.req \in PrepareReq
  BY <1>1 DEF OutCall, Call
<1>3. c.req.ballot \in Ballot /\ c.req.ballot.num \in Nat /\ c.req.ballot.server_id \in Server
  BY <1>2 DEF PrepareReq, Proposal, Ballot
<1>4. r.ballot_num \in Nat /\ r.paxos_index \in Index
  BY <1>1 DEF State, ServerState
<1> HIDE DEF r
<1>5. Replies(c.type, nack)
  BY <1>1, <1>4 DEF Replies, PrepareRes, Unset, Index
<1>6. Replies(c.type, ack) /\ Replies(c.type, NoReply("PREPARE"))
  <2>1. ack \in PrepareRes
    BY DEF PrepareRes, Unset, Index
  <2>2. [ack |-> FALSE, latest_ballot_num |-> Unset, paxos_index |-> Unset] \in PrepareRes
    BY DEF PrepareRes, Unset, Index
  <2>3. NoReply("PREPARE")
          = [ack |-> FALSE, latest_ballot_num |-> Unset, paxos_index |-> Unset]
    BY DEF NoReply
  <2>4. NoReply("PREPARE") \in PrepareRes
    BY <2>2, <2>3, Zenon
  <2> HIDE DEF ack
  <2> QED
    BY <1>1, <2>1, <2>4 DEF Replies
<1>7. q \in ServerState /\ SameParts(q, r)
  BY <1>1, <1>3 DEF State, ServerState, SameParts
<1>8. q \in State /\ StartSync(r, c.req.ballot.server_id) \in State
  BY <1>1, <1>3, <1>7, Untouched, StartSyncType
<1> HIDE DEF nack, ack, q
<1>9. \/ Answer(s, c, r, NoReply("PREPARE"))
      \/ Answer(s, c, q, ack)
      \/ Answer(s, c, StartSync(r, c.req.ballot.server_id), nack)
      \/ Answer(s, c, r, nack)
  BY DEF ProcessPrepareCall, r, nack, ack, q
<1> QED
  BY <1>1, <1>5, <1>6, <1>8, <1>9, AnswerType

(* processAcceptCall keeps the type. *)
LEMMA ProcessAcceptCallType ==
  ASSUME srv \in [Server -> State], NEW s \in Server, NEW c \in srv[s].outcalls,
         ProcessAcceptCall(s, c)
  PROVE  srv' \in [Server -> State]
<1> DEFINE r == srv[c.to]
<1> DEFINE q == [r EXCEPT !.accepted = TRUE, !.accept_num = c.req.ballot,
                          !.accept_batch = c.req.batch,
                          !.locks = @ \cup LockedBy(c.to, c.req.batch)]
<1> DEFINE q2 == PrepareTransactions(q, CrossEntries(c.req.batch), c.req.ballot)
<1>1. c.type = "ACCEPT" /\ c \in OutCall /\ r \in State /\ c.to \in Server
  BY CallType DEF ProcessAcceptCall
<1>2. c.req \in AcceptReq
  BY <1>1 DEF OutCall, Call
<1>3. c.req.ballot \in Ballot /\ c.req.batch \in Seq(Tid)
  BY <1>2 DEF AcceptReq
<1>4. LockedBy(c.to, c.req.batch) \in SUBSET Account
  BY <1>3, RangeType, TypesAssumption DEF LockedBy, LocalAccounts
<1> HIDE DEF r
<1>5. q \in ServerState /\ SameParts(q, r)
  BY <1>1, <1>3, <1>4 DEF State, ServerState, SameParts
<1>6. q \in State
  BY <1>1, <1>5, Untouched
<1> HIDE DEF q
<1>7. q2 \in State
  BY <1>3, <1>6, EntriesType, PrepareTransactionsType
<1>8. Replies(c.type, [ack |-> FALSE]) /\ Replies(c.type, [ack |-> TRUE])
  BY <1>1 DEF Replies, AcceptRes
<1> HIDE DEF q2
<1>9. Answer(s, c, r, [ack |-> FALSE]) \/ Answer(s, c, q2, [ack |-> TRUE])
  BY DEF ProcessAcceptCall, r, q, q2
<1> QED
  BY <1>1, <1>7, <1>8, <1>9, AnswerType

(* processCommitCall keeps the type. *)
LEMMA ProcessCommitCallType ==
  ASSUME srv \in [Server -> State], NEW s \in Server, NEW c \in srv[s].outcalls,
         ProcessCommitCall(s, c)
  PROVE  srv' \in [Server -> State]
<1> DEFINE r == srv[c.to]
<1> DEFINE q == [r EXCEPT !.locks = @ \ LockedBy(c.to, r.accept_batch),
                          !.promised = FALSE, !.accepted = FALSE]
<1> DEFINE done == CommitTransactions(q, c.to, IntraEntries(r.accept_batch), r.accept_num)
<1>1. r \in State /\ c.to \in Server
  BY CallType
<1>2. r.accept_num \in Ballot /\ r.accept_batch \in Seq(Tid)
  BY <1>1 DEF State, ServerState
<1> HIDE DEF r
<1>3. q \in ServerState /\ SameParts(q, r)
  BY <1>1 DEF State, ServerState, SameParts
<1>4. q \in State
  BY <1>1, <1>3, Untouched
<1> HIDE DEF q
<1>5. done \in State
  BY <1>1, <1>2, <1>4, EntriesType, CommitTransactionsType
<1> HIDE DEF done
<1>6. PICK rp \in State :
        srv' = [[srv EXCEPT ![c.to] = rp] EXCEPT ![s].outcalls = @ \ {c}]
  <2>1. \/ srv' = [[srv EXCEPT ![c.to] = done] EXCEPT ![s].outcalls = @ \ {c}]
        \/ srv' = [[srv EXCEPT ![c.to] = r] EXCEPT ![s].outcalls = @ \ {c}]
    BY DEF ProcessCommitCall, done, q, r
  <2> QED
    BY <1>1, <1>5, <2>1
<1> DEFINE mid == [srv EXCEPT ![c.to] = rp]
<1>7. mid \in [Server -> State]
  BY <1>1, <1>6
<1> HIDE DEF mid
<1>8. [mid[s] EXCEPT !.outcalls = (mid[s].outcalls \ {c}) \cup {}] \in State
  BY <1>7, OutcallsType, FS_EmptySet
<1>9. (mid[s].outcalls \ {c}) \cup {} = mid[s].outcalls \ {c}
  OBVIOUS
<1>10. srv' = [mid EXCEPT ![s] = [mid[s] EXCEPT !.outcalls = mid[s].outcalls \ {c}]]
  BY <1>6 DEF mid
<1> QED
  BY <1>7, <1>8, <1>9, <1>10

(* processSyncCall keeps the type. *)
LEMMA ProcessSyncCallType ==
  ASSUME srv \in [Server -> State], NEW s \in Server, NEW c \in srv[s].outcalls,
         ProcessSyncCall(s, c)
  PROVE  srv' \in [Server -> State]
<1> DEFINE r == srv[c.to]
<1> DEFINE reply == [ack |-> TRUE, logs |-> SubSeq(r.log, c.req.last_inserted + 2, Len(r.log)),
                     last_inserted_ballot |-> r.last_inserted_ballot]
<1>1. c.type = "SYNC" /\ c \in OutCall /\ r \in State
  BY CallType DEF ProcessSyncCall
<1>2. c.req \in SyncReq
  BY <1>1 DEF OutCall, Call
<1>3. c.req.last_inserted \in Int /\ c.req.last_inserted >= -1
  BY <1>2 DEF SyncReq, Index
<1>4. r.log \in Seq(WALEntry) /\ r.last_inserted_ballot \in Ballot
  BY <1>1 DEF State, ServerState
<1>5. SubSeq(r.log, c.req.last_inserted + 2, Len(r.log)) \in Seq(WALEntry)
  BY <1>3, <1>4
<1> HIDE DEF r
<1>6. Replies(c.type, reply)
  BY <1>1, <1>4, <1>5 DEF Replies, SyncRes
<1>7. <<>> \in Seq(WALEntry)
  OBVIOUS
<1>8. Replies(c.type, NoReply("SYNC"))
  BY <1>1, <1>7, NoBallotType DEF Replies, SyncRes, NoReply
<1> HIDE DEF reply
<1>9. Answer(s, c, r, reply) \/ Answer(s, c, r, NoReply("SYNC"))
  BY DEF ProcessSyncCall, r, reply
<1> QED
  BY <1>1, <1>6, <1>8, <1>9, AnswerType

(* handlePrepareReply keeps the type. *)
LEMMA HandlePrepareReplyType ==
  ASSUME srv \in [Server -> State], NEW s \in Server, NEW c \in srv[s].outcalls,
         NEW status, HandlePrepareReply(s, c, status)
  PROVE  srv' \in [Server -> State]
<1> DEFINE r    == Close(srv[s], c)
<1> DEFINE mine == /\ c.req.ballot.num = r.promised_num.num
                   /\ c.req.ballot.server_id = s
<1> DEFINE ok     == status = "OK" /\ mine
<1> DEFINE failed == mine /\ \/ status = "OK" /\ ~c.reply.ack
                             \/ status = "DEADLINE_EXCEEDED"
<1> DEFINE stale  == ok /\ c.reply.latest_ballot_num # Unset
<1> DEFINE up   == IF ok /\ c.reply.ack THEN r.prepare_successes + 1 ELSE r.prepare_successes
<1> DEFINE down == IF failed THEN r.prepare_failures + 1 ELSE r.prepare_failures
<1> DEFINE n == [r EXCEPT !.prepare_successes = up, !.prepare_failures = down]
<1> DEFINE n1 == [n EXCEPT !.ballot_num = c.reply.latest_ballot_num]
<1> DEFINE n2 == [n EXCEPT !.await_prepare_decision = FALSE]
<1>1. c.type = "PREPARE" /\ c \in OutCall /\ c.to \in Server /\ r \in State
  BY CallType, CloseType DEF HandlePrepareReply
<1>2. c.reply \in PrepareRes
  BY <1>1 DEF OutCall, Call
<1> HIDE DEF r, mine, ok, failed
<1>3. up \in Nat /\ down \in Nat
  <2>1. r.prepare_successes \in Nat /\ r.prepare_failures \in Nat
    BY <1>1 DEF State, ServerState
  <2>2. r.prepare_successes + 1 \in Nat /\ r.prepare_failures + 1 \in Nat
    BY <2>1
  <2> QED
    BY <2>1, <2>2, Zenon
<1>4. stale => c.reply.latest_ballot_num \in Nat
  BY <1>2 DEF PrepareRes, Unset
<1> HIDE DEF up, down, stale
<1>5. n \in ServerState /\ SameParts(n, r)
  BY <1>1, <1>3 DEF State, ServerState, SameParts
<1>6. n \in State
  BY <1>1, <1>5, Untouched
<1> HIDE DEF n
<1>7. stale => n1 \in State
  <2>1. stale => n1 \in ServerState /\ SameParts(n1, n)
    BY <1>4, <1>6 DEF State, ServerState, SameParts
  <2> QED
    BY <1>6, <2>1, Untouched
<1>8. n2 \in State
  <2>1. n2 \in ServerState /\ SameParts(n2, n)
    BY <1>6 DEF State, ServerState, SameParts
  <2> QED
    BY <1>6, <2>1, Untouched
<1> HIDE DEF n1, n2
<1>9. n = [r EXCEPT !.prepare_successes = IF ok /\ c.reply.ack THEN @ + 1 ELSE @,
                    !.prepare_failures  = IF failed THEN @ + 1 ELSE @]
  BY <1>1 DEF n, up, down, State, ServerState
<1>10. \/ Step(s, r)
       \/ stale /\ Step(s, ReissuePrepareForCurrent(n1, s))
       \/ Step(s, StartSync(n2, c.to))
       \/ \E K \in Survivors(n, s) : Step(s, OnPrepareQuorum(n, s, K))
       \/ Step(s, OnRoundAbort(n, s, TRUE))
       \/ Step(s, n)
  BY <1>9 DEF HandlePrepareReply, n1, n2, stale, ok, failed, mine, r
<1>11. CASE Step(s, r)
  BY <1>1, <1>11, StepType
<1>12. CASE stale /\ Step(s, ReissuePrepareForCurrent(n1, s))
  BY <1>7, <1>12, ReissuePrepareType, StepType
<1>13. CASE Step(s, StartSync(n2, c.to))
  BY <1>1, <1>8, <1>13, StartSyncType, StepType
<1>14. CASE \E K \in Survivors(n, s) : Step(s, OnPrepareQuorum(n, s, K))
  <2>1. PICK K \in Survivors(n, s) : Step(s, OnPrepareQuorum(n, s, K))
    BY <1>14
  <2>2. K \in SUBSET DOMAIN n.current
    BY DEF Survivors
  <2> QED
    BY <1>6, <2>1, <2>2, OnPrepareQuorumType, StepType
<1>15. CASE Step(s, OnRoundAbort(n, s, TRUE))
  BY <1>6, <1>15, OnRoundAbortType, StepType
<1>16. CASE Step(s, n)
  BY <1>6, <1>16, StepType
<1> QED
  BY <1>10, <1>11, <1>12, <1>13, <1>14, <1>15, <1>16

(* handleAcceptReply keeps the type. *)
LEMMA HandleAcceptReplyType ==
  ASSUME srv \in [Server -> State], NEW s \in Server, NEW c \in srv[s].outcalls,
         NEW status, HandleAcceptReply(s, c, status)
  PROVE  srv' \in [Server -> State]
<1> DEFINE r    == Close(srv[s], c)
<1> DEFINE mine == /\ c.req.ballot.num = r.accept_num.num
                   /\ c.req.ballot.server_id = s
<1> DEFINE ok     == status = "OK" /\ mine /\ c.reply.ack
<1> DEFINE failed == mine /\ \/ status = "OK" /\ ~c.reply.ack
                             \/ status = "DEADLINE_EXCEEDED"
<1> DEFINE up   == IF ok THEN r.accept_successes + 1 ELSE r.accept_successes
<1> DEFINE down == IF failed THEN r.accept_failures + 1 ELSE r.accept_failures
<1> DEFINE n == [r EXCEPT !.accept_successes = up, !.accept_failures = down]
<1>1. r \in State
  BY CloseType
<1> HIDE DEF r, mine, ok, failed
<1>2. up \in Nat /\ down \in Nat
  <2>1. r.accept_successes \in Nat /\ r.accept_failures \in Nat
    BY <1>1 DEF State, ServerState
  <2>2. r.accept_successes + 1 \in Nat /\ r.accept_failures + 1 \in Nat
    BY <2>1
  <2> QED
    BY <2>1, <2>2, Zenon
<1> HIDE DEF up, down
<1>3. n \in ServerState /\ SameParts(n, r)
  BY <1>1, <1>2 DEF State, ServerState, SameParts
<1>4. n \in State
  BY <1>1, <1>3, Untouched
<1> HIDE DEF n
<1>5. n = [r EXCEPT !.accept_successes = IF ok THEN @ + 1 ELSE @,
                    !.accept_failures  = IF failed THEN @ + 1 ELSE @]
  BY <1>1 DEF n, up, down, State, ServerState
<1>6. \/ Step(s, r)
      \/ Step(s, OnAcceptQuorum(n, s))
      \/ Step(s, OnRoundAbort(n, s, FALSE))
      \/ Step(s, n)
  BY <1>5 DEF HandleAcceptReply, ok, failed, mine, r
<1>7. OnAcceptQuorum(n, s) \in State /\ OnRoundAbort(n, s, FALSE) \in State
  BY <1>4, OnAcceptQuorumType, OnRoundAbortType
<1> QED
  BY <1>1, <1>4, <1>6, <1>7, StepType

(* handleSyncReply keeps the type. *)
LEMMA HandleSyncReplyType ==
  ASSUME srv \in [Server -> State], NEW s \in Server, NEW c \in srv[s].outcalls,
         NEW status, HandleSyncReply(s, c, status)
  PROVE  srv' \in [Server -> State]
<1> DEFINE r  == Close(srv[s], c)
<1> DEFINE q  == InsertEntries(r, s, c.reply.logs)
<1> DEFINE synced == [q EXCEPT !.ballot_num = c.reply.last_inserted_ballot.num,
                               !.last_inserted = @ + Len(c.reply.logs),
                               !.last_inserted_ballot = c.reply.last_inserted_ballot]
<1> DEFINE m == IF status = "OK" /\ c.reply.ack THEN synced ELSE r
<1> DEFINE n == [m EXCEPT !.in_sync = FALSE]
<1>1. c.type = "SYNC" /\ c \in OutCall /\ r \in State
  BY CallType, CloseType DEF HandleSyncReply
<1>2. c.reply \in SyncRes
  BY <1>1 DEF OutCall, Call
<1>3. /\ c.reply.logs \in Seq(WALEntry)
      /\ c.reply.last_inserted_ballot \in Ballot
      /\ c.reply.last_inserted_ballot.num \in Nat
  BY <1>2 DEF SyncRes, Ballot
<1>4. q \in State
  BY <1>1, <1>3, InsertEntriesType
<1> HIDE DEF r, q
<1>5. q.last_inserted + Len(c.reply.logs) \in Index
  <2>1. q.last_inserted \in Index
    BY <1>4 DEF State, ServerState
  <2>2. Len(c.reply.logs) \in Nat
    BY <1>3
  <2> QED
    BY <2>1, <2>2, IndexPlus
<1>6. synced \in ServerState /\ SameParts(synced, q)
  BY <1>3, <1>4, <1>5 DEF State, ServerState, SameParts
<1>7. synced \in State
  BY <1>4, <1>6, Untouched
<1> HIDE DEF synced
<1>8. m \in State
  BY <1>1, <1>7
<1> HIDE DEF m
<1>9. n \in ServerState /\ SameParts(n, m)
  BY <1>8 DEF State, ServerState, SameParts
<1>10. n \in State
  BY <1>8, <1>9, Untouched
<1> HIDE DEF n
<1>11. Step(s, ReissuePrepareForCurrent(n, s)) \/ Step(s, MaybeStartRound(n, s))
  BY DEF HandleSyncReply, n, m, synced, q, r
<1>12. ReissuePrepareForCurrent(n, s) \in State /\ MaybeStartRound(n, s) \in State
  BY <1>10, ReissuePrepareType, MaybeStartRoundType
<1> QED
  BY <1>11, <1>12, StepType

(* A server that starts without files is in a state. *)
LEMMA InitStateType ==
  ASSUME NEW s \in Server
  PROVE  InitState(s) \in State
<1> DEFINE money == [k \in Account |-> IF IsClientInCluster(s, k) THEN InitialBalance ELSE 0]
<1> DEFINE index == [t \in Tid |-> 0]
<1> DEFINE calls == [t \in Tid |-> "none"]
<1>1. <<>> \in Seq(Tid) /\ <<>> \in Seq(WALEntry) /\ Len(<<>>) = 0
  OBVIOUS
<1>2. money \in [Account -> Int]
  BY TypesAssumption
<1>3. index \in [Tid -> Nat] /\ calls \in [Tid -> InCallStatus] /\ \A t \in Tid : index[t] <= 0
  BY DEF InCallStatus
<1> HIDE DEF money, index, calls
<1>4. InitState(s) \in ServerState
  BY <1>1, <1>2, <1>3, NoBallotType DEF InitState, ServerState, money, index, calls, Index
<1>5. InitState(s).outcalls = {} /\ InitState(s).log = <<>> /\ InitState(s).transferIndex = index
  BY DEF InitState, index
<1> QED
  BY <1>1, <1>3, <1>4, <1>5, FS_EmptySet DEF State, Sound

(* The highest ballot on disk is a ballot number. *)
LEMMA RecoveredBallotType ==
  ASSUME NEW r \in State
  PROVE  Max({r.ballot_num} \cup {r.log[i].ballot.num : i \in DOMAIN r.log}) \in Nat
<1> DEFINE f == [i \in 1..Len(r.log) |-> r.log[i].ballot.num]
<1> DEFINE T == {r.ballot_num} \cup {r.log[i].ballot.num : i \in DOMAIN r.log}
<1>1. r.log \in Seq(WALEntry) /\ r.ballot_num \in Nat /\ Len(r.log) \in Nat
  BY DEF State, ServerState
<1>2. \A i \in DOMAIN r.log : r.log[i].ballot.num \in Nat
  BY <1>1, LogEntry
<1>3. DOMAIN r.log = 1..Len(r.log)
  BY <1>1
<1>4. f \in [1..Len(r.log) -> Nat]
  BY <1>2, <1>3
<1> HIDE DEF f
<1>5. PICK u \in Nat : \A i \in 1..Len(r.log) : f[i] <= u
  BY <1>1, <1>4, UpperBound
<1>6. \A i \in DOMAIN r.log : r.log[i].ballot.num <= u
  BY <1>3, <1>5 DEF f
<1>7. T \in SUBSET Nat /\ T # {}
  BY <1>1, <1>2
<1>8. u + r.ballot_num \in Nat /\ \A y \in T : y <= u + r.ballot_num
  BY <1>1, <1>2, <1>6
<1> HIDE DEF T
<1>9. Max(T) \in T
  BY <1>7, <1>8, MaxOfBounded
<1>10. Max(T) \in Nat
  BY <1>7, <1>9
<1> QED
  BY <1>10 DEF T

(* Restart keeps the type. *)
LEMMA RestartType ==
  ASSUME srv \in [Server -> State], NEW s \in Server, Restart(s)
  PROVE  srv' \in [Server -> State]
<1> DEFINE r     == srv[s]
<1> DEFINE num   == Max({r.ballot_num} \cup {r.log[i].ballot.num : i \in DOMAIN r.log})
<1> DEFINE last  == IF r.log = <<>> THEN NoBallot ELSE r.log[Len(r.log)].ballot
<1> DEFINE count == Cardinality(PaxosPositions(r.log)) - 1
<1> DEFINE old   == {d \in r.outcalls : ~d.handled}
<1> DEFINE calls == {[c EXCEPT !.open = FALSE] : c \in old}
<1> DEFINE f     == [c \in old |-> [c EXCEPT !.open = FALSE]]
<1> DEFINE in    == [t \in Tid |-> IF r.incall[t] = "parked" THEN "lost" ELSE r.incall[t]]
<1> DEFINE q == [InitState(s) EXCEPT
                   !.log = r.log, !.balances = r.balances, !.ballot_num = num,
                   !.transferIndex = RecoveredIndex(r.log),
                   !.last_inserted = Len(r.log) - 1,
                   !.last_inserted_ballot = last, !.paxos_index = count,
                   !.outcalls = calls, !.incall = in]
<1>1. r \in State
  OBVIOUS
<1> HIDE DEF r
<1>2. /\ r.log \in Seq(WALEntry) /\ r.balances \in [Account -> Int]
      /\ r.outcalls \in SUBSET OutCall /\ IsFiniteSet(r.outcalls)
      /\ r.incall \in [Tid -> InCallStatus]
  BY <1>1 DEF State, ServerState, Sound
<1>3. num \in Nat
  BY <1>1, RecoveredBallotType
<1>4. last \in Ballot
  <2>1. CASE r.log = <<>>
    BY <2>1, NoBallotType
  <2>2. CASE r.log # <<>>
    <3>1. Len(r.log) \in DOMAIN r.log
      BY <1>2, <2>2
    <3> QED
      BY <1>2, <2>2, <3>1, LogEntry
  <2> QED
    BY <2>1, <2>2
<1>5. count \in Index /\ Len(r.log) - 1 \in Index
  <2>1. Cardinality(PaxosPositions(r.log)) \in Nat /\ Len(r.log) \in Nat /\ -1 \in Index
    BY <1>2, PaxosPositionsType DEF Index
  <2> QED
    BY <2>1, IndexPlus
<1>6. calls \in SUBSET OutCall
  BY <1>2, ClosedCallType
<1>7. IsFiniteSet(calls)
  <2>1. IsFiniteSet(old)
    BY <1>2, FS_Subset
  <2>2. f \in Surjection(old, calls)
    BY DEF Surjection
  <2> QED
    BY <2>1, <2>2, FS_Surjection
<1>8. in \in [Tid -> InCallStatus]
  BY <1>2 DEF InCallStatus
<1>9. /\ RecoveredIndex(r.log) \in [Tid -> Nat]
      /\ \A t \in Tid : RecoveredIndex(r.log)[t] <= Len(r.log)
  BY <1>2, RecoveredIndexType
<1>10. InitState(s) \in ServerState
  BY InitStateType DEF State
<1>11. Step(s, q)
  BY DEF Restart, r
<1> HIDE DEF num, last, count, calls, in
<1>12. q \in ServerState
  BY <1>2, <1>3, <1>4, <1>5, <1>6, <1>8, <1>9, <1>10 DEF ServerState
<1>13. q.outcalls = calls /\ q.log = r.log /\ q.transferIndex = RecoveredIndex(r.log)
  BY <1>10 DEF ServerState
<1>14. q \in State
  BY <1>7, <1>9, <1>12, <1>13 DEF State, Sound
<1> QED
  BY <1>11, <1>14, StepType

(* The initial state has its type. *)
LEMMA InitType ==
  ASSUME Init
  PROVE  TypeOK
<1>1. srv \in [Server -> State]
  BY InitStateType DEF Init
<1> QED
  BY <1>1, TypeOKState, ServerAssumption DEF Init

(* Every step keeps the type, one case per action. *)
LEMMA NextType ==
  ASSUME TypeOK, [Next]_vars
  PROVE  TypeOK'
<1>0. srv \in [Server -> State]
  BY TypeOKState
<1>1. ASSUME NEW s \in Server, NEW t \in Tid, EnqueueClientTxn(s, t)
      PROVE  TypeOK'
  BY <1>1, EnqueueClientTxnType
<1>2. ASSUME NEW s \in Server, NEW t \in Tid, ProcessTpcDecision(s, t)
      PROVE  TypeOK'
  BY <1>2, ProcessTpcDecisionType
<1>3. ASSUME NEW s \in Server, NEW t \in Tid, LockTimeout(s, t)
      PROVE  TypeOK'
  BY <1>3, LockTimeoutType
<1>4. ASSUME NEW t \in Tid, NEW d \in {"commit", "abort"}, ClientDecide(t, d)
      PROVE  TypeOK'
  BY <1>4, ClientDecideType
<1>5. ASSUME NEW s \in Server, NEW c \in srv[s].outcalls, ProcessCall(s, c)
      PROVE  TypeOK'
  <2>1. srv' \in [Server -> State]
    BY <1>0, <1>5, ProcessPrepareCallType, ProcessAcceptCallType,
       ProcessCommitCallType, ProcessSyncCallType DEF ProcessCall
  <2> QED
    BY <1>5, <2>1, TypeOKState, TypeOKPrime DEF ProcessCall
<1>6. ASSUME NEW s \in Server, NEW c \in srv[s].outcalls, NEW status,
             HandleRPCResponse(s, c, status)
      PROVE  TypeOK'
  <2>1. srv' \in [Server -> State]
    BY <1>0, <1>6, HandlePrepareReplyType, HandleAcceptReplyType,
       HandleSyncReplyType DEF HandleRPCResponse
  <2>2. budget' \in [FaultKind -> Nat \cup {Unlimited}]
    BY <1>6, SpendType DEF HandleRPCResponse, TypeOK, FaultKind
  <2> QED
    BY <1>6, <2>1, <2>2, TypeOKState, TypeOKPrime DEF HandleRPCResponse
<1>7. ASSUME NEW s \in Server, NEW b \in BOOLEAN, ProcessDisconnectCall(s, b)
      PROVE  TypeOK'
  <2> DEFINE r == srv[s]
  <2> DEFINE q == [r EXCEPT !.i_am_disconnected = b]
  <2>a. r \in State /\ Step(s, q)
    BY <1>0, <1>7 DEF ProcessDisconnectCall
  <2> HIDE DEF r
  <2>1. q \in ServerState /\ SameParts(q, r)
    BY <2>a, <1>7 DEF State, ServerState, SameParts
  <2>2. q \in State
    BY <2>a, <2>1, Untouched
  <2>3. srv' \in [Server -> State]
    BY <1>0, <2>a, <2>2, StepType
  <2>4. budget' \in [FaultKind -> Nat \cup {Unlimited}]
    BY <1>7, SpendType DEF ProcessDisconnectCall, TypeOK, FaultKind
  <2> QED
    BY <1>7, <2>3, <2>4, TypeOKState, TypeOKPrime DEF ProcessDisconnectCall
<1>8. ASSUME NEW s \in Server, Restart(s)
      PROVE  TypeOK'
  <2>1. srv' \in [Server -> State]
    BY <1>0, <1>8, RestartType
  <2>2. budget' \in [FaultKind -> Nat \cup {Unlimited}]
    BY <1>8, SpendType DEF Restart, TypeOK, FaultKind
  <2> QED
    BY <1>8, <2>1, <2>2, TypeOKState, TypeOKPrime DEF Restart
<1>9. CASE UNCHANGED vars
  BY <1>9, <1>0, TypeOKState, TypeOKPrime DEF vars
<1> QED
  BY <1>1, <1>2, <1>3, <1>4, <1>5, <1>6, <1>7, <1>8, <1>9 DEF Next

(* In every reachable state, whatever the cluster layout, the transactions *)
(* and the faults, every handler of server.cc has left batches, calls, log *)
(* and indexes of the shape the other handlers read, and transferIndex     *)
(* points into the log.                                                    *)
THEOREM TypeCorrect == Spec => []TypeOK
<1>1. Init => TypeOK
  BY InitType
<1>2. TypeOK /\ [Next]_vars => TypeOK'
  BY NextType
<1> QED
  BY <1>1, <1>2, PTL DEF Spec
=============================================================================
