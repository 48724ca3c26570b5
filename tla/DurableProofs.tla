--------------------------- MODULE DurableProofs ---------------------------
(***************************************************************************)
(* For every server, every set of transactions and any bounds: the state   *)
(* of Durable.tla keeps its types, and transferIndex always leads to the   *)
(* prepare it stands for, whoever wrote the line and however often the     *)
(* process ended, also in the middle of a line.  Further on: what a        *)
(* restart restores, and what explains a balance that drifted.             *)
(***************************************************************************)
EXTENDS DurableProps, TypesProofs

(* The shapes of the pending writes and of LevelDB's content. *)
EntryWrite   == [do : {"prepare", "commit", "insert", "close"}, line : LineSet]
BalanceWrite == [do : {"updateBalance"}, account : Local, delta : Int]
FirstWrite   == [do : {"putInitial"}, account : Local]
BallotWrite  == [do : {"persistBallotNum"}]
WriteSet     == EntryWrite \cup BalanceWrite \cup FirstWrite \cup BallotWrite

Stored == [balance : UNION {[S -> Int] : S \in SUBSET Local}, ballot : Nat]

(* DurableTypeOK with what it needs to be inductive. *)
DurableTypeInv ==
  /\ wal \in Seq(Chunk)
  /\ db \in Stored
  /\ up \in BOOLEAN
  /\ mem \in Memory
  /\ todo \in Seq(WriteSet)

(***************************************************************************)
(* Lines and recovery.                                                     *)
(***************************************************************************)

(* Reading a chunk back gives a line, a cut amount included. *)
LEMMA ParsedType ==
  ASSUME NEW c \in Chunk
  PROVE  Parsed(c) \in LineSet
<1>1. \A n \in Nat : n \div 10 \in Nat
  OBVIOUS
<1> QED
  BY <1>1 DEF Parsed, Chunk, LineSet

(* Recovery reads positions of the file. *)
LEMMA ReadablePositions ==
  ASSUME NEW f \in Seq(Chunk)
  PROVE  /\ DOMAIN f = 1..Len(f) /\ Len(f) \in Nat
         /\ Readable(f) \in SUBSET (1..Len(f))
         /\ \A i \in 1..Len(f) : f[i] \in Chunk
<1>1. DOMAIN f = 1..Len(f) /\ Len(f) \in Nat /\ \A i \in 1..Len(f) : f[i] \in Chunk
  BY LenProperties, ElementOfSeq
<1> QED
  BY <1>1 DEF Readable, LineStarts

(* The position recovery keeps for a transaction is that of a prepare of   *)
(* this transaction.                                                       *)
LEMMA RecoveredIndexPrepare ==
  ASSUME NEW f \in Seq(Chunk)
  PROVE  /\ RecoveredIndex(f) \in [Tid -> Nat]
         /\ \A t \in Tid : RecoveredIndex(f)[t] # 0 =>
              /\ RecoveredIndex(f)[t] \in DOMAIN f
              /\ f[RecoveredIndex(f)[t]].line.tid = t
              /\ f[RecoveredIndex(f)[t]].line.status = "PREPARED"
<1> DEFINE at(t) == {i \in Readable(f) : f[i].line.tid = t}
           R == RecoveredIndex(f)
<1>1. R = [t \in Tid |-> IF at(t) # {} /\ f[Max(at(t))].line.status = "PREPARED"
                           THEN Max(at(t)) ELSE 0]
  BY DEF RecoveredIndex
<1>2. ASSUME NEW t \in Tid, at(t) # {}
      PROVE  Max(at(t)) \in at(t)
  <2>1. at(t) \in SUBSET Nat /\ Len(f) \in Nat /\ \A y \in at(t) : y <= Len(f)
    BY ReadablePositions
  <2> HIDE DEF at
  <2> QED
    BY <1>2, <2>1, MaxOfBounded
<1>3. \A t \in Tid : at(t) # {} =>
        /\ Max(at(t)) \in 1..Len(f) /\ Max(at(t)) \in Nat
        /\ f[Max(at(t))].line.tid = t
  BY <1>2, ReadablePositions
<1> HIDE DEF at, R
<1>4. \A t \in Tid : R[t] \in Nat
  BY <1>1, <1>3
<1>5. R \in [Tid -> Nat]
  BY <1>1, <1>4
<1>6. \A t \in Tid : R[t] # 0 =>
        R[t] \in 1..Len(f) /\ f[R[t]].line.tid = t /\ f[R[t]].line.status = "PREPARED"
  BY <1>1, <1>3
<1> QED
  BY <1>5, <1>6, ReadablePositions DEF R

(* Recovery rebuilds a log of lines. *)
LEMMA RecoveredLogType ==
  ASSUME NEW f \in Seq(Chunk)
  PROVE  RecoveredLog(f) \in Seq(LineSet)
<1> DEFINE I == Readable(f)
<1>1. I \in SUBSET (1..Len(f)) /\ Len(f) \in Nat /\ I \in SUBSET Nat
  BY ReadablePositions
<1>a. IsFiniteSet(1..Len(f))
  BY <1>1, FS_Interval
<1> HIDE DEF I
<1>2. IsFiniteSet(I)
  BY <1>1, <1>a, FS_Subset
<1>3. Cardinality(I) \in Nat
  BY <1>2, FS_CardinalityType
<1>4. \A k \in 1..Cardinality(I) : Nth(I, k) \in I
  BY <1>1, <1>2, NthProperties
<1>5. \A k \in 1..Cardinality(I) : Parsed(f[Nth(I, k)]) \in LineSet
  BY <1>1, <1>4, ParsedType, ReadablePositions
<1>6. RecoveredLog(f) = [k \in 1..Cardinality(I) |-> Parsed(f[Nth(I, k)])]
  BY DEF RecoveredLog, I
<1>7. RecoveredLog(f) \in [1..Cardinality(I) -> LineSet]
  BY <1>5, <1>6
<1> QED
  BY <1>3, <1>7

(* Recovery takes the highest of finitely many ballots. *)
LEMMA RecoveredBallotType ==
  ASSUME NEW f \in Seq(Chunk), NEW n \in Nat
  PROVE  RecoveredBallot(f, n) \in Nat
<1> DEFINE g == [i \in 1..Len(f) |-> f[i].line.ballot]
           T == {n} \cup {f[i].line.ballot : i \in Readable(f)} \cup MergedBallots(f)
<1>1. g \in [1..Len(f) -> Nat]
  BY ReadablePositions DEF Chunk, LineSet
<1>2. PICK u \in Nat : \A i \in 1..Len(f) : g[i] <= u
  BY <1>1, UpperBound, ReadablePositions
<1>3. \A y \in T : y = n \/ \E i \in 1..Len(f) : y = g[i]
  BY ReadablePositions DEF MergedBallots
<1> HIDE DEF g, T
<1>4. T \in SUBSET Nat /\ \A y \in T : y <= u + n
  BY <1>1, <1>2, <1>3
<1>5. T # {}
  BY DEF T
<1>6. Max(T) \in T
  BY <1>4, <1>5, MaxOfBounded, u + n \in Nat
<1> QED
  BY <1>4, <1>6 DEF RecoveredBallot, T

(***************************************************************************)
(* The parts of a handler.                                                 *)
(***************************************************************************)

(* The writes have the shapes of WriteSet. *)
LEMMA WriteTypes ==
  /\ \A l \in LineSet : \A do \in {"prepare", "commit", "insert", "close"} :
       WriteLine(do, l) \in WriteSet
  /\ \A a \in Local, d \in Int : Change(a, d) \in WriteSet
  /\ \A a \in Local : PutInitial(a) \in WriteSet
  /\ PersistBallotNum \in WriteSet
<1>1. \A l \in LineSet : \A do \in {"prepare", "commit", "insert", "close"} :
        WriteLine(do, l) \in EntryWrite
  BY DEF WriteLine, EntryWrite
<1>2. \A a \in Local, d \in Int : Change(a, d) \in BalanceWrite
  BY DEF Change, BalanceWrite
<1>3. \A a \in Local : PutInitial(a) \in FirstWrite
  BY DEF PutInitial, FirstWrite
<1>4. PersistBallotNum \in BallotWrite
  BY DEF PersistBallotNum, BallotWrite
<1> QED
  BY <1>1, <1>2, <1>3, <1>4 DEF WriteSet

(* A write's name tells its shape. *)
LEMMA WriteShape ==
  ASSUME NEW w \in WriteSet
  PROVE  /\ w.do \in {"prepare", "commit", "insert", "close"} => w.line \in LineSet
         /\ w.do = "updateBalance" => w.account \in Local /\ w.delta \in Int
         /\ w.do = "putInitial" => w.account \in Local
  BY DEF WriteSet, EntryWrite, BalanceWrite, FirstWrite, BallotWrite

(* A line is built from the fields it has. *)
LEMMA LineType ==
  ASSUME NEW t \in Tid, NEW n \in Nat, NEW st \in Status
  PROVE  Line(t, n, st, Txn[t].amount) \in LineSet
<1>1. Txn[t].amount \in Nat
  BY TypesAssumption
<1> QED
  BY <1>1 DEF Line, LineSet

(* The changes of a line are writes to accounts of this server. *)
LEMMA ChangesType ==
  ASSUME NEW l \in LineSet
  PROVE  Changes(l) \in Seq(WriteSet)
<1> DEFINE x == Txn[l.tid]
           out == IF x.sender \in Local THEN <<Change(x.sender, -l.amount)>> ELSE <<>>
           in == IF x.receiver \in Local THEN <<Change(x.receiver, l.amount)>> ELSE <<>>
<1>1. l.amount \in Int /\ -l.amount \in Int
  BY DEF LineSet
<1> HIDE DEF x
<1>2. out \in Seq(WriteSet)
  <2>1. x.sender \in Local => Change(x.sender, -l.amount) \in WriteSet
    BY <1>1, WriteTypes
  <2> QED
    BY <2>1
<1>3. in \in Seq(WriteSet)
  <2>1. x.receiver \in Local => Change(x.receiver, l.amount) \in WriteSet
    BY <1>1, WriteTypes
  <2> QED
    BY <2>1
<1>4. Changes(l) = out \o in
  BY DEF Changes, x
<1> HIDE DEF out, in
<1> QED
  BY <1>2, <1>3, <1>4, ConcatProperties

(* A put to LevelDB, accepted or refused, leaves balances of this server's *)
(* accounts and a ballot.                                                  *)
LEMMA PutType ==
  ASSUME db \in Stored, NEW a \in Local, NEW b \in Int
  PROVE  Put(a, b) \in Stored
<1> DEFINE D == DOMAIN db.balance \cup {a}
           g == [k \in D |-> IF k = a THEN b ELSE db.balance[k]]
<1>1. PICK S \in SUBSET Local : db.balance \in [S -> Int]
  BY DEF Stored
<1>2. D \in SUBSET Local /\ \A k \in D : g[k] \in Int
  BY <1>1
<1>3. g \in [D -> Int]
  BY <1>2
<1>4. g \in UNION {[T -> Int] : T \in SUBSET Local}
  BY <1>2, <1>3
<1>5. Put(a, b) = IF mem.bg_error THEN db ELSE [db EXCEPT !.balance = g]
  BY DEF Put
<1> HIDE DEF g, D
<1> QED
  BY <1>4, <1>5 DEF Stored

(* The line a handler is about to append is a line. *)
LEMMA NextLineType ==
  ASSUME todo \in Seq(WriteSet), NEW l \in NextLine
  PROVE  l \in LineSet /\ todo # <<>>
<1>1. PICK j \in DOMAIN todo : /\ l = todo[j].line
                               /\ todo[j].do \in {"commit", "prepare", "insert", "close"}
  BY DEF NextLine
<1>2. todo[j] \in WriteSet /\ todo # <<>>
  BY <1>1, LenProperties, ElementOfSeq
<1> QED
  BY <1>1, <1>2, WriteShape

(* SetToSeq lists members of a finite set. *)
LEMMA SetToSeqMembers ==
  ASSUME NEW S, IsFiniteSet(S)
  PROVE  /\ Cardinality(S) \in Nat
         /\ \A i \in 1..Cardinality(S) : SetToSeq(S)[i] \in S
<1>1. Cardinality(S) \in Nat /\ ExistsBijection(1..Cardinality(S), S)
  BY FS_CardinalityType
<1>2. \E f \in [1..Cardinality(S) -> S] : IsInjective(f)
  BY <1>1 DEF ExistsBijection, Bijection, Injection
<1>3. SetToSeq(S) \in [1..Cardinality(S) -> S]
  BY <1>2 DEF SetToSeq
<1> QED
  BY <1>1, <1>3

(* The accounts of this server are finitely many. *)
LEMMA LocalFinite == IsFiniteSet(Local) /\ Local \in SUBSET Account
<1>1. Local \in SUBSET Account
  BY DEF Local
<1> QED
  BY <1>1, TypesAssumption, FS_Subset

(* A process that does not run has a memory, with an empty transferIndex. *)
LEMMA NoMemoryType ==
  NoMemory \in Memory /\ \A t \in Tid : NoMemory.transferIndex[t] = 0
  BY DEF NoMemory, Memory

(* Appending a line to the file moves no position. *)
LEMMA AppendKeepsPositions ==
  ASSUME wal \in Seq(Chunk), NEW c \in Chunk
  PROVE  /\ Append(wal, c) \in Seq(Chunk)
         /\ DOMAIN Append(wal, c) = 1..(Len(wal) + 1)
         /\ DOMAIN wal = 1..Len(wal) /\ Len(wal) \in Nat
         /\ \A i \in DOMAIN wal : Append(wal, c)[i] = wal[i]
         /\ Append(wal, c)[Len(wal) + 1] = c
  BY AppendProperties, LenProperties

(***************************************************************************)
(* Every step keeps the types and IndexReadsPrepare.                       *)
(***************************************************************************)
DurableInv == DurableTypeInv /\ IndexReadsPrepare

(* Steps that leave the file and the index alone. *)
LEMMA IndexUntouched ==
  ASSUME IndexReadsPrepare, wal' = wal, mem'.transferIndex = mem.transferIndex
  PROVE  IndexReadsPrepare'
  BY DEF IndexReadsPrepare

(* The batch functions of the handlers are sequences of writes. *)
LEMMA BatchWrites ==
  ASSUME NEW ts \in Batches, NEW st \in Status, mem \in Memory,
         NEW do \in {"prepare", "commit"}
  PROVE  [i \in DOMAIN ts |-> WriteLine(do, Line(ts[i], mem.promised_num, st, Txn[ts[i]].amount))]
           \in Seq(WriteSet)
<1>1. PICK m \in 0..2 : ts \in [1..m -> Tid]
  BY DEF Batches, SeqOf
<1>2. mem.promised_num \in Nat
  BY DEF Memory
<1>3. \A i \in 1..m : WriteLine(do, Line(ts[i], mem.promised_num, st, Txn[ts[i]].amount)) \in WriteSet
  BY <1>1, <1>2, LineType, WriteTypes
<1>4. DOMAIN ts = 1..m /\ m \in Nat
  BY <1>1
<1> QED
  BY <1>3, <1>4

(* processPrepareCall and reissuePrepareForCurrent. *)
LEMMA NewBallotStep ==
  ASSUME DurableInv, NEW n \in 1..MaxBallot, NewBallot(n)
  PROVE  DurableInv'
<1>1. n \in Nat
  BY DurableAssumption
<1>2. mem' \in Memory /\ mem'.transferIndex = mem.transferIndex
  BY <1>1 DEF DurableInv, DurableTypeInv, NewBallot, Memory
<1>3. todo' \in Seq(WriteSet)
  <2>1. todo' = <<PersistBallotNum>>
    BY DEF NewBallot
  <2> QED
    BY <2>1, WriteTypes
<1>4. wal' = wal /\ db' = db /\ up' = up
  BY DEF NewBallot
<1> QED
  BY <1>2, <1>3, <1>4, IndexUntouched DEF DurableInv, DurableTypeInv

(* onPrepareQuorum and processAcceptCall. *)
LEMMA PrepareBatchStep ==
  ASSUME DurableInv, NEW ts \in Batches, PrepareBatch(ts)
  PROVE  DurableInv'
<1>1. todo' \in Seq(WriteSet)
  BY BatchWrites DEF PrepareBatch, DurableInv, DurableTypeInv, Status
<1>2. wal' = wal /\ db' = db /\ up' = up /\ mem' = mem
  BY DEF PrepareBatch
<1> QED
  BY <1>1, <1>2, IndexUntouched DEF DurableInv, DurableTypeInv

(* onAcceptQuorum and processCommitCall. *)
LEMMA CommitBatchStep ==
  ASSUME DurableInv, NEW ts \in Batches, CommitBatch(ts)
  PROVE  DurableInv'
<1>1. todo' \in Seq(WriteSet)
  BY BatchWrites DEF CommitBatch, DurableInv, DurableTypeInv, Status
<1>2. wal' = wal /\ db' = db /\ up' = up /\ mem' = mem
  BY DEF CommitBatch
<1> QED
  BY <1>1, <1>2, IndexUntouched DEF DurableInv, DurableTypeInv

(* processTpcDecision and the sweep of the lock timeouts: the entry read   *)
(* back is a line because the index reads a position of the file.          *)
LEMMA DecideStep ==
  ASSUME DurableInv, NEW t \in Tid, NEW st \in {"COMMITTED", "ABORTED"}, Decide(t, st)
  PROVE  DurableInv'
<1> DEFINE i == mem.transferIndex[t]
           read == Parsed(wal[i])
<1>1. i # 0 /\ todo' = <<WriteLine("close", [read EXCEPT !.status = st])>>
  BY DEF Decide
<1>2. wal \in Seq(Chunk) /\ i \in DOMAIN wal
  BY <1>1 DEF DurableInv, DurableTypeInv, IndexReadsPrepare
<1>3. wal[i] \in Chunk
  BY <1>2, LenProperties, ElementOfSeq
<1> HIDE DEF i
<1>4. read \in LineSet
  BY <1>3, ParsedType
<1> HIDE DEF read
<1>5. [read EXCEPT !.status = st] \in LineSet
  BY <1>4 DEF LineSet, Status
<1>6. WriteLine("close", [read EXCEPT !.status = st]) \in WriteSet
  BY <1>5, WriteTypes
<1>7. todo' \in Seq(WriteSet)
  BY <1>1, <1>6
<1>8. wal' = wal /\ db' = db /\ up' = up /\ mem' = mem
  BY DEF Decide
<1> QED
  BY <1>7, <1>8, IndexUntouched DEF DurableInv, DurableTypeInv

(* The entries of a sync reply are a sequence of writes. *)
LEMMA SyncWrites ==
  ASSUME NEW ls \in PeerLogs
  PROVE  [i \in DOMAIN ls |-> WriteLine("insert", ls[i])] \in Seq(WriteSet)
<1>1. PeerLine \in SUBSET LineSet
  <2>1. \A k \in 1..MaxBallot : k \in Nat
    BY DurableAssumption
  <2> QED
    BY <2>1, LineType DEF PeerLine
<1>2. PICK m \in 0..MaxSync : ls \in [1..m -> LineSet]
  BY <1>1 DEF PeerLogs, SeqOf
<1>3. m \in Nat /\ DOMAIN ls = 1..m
  BY <1>2, DurableAssumption
<1>4. \A i \in 1..m : WriteLine("insert", ls[i]) \in WriteSet
  BY <1>2, WriteTypes
<1> QED
  BY <1>3, <1>4

(* handleSyncReply. *)
LEMMA SyncReplyStep ==
  ASSUME DurableInv, NEW ls \in PeerLogs, NEW n \in 1..MaxBallot, SyncReply(ls, n)
  PROVE  DurableInv'
<1> DEFINE ws == [i \in DOMAIN ls |-> WriteLine("insert", ls[i])]
<1>1. ws \in Seq(WriteSet)
  BY SyncWrites
<1>2. todo' = Append(ws, PersistBallotNum)
  BY DEF SyncReply
<1> HIDE DEF ws
<1>3. todo' \in Seq(WriteSet)
  BY <1>1, <1>2, WriteTypes, AppendProperties
<1>4. n \in Nat
  BY DurableAssumption
<1>5. mem' \in Memory /\ mem'.transferIndex = mem.transferIndex
  BY <1>4 DEF DurableInv, DurableTypeInv, SyncReply, Memory
<1>6. wal' = wal /\ db' = db /\ up' = up
  BY DEF SyncReply
<1> QED
  BY <1>3, <1>5, <1>6, IndexUntouched DEF DurableInv, DurableTypeInv

(* The WAL's functions: the new line is the only one the index may begin   *)
(* to point to, and only if it is a prepare.                               *)
LEMMA AppendEntryStep ==
  ASSUME DurableInv, AppendEntry
  PROVE  DurableInv'
<1>0. /\ wal \in Seq(Chunk) /\ todo \in Seq(WriteSet) /\ mem \in Memory
      /\ IndexReadsPrepare
  BY DEF DurableInv, DurableTypeInv
<1>1. PICK l \in NextLine :
        LET first == l.status = "COMMITTED" /\ l.tid \notin mem.balance_applied IN
        /\ wal' = Append(wal, [line |-> l, part |-> "full"])
        /\ mem' = [mem EXCEPT
                     !.log = Append(@, l),
                     !.transferIndex = IndexAfter(l),
                     !.balance_applied = IF first THEN @ \cup {l.tid} ELSE @]
        /\ todo' = (IF first THEN Changes(l) ELSE <<>>) \o Tail(todo)
  BY DEF AppendEntry
<1>2. l \in LineSet /\ todo # <<>> /\ l.tid \in Tid
  BY <1>0, NextLineType DEF LineSet
<1> DEFINE c == [line |-> l, part |-> "full"]
<1>3. c \in Chunk
  BY <1>2 DEF Chunk, Part
<1>4. /\ Append(wal, c) \in Seq(Chunk)
      /\ DOMAIN Append(wal, c) = 1..(Len(wal) + 1)
      /\ DOMAIN wal = 1..Len(wal) /\ Len(wal) \in Nat
      /\ \A i \in DOMAIN wal : Append(wal, c)[i] = wal[i]
      /\ Append(wal, c)[Len(wal) + 1] = c
  BY <1>0, <1>3, AppendKeepsPositions
<1>5. todo' \in Seq(WriteSet)
  <2>1. Tail(todo) \in Seq(WriteSet)
    BY <1>0, <1>2, HeadTailProperties
  <2>2. Changes(l) \in Seq(WriteSet) /\ <<>> \in Seq(WriteSet)
    BY <1>2, ChangesType, EmptySeq
  <2>3. \A s \in Seq(WriteSet) : s \o Tail(todo) \in Seq(WriteSet)
    BY <2>1, ConcatProperties
  <2> QED
    BY <1>1, <2>2, <2>3
<1>6. IndexAfter(l) \in [Tid -> Nat]
  BY <1>0, <1>2, <1>4 DEF IndexAfter, Memory
<1>7. Append(mem.log, l) \in Seq(LineSet)
  BY <1>0, <1>2, AppendProperties DEF Memory
<1>8. mem' \in Memory
  BY <1>0, <1>1, <1>2, <1>6, <1>7 DEF Memory
<1>9. mem'.transferIndex = IndexAfter(l)
  BY <1>0, <1>1 DEF Memory
<1>10. IndexReadsPrepare'
  <2> SUFFICES ASSUME NEW t \in Tid, mem'.transferIndex[t] # 0
               PROVE  /\ mem'.transferIndex[t] \in DOMAIN wal'
                      /\ wal'[mem'.transferIndex[t]].line.tid = t
                      /\ wal'[mem'.transferIndex[t]].line.status = "PREPARED"
    BY DEF IndexReadsPrepare
  <2>1. mem.transferIndex \in [Tid -> Nat]
    BY <1>0 DEF Memory
  <2>2. CASE t = l.tid
    <3>1. mem'.transferIndex[t] = Len(wal) + 1 /\ l.status = "PREPARED"
      BY <1>2, <1>9, <2>1, <2>2 DEF IndexAfter
    <3>2. wal'[Len(wal) + 1].line = l
      BY <1>1, <1>4
    <3>3. Len(wal) + 1 \in DOMAIN wal'
      BY <1>1, <1>4
    <3> QED
      BY <2>2, <3>1, <3>2, <3>3
  <2>3. CASE t # l.tid
    <3>1. mem'.transferIndex[t] = mem.transferIndex[t]
      BY <1>2, <1>9, <2>1, <2>3 DEF IndexAfter
    <3> DEFINE j == mem.transferIndex[t]
    <3>2. j \in DOMAIN wal /\ wal[j].line.tid = t /\ wal[j].line.status = "PREPARED"
      BY <1>0, <3>1 DEF IndexReadsPrepare
    <3> HIDE DEF j
    <3>3. j \in DOMAIN wal' /\ wal'[j] = wal[j]
      BY <1>1, <1>4, <3>2
    <3> QED
      BY <3>1, <3>2, <3>3 DEF j
  <2> QED
    BY <2>2, <2>3
<1>11. wal' \in Seq(Chunk)
  BY <1>1, <1>4
<1>12. db' = db /\ up' = up
  BY DEF AppendEntry
<1> QED
  BY <1>5, <1>8, <1>10, <1>11, <1>12 DEF DurableInv, DurableTypeInv

(* The early return of commitTransaction. *)
LEMMA SkipCommitStep ==
  ASSUME DurableInv, SkipCommit
  PROVE  DurableInv'
<1>1. todo' \in Seq(WriteSet)
  BY HeadTailProperties DEF SkipCommit, DurableInv, DurableTypeInv
<1>2. wal' = wal /\ db' = db /\ up' = up /\ mem' = mem
  BY DEF SkipCommit
<1> QED
  BY <1>1, <1>2, IndexUntouched DEF DurableInv, DurableTypeInv

(* updateBalance. *)
LEMMA UpdateBalanceStep ==
  ASSUME DurableInv, UpdateBalance
  PROVE  DurableInv'
<1> DEFINE a == Head(todo).account
           b == mem.balances[a] + Head(todo).delta
<1>0. db \in Stored /\ todo \in Seq(WriteSet) /\ mem \in Memory /\ IndexReadsPrepare
  BY DEF DurableInv, DurableTypeInv
<1>1. /\ todo # <<>> /\ Head(todo).do = "updateBalance"
      /\ mem' = [mem EXCEPT !.balances[a] = b]
      /\ db' = Put(a, b)
      /\ todo' = Tail(todo)
      /\ wal' = wal /\ up' = up
  BY DEF UpdateBalance
<1>2. Head(todo) \in WriteSet /\ Tail(todo) \in Seq(WriteSet)
  BY <1>0, <1>1, HeadTailProperties
<1>3. a \in Local /\ Head(todo).delta \in Int
  BY <1>1, <1>2, WriteShape
<1>4. mem.balances \in [Account -> Int] /\ a \in Account
  BY <1>0, <1>3, LocalFinite DEF Memory
<1>5. b \in Int
  BY <1>3, <1>4
<1> HIDE DEF a, b
<1>6. db' \in Stored
  BY <1>0, <1>1, <1>3, <1>5, PutType
<1>7. mem' \in Memory /\ mem'.transferIndex = mem.transferIndex
  BY <1>0, <1>1, <1>4, <1>5 DEF Memory
<1> QED
  BY <1>0, <1>1, <1>2, <1>6, <1>7, IndexUntouched DEF DurableInv, DurableTypeInv

(* persistBallotNum. *)
LEMMA WriteBallotStep ==
  ASSUME DurableInv, WriteBallot
  PROVE  DurableInv'
<1>1. todo' \in Seq(WriteSet)
  BY HeadTailProperties DEF WriteBallot, DurableInv, DurableTypeInv
<1>2. db' \in Stored
  BY DEF WriteBallot, PutBallot, DurableInv, DurableTypeInv, Memory, Stored
<1>3. wal' = wal /\ up' = up /\ mem' = mem
  BY DEF WriteBallot
<1> QED
  BY <1>1, <1>2, <1>3, IndexUntouched DEF DurableInv, DurableTypeInv

(* The first balances, and run() giving up on one that is refused. *)
LEMMA WriteInitialStep ==
  ASSUME DurableInv, WriteInitial
  PROVE  DurableInv'
<1>0. /\ wal \in Seq(Chunk) /\ db \in Stored /\ up \in BOOLEAN
      /\ todo \in Seq(WriteSet) /\ mem \in Memory /\ IndexReadsPrepare
  BY DEF DurableInv, DurableTypeInv
<1>1. todo # <<>> /\ Head(todo).do = "putInitial" /\ wal' = wal
  BY DEF WriteInitial
<1>2. Head(todo) \in WriteSet /\ Tail(todo) \in Seq(WriteSet)
  BY <1>0, <1>1, HeadTailProperties
<1>3. db' \in Stored
  <2>1. Head(todo).account \in Local /\ InitialBalance \in Int
    BY <1>1, <1>2, WriteShape, TypesAssumption
  <2> QED
    BY <1>0, <2>1, PutType DEF WriteInitial
<1>4. CASE todo' = Tail(todo) /\ up' = up /\ mem' = mem
  BY <1>0, <1>1, <1>2, <1>3, <1>4, IndexUntouched DEF DurableInv, DurableTypeInv
<1>5. CASE up' = FALSE /\ mem' = NoMemory /\ todo' = <<>>
  <2>1. IndexReadsPrepare'
    BY <1>5, NoMemoryType DEF IndexReadsPrepare
  <2> QED
    BY <1>0, <1>1, <1>3, <1>5, <2>1, NoMemoryType, EmptySeq DEF DurableInv, DurableTypeInv
<1> QED
  BY <1>4, <1>5 DEF WriteInitial

(* LevelDB records a background error. *)
LEMMA RecordBackgroundErrorStep ==
  ASSUME DurableInv, RecordBackgroundError
  PROVE  DurableInv'
<1>1. mem' \in Memory /\ mem'.transferIndex = mem.transferIndex
  BY DEF RecordBackgroundError, DurableInv, DurableTypeInv, Memory
<1>2. wal' = wal /\ db' = db /\ up' = up /\ todo' = todo
  BY DEF RecordBackgroundError
<1> QED
  BY <1>1, <1>2, IndexUntouched DEF DurableInv, DurableTypeInv

(* The process ends, perhaps within a line. *)
LEMMA CrashStep ==
  ASSUME DurableInv, Crash
  PROVE  DurableInv'
<1>0. wal \in Seq(Chunk) /\ todo \in Seq(WriteSet) /\ db \in Stored
  BY DEF DurableInv, DurableTypeInv
<1>1. up' = FALSE /\ mem' = NoMemory /\ todo' = <<>> /\ db' = db
  BY DEF Crash
<1>2. wal' \in Seq(Chunk)
  <2>1. ASSUME NEW l \in NextLine, NEW p \in Cuts(l),
               wal' = Append(wal, [line |-> l, part |-> p])
        PROVE  wal' \in Seq(Chunk)
    <3>1. l \in LineSet
      BY <1>0, NextLineType
    <3>2. p \in Part
      BY DEF Cuts, Part
    <3>3. [line |-> l, part |-> p] \in Chunk
      BY <3>1, <3>2 DEF Chunk
    <3> QED
      BY <1>0, <2>1, <3>3, AppendKeepsPositions
  <2> QED
    BY <1>0, <2>1 DEF Crash
<1>3. IndexReadsPrepare'
  BY <1>1, NoMemoryType DEF IndexReadsPrepare
<1> QED
  BY <1>0, <1>1, <1>2, <1>3, NoMemoryType, EmptySeq DEF DurableInv, DurableTypeInv

(* run(): everything in memory comes from LevelDB and the file. *)
LEMMA RunStep ==
  ASSUME DurableInv, Run
  PROVE  DurableInv'
<1> DEFINE missing == Local \ DOMAIN db.balance
           ws == [i \in 1..Cardinality(missing) |-> PutInitial(SetToSeq(missing)[i])]
           bal == [a \in Account |->
                     CASE a \notin Local -> 0
                       [] a \in missing  -> InitialBalance
                       [] OTHER          -> db.balance[a]]
<1>0. wal \in Seq(Chunk) /\ db \in Stored
  BY DEF DurableInv, DurableTypeInv
<1>1. /\ up' = TRUE /\ wal' = wal /\ db' = db
      /\ todo' = Append(ws, PersistBallotNum)
      /\ mem' = [balances |-> bal, balance_applied |-> {},
                 ballot_num |-> RecoveredBallot(wal, db.ballot), promised_num |-> 0,
                 log |-> RecoveredLog(wal), transferIndex |-> RecoveredIndex(wal),
                 bg_error |-> FALSE]
  BY DEF Run
<1>2. PICK S \in SUBSET Local : db.balance \in [S -> Int]
  BY <1>0 DEF Stored
<1>3. bal \in [Account -> Int]
  <2>1. \A a \in Account : bal[a] \in Int
    BY <1>2, TypesAssumption
  <2> QED
    BY <2>1
<1>4. IsFiniteSet(missing) /\ missing \in SUBSET Local
  BY LocalFinite, FS_Subset
<1> HIDE DEF missing, bal
<1>5. ws \in Seq(WriteSet)
  <2>1. /\ Cardinality(missing) \in Nat
        /\ \A i \in 1..Cardinality(missing) : SetToSeq(missing)[i] \in Local
    BY <1>4, SetToSeqMembers
  <2>2. \A i \in 1..Cardinality(missing) : PutInitial(SetToSeq(missing)[i]) \in WriteSet
    BY <2>1, WriteTypes
  <2> QED
    BY <2>1, <2>2
<1> HIDE DEF ws
<1>6. todo' \in Seq(WriteSet)
  BY <1>1, <1>5, WriteTypes, AppendProperties
<1>7. RecoveredBallot(wal, db.ballot) \in Nat
  BY <1>0, RecoveredBallotType DEF Stored
<1>8. RecoveredLog(wal) \in Seq(LineSet)
  BY <1>0, RecoveredLogType
<1>9. RecoveredIndex(wal) \in [Tid -> Nat]
  BY <1>0, RecoveredIndexPrepare
<1>10. mem' \in Memory /\ mem'.transferIndex = RecoveredIndex(wal)
  BY <1>1, <1>3, <1>7, <1>8, <1>9 DEF Memory
<1>11. IndexReadsPrepare'
  BY <1>0, <1>1, <1>10, RecoveredIndexPrepare DEF IndexReadsPrepare
<1> QED
  BY <1>0, <1>1, <1>6, <1>10, <1>11 DEF DurableInv, DurableTypeInv

(***************************************************************************)
(* Theorems.                                                               *)
(***************************************************************************)

(* DurableInv is inductive. *)
LEMMA DurableInductive == Spec => []DurableInv
<1>1. Init => DurableInv
  <2> SUFFICES ASSUME Init PROVE DurableInv
    OBVIOUS
  <2>1. [a \in {} |-> 0] \in [{} -> Int]
    OBVIOUS
  <2>2. [a \in {} |-> 0] \in UNION {[S -> Int] : S \in SUBSET Local}
    BY <2>1
  <2>3. db \in Stored
    BY <2>2 DEF Init, Stored
  <2>4. mem \in Memory /\ IndexReadsPrepare
    BY NoMemoryType DEF Init, IndexReadsPrepare
  <2>5. wal \in Seq(Chunk) /\ todo \in Seq(WriteSet) /\ up \in BOOLEAN
    BY EmptySeq DEF Init
  <2> QED
    BY <2>3, <2>4, <2>5 DEF DurableInv, DurableTypeInv
<1>2. DurableInv /\ [Next]_vars => DurableInv'
  <2> SUFFICES ASSUME DurableInv, [Next]_vars PROVE DurableInv'
    OBVIOUS
  <2>1. CASE Handler
    BY <2>1, NewBallotStep, PrepareBatchStep, CommitBatchStep, DecideStep, SyncReplyStep
       DEF Handler
  <2>2. CASE Write
    BY <2>2, AppendEntryStep, SkipCommitStep, UpdateBalanceStep, WriteBallotStep,
       WriteInitialStep DEF Write
  <2>3. CASE RecordBackgroundError
    BY <2>3, RecordBackgroundErrorStep
  <2>4. CASE Crash
    BY <2>4, CrashStep
  <2>5. CASE Run
    BY <2>5, RunStep
  <2>6. CASE UNCHANGED vars
    BY <2>6 DEF vars, DurableInv, DurableTypeInv, IndexReadsPrepare
  <2> QED
    BY <2>1, <2>2, <2>3, <2>4, <2>5, <2>6 DEF Next
<1> QED
  BY <1>1, <1>2, PTL DEF Spec

(* The state a server keeps on disk, and what it rebuilds from it in       *)
(* run(), have their types, also after the process ended within a line.    *)
THEOREM DurableTypeCorrect == Spec => []DurableTypeOK
<1>1. DurableInv => DurableTypeOK
  <2> SUFFICES ASSUME DurableInv PROVE DurableTypeOK
    OBVIOUS
  <2>1. db \in Stored
    BY DEF DurableInv, DurableTypeInv
  <2>2. PICK S \in SUBSET Local : db.balance \in [S -> Int]
    BY <2>1 DEF Stored
  <2>3. db.ballot \in Nat
    BY <2>1 DEF Stored
  <2> QED
    BY <2>2, <2>3 DEF DurableInv, DurableTypeInv, DurableTypeOK
<1> QED
  BY <1>1, DurableInductive, PTL

(* A position of transferIndex leads getTransactionFromFile to a prepare   *)
(* of the transaction, for any number of restarts, cut lines and syncs: a  *)
(* decision of 2PC or of the lock timeout never closes another entry.      *)
THEOREM IndexReadsPrepareHolds == Spec => []IndexReadsPrepare
<1>1. DurableInv => IndexReadsPrepare
  BY DEF DurableInv
<1> QED
  BY <1>1, DurableInductive, PTL

(* recover() loses at most one complete line per cut line, however many    *)
(* lines and cuts the file has: the line that continues the cut one.       *)
THEOREM LossPerTearHolds == Spec => []LossPerTear
<1>1. DurableInv => LossPerTear
  <2> SUFFICES ASSUME DurableInv PROVE LossPerTear
    OBVIOUS
  <2> DEFINE lost == Complete \ Readable(wal)
             cut == DOMAIN wal \ Complete
             before == [i \in lost |-> i - 1]
  <2>1. wal \in Seq(Chunk) /\ DOMAIN wal = 1..Len(wal) /\ Len(wal) \in Nat
    BY LenProperties DEF DurableInv, DurableTypeInv
  <2>2. \A i \in lost : i \in DOMAIN wal /\ i \notin LineStarts(wal)
    BY DEF Complete, Readable
  <2>3. \A i \in lost : i \in Nat /\ i - 1 \in cut
    BY <2>1, <2>2 DEF LineStarts, Complete
  <2>4. IsFiniteSet(cut)
    <3>1. IsFiniteSet(1..Len(wal)) /\ cut \in SUBSET (1..Len(wal))
      BY <2>1, FS_Interval
    <3> QED
      BY <3>1, FS_Subset
  <2> HIDE DEF lost, cut
  <2>5. before \in Injection(lost, cut)
    BY <2>3 DEF Injection, IsInjective
  <2>6. Cardinality(lost) <= Cardinality(cut)
    BY <2>4, <2>5, FS_Injection
  <2> QED
    BY <2>6 DEF LossPerTear, lost, cut
<1> QED
  BY <1>1, DurableInductive, PTL

-----------------------------------------------------------------------------
(***************************************************************************)
(* A restart between two handlers changes nothing, and LevelDB and the WAL *)
(* drift apart in the known ways only: RestartIsExact and DriftIsExplained *)
(* of DurableProps.tla.                                                    *)
(*                                                                         *)
(* The invariant behind it speaks of a process in the middle of a handler, *)
(* where it follows what is still in todo: a start puts the first balances *)
(* before anything else, and the ballot is put last.                       *)
(***************************************************************************)

(***************************************************************************)
(* Recovering a file with one more line.                                   *)
(***************************************************************************)
Whole(f) == {i \in DOMAIN f : f[i].part = "full"}

(* File f with the complete line l at its end. *)
WithLine(f, l) == Append(f, [line |-> l, part |-> "full"])

(* A new greatest position comes last and moves no other. *)
LEMMA NthAppend ==
  ASSUME NEW n \in Nat, NEW I \in SUBSET (1..n)
  PROVE  LET J == I \cup {n + 1} IN
         /\ IsFiniteSet(I) /\ Cardinality(I) \in Nat
         /\ Cardinality(J) = Cardinality(I) + 1
         /\ \A k \in 1..Cardinality(I) : Nth(J, k) = Nth(I, k)
         /\ Nth(J, Cardinality(I) + 1) = n + 1
<1> DEFINE J == I \cup {n + 1}
<1>a. IsFiniteSet(1..n)
  BY FS_Interval
<1>b. I \in SUBSET Nat
  OBVIOUS
<1>1. IsFiniteSet(I) /\ I \in SUBSET Nat
  BY <1>a, <1>b, FS_Subset
<1>2. Cardinality(I) \in Nat
  BY <1>1, FS_CardinalityType
<1>3. IsFiniteSet(J) /\ Cardinality(J) = Cardinality(I) + 1 /\ J \in SUBSET Nat
  BY <1>1, FS_AddElement
<1>4. Rank(J, n + 1) = Cardinality(I) + 1
  <2>a. \A j \in J : j <= n + 1
    OBVIOUS
  <2>1. {j \in J : j <= n + 1} = J
    BY <2>a
  <2> QED
    BY <1>3, <2>1 DEF Rank
<1>5. ASSUME NEW i \in I PROVE Rank(J, i) = Rank(I, i)
  <2>1. \A j \in J : j <= i => j \in I
    OBVIOUS
  <2>2. {j \in J : j <= i} = {j \in I : j <= i}
    BY <2>1
  <2> QED
    BY <2>2 DEF Rank
<1>6. \A k \in 1..(Cardinality(I) + 1) : Nth(J, k) \in J /\ Rank(J, Nth(J, k)) = k
  BY <1>3, NthProperties
<1>7. \A k \in 1..Cardinality(I) : Nth(I, k) \in I /\ Rank(I, Nth(I, k)) = k
  BY <1>1, NthProperties
<1>8. ASSUME NEW k \in 1..Cardinality(I) PROVE Nth(J, k) = Nth(I, k)
  <2>1. k \in 1..(Cardinality(I) + 1) /\ k # Cardinality(I) + 1
    BY <1>2
  <2>2. Nth(J, k) \in J /\ Rank(J, Nth(J, k)) = k
    BY <1>6, <2>1
  <2>3. Nth(J, k) \in I
    BY <1>4, <2>1, <2>2
  <2>4. Rank(I, Nth(J, k)) = Rank(I, Nth(I, k)) /\ Nth(I, k) \in I
    BY <1>5, <1>7, <2>2, <2>3
  <2> DEFINE a == Nth(J, k)
             b == Nth(I, k)
  <2>5. a \in I /\ b \in I /\ Rank(I, a) = Rank(I, b)
    BY <2>3, <2>4
  <2> HIDE DEF J, a, b
  <2>6. a = b
    BY <1>1, <2>5, RankInjective
  <2> QED
    BY <2>6 DEF a, b
<1>9. Nth(J, Cardinality(I) + 1) = n + 1
  <2> DEFINE m == Nth(J, Cardinality(I) + 1)
  <2>1. m \in J /\ Rank(J, m) = Cardinality(I) + 1
    BY <1>2, <1>6
  <2>2. n + 1 \in J
    OBVIOUS
  <2> HIDE DEF m, J
  <2>3. m = n + 1
    BY <1>3, <1>4, <2>1, <2>2, RankInjective
  <2> QED
    BY <2>3 DEF m
<1> QED
  BY <1>1, <1>2, <1>3, <1>8, <1>9

(* When no complete line is hidden after line l was appended, none was     *)
(* hidden before, and l is the one new readable line.                      *)
LEMMA AppendReadable ==
  ASSUME NEW f \in Seq(Chunk), NEW l \in LineSet, NEW g, g = WithLine(f, l),
         Whole(g) \subseteq Readable(g)
  PROVE  /\ g \in Seq(Chunk) /\ Len(f) \in Nat
         /\ DOMAIN f = 1..Len(f) /\ DOMAIN g = 1..(Len(f) + 1)
         /\ \A i \in 1..Len(f) : g[i] = f[i]
         /\ g[Len(f) + 1] = [line |-> l, part |-> "full"]
         /\ Whole(f) \subseteq Readable(f)
         /\ Readable(g) = Readable(f) \cup {Len(f) + 1}
<1> DEFINE n == Len(f)
<1>0. [line |-> l, part |-> "full"] \in Chunk
  BY DEF Chunk, Part
<1>1. /\ g \in Seq(Chunk) /\ n \in Nat
      /\ DOMAIN f = 1..n /\ DOMAIN g = 1..(n + 1)
      /\ \A i \in 1..n : g[i] = f[i]
      /\ g[n + 1] = [line |-> l, part |-> "full"]
  BY <1>0, AppendProperties, LenProperties DEF WithLine
<1> HIDE DEF n
<1>2. ASSUME NEW i \in 1..n PROVE i \in LineStarts(g) <=> i \in LineStarts(f)
  <2>1. i \in DOMAIN f /\ i \in DOMAIN g
    BY <1>1
  <2>2. i # 1 => i - 1 \in 1..n
    BY <1>1
  <2>3. i # 1 => g[i - 1] = f[i - 1]
    BY <1>1, <2>2
  <2> QED
    BY <2>1, <2>3 DEF LineStarts
<1>3. \A i \in 1..n : i \in Readable(g) <=> i \in Readable(f)
  BY <1>1, <1>2 DEF Readable
<1>4. \A i \in 1..n : i \in Whole(g) <=> i \in Whole(f)
  BY <1>1 DEF Whole
<1>5. n + 1 \in Whole(g)
  BY <1>1 DEF Whole
<1>6. n + 1 \in Readable(g)
  BY <1>5
<1>7. Readable(g) \subseteq 1..(n + 1) /\ Readable(f) \subseteq 1..n /\ Whole(f) \subseteq 1..n
  BY <1>1 DEF Readable, LineStarts, Whole
<1>8. Whole(f) \subseteq Readable(f)
  BY <1>3, <1>4, <1>7
<1>a. \A i \in 1..(n + 1) : i \in 1..n \/ i = n + 1
  BY <1>1
<1>9. Readable(g) = Readable(f) \cup {n + 1}
  BY <1>3, <1>6, <1>7, <1>a
<1> QED
  BY <1>1, <1>8, <1>9 DEF n

(* Recovery then reads the same log with l at its end. *)
LEMMA RecoveredLogAppend ==
  ASSUME NEW f \in Seq(Chunk), NEW l \in LineSet, NEW g, g = WithLine(f, l),
         Whole(g) \subseteq Readable(g)
  PROVE  RecoveredLog(g) = Append(RecoveredLog(f), l)
<1> DEFINE n == Len(f)
           I == Readable(f)
           J == I \cup {n + 1}
           N == Cardinality(I)
           rf == RecoveredLog(f)
           rg == RecoveredLog(g)
<1>1. /\ n \in Nat /\ Readable(g) = J
      /\ \A i \in 1..n : g[i] = f[i]
      /\ g[n + 1] = [line |-> l, part |-> "full"]
  BY AppendReadable
<1>2. I \in SUBSET (1..n)
  BY ReadablePositions
<1>3. /\ N \in Nat /\ Cardinality(J) = N + 1
      /\ \A k \in 1..N : Nth(J, k) = Nth(I, k)
      /\ Nth(J, N + 1) = n + 1
      /\ IsFiniteSet(I)
  BY <1>1, <1>2, NthAppend
<1>4. \A k \in 1..N : Nth(I, k) \in 1..n
  <2>1. I \in SUBSET Nat
    BY <1>2
  <2> QED
    BY <1>2, <1>3, <2>1, NthProperties
<1>5. rf \in Seq(LineSet) /\ rg \in Seq(LineSet)
  BY RecoveredLogType, AppendReadable
<1>6. rf = [k \in 1..N |-> Parsed(f[Nth(I, k)])]
  BY DEF RecoveredLog
<1>7. rg = [k \in 1..(N + 1) |-> Parsed(g[Nth(J, k)])]
  BY <1>1, <1>3 DEF RecoveredLog
<1> HIDE DEF n, I, J, N, rf, rg
<1>8. Len(rf) = N /\ Len(rg) = N + 1
  BY <1>3, <1>6, <1>7
<1>9. /\ Append(rf, l) \in Seq(LineSet) /\ Len(Append(rf, l)) = N + 1
      /\ \A k \in 1..N : Append(rf, l)[k] = rf[k]
      /\ Append(rf, l)[N + 1] = l
  BY <1>5, <1>8, AppendProperties
<1>10. ASSUME NEW k \in 1..(N + 1) PROVE rg[k] = Append(rf, l)[k]
  <2>1. CASE k \in 1..N
    <3>1. rg[k] = Parsed(g[Nth(I, k)])
      BY <1>3, <1>7, <2>1
    <3>2. g[Nth(I, k)] = f[Nth(I, k)]
      BY <1>1, <1>4, <2>1
    <3>3. rf[k] = Parsed(f[Nth(I, k)])
      BY <1>6, <2>1
    <3> QED
      BY <1>9, <2>1, <3>1, <3>2, <3>3
  <2>2. CASE k = N + 1
    <3>1. rg[k] = Parsed(g[n + 1])
      BY <1>3, <1>7, <2>2
    <3>2. Parsed([line |-> l, part |-> "full"]) = l
      BY DEF Parsed
    <3> QED
      BY <1>1, <1>9, <2>2, <3>1, <3>2
  <2>3. k \in 1..N \/ k = N + 1
    BY <1>3
  <2> QED
    BY <2>1, <2>2, <2>3
<1>11. rg = Append(rf, l)
  BY <1>5, <1>8, <1>9, <1>10, SeqEqual
<1> QED
  BY <1>11 DEF rf, rg

(* And the same positions but for the transaction of l. *)
LEMMA RecoveredIndexAppend ==
  ASSUME NEW f \in Seq(Chunk), NEW l \in LineSet, NEW g, g = WithLine(f, l),
         Whole(g) \subseteq Readable(g)
  PROVE  RecoveredIndex(g) =
           [RecoveredIndex(f) EXCEPT ![l.tid] =
              IF l.status = "PREPARED" THEN Len(f) + 1 ELSE 0]
<1> DEFINE n == Len(f)
           af(t) == {i \in Readable(f) : f[i].line.tid = t}
           ag(t) == {i \in Readable(g) : g[i].line.tid = t}
           rf == RecoveredIndex(f)
           rg == RecoveredIndex(g)
<1>1. /\ n \in Nat /\ Readable(g) = Readable(f) \cup {n + 1}
      /\ \A i \in 1..n : g[i] = f[i]
      /\ g[n + 1] = [line |-> l, part |-> "full"]
  BY AppendReadable
<1>2. Readable(f) \in SUBSET (1..n)
  BY ReadablePositions
<1>3. rf = [t \in Tid |-> IF af(t) # {} /\ f[Max(af(t))].line.status = "PREPARED"
                            THEN Max(af(t)) ELSE 0]
  BY DEF RecoveredIndex
<1>4. rg = [t \in Tid |-> IF ag(t) # {} /\ g[Max(ag(t))].line.status = "PREPARED"
                            THEN Max(ag(t)) ELSE 0]
  BY DEF RecoveredIndex
<1>5. ASSUME NEW t \in Tid, t # l.tid PROVE rg[t] = rf[t]
  <2>1. ag(t) = af(t)
    <3>1. g[n + 1].line.tid # t
      BY <1>1, <1>5
    <3> QED
      BY <1>1, <1>2, <3>1
  <2>2. af(t) \in SUBSET (1..n)
    BY <1>2
  <2> HIDE DEF af, ag
  <2>a. af(t) \in SUBSET Nat /\ \A y \in af(t) : y <= n
    BY <1>1, <2>2
  <2>b. af(t) # {} => Max(af(t)) \in af(t)
    BY <1>1, <2>a, MaxOfBounded
  <2>3. af(t) # {} => Max(af(t)) \in 1..n
    BY <2>2, <2>b
  <2>4. af(t) # {} => g[Max(ag(t))] = f[Max(af(t))]
    BY <1>1, <2>1, <2>3
  <2> QED
    BY <1>3, <1>4, <2>1, <2>4
<1>6. l.tid \in Tid
  BY DEF LineSet
<1>7. rg[l.tid] = IF l.status = "PREPARED" THEN n + 1 ELSE 0
  <2> DEFINE T == ag(l.tid)
  <2>1. n + 1 \in T
    BY <1>1
  <2>2. T \in SUBSET (1..(n + 1))
    BY <1>1, <1>2
  <2> HIDE DEF T, ag, n
  <2>3. T \in SUBSET Nat /\ n + 1 \in Nat /\ \A y \in T : y <= n + 1
    BY <1>1, <2>2
  <2>4. Max(T) \in T /\ n + 1 <= Max(T)
    BY <2>1, <2>3, MaxOfBounded
  <2> DEFINE m == Max(T)
  <2>a. m \in Nat /\ m <= n + 1 /\ n + 1 <= m
    BY <2>3, <2>4
  <2> HIDE DEF m
  <2>b. m = n + 1
    BY <1>1, <2>a
  <2>5. Max(T) = n + 1
    BY <2>b DEF m
  <2>6. g[Max(T)].line.status = l.status
    BY <1>1, <2>5
  <2> QED
    BY <1>4, <1>6, <2>1, <2>5, <2>6 DEF T
<1> HIDE DEF af, ag, rf, rg, n
<1>8. DOMAIN rf = Tid /\ DOMAIN rg = Tid
  BY <1>3, <1>4
<1>9. rg = [rf EXCEPT ![l.tid] = IF l.status = "PREPARED" THEN n + 1 ELSE 0]
  BY <1>3, <1>4, <1>5, <1>6, <1>7, <1>8
<1> QED
  BY <1>9 DEF rf, rg, n

(* Recovery never takes a lower ballot than LevelDB's. *)
LEMMA RecoveredBallotBound ==
  ASSUME NEW f \in Seq(Chunk), NEW n \in Nat
  PROVE  RecoveredBallot(f, n) >= n
<1> DEFINE h == [i \in 1..Len(f) |-> f[i].line.ballot]
           T == {n} \cup {f[i].line.ballot : i \in Readable(f)} \cup MergedBallots(f)
<1>1. h \in [1..Len(f) -> Nat]
  BY ReadablePositions DEF Chunk, LineSet
<1>2. PICK u \in Nat : \A i \in 1..Len(f) : h[i] <= u
  BY <1>1, UpperBound, ReadablePositions
<1>3. \A y \in T : y = n \/ \E i \in 1..Len(f) : y = h[i]
  BY ReadablePositions DEF MergedBallots
<1>4. n \in T
  OBVIOUS
<1> HIDE DEF h, T
<1>5. T \in SUBSET Nat /\ \A y \in T : y <= u + n
  BY <1>1, <1>2, <1>3
<1>6. Max(T) \in T /\ n <= Max(T)
  BY <1>4, <1>5, MaxOfBounded, u + n \in Nat
<1>7. Max(T) \in Nat
  BY <1>5, <1>6
<1> QED
  BY <1>6, <1>7 DEF RecoveredBallot, T

(***************************************************************************)
(* The writes a handler has left, as a set.                                *)
(***************************************************************************)

(* The first write and the ones behind it. *)
LEMMA RangeTail ==
  ASSUME NEW S, NEW s \in Seq(S), s # <<>>
  PROVE  /\ Head(s) \in S /\ Tail(s) \in Seq(S)
         /\ Range(s) = {Head(s)} \cup Range(Tail(s))
<1>1. /\ Head(s) \in S /\ Tail(s) \in Seq(S) /\ Len(Tail(s)) = Len(s) - 1
      /\ \A i \in 1..Len(Tail(s)) : Tail(s)[i] = s[i + 1]
  BY HeadTailProperties
<1>2. /\ DOMAIN s = 1..Len(s) /\ DOMAIN Tail(s) = 1..Len(Tail(s))
      /\ Len(s) \in Nat /\ Len(s) # 0 /\ Head(s) = s[1]
  BY <1>1, LenProperties, EmptySeq
<1>3. ASSUME NEW i \in DOMAIN s PROVE s[i] \in {Head(s)} \cup Range(Tail(s))
  <2>1. CASE i = 1
    BY <1>2, <2>1
  <2>2. CASE i # 1
    <3>1. i - 1 \in DOMAIN Tail(s) /\ (i - 1) + 1 = i
      BY <1>1, <1>2, <2>2
    <3>2. Tail(s)[i - 1] = s[i]
      BY <1>1, <1>2, <3>1
    <3> QED
      BY <3>1, <3>2 DEF Range
  <2> QED
    BY <2>1, <2>2
<1>4. ASSUME NEW i \in DOMAIN Tail(s) PROVE Tail(s)[i] \in Range(s)
  <2>1. i + 1 \in DOMAIN s /\ Tail(s)[i] = s[i + 1]
    BY <1>1, <1>2
  <2> QED
    BY <2>1 DEF Range
<1>5. Head(s) \in Range(s)
  <2>1. 1 \in DOMAIN s
    BY <1>2
  <2> QED
    BY <1>2, <2>1 DEF Range
<1>6. Range(s) \subseteq {Head(s)} \cup Range(Tail(s))
  BY <1>3 DEF Range
<1>7. Range(Tail(s)) \subseteq Range(s)
  BY <1>4 DEF Range
<1> QED
  BY <1>1, <1>5, <1>6, <1>7

(* One list of writes before another. *)
LEMMA RangeConcat ==
  ASSUME NEW S, NEW s \in Seq(S), NEW t \in Seq(S)
  PROVE  Range(s \o t) = Range(s) \cup Range(t)
<1> DEFINE u == s \o t
<1>1. /\ u \in Seq(S) /\ Len(u) = Len(s) + Len(t)
      /\ \A i \in 1..(Len(s) + Len(t)) : u[i] = IF i <= Len(s) THEN s[i] ELSE t[i - Len(s)]
  BY ConcatProperties
<1> HIDE DEF u
<1>2. /\ DOMAIN u = 1..(Len(s) + Len(t)) /\ DOMAIN s = 1..Len(s) /\ DOMAIN t = 1..Len(t)
      /\ Len(s) \in Nat /\ Len(t) \in Nat
  BY <1>1, LenProperties
<1>3. ASSUME NEW i \in DOMAIN u PROVE u[i] \in Range(s) \cup Range(t)
  <2>1. i <= Len(s) => i \in DOMAIN s /\ u[i] = s[i]
    BY <1>1, <1>2
  <2>2. ~(i <= Len(s)) => i - Len(s) \in DOMAIN t /\ u[i] = t[i - Len(s)]
    BY <1>1, <1>2
  <2> QED
    BY <2>1, <2>2 DEF Range
<1>4. ASSUME NEW i \in DOMAIN s PROVE s[i] \in Range(u)
  <2>1. i \in DOMAIN u /\ u[i] = s[i]
    BY <1>1, <1>2
  <2> QED
    BY <2>1 DEF Range
<1>5. ASSUME NEW i \in DOMAIN t PROVE t[i] \in Range(u)
  <2>1. i + Len(s) \in DOMAIN u /\ ~(i + Len(s) <= Len(s)) /\ (i + Len(s)) - Len(s) = i
    BY <1>2
  <2>2. u[i + Len(s)] = t[i]
    BY <1>1, <1>2, <2>1
  <2> QED
    BY <2>1, <2>2 DEF Range
<1>6. Range(u) = Range(s) \cup Range(t)
  BY <1>3, <1>4, <1>5 DEF Range
<1> QED
  BY <1>6 DEF u

(* A list of writes with one more at its end. *)
LEMMA RangeAppend ==
  ASSUME NEW S, NEW s \in Seq(S), NEW e \in S
  PROVE  Range(Append(s, e)) = Range(s) \cup {e}
<1> DEFINE t == <<e>>
<1>1. Append(s, e) = s \o t
  BY AppendIsConcat
<1>2. t \in Seq(S)
  OBVIOUS
<1>3. Range(t) = {e}
  BY DEF Range
<1> HIDE DEF t
<1>4. Range(s \o t) = Range(s) \cup Range(t)
  BY <1>2, RangeConcat
<1> QED
  BY <1>1, <1>3, <1>4

(* SetToSeq lists every member of a finite set. *)
LEMMA SetToSeqCovers ==
  ASSUME NEW S, IsFiniteSet(S)
  PROVE  \A x \in S : \E i \in 1..Cardinality(S) : SetToSeq(S)[i] = x
<1> DEFINE n == Cardinality(S)
           q == SetToSeq(S)
<1>1. n \in Nat /\ ExistsBijection(1..n, S)
  BY FS_CardinalityType
<1>2. \E f \in [1..n -> S] : IsInjective(f)
  BY <1>1 DEF ExistsBijection, Bijection, Injection
<1>3. q \in [1..n -> S] /\ IsInjective(q)
  BY <1>2 DEF SetToSeq
<1>4. Cardinality(1..n) = n
  BY <1>1, FS_Interval
<1> HIDE DEF q
<1>5. q \in Injection(1..n, S)
  BY <1>3 DEF Injection
<1>6. q \in Surjection(1..n, S)
  BY <1>4, <1>5, FS_Injection
<1>7. \A x \in S : \E i \in 1..n : q[i] = x
  BY <1>6 DEF Surjection
<1> QED
  BY <1>7 DEF q

(***************************************************************************)
(* The invariant.                                                          *)
(***************************************************************************)

(* Replaying the file now gives the log and the index in memory. *)
Rebuilt ==
  up /\ Whole(wal) \subseteq Readable(wal) =>
    RecoveredLog(wal) = mem.log /\ RecoveredIndex(wal) = mem.transferIndex

(* While a first balance is still to be put, the account has it in memory, *)
(* and nothing that could change a balance is pending.                     *)
StartFirst ==
  \A v \in Range(todo) : v.do = "putInitial" =>
    /\ mem.balances[v.account] = InitialBalance
    /\ \A w \in Range(todo) : w.do \in {"putInitial", "persistBallotNum"}

(* A balance in memory is on disk, or a first balance about to be put. *)
BalanceKept ==
  up /\ ~mem.bg_error => \A a \in Local :
    \/ a \in DOMAIN db.balance /\ db.balance[a] = mem.balances[a]
    \/ \E v \in Range(todo) : v.do = "putInitial" /\ v.account = a

(* The ballot in memory is on disk or about to be put. *)
BallotKept ==
  up /\ ~mem.bg_error =>
    \/ db.ballot = mem.ballot_num
    \/ \E v \in Range(todo) : v.do = "persistBallotNum"

RestartInv == Rebuilt /\ StartFirst /\ BalanceKept /\ BallotKept

(* Nothing is pending in an empty list. *)
LEMMA RangeEmpty == Range(<<>>) = {}
  BY DEF Range

(* A handler that starts finds nothing pending and queues no first         *)
(* balance; if it takes a ballot it queues persistBallotNum.               *)
LEMMA HandlerKeeps ==
  ASSUME RestartInv, todo = <<>>, wal' = wal, db' = db, up' = up,
         mem'.log = mem.log, mem'.transferIndex = mem.transferIndex,
         mem'.balances = mem.balances, mem'.bg_error = mem.bg_error,
         \A w \in Range(todo') : w.do # "putInitial",
         \/ mem'.ballot_num = mem.ballot_num
         \/ \E w \in Range(todo') : w.do = "persistBallotNum"
  PROVE  RestartInv'
<1>1. Range(todo) = {}
  BY RangeEmpty
<1>2. Rebuilt'
  BY DEF RestartInv, Rebuilt
<1>3. StartFirst'
  BY DEF StartFirst
<1>4. BalanceKept'
  BY <1>1 DEF RestartInv, BalanceKept
<1>5. BallotKept'
  BY <1>1 DEF RestartInv, BallotKept
<1> QED
  BY <1>2, <1>3, <1>4, <1>5 DEF RestartInv

(* The handlers. *)
LEMMA HandlerRestart ==
  ASSUME DurableInv, RestartInv, Handler
  PROVE  RestartInv'
<1>0. mem \in Memory
  BY DEF DurableInv, DurableTypeInv
<1>1. ASSUME NEW n \in 1..MaxBallot, NewBallot(n) PROVE RestartInv'
  <2>1. todo' = <<PersistBallotNum>>
    BY <1>1 DEF NewBallot
  <2>2. Range(todo') = {PersistBallotNum}
    BY <2>1 DEF Range
  <2>3. PersistBallotNum.do = "persistBallotNum"
    BY DEF PersistBallotNum
  <2>4. /\ mem'.log = mem.log /\ mem'.transferIndex = mem.transferIndex
        /\ mem'.balances = mem.balances /\ mem'.bg_error = mem.bg_error
    BY <1>0, <1>1 DEF NewBallot, Memory
  <2>5. todo = <<>> /\ wal' = wal /\ db' = db /\ up' = up
    BY <1>1 DEF NewBallot, Idle
  <2> QED
    BY <2>2, <2>3, <2>4, <2>5, HandlerKeeps
<1>2. ASSUME NEW ts \in Batches, PrepareBatch(ts) PROVE RestartInv'
  <2>1. todo' = [i \in DOMAIN ts |->
          WriteLine("prepare", Line(ts[i], mem.promised_num, "PREPARED", Txn[ts[i]].amount))]
    BY <1>2 DEF PrepareBatch
  <2>2. \A w \in Range(todo') : w.do = "prepare"
    BY <2>1 DEF Range, WriteLine
  <2>3. todo = <<>> /\ wal' = wal /\ db' = db /\ up' = up /\ mem' = mem
    BY <1>2 DEF PrepareBatch, Idle
  <2> QED
    BY <2>2, <2>3, HandlerKeeps
<1>3. ASSUME NEW ts \in Batches, CommitBatch(ts) PROVE RestartInv'
  <2>1. todo' = [i \in DOMAIN ts |->
          WriteLine("commit", Line(ts[i], mem.promised_num, "COMMITTED", Txn[ts[i]].amount))]
    BY <1>3 DEF CommitBatch
  <2>2. \A w \in Range(todo') : w.do = "commit"
    BY <2>1 DEF Range, WriteLine
  <2>3. todo = <<>> /\ wal' = wal /\ db' = db /\ up' = up /\ mem' = mem
    BY <1>3 DEF CommitBatch, Idle
  <2> QED
    BY <2>2, <2>3, HandlerKeeps
<1>4. ASSUME NEW t \in Tid, NEW st \in {"COMMITTED", "ABORTED"}, Decide(t, st)
      PROVE  RestartInv'
  <2> DEFINE l == [Parsed(wal[mem.transferIndex[t]]) EXCEPT !.status = st]
  <2>1. todo' = <<WriteLine("close", l)>>
    BY <1>4 DEF Decide
  <2> HIDE DEF l
  <2>2. \A w \in Range(todo') : w.do = "close"
    BY <2>1 DEF Range, WriteLine
  <2>3. todo = <<>> /\ wal' = wal /\ db' = db /\ up' = up /\ mem' = mem
    BY <1>4 DEF Decide, Idle
  <2> QED
    BY <2>2, <2>3, HandlerKeeps
<1>5. ASSUME NEW ls \in PeerLogs, NEW n \in 1..MaxBallot, SyncReply(ls, n)
      PROVE  RestartInv'
  <2> DEFINE ws == [i \in DOMAIN ls |-> WriteLine("insert", ls[i])]
  <2>1. ws \in Seq(WriteSet)
    BY SyncWrites
  <2>2. \A w \in Range(ws) : w.do = "insert"
    BY DEF Range, WriteLine
  <2>3. todo' = Append(ws, PersistBallotNum)
    BY <1>5 DEF SyncReply
  <2> HIDE DEF ws
  <2>4. Range(todo') = Range(ws) \cup {PersistBallotNum}
    BY <2>1, <2>3, RangeAppend, WriteTypes
  <2>5. PersistBallotNum.do = "persistBallotNum"
    BY DEF PersistBallotNum
  <2>6. /\ mem'.log = mem.log /\ mem'.transferIndex = mem.transferIndex
        /\ mem'.balances = mem.balances /\ mem'.bg_error = mem.bg_error
    BY <1>0, <1>5 DEF SyncReply, Memory
  <2>7. todo = <<>> /\ wal' = wal /\ db' = db /\ up' = up
    BY <1>5 DEF SyncReply, Idle
  <2>8. /\ \A w \in Range(todo') : w.do # "putInitial"
        /\ \E w \in Range(todo') : w.do = "persistBallotNum"
    BY <2>2, <2>4, <2>5
  <2> QED
    BY <2>6, <2>7, <2>8, HandlerKeeps
<1> QED
  BY <1>1, <1>2, <1>3, <1>4, <1>5 DEF Handler

(* A process that does not run promises nothing. *)
LEMMA RestartDown ==
  ASSUME up' = FALSE, todo' = <<>>
  PROVE  RestartInv'
<1>1. Range(todo') = {}
  BY RangeEmpty
<1> QED
  BY <1>1 DEF RestartInv, Rebuilt, StartFirst, BalanceKept, BallotKept

(* The changes of a line are updateBalance calls. *)
LEMMA ChangesAreUpdates ==
  ASSUME NEW l \in LineSet
  PROVE  \A w \in Range(Changes(l)) : w.do = "updateBalance"
<1> DEFINE x == Txn[l.tid]
           ca == Change(x.sender, -l.amount)
           cb == Change(x.receiver, l.amount)
<1>1. ca.do = "updateBalance" /\ cb.do = "updateBalance"
  BY DEF Change
<1>2. Changes(l) = (IF x.sender \in Local THEN <<ca>> ELSE <<>>)
                     \o (IF x.receiver \in Local THEN <<cb>> ELSE <<>>)
  BY DEF Changes
<1> HIDE DEF x, ca, cb
<1> DEFINE S == {ca, cb}
           p == IF x.sender \in Local THEN <<ca>> ELSE <<>>
           q == IF x.receiver \in Local THEN <<cb>> ELSE <<>>
<1>3. p \in Seq(S) /\ q \in Seq(S)
  <2>1. <<ca>> \in Seq(S) /\ <<cb>> \in Seq(S) /\ <<>> \in Seq(S)
    OBVIOUS
  <2> QED
    BY <2>1
<1> HIDE DEF p, q, S
<1>4. Changes(l) \in Seq(S)
  BY <1>2, <1>3, ConcatProperties DEF p, q
<1>5. \A w \in Range(Changes(l)) : w \in S
  BY <1>4, LenProperties, ElementOfSeq DEF Range
<1> QED
  BY <1>1, <1>5 DEF S

(* What an accepted put of a balance leaves in LevelDB. *)
LEMMA PutResult ==
  ASSUME db \in Stored, NEW a, NEW b, ~mem.bg_error, db' = Put(a, b)
  PROVE  /\ DOMAIN db'.balance = DOMAIN db.balance \cup {a}
         /\ \A k \in DOMAIN db'.balance : db'.balance[k] = IF k = a THEN b ELSE db.balance[k]
         /\ db'.ballot = db.ballot
<1> DEFINE g == [k \in DOMAIN db.balance \cup {a} |-> IF k = a THEN b ELSE db.balance[k]]
<1>1. db' = [db EXCEPT !.balance = g]
  BY DEF Put
<1>2. DOMAIN g = DOMAIN db.balance \cup {a} /\ \A k \in DOMAIN g : g[k] = IF k = a THEN b ELSE db.balance[k]
  OBVIOUS
<1> HIDE DEF g
<1>3. db'.balance = g /\ db'.ballot = db.ballot
  BY <1>1 DEF Stored
<1> QED
  BY <1>2, <1>3

(* A line of the WAL: no first balance is pending, and recovery sees the   *)
(* line at the end of the log.                                             *)
LEMMA AppendEntryRestart ==
  ASSUME DurableInv, RestartInv, AppendEntry
  PROVE  RestartInv'
<1>0. wal \in Seq(Chunk) /\ todo \in Seq(WriteSet) /\ mem \in Memory
  BY DEF DurableInv, DurableTypeInv
<1>1. PICK l \in NextLine :
        LET first == l.status = "COMMITTED" /\ l.tid \notin mem.balance_applied IN
        /\ wal' = Append(wal, [line |-> l, part |-> "full"])
        /\ mem' = [mem EXCEPT
                     !.log = Append(@, l),
                     !.transferIndex = IndexAfter(l),
                     !.balance_applied = IF first THEN @ \cup {l.tid} ELSE @]
        /\ todo' = (IF first THEN Changes(l) ELSE <<>>) \o Tail(todo)
  BY DEF AppendEntry
<1>2. l \in LineSet /\ todo # <<>>
  BY <1>0, NextLineType
<1>3. /\ mem'.log = Append(mem.log, l) /\ mem'.transferIndex = IndexAfter(l)
      /\ mem'.balances = mem.balances /\ mem'.bg_error = mem.bg_error
      /\ mem'.ballot_num = mem.ballot_num
  BY <1>0, <1>1 DEF Memory
<1>4. up /\ db' = db /\ up' = up
  BY DEF AppendEntry
<1>5. /\ Head(todo) \in WriteSet /\ Tail(todo) \in Seq(WriteSet)
      /\ Range(todo) = {Head(todo)} \cup Range(Tail(todo))
  BY <1>0, <1>2, RangeTail
<1>6. Head(todo).do \in {"commit", "prepare", "insert", "close"}
  <2>1. PICK j \in {1} \cap DOMAIN todo : todo[j].do \in {"commit", "prepare", "insert", "close"}
    BY <1>1 DEF NextLine
  <2>2. Head(todo) = todo[1]
    BY <1>0, <1>2
  <2> QED
    BY <2>1, <2>2
<1>7. \A w \in Range(todo) : w.do # "putInitial"
  <2>1. Head(todo) \in Range(todo)
    BY <1>5
  <2>2. Head(todo).do \notin {"putInitial", "persistBallotNum"}
    BY <1>6
  <2> QED
    BY <2>1, <2>2 DEF RestartInv, StartFirst
<1>8. PICK q \in Seq(WriteSet) :
        todo' = q \o Tail(todo) /\ \A w \in Range(q) : w.do = "updateBalance"
  <2>1. Changes(l) \in Seq(WriteSet) /\ \A w \in Range(Changes(l)) : w.do = "updateBalance"
    BY <1>2, ChangesType, ChangesAreUpdates
  <2>2. <<>> \in Seq(WriteSet) /\ \A w \in Range(<<>>) : w.do = "updateBalance"
    BY EmptySeq, RangeEmpty
  <2>3. CASE l.status = "COMMITTED" /\ l.tid \notin mem.balance_applied
    BY <1>1, <2>1, <2>3
  <2>4. CASE ~(l.status = "COMMITTED" /\ l.tid \notin mem.balance_applied)
    BY <1>1, <2>2, <2>4
  <2> QED
    BY <2>3, <2>4
<1>9. Range(todo') = Range(q) \cup Range(Tail(todo))
  <2> DEFINE r == Tail(todo)
  <2>1. r \in Seq(WriteSet) /\ todo' = q \o r
    BY <1>5, <1>8
  <2> HIDE DEF r
  <2>2. Range(q \o r) = Range(q) \cup Range(r)
    BY ONLY <2>1, q \in Seq(WriteSet), RangeConcat
  <2> QED
    BY <2>1, <2>2 DEF r
<1>10. \A w \in Range(todo') : w.do # "putInitial"
  BY <1>5, <1>7, <1>8, <1>9
<1>11. Rebuilt'
  <2> SUFFICES ASSUME Whole(wal') \subseteq Readable(wal')
               PROVE  RecoveredLog(wal') = mem'.log /\ RecoveredIndex(wal') = mem'.transferIndex
    BY DEF Rebuilt
  <2>1. wal' = WithLine(wal, l)
    BY <1>1 DEF WithLine
  <2>2. Whole(wal) \subseteq Readable(wal)
    BY <1>0, <1>2, <2>1, AppendReadable
  <2>3. RecoveredLog(wal) = mem.log /\ RecoveredIndex(wal) = mem.transferIndex
    BY <1>4, <2>2 DEF RestartInv, Rebuilt
  <2>4. RecoveredLog(wal') = Append(mem.log, l)
    BY <1>0, <1>2, <2>1, <2>3, RecoveredLogAppend
  <2>5. RecoveredIndex(wal') = IndexAfter(l)
    BY <1>0, <1>2, <2>1, <2>3, RecoveredIndexAppend DEF IndexAfter
  <2> QED
    BY <1>3, <2>4, <2>5
<1>12. StartFirst'
  BY <1>10 DEF StartFirst
<1>13. BalanceKept'
  BY <1>3, <1>4, <1>7 DEF RestartInv, BalanceKept
<1>14. BallotKept'
  <2>1. \A v \in Range(todo) : v.do = "persistBallotNum" => v \in Range(todo')
    BY <1>5, <1>6, <1>9
  <2> QED
    BY <1>3, <1>4, <2>1 DEF RestartInv, BallotKept
<1> QED
  BY <1>11, <1>12, <1>13, <1>14 DEF RestartInv

(* A write that is done leaves the others pending. *)
LEMMA SkipCommitRestart ==
  ASSUME DurableInv, RestartInv, SkipCommit
  PROVE  RestartInv'
<1>0. todo \in Seq(WriteSet)
  BY DEF DurableInv, DurableTypeInv
<1>1. /\ todo # <<>> /\ Head(todo).do = "commit" /\ todo' = Tail(todo)
      /\ wal' = wal /\ db' = db /\ up' = up /\ mem' = mem
  BY DEF SkipCommit
<1>2. Range(todo) = {Head(todo)} \cup Range(todo')
  BY <1>0, <1>1, RangeTail
<1>3. Rebuilt'
  BY <1>1 DEF RestartInv, Rebuilt
<1>4. StartFirst'
  BY <1>1, <1>2 DEF RestartInv, StartFirst
<1>5. BalanceKept'
  BY <1>1, <1>2 DEF RestartInv, BalanceKept
<1>6. BallotKept'
  BY <1>1, <1>2 DEF RestartInv, BallotKept
<1> QED
  BY <1>3, <1>4, <1>5, <1>6 DEF RestartInv

(* updateBalance: no first balance is pending, so the new balance is the   *)
(* last word on the account.                                               *)
LEMMA UpdateBalanceRestart ==
  ASSUME DurableInv, RestartInv, UpdateBalance
  PROVE  RestartInv'
<1> DEFINE a == Head(todo).account
           b == mem.balances[a] + Head(todo).delta
<1>0. db \in Stored /\ todo \in Seq(WriteSet) /\ mem \in Memory
  BY DEF DurableInv, DurableTypeInv
<1>1. /\ up /\ todo # <<>> /\ Head(todo).do = "updateBalance"
      /\ mem' = [mem EXCEPT !.balances[a] = b]
      /\ db' = Put(a, b)
      /\ todo' = Tail(todo)
      /\ wal' = wal /\ up' = up
  BY DEF UpdateBalance
<1>2. Head(todo) \in WriteSet /\ Range(todo) = {Head(todo)} \cup Range(todo')
  BY <1>0, <1>1, RangeTail
<1>3. a \in Local
  BY <1>1, <1>2, WriteShape
<1>4. mem.balances \in [Account -> Int] /\ a \in Account
  BY <1>0, <1>3, LocalFinite DEF Memory
<1>5. \A w \in Range(todo) : w.do # "putInitial"
  <2>1. Head(todo) \in Range(todo) /\ Head(todo).do \notin {"putInitial", "persistBallotNum"}
    BY <1>1, <1>2
  <2> QED
    BY <2>1 DEF RestartInv, StartFirst
<1> HIDE DEF a, b
<1>6. /\ mem'.log = mem.log /\ mem'.transferIndex = mem.transferIndex
      /\ mem'.bg_error = mem.bg_error /\ mem'.ballot_num = mem.ballot_num
      /\ mem'.balances = [mem.balances EXCEPT ![a] = b]
  BY <1>0, <1>1 DEF Memory
<1>7. ~mem.bg_error =>
        /\ DOMAIN db'.balance = DOMAIN db.balance \cup {a}
        /\ \A k \in DOMAIN db'.balance : db'.balance[k] = IF k = a THEN b ELSE db.balance[k]
        /\ db'.ballot = db.ballot
  BY <1>0, <1>1, PutResult
<1>8. Rebuilt'
  BY <1>1, <1>6 DEF RestartInv, Rebuilt
<1>9. StartFirst'
  BY <1>2, <1>5 DEF StartFirst
<1>10. BalanceKept'
  <2> SUFFICES ASSUME ~mem'.bg_error, NEW k \in Local
               PROVE  k \in DOMAIN db'.balance /\ db'.balance[k] = mem'.balances[k]
    BY DEF BalanceKept
  <2>1. CASE k = a
    BY <1>4, <1>6, <1>7, <2>1
  <2>2. CASE k # a
    <3>1. k \in DOMAIN db.balance /\ db.balance[k] = mem.balances[k]
      BY <1>1, <1>5, <1>6 DEF RestartInv, BalanceKept
    <3>2. mem'.balances[k] = mem.balances[k]
      BY <1>4, <1>6, <2>2, LocalFinite
    <3> QED
      BY <1>6, <1>7, <2>2, <3>1, <3>2
  <2> QED
    BY <2>1, <2>2
<1>11. BallotKept'
  BY <1>1, <1>2, <1>6, <1>7 DEF RestartInv, BallotKept
<1> QED
  BY <1>8, <1>9, <1>10, <1>11 DEF RestartInv

(* persistBallotNum. *)
LEMMA WriteBallotRestart ==
  ASSUME DurableInv, RestartInv, WriteBallot
  PROVE  RestartInv'
<1>0. todo \in Seq(WriteSet) /\ db \in Stored
  BY DEF DurableInv, DurableTypeInv
<1>1. /\ todo # <<>> /\ Head(todo).do = "persistBallotNum" /\ todo' = Tail(todo)
      /\ wal' = wal /\ up' = up /\ mem' = mem /\ db' = PutBallot(mem.ballot_num)
  BY DEF WriteBallot
<1>2. Range(todo) = {Head(todo)} \cup Range(todo')
  BY <1>0, <1>1, RangeTail
<1>3. db'.balance = db.balance /\ (~mem.bg_error => db'.ballot = mem.ballot_num)
  BY <1>0, <1>1 DEF PutBallot, Stored
<1>4. Rebuilt'
  BY <1>1 DEF RestartInv, Rebuilt
<1>5. StartFirst'
  BY <1>1, <1>2 DEF RestartInv, StartFirst
<1>6. BalanceKept'
  BY <1>1, <1>2, <1>3 DEF RestartInv, BalanceKept
<1>7. BallotKept'
  BY <1>1, <1>3 DEF BallotKept
<1> QED
  BY <1>4, <1>5, <1>6, <1>7 DEF RestartInv

(* The first balances. *)
LEMMA WriteInitialRestart ==
  ASSUME DurableInv, RestartInv, WriteInitial
  PROVE  RestartInv'
<1> DEFINE a == Head(todo).account
<1>0. todo \in Seq(WriteSet) /\ db \in Stored /\ mem \in Memory
  BY DEF DurableInv, DurableTypeInv
<1>1. /\ up /\ todo # <<>> /\ Head(todo).do = "putInitial" /\ wal' = wal
      /\ db' = Put(a, InitialBalance)
  BY DEF WriteInitial
<1>2. CASE ~mem.bg_error /\ todo' = Tail(todo) /\ up' = up /\ mem' = mem
  <2>1. Head(todo) \in WriteSet /\ Range(todo) = {Head(todo)} \cup Range(todo')
    BY <1>0, <1>1, <1>2, RangeTail
  <2>2. a \in Local /\ mem.balances[a] = InitialBalance
    <3>1. a \in Local
      BY <1>1, <2>1, WriteShape
    <3> QED
      BY <1>1, <2>1, <3>1 DEF RestartInv, StartFirst
  <2> HIDE DEF a
  <2>3. /\ DOMAIN db'.balance = DOMAIN db.balance \cup {a}
        /\ \A k \in DOMAIN db'.balance :
             db'.balance[k] = IF k = a THEN InitialBalance ELSE db.balance[k]
        /\ db'.ballot = db.ballot
    BY <1>0, <1>1, <1>2, PutResult
  <2>4. Rebuilt'
    BY <1>1, <1>2 DEF RestartInv, Rebuilt
  <2>5. StartFirst'
    BY <1>2, <2>1 DEF RestartInv, StartFirst
  <2>6. BalanceKept'
    <3> SUFFICES ASSUME NEW k \in Local
                 PROVE  \/ k \in DOMAIN db'.balance /\ db'.balance[k] = mem'.balances[k]
                        \/ \E v \in Range(todo') : v.do = "putInitial" /\ v.account = k
      BY DEF BalanceKept
    <3>1. CASE k = a
      BY <1>2, <2>2, <2>3, <3>1
    <3>2. CASE k # a
      <4>1. \/ k \in DOMAIN db.balance /\ db.balance[k] = mem.balances[k]
            \/ \E v \in Range(todo) : v.do = "putInitial" /\ v.account = k
        BY <1>1, <1>2 DEF RestartInv, BalanceKept
      <4>2. Head(todo).account # k
        BY <3>2 DEF a
      <4> QED
        BY <1>2, <2>1, <2>3, <3>2, <4>1, <4>2
    <3> QED
      BY <3>1, <3>2
  <2>7. BallotKept'
    BY <1>1, <1>2, <2>1, <2>3 DEF RestartInv, BallotKept
  <2> QED
    BY <2>4, <2>5, <2>6, <2>7 DEF RestartInv
<1>3. CASE up' = FALSE /\ todo' = <<>>
  BY <1>3, RestartDown
<1> QED
  BY <1>2, <1>3 DEF WriteInitial

(* A background error takes back the promises about LevelDB only. *)
LEMMA RecordBackgroundErrorRestart ==
  ASSUME DurableInv, RestartInv, RecordBackgroundError
  PROVE  RestartInv'
<1>1. /\ mem'.log = mem.log /\ mem'.transferIndex = mem.transferIndex
      /\ mem'.balances = mem.balances /\ mem'.bg_error = TRUE
  BY DEF RecordBackgroundError, DurableInv, DurableTypeInv, Memory
<1>2. wal' = wal /\ up' = up /\ todo' = todo
  BY DEF RecordBackgroundError
<1> QED
  BY <1>1, <1>2 DEF RestartInv, Rebuilt, StartFirst, BalanceKept, BallotKept

(* run(): the accounts without a key are exactly the ones queued. *)
LEMMA RunPending ==
  ASSUME Run
  PROVE  LET missing == Local \ DOMAIN db.balance IN
         /\ \A v \in Range(todo') :
               v.do = "persistBallotNum" \/ (v.do = "putInitial" /\ v.account \in missing)
         /\ \A a \in missing : \E v \in Range(todo') : v.do = "putInitial" /\ v.account = a
         /\ \E v \in Range(todo') : v.do = "persistBallotNum"
<1> DEFINE missing == Local \ DOMAIN db.balance
           ws == [i \in 1..Cardinality(missing) |-> PutInitial(SetToSeq(missing)[i])]
<1>1. todo' = Append(ws, PersistBallotNum)
  BY DEF Run
<1>2. IsFiniteSet(missing) /\ missing \in SUBSET Local
  BY LocalFinite, FS_Subset
<1> HIDE DEF missing
<1>3. /\ Cardinality(missing) \in Nat
      /\ \A i \in 1..Cardinality(missing) : SetToSeq(missing)[i] \in missing
      /\ \A a \in missing : \E i \in 1..Cardinality(missing) : SetToSeq(missing)[i] = a
  BY <1>2, SetToSeqMembers, SetToSeqCovers
<1>4. \A i \in 1..Cardinality(missing) : PutInitial(SetToSeq(missing)[i]) \in WriteSet
  BY <1>2, <1>3, WriteTypes
<1>5. ws \in Seq(WriteSet)
  BY <1>3, <1>4
<1>6. \A v \in Range(ws) : v.do = "putInitial" /\ v.account \in missing
  BY <1>3 DEF Range, PutInitial
<1>7. \A a \in missing : \E v \in Range(ws) : v.do = "putInitial" /\ v.account = a
  <2> SUFFICES ASSUME NEW a \in missing
               PROVE  \E v \in Range(ws) : v.do = "putInitial" /\ v.account = a
    OBVIOUS
  <2>1. PICK i \in 1..Cardinality(missing) : SetToSeq(missing)[i] = a
    BY <1>3
  <2>2. ws[i] = PutInitial(a) /\ ws[i] \in Range(ws)
    BY <2>1 DEF Range
  <2> QED
    BY <2>2 DEF PutInitial
<1> HIDE DEF ws
<1>8. Range(todo') = Range(ws) \cup {PersistBallotNum}
  BY <1>1, <1>5, WriteTypes, RangeAppend
<1>9. PersistBallotNum.do = "persistBallotNum"
  BY DEF PersistBallotNum
<1> QED
  BY <1>6, <1>7, <1>8, <1>9 DEF missing

(* run(): an account has its balance from LevelDB, or a first one pending. *)
LEMMA RunRestart ==
  ASSUME DurableInv, RestartInv, Run
  PROVE  RestartInv'
<1> DEFINE missing == Local \ DOMAIN db.balance
           bal == [a \in Account |->
                     CASE a \notin Local -> 0
                       [] a \in missing  -> InitialBalance
                       [] OTHER          -> db.balance[a]]
<1>1. /\ wal' = wal /\ db' = db /\ mem'.balances = bal
      /\ mem'.log = RecoveredLog(wal) /\ mem'.transferIndex = RecoveredIndex(wal)
  BY DEF Run
<1>2. missing \in SUBSET Local
  OBVIOUS
<1>3. \A a \in Local :
        /\ a \in missing => bal[a] = InitialBalance
        /\ a \notin missing => a \in DOMAIN db.balance /\ bal[a] = db.balance[a]
  BY LocalFinite
<1>4. /\ \A v \in Range(todo') :
               v.do = "persistBallotNum" \/ (v.do = "putInitial" /\ v.account \in missing)
      /\ \A a \in missing : \E v \in Range(todo') : v.do = "putInitial" /\ v.account = a
      /\ \E v \in Range(todo') : v.do = "persistBallotNum"
  BY RunPending
<1> HIDE DEF missing, bal
<1>5. Rebuilt'
  BY <1>1 DEF Rebuilt
<1>6. StartFirst'
  BY <1>1, <1>2, <1>3, <1>4 DEF StartFirst
<1>7. BalanceKept'
  <2> SUFFICES ASSUME NEW a \in Local
               PROVE  \/ a \in DOMAIN db'.balance /\ db'.balance[a] = mem'.balances[a]
                      \/ \E v \in Range(todo') : v.do = "putInitial" /\ v.account = a
    BY DEF BalanceKept
  <2>1. CASE a \in missing
    BY <1>4, <2>1
  <2>2. CASE a \notin missing
    BY <1>1, <1>3, <2>2
  <2> QED
    BY <2>1, <2>2
<1>8. BallotKept'
  BY <1>4 DEF BallotKept
<1> QED
  BY <1>5, <1>6, <1>7, <1>8 DEF RestartInv

(***************************************************************************)
(* The theorem.                                                            *)
(***************************************************************************)

(* RestartInv is inductive, given the types. *)
LEMMA RestartInductive == Spec => []RestartInv
<1>1. Init => RestartInv
  <2> SUFFICES ASSUME Init PROVE RestartInv
    OBVIOUS
  <2>1. Range(todo) = {} /\ up = FALSE
    BY RangeEmpty DEF Init
  <2> QED
    BY <2>1 DEF RestartInv, Rebuilt, StartFirst, BalanceKept, BallotKept
<1>2. DurableInv /\ RestartInv /\ [Next]_vars => RestartInv'
  <2> SUFFICES ASSUME DurableInv, RestartInv, [Next]_vars PROVE RestartInv'
    OBVIOUS
  <2>1. CASE Handler
    BY <2>1, HandlerRestart
  <2>2. CASE Write
    BY <2>2, AppendEntryRestart, SkipCommitRestart, UpdateBalanceRestart, WriteBallotRestart,
       WriteInitialRestart DEF Write
  <2>3. CASE RecordBackgroundError
    BY <2>3, RecordBackgroundErrorRestart
  <2>4. CASE Crash
    BY <2>4, RestartDown DEF Crash
  <2>5. CASE Run
    BY <2>5, RunRestart
  <2>6. CASE UNCHANGED vars
    BY <2>6 DEF vars, RestartInv, Rebuilt, StartFirst, BalanceKept, BallotKept
  <2> QED
    BY <2>1, <2>2, <2>3, <2>4, <2>5, <2>6 DEF Next
<1> QED
  BY <1>1, <1>2, DurableInductive, PTL DEF Spec

(* A process that ends between two handlers and is started again has the   *)
(* log and the prepared transactions it had, and, unless LevelDB had       *)
(* refused writes, the same balances and at least the same ballot.  The    *)
(* exception is a file in which a complete line continues a cut one.       *)
THEOREM RestartIsExactHolds == Spec => []RestartIsExact
<1>1. DurableInv /\ RestartInv => RestartIsExact
  <2> SUFFICES ASSUME DurableInv, RestartInv, Idle, Complete \subseteq Readable(wal)
               PROVE  /\ RecoveredLog(wal) = mem.log
                      /\ RecoveredIndex(wal) = mem.transferIndex
                      /\ ~mem.bg_error =>
                           /\ \A a \in Local : db.balance[a] = mem.balances[a]
                           /\ RecoveredBallot(wal, db.ballot) >= mem.ballot_num
    BY DEF RestartIsExact
  <2>1. up /\ Range(todo) = {}
    BY RangeEmpty DEF Idle
  <2>2. Whole(wal) = Complete
    BY DEF Whole, Complete
  <2>3. RecoveredLog(wal) = mem.log /\ RecoveredIndex(wal) = mem.transferIndex
    BY <2>1, <2>2 DEF RestartInv, Rebuilt
  <2>4. ~mem.bg_error => \A a \in Local : db.balance[a] = mem.balances[a]
    BY <2>1 DEF RestartInv, BalanceKept
  <2>5. ~mem.bg_error => db.ballot = mem.ballot_num
    BY <2>1 DEF RestartInv, BallotKept
  <2>6. wal \in Seq(Chunk) /\ db.ballot \in Nat
    BY DEF DurableInv, DurableTypeInv, Stored
  <2>7. RecoveredBallot(wal, db.ballot) >= db.ballot
    BY <2>6, RecoveredBallotBound
  <2> QED
    BY <2>3, <2>4, <2>5, <2>7
<1> QED
  BY <1>1, DurableInductive, RestartInductive, PTL

(***************************************************************************)
(* Balances on disk and the lines of the WAL.  The invariant speaks of the *)
(* middle of a handler, where a line is in the file and its balances are   *)
(* not: an account is owed the change that is still in todo.               *)
(***************************************************************************)

(* No transaction of account a was cut off, refused or applied again. *)
Explained(a) == \A t \in ghost.cut \cup ghost.again : ~Touches(t, a)

(* Write i of the list s is an updateBalance of account a. *)
UpdatesAccount(s, i, a) ==
  i \in DOMAIN s /\ s[i].do = "updateBalance" /\ s[i].account = a

(* The change of the balance of a among the first two writes of s. *)
Owed(s, a) ==
  IF UpdatesAccount(s, 1, a) THEN s[1].delta
  ELSE IF UpdatesAccount(s, 2, a) THEN s[2].delta
  ELSE 0

GhostOK == ghost \in [applied : SUBSET Tid, again : SUBSET Tid, cut : SUBSET Tid]

(* Nothing is written to the WAL before every account has its key. *)
KeysFirst ==
  /\ Local \subseteq DOMAIN db.balance \/ wal = <<>>
  /\ \A v \in Range(todo) : v.do = "putInitial" => wal = <<>>
  /\ up => \A a \in Local :
       \/ a \in DOMAIN db.balance
       \/ \E v \in Range(todo) : v.do = "putInitial" /\ v.account = a

(* The changes in the list s come first, are at most two, and are for      *)
(* different accounts, both of transaction t.                              *)
LeadBy(s, t) ==
  \A i \in DOMAIN s : s[i].do = "updateBalance" =>
    /\ i \in {1, 2} /\ Touches(t, s[i].account)
    /\ i = 2 => s[1].do = "updateBalance" /\ s[1].account # s[2].account

(* The pending changes are those of the last line of the log. *)
UpdatesLead ==
  /\ ~up => todo = <<>>
  /\ \A w \in Range(todo) : w.do = "updateBalance" => mem.log # <<>>
  /\ mem.log # <<>> => LeadBy(todo, Last(mem.log).tid)

(* A transaction applied in this life is committed by the file, and one    *)
(* that the file commits was applied or cut off.                           *)
CommitsApplied ==
  /\ mem.balance_applied \subseteq Done
  /\ Done \subseteq ghost.applied \cup ghost.cut

(* Only a cut line can carry another amount than its transaction, in the   *)
(* file and in the entries read back from it.                              *)
RightAmount(l) == l.tid \notin ghost.cut => l.amount = Txn[l.tid].amount

AmountsKept ==
  /\ \A i \in DOMAIN wal :
       /\ wal[i].part # "full" => wal[i].line.tid \in ghost.cut
       /\ RightAmount(wal[i].line)
  /\ \A w \in Range(todo) :
       w.do \in {"prepare", "commit", "insert", "close"} => RightAmount(w.line)

(* The balance on disk and what is owed make up what the file says. *)
BooksAgree ==
  \A a \in DOMAIN db.balance : Explained(a) =>
    /\ up => mem.balances[a] = db.balance[a]
    /\ db.balance[a] + Owed(todo, a) = Ledger(a)

DriftInv ==
  GhostOK /\ KeysFirst /\ UpdatesLead /\ CommitsApplied /\ AmountsKept /\ BooksAgree

(* A list without updateBalance owes nothing, and its changes lead it. *)
LEMMA NothingOwed ==
  ASSUME NEW s, \A w \in Range(s) : w.do # "updateBalance"
  PROVE  (\A a : Owed(s, a) = 0) /\ (\A t : LeadBy(s, t))
<1>1. \A i \in DOMAIN s : s[i].do # "updateBalance"
  BY DEF Range
<1> QED
  BY <1>1 DEF Owed, UpdatesAccount, LeadBy

(* When the first write is no updateBalance, none is pending. *)
LEMMA NoneBehind ==
  ASSUME UpdatesLead, todo \in Seq(WriteSet), todo = <<>> \/ Head(todo).do # "updateBalance"
  PROVE  \A w \in Range(todo) : w.do # "updateBalance"
<1> SUFFICES ASSUME NEW i \in DOMAIN todo, todo[i].do = "updateBalance" PROVE FALSE
  BY DEF Range
<1>1. todo[i] \in Range(todo)
  BY DEF Range
<1>2. LeadBy(todo, Last(mem.log).tid)
  BY <1>1 DEF UpdatesLead
<1>3. todo # <<>> /\ Head(todo) = todo[1]
  BY EmptySeq
<1>4. i \in {1, 2} /\ (i = 2 => todo[1].do = "updateBalance")
  BY <1>2 DEF LeadBy
<1> QED
  BY <1>3, <1>4

(* The transactions the file commits. *)
LEMMA DoneType ==
  ASSUME wal \in Seq(Chunk)
  PROVE  Done \in SUBSET Tid
<1>1. \A i \in DOMAIN wal : wal[i] \in Chunk
  BY ReadablePositions
<1> QED
  BY <1>1 DEF Done, Chunk, LineSet

(* One more chunk commits its transaction if its line does. *)
LEMMA DoneAppend ==
  ASSUME wal \in Seq(Chunk), NEW c \in Chunk, wal' = Append(wal, c)
  PROVE  /\ Done' = IF c.line.status = "COMMITTED" THEN Done \cup {c.line.tid} ELSE Done
         /\ \A i \in DOMAIN wal' : (i \in DOMAIN wal /\ wal'[i] = wal[i]) \/ wal'[i] = c
<1> DEFINE n == Len(wal)
<1>1. /\ DOMAIN wal' = 1..(n + 1) /\ DOMAIN wal = 1..n /\ n \in Nat
      /\ \A i \in DOMAIN wal : wal'[i] = wal[i]
      /\ wal'[n + 1] = c
  BY AppendKeepsPositions
<1> HIDE DEF n
<1>2. \A i \in DOMAIN wal' : (i \in DOMAIN wal /\ wal'[i] = wal[i]) \/ i = n + 1
  BY <1>1
<1>3. DOMAIN wal \subseteq DOMAIN wal' /\ n + 1 \in DOMAIN wal'
  BY <1>1
<1>4. Done' = {wal'[i].line.tid : i \in {j \in DOMAIN wal' : wal'[j].line.status = "COMMITTED"}}
  BY DEF Done
<1>5. ASSUME NEW t \in Done' PROVE t \in Done \/ (t = c.line.tid /\ c.line.status = "COMMITTED")
  <2>1. PICK i \in DOMAIN wal' : wal'[i].line.status = "COMMITTED" /\ wal'[i].line.tid = t
    BY <1>4
  <2> QED
    BY <1>1, <1>2, <2>1 DEF Done
<1>6. ASSUME NEW t \in Done PROVE t \in Done'
  <2>1. PICK i \in DOMAIN wal : wal[i].line.status = "COMMITTED" /\ wal[i].line.tid = t
    BY DEF Done
  <2>2. i \in DOMAIN wal' /\ wal'[i].line.status = "COMMITTED" /\ wal'[i].line.tid = t
    BY <1>1, <1>3, <2>1
  <2> QED
    BY <1>4, <2>2
<1>7. c.line.status = "COMMITTED" => c.line.tid \in Done'
  BY <1>1, <1>3, <1>4
<1>8. Done' = IF c.line.status = "COMMITTED" THEN Done \cup {c.line.tid} ELSE Done
  BY <1>5, <1>6, <1>7
<1> QED
  BY <1>1, <1>2, <1>8

(* What the file says of an account is a number. *)
LEMMA LedgerType ==
  ASSUME wal \in Seq(Chunk)
  PROVE  \A a : Ledger(a) \in Int
<1> SUFFICES ASSUME NEW a PROVE Ledger(a) \in Int
  OBVIOUS
<1>1. Debits(Done, a) \in Nat /\ Credits(Done, a) \in Nat
  BY DoneType, DebitsCreditsType
<1> QED
  BY <1>1, TypesAssumption DEF Ledger

(* A transaction committed for the first time moves its amount in the      *)
(* ledger, one committed again or of other accounts moves nothing.         *)
LEMMA LedgerAdds ==
  ASSUME wal \in Seq(Chunk), NEW t \in Tid, Done' = Done \cup {t}, NEW a
  PROVE  /\ t \in Done \/ ~Touches(t, a) => Ledger(a)' = Ledger(a)
         /\ t \notin Done /\ a = Txn[t].sender => Ledger(a)' = Ledger(a) - Txn[t].amount
         /\ t \notin Done /\ a = Txn[t].receiver => Ledger(a)' = Ledger(a) + Txn[t].amount
<1> DEFINE D == Done
           E == D \cup {t}
           dD == Debits(D, a)
           cD == Credits(D, a)
           d1 == Debits({t}, a)
           c1 == Credits({t}, a)
<1>1. D \in SUBSET Tid
  BY DoneType
<1>2. Ledger(a) = InitialBalance + cD - dD
  BY DEF Ledger
<1>3. Ledger(a)' = InitialBalance + Credits(E, a) - Debits(E, a)
  BY DEF Ledger
<1>4. CASE t \in Done
  <2>1. E = D
    BY <1>4
  <2> QED
    BY <1>2, <1>3, <1>4, <2>1
<1>5. CASE t \notin Done
  <2> HIDE DEF D
  <2>1. Debits(E, a) = dD + d1 /\ Credits(E, a) = cD + c1
    <3>1. D \cap {t} = {} /\ {t} \in SUBSET Tid
      BY <1>5 DEF D
    <3> QED
      BY <1>1, <3>1, MoneyAdds
  <2>2. /\ d1 = (IF Txn[t].sender = a THEN Txn[t].amount ELSE 0)
        /\ c1 = (IF Txn[t].receiver = a THEN Txn[t].amount ELSE 0)
    BY OneMoves
  <2>3. dD \in Nat /\ cD \in Nat
    BY <1>1, DebitsCreditsType
  <2>4. InitialBalance \in Int /\ Txn[t].amount \in Nat /\ Txn[t].sender # Txn[t].receiver
    BY TypesAssumption, DurableAssumption
  <2> HIDE DEF dD, cD, d1, c1, E
  <2>5. Ledger(a)' = InitialBalance + (cD + c1) - (dD + d1)
    BY <1>3, <2>1
  <2> DEFINE L == Ledger(a)
             M == Ledger(a)'
             x == Txn[t]
             n == x.amount
  <2>6. L = InitialBalance + cD - dD /\ M = InitialBalance + (cD + c1) - (dD + d1)
    BY <1>2, <2>5
  <2>a. InitialBalance \in Int /\ n \in Nat
    BY <2>4
  <2> HIDE DEF L, M, x, n
  <2>7. ~Touches(t, a) => M = L
    <3>1. ~Touches(t, a) => d1 = 0 /\ c1 = 0
      BY <2>2 DEF Touches
    <3> QED
      BY <2>3, <2>6, <2>a, <3>1
  <2>8. a = x.sender => M = L - n
    <3>1. a = x.sender => d1 = n /\ c1 = 0
      BY <2>2, <2>4 DEF x, n
    <3> QED
      BY <2>3, <2>6, <2>a, <3>1
  <2>9. a = x.receiver => M = L + n
    <3>1. a = x.receiver => d1 = 0 /\ c1 = n
      BY <2>2, <2>4 DEF x, n
    <3> QED
      BY <2>3, <2>6, <2>a, <3>1
  <2> QED
    BY <1>5, <2>7, <2>8, <2>9 DEF L, M, x, n
<1> QED
  BY <1>4, <1>5

(* The changes of line l before a list without any: they lead it, and owe  *)
(* the amount of l to both accounts if this server stores them.            *)
LEMMA ChangesOwed ==
  ASSUME NEW l \in LineSet, NEW r \in Seq(WriteSet),
         \A w \in Range(r) : w.do # "updateBalance",
         NEW s, s = Changes(l) \o r
  PROVE  /\ LeadBy(s, l.tid)
         /\ \A a \in Local :
              Owed(s, a) = IF a = Txn[l.tid].sender THEN -l.amount
                           ELSE IF a = Txn[l.tid].receiver THEN l.amount ELSE 0
<1> DEFINE x == Txn[l.tid]
           ca == Change(x.sender, -l.amount)
           cb == Change(x.receiver, l.amount)
<1>1. l.tid \in Tid /\ l.amount \in Nat
  BY DEF LineSet
<1>2. x.sender # x.receiver
  BY <1>1, DurableAssumption
<1>3. /\ ca.do = "updateBalance" /\ ca.account = x.sender /\ ca.delta = -l.amount
      /\ cb.do = "updateBalance" /\ cb.account = x.receiver /\ cb.delta = l.amount
  BY DEF Change
<1>4. s = ((IF x.sender \in Local THEN <<ca>> ELSE <<>>)
             \o (IF x.receiver \in Local THEN <<cb>> ELSE <<>>)) \o r
  BY DEF Changes
<1>5. \A i \in DOMAIN r : r[i].do # "updateBalance"
  BY DEF Range
<1>6. /\ x.sender \in Local => ca \in WriteSet
      /\ x.receiver \in Local => cb \in WriteSet
  BY <1>1, WriteTypes
<1>7. DOMAIN r = 1..Len(r) /\ Len(r) \in Nat
  BY LenProperties
<1> DEFINE out == -l.amount
<1> HIDE DEF x, ca, cb, out
<1> SUFFICES /\ LeadBy(s, l.tid)
             /\ \A a \in Local : Owed(s, a) = IF a = x.sender THEN out
                                   ELSE IF a = x.receiver THEN l.amount ELSE 0
  BY DEF x, out
<1>8. Touches(l.tid, x.sender) /\ Touches(l.tid, x.receiver)
  BY DEF Touches, x
<1>9. ca.delta = out
  BY <1>3 DEF out
<1>10. CASE x.sender \in Local /\ x.receiver \in Local
  <2> DEFINE p == <<ca, cb>>
  <2>1. s = p \o r
    BY <1>4, <1>10
  <2>2. p \in Seq(WriteSet) /\ Len(p) = 2 /\ p[1] = ca /\ p[2] = cb
    BY <1>6, <1>10
  <2> HIDE DEF p
  <2>3. /\ s \in Seq(WriteSet) /\ Len(s) = 2 + Len(r)
        /\ \A i \in 1..(2 + Len(r)) : s[i] = IF i <= 2 THEN p[i] ELSE r[i - 2]
    <3> DEFINE u == p \o r
    <3>1. /\ u \in Seq(WriteSet) /\ Len(u) = Len(p) + Len(r)
          /\ \A i \in 1..(Len(p) + Len(r)) : u[i] = IF i <= Len(p) THEN p[i] ELSE r[i - Len(p)]
      BY <2>2, ConcatProperties
    <3> HIDE DEF u
    <3>2. s = u
      BY <2>1 DEF u
    <3> QED
      BY <2>2, <3>1, <3>2
  <2>4. DOMAIN s = 1..(2 + Len(r))
    BY <2>3, LenProperties
  <2>5. 1 \in DOMAIN s /\ 2 \in DOMAIN s /\ s[1] = ca /\ s[2] = cb
    BY <1>7, <2>2, <2>3, <2>4
  <2>6. ASSUME NEW i \in DOMAIN s, i \notin {1, 2} PROVE s[i].do # "updateBalance"
    <3>1. i - 2 \in DOMAIN r /\ s[i] = r[i - 2]
      BY <1>7, <2>3, <2>4, <2>6
    <3> QED
      BY <1>5, <3>1
  <2>7. LeadBy(s, l.tid)
    BY <1>2, <1>3, <1>8, <2>5, <2>6 DEF LeadBy
  <2> QED
    BY <1>2, <1>3, <1>9, <2>5, <2>7 DEF Owed, UpdatesAccount
<1>11. ASSUME NEW c \in WriteSet, s = <<c>> \o r, c.do = "updateBalance",
              Touches(l.tid, c.account)
       PROVE  /\ LeadBy(s, l.tid)
              /\ \A a : Owed(s, a) = IF a = c.account THEN c.delta ELSE 0
  <2> DEFINE p == <<c>>
  <2>1. s = p \o r
    BY <1>11
  <2>2. p \in Seq(WriteSet) /\ Len(p) = 1 /\ p[1] = c
    BY <1>11
  <2> HIDE DEF p
  <2>3. /\ s \in Seq(WriteSet) /\ Len(s) = 1 + Len(r)
        /\ \A i \in 1..(1 + Len(r)) : s[i] = IF i <= 1 THEN p[i] ELSE r[i - 1]
    <3> DEFINE u == p \o r
    <3>1. /\ u \in Seq(WriteSet) /\ Len(u) = Len(p) + Len(r)
          /\ \A i \in 1..(Len(p) + Len(r)) : u[i] = IF i <= Len(p) THEN p[i] ELSE r[i - Len(p)]
      BY <2>2, ConcatProperties
    <3> HIDE DEF u
    <3>2. s = u
      BY <2>1 DEF u
    <3> QED
      BY <2>2, <3>1, <3>2
  <2>4. DOMAIN s = 1..(1 + Len(r))
    BY <2>3, LenProperties
  <2>5. 1 \in DOMAIN s /\ s[1] = c
    BY <1>7, <2>2, <2>3, <2>4
  <2>6. ASSUME NEW i \in DOMAIN s, i # 1 PROVE s[i].do # "updateBalance"
    <3>1. i - 1 \in DOMAIN r /\ s[i] = r[i - 1]
      BY <1>7, <2>3, <2>4, <2>6
    <3> QED
      BY <1>5, <3>1
  <2>7. LeadBy(s, l.tid)
    BY <1>11, <2>5, <2>6 DEF LeadBy
  <2>8. 2 \in DOMAIN s => s[2].do # "updateBalance"
    <3>1. 2 # 1
      OBVIOUS
    <3> QED
      BY <2>6, <3>1
  <2> QED
    BY <1>11, <2>5, <2>7, <2>8 DEF Owed, UpdatesAccount
<1>12. CASE x.sender \in Local /\ x.receiver \notin Local
  <2>1. s = <<ca>> \o r
    BY <1>4, <1>12
  <2>2. /\ LeadBy(s, l.tid)
        /\ \A a : Owed(s, a) = IF a = x.sender THEN out ELSE 0
    BY <1>3, <1>6, <1>8, <1>9, <1>11, <1>12, <2>1
  <2> QED
    BY <1>12, <2>2
<1>13. CASE x.sender \notin Local /\ x.receiver \in Local
  <2>1. s = <<cb>> \o r
    BY <1>4, <1>13
  <2>2. /\ LeadBy(s, l.tid)
        /\ \A a : Owed(s, a) = IF a = x.receiver THEN l.amount ELSE 0
    BY <1>3, <1>6, <1>8, <1>11, <1>13, <2>1
  <2> QED
    BY <1>13, <2>2
<1>14. CASE x.sender \notin Local /\ x.receiver \notin Local
  <2>1. s = r
    BY <1>4, <1>14
  <2>2. (\A a : Owed(s, a) = 0) /\ LeadBy(s, l.tid)
    BY <2>1, NothingOwed
  <2> QED
    BY <1>14, <2>2
<1> QED
  BY <1>10, <1>12, <1>13, <1>14

(* What holds of the amounts and of the ledger while the file and the      *)
(* ghost stay as they are.                                                 *)
LEMMA FileUntouched ==
  ASSUME wal' = wal, ghost' = ghost
  PROVE  /\ Done' = Done /\ \A a : Ledger(a)' = Ledger(a)
         /\ \A a : Explained(a)' <=> Explained(a)
         /\ \A l : RightAmount(l)' <=> RightAmount(l)
  BY DEF Done, Ledger, Explained, RightAmount

(* A handler that starts queues entries with the right amounts, and        *)
(* neither a first balance nor a change.                                   *)
LEMMA HandlerKeepsBooks ==
  ASSUME DriftInv, up, todo = <<>>, wal' = wal, db' = db, up' = up, ghost' = ghost,
         mem'.balances = mem.balances, mem'.balance_applied = mem.balance_applied,
         \A w \in Range(todo') : w.do \notin {"putInitial", "updateBalance"},
         \A w \in Range(todo') :
           w.do \in {"prepare", "commit", "insert", "close"} => RightAmount(w.line)
  PROVE  DriftInv'
<1>1. Range(todo) = {}
  BY RangeEmpty
<1>2. /\ Done' = Done /\ \A a : Ledger(a)' = Ledger(a)
      /\ \A a : Explained(a)' <=> Explained(a)
      /\ \A l : RightAmount(l)' <=> RightAmount(l)
  BY FileUntouched
<1>3. (\A a : Owed(todo', a) = 0) /\ (\A t : LeadBy(todo', t))
  BY NothingOwed
<1>4. \A a : Owed(todo, a) = 0
  BY <1>1, NothingOwed
<1>5. GhostOK'
  BY DEF DriftInv, GhostOK
<1>6. KeysFirst'
  BY <1>1 DEF DriftInv, KeysFirst
<1>7. UpdatesLead'
  BY <1>3 DEF UpdatesLead
<1>8. CommitsApplied'
  BY <1>2 DEF DriftInv, CommitsApplied
<1>9. AmountsKept'
  BY <1>2 DEF DriftInv, AmountsKept
<1>10. BooksAgree'
  BY <1>2, <1>3, <1>4 DEF DriftInv, BooksAgree
<1> QED
  BY <1>5, <1>6, <1>7, <1>8, <1>9, <1>10 DEF DriftInv

(* The handlers.  A decision reads a line back, with its amount unless the *)
(* line was cut there; a peer's entries are complete.                      *)
LEMMA HandlerDrift ==
  ASSUME DurableInv, DriftInv, Handler
  PROVE  DriftInv'
<1>0. mem \in Memory /\ wal \in Seq(Chunk)
  BY DEF DurableInv, DurableTypeInv
<1>1. ASSUME NEW n \in 1..MaxBallot, NewBallot(n) PROVE DriftInv'
  <2>1. todo' = <<PersistBallotNum>>
    BY <1>1 DEF NewBallot
  <2>2. Range(todo') = {PersistBallotNum}
    BY <2>1 DEF Range
  <2>3. PersistBallotNum.do = "persistBallotNum"
    BY DEF PersistBallotNum
  <2>4. mem'.balances = mem.balances /\ mem'.balance_applied = mem.balance_applied
    BY <1>0, <1>1 DEF NewBallot, Memory
  <2>5. up /\ todo = <<>> /\ wal' = wal /\ db' = db /\ up' = up /\ ghost' = ghost
    BY <1>1 DEF NewBallot, Idle
  <2> QED
    BY <2>2, <2>3, <2>4, <2>5, HandlerKeepsBooks
<1>2. ASSUME NEW ts \in Batches, NEW do \in {"prepare", "commit"}, NEW st \in Status, Idle,
             todo' = [i \in DOMAIN ts |->
               WriteLine(do, Line(ts[i], mem.promised_num, st, Txn[ts[i]].amount))],
             wal' = wal, db' = db, up' = up, mem' = mem, ghost' = ghost
      PROVE  DriftInv'
  <2>1. \A t : RightAmount(Line(t, mem.promised_num, st, Txn[t].amount))
    BY DEF RightAmount, Line
  <2>2. \A w \in Range(todo') : w.do = do /\ RightAmount(w.line)
    BY <1>2, <2>1 DEF Range, WriteLine
  <2>3. up /\ todo = <<>>
    BY <1>2 DEF Idle
  <2> QED
    BY <1>2, <2>2, <2>3, HandlerKeepsBooks
<1>3. ASSUME NEW ts \in Batches, PrepareBatch(ts) PROVE DriftInv'
  BY <1>2, <1>3 DEF PrepareBatch, Status
<1>4. ASSUME NEW ts \in Batches, CommitBatch(ts) PROVE DriftInv'
  BY <1>2, <1>4 DEF CommitBatch, Status
<1>5. ASSUME NEW t \in Tid, NEW st \in {"COMMITTED", "ABORTED"}, Decide(t, st)
      PROVE  DriftInv'
  <2> DEFINE c == wal[mem.transferIndex[t]]
             l == [Parsed(c) EXCEPT !.status = st]
  <2>1. todo' = <<WriteLine("close", l)>> /\ mem.transferIndex[t] # 0
    BY <1>5 DEF Decide
  <2>2. mem.transferIndex[t] \in DOMAIN wal
    BY <2>1 DEF DurableInv, IndexReadsPrepare
  <2>3. c \in Chunk /\ (c.part # "full" => c.line.tid \in ghost.cut) /\ RightAmount(c.line)
    BY <1>0, <2>2, ReadablePositions DEF DriftInv, AmountsKept
  <2> HIDE DEF c
  <2>4. RightAmount(l)
    <3>0. c.line \in LineSet
      BY <2>3 DEF Chunk
    <3>1. CASE c.part = "amount"
      BY <2>3, <3>0, <3>1 DEF Parsed, RightAmount, LineSet
    <3>2. CASE c.part # "amount"
      BY <2>3, <3>0, <3>2 DEF Parsed, RightAmount, LineSet
    <3> QED
      BY <3>1, <3>2
  <2> HIDE DEF l
  <2>5. \A w \in Range(todo') : w.do = "close" /\ w.line = l
    BY <2>1 DEF Range, WriteLine
  <2>6. /\ up /\ todo = <<>> /\ wal' = wal /\ db' = db /\ up' = up /\ mem' = mem
        /\ ghost' = ghost
    BY <1>5 DEF Decide, Idle
  <2> QED
    BY <2>4, <2>5, <2>6, HandlerKeepsBooks
<1>6. ASSUME NEW ls \in PeerLogs, NEW n \in 1..MaxBallot, SyncReply(ls, n)
      PROVE  DriftInv'
  <2> DEFINE ws == [i \in DOMAIN ls |-> WriteLine("insert", ls[i])]
  <2>1. ws \in Seq(WriteSet)
    BY SyncWrites
  <2>2. \A i \in DOMAIN ls : ls[i] \in PeerLine
    <3>1. PICK m \in 0..MaxSync : ls \in [1..m -> PeerLine]
      BY DEF PeerLogs, SeqOf
    <3> QED
      BY <3>1
  <2>3. \A l \in PeerLine : RightAmount(l)
    BY DEF PeerLine, RightAmount, Line
  <2>4. \A w \in Range(ws) : w.do = "insert" /\ RightAmount(w.line)
    BY <2>2, <2>3 DEF Range, WriteLine
  <2>5. todo' = Append(ws, PersistBallotNum)
    BY <1>6 DEF SyncReply
  <2> HIDE DEF ws
  <2>6. Range(todo') = Range(ws) \cup {PersistBallotNum}
    BY <2>1, <2>5, RangeAppend, WriteTypes
  <2>7. PersistBallotNum.do = "persistBallotNum"
    BY DEF PersistBallotNum
  <2>8. mem'.balances = mem.balances /\ mem'.balance_applied = mem.balance_applied
    BY <1>0, <1>6 DEF SyncReply, Memory
  <2>9. up /\ todo = <<>> /\ wal' = wal /\ db' = db /\ up' = up /\ ghost' = ghost
    BY <1>6 DEF SyncReply, Idle
  <2> QED
    BY <2>4, <2>6, <2>7, <2>8, <2>9, HandlerKeepsBooks
<1> QED
  BY <1>1, <1>3, <1>4, <1>5, <1>6 DEF Handler

(* A line of the WAL.  A commit that is new to the file and not to be      *)
(* applied twice owes its accounts what it adds to their ledgers; any      *)
(* other line leaves the ledgers of the explained accounts alone.          *)
LEMMA AppendEntryDrift ==
  ASSUME DurableInv, RestartInv, DriftInv, AppendEntry
  PROVE  DriftInv'
<1>0. /\ wal \in Seq(Chunk) /\ todo \in Seq(WriteSet) /\ mem \in Memory /\ db \in Stored
      /\ GhostOK
  BY DEF DurableInv, DurableTypeInv, DriftInv
<1>1. PICK l \in NextLine :
        LET first == l.status = "COMMITTED" /\ l.tid \notin mem.balance_applied IN
        /\ wal' = Append(wal, [line |-> l, part |-> "full"])
        /\ mem' = [mem EXCEPT
                     !.log = Append(@, l),
                     !.transferIndex = IndexAfter(l),
                     !.balance_applied = IF first THEN @ \cup {l.tid} ELSE @]
        /\ todo' = (IF first THEN Changes(l) ELSE <<>>) \o Tail(todo)
        /\ ghost' = [ghost EXCEPT
                       !.again = IF first /\ l.tid \in ghost.applied THEN @ \cup {l.tid} ELSE @,
                       !.applied = IF first THEN @ \cup {l.tid} ELSE @]
  BY DEF AppendEntry
<1>2. l \in LineSet /\ todo # <<>> /\ l.tid \in Tid /\ l.amount \in Nat
  BY <1>0, NextLineType DEF LineSet
<1> DEFINE first == l.status = "COMMITTED" /\ l.tid \notin mem.balance_applied
           c == [line |-> l, part |-> "full"]
<1>3. /\ mem'.log = Append(mem.log, l) /\ mem'.balances = mem.balances
      /\ mem'.balance_applied =
           IF first THEN mem.balance_applied \cup {l.tid} ELSE mem.balance_applied
  BY <1>0, <1>1 DEF Memory
<1>4. up /\ db' = db /\ up' = up
  BY DEF AppendEntry
<1>5. /\ Head(todo) \in Range(todo) /\ Tail(todo) \in Seq(WriteSet)
      /\ Range(todo) = {Head(todo)} \cup Range(Tail(todo))
  BY <1>0, <1>2, RangeTail
<1>6. Head(todo).do \in {"commit", "prepare", "insert", "close"} /\ l = Head(todo).line
  <2>1. PICK j \in {1} \cap DOMAIN todo :
          todo[j].do \in {"commit", "prepare", "insert", "close"} /\ l = todo[j].line
    BY <1>1 DEF NextLine
  <2>2. Head(todo) = todo[1]
    BY <1>0, <1>2
  <2> QED
    BY <2>1, <2>2
<1>7. \A w \in Range(todo) : w.do # "updateBalance"
  <2>1. Head(todo).do # "updateBalance"
    BY <1>6
  <2> QED
    BY <1>0, <2>1, NoneBehind DEF DriftInv
<1>8. \A w \in Range(todo) : w.do # "putInitial"
  <2>1. Head(todo).do \notin {"putInitial", "persistBallotNum"}
    BY <1>6
  <2> QED
    BY <1>5, <2>1 DEF RestartInv, StartFirst
<1>9. Local \subseteq DOMAIN db.balance
  BY <1>4, <1>8 DEF DriftInv, KeysFirst
<1>10. /\ c \in Chunk /\ wal' = Append(wal, c)
       /\ Done' = (IF l.status = "COMMITTED" THEN Done \cup {l.tid} ELSE Done)
       /\ \A i \in DOMAIN wal' : (i \in DOMAIN wal /\ wal'[i] = wal[i]) \/ wal'[i] = c
  <2>1. c \in Chunk /\ wal' = Append(wal, c)
    BY <1>1, <1>2 DEF Chunk, Part
  <2>2. c.line = l
    OBVIOUS
  <2> HIDE DEF c
  <2> QED
    BY <1>0, <2>1, <2>2, DoneAppend
<1>11. /\ ghost' \in [applied : SUBSET Tid, again : SUBSET Tid, cut : SUBSET Tid]
       /\ ghost'.cut = ghost.cut /\ ghost.again \subseteq ghost'.again
       /\ ghost.applied \subseteq ghost'.applied
       /\ first => l.tid \in ghost'.applied
       /\ first /\ l.tid \in ghost.applied => l.tid \in ghost'.again
  BY <1>0, <1>1, <1>2 DEF GhostOK
<1>12. /\ \A k : RightAmount(k)' <=> RightAmount(k)
       /\ \A a : Explained(a)' => Explained(a)
  BY <1>11 DEF RightAmount, Explained
<1>13. RightAmount(l)
  BY <1>5, <1>6 DEF DriftInv, AmountsKept
<1> DEFINE q == IF first THEN Changes(l) ELSE <<>>
<1>14. todo' = q \o Tail(todo)
  BY <1>1
<1>15. \A w \in Range(Tail(todo)) : w.do \notin {"updateBalance", "putInitial"}
  BY <1>5, <1>7, <1>8
<1>16. first => /\ LeadBy(todo', l.tid)
                /\ \A a \in Local :
                     Owed(todo', a) = IF a = Txn[l.tid].sender THEN -l.amount
                                      ELSE IF a = Txn[l.tid].receiver THEN l.amount ELSE 0
  BY <1>2, <1>5, <1>14, <1>15, ChangesOwed
<1>17. ~first => todo' = Tail(todo)
  BY <1>5, <1>14, ConcatEmptySeq
<1>18. ~first => (\A a : Owed(todo', a) = 0) /\ (\A t : LeadBy(todo', t))
  BY <1>15, <1>17, NothingOwed
<1>19. PICK p \in Seq(WriteSet) :
         todo' = p \o Tail(todo) /\ \A w \in Range(p) : w.do = "updateBalance"
  <2>1. Changes(l) \in Seq(WriteSet) /\ \A w \in Range(Changes(l)) : w.do = "updateBalance"
    BY <1>2, ChangesType, ChangesAreUpdates
  <2>2. <<>> \in Seq(WriteSet) /\ \A w \in Range(<<>>) : w.do = "updateBalance"
    BY EmptySeq, RangeEmpty
  <2>3. CASE first
    BY <1>14, <2>1, <2>3
  <2>4. CASE ~first
    BY <1>14, <2>2, <2>4
  <2> QED
    BY <2>3, <2>4
<1> HIDE DEF q
<1>20. Range(todo') = Range(p) \cup Range(Tail(todo))
  <2> DEFINE r == Tail(todo)
  <2>1. r \in Seq(WriteSet) /\ todo' = p \o r
    BY <1>5, <1>19
  <2> HIDE DEF r
  <2>2. Range(p \o r) = Range(p) \cup Range(r)
    BY ONLY <2>1, p \in Seq(WriteSet), RangeConcat
  <2> QED
    BY <2>1, <2>2 DEF r
<1>21. mem'.log # <<>> /\ Last(mem'.log) = l
  <2>1. mem.log \in Seq(LineSet)
    BY <1>0 DEF Memory
  <2>2. /\ Len(mem'.log) = Len(mem.log) + 1 /\ mem'.log[Len(mem.log) + 1] = l
        /\ Len(mem.log) \in Nat
    BY <1>2, <1>3, <2>1, AppendProperties, LenProperties
  <2>3. mem'.log # <<>>
    BY <2>2, EmptySeq
  <2> QED
    BY <2>2, <2>3 DEF Last
<1> HIDE DEF c
<1>22. GhostOK'
  BY <1>11 DEF GhostOK
<1>23. KeysFirst'
  <2>1. \A v \in Range(todo') : v.do # "putInitial"
    BY <1>15, <1>19, <1>20
  <2> QED
    BY <1>4, <1>9, <2>1 DEF KeysFirst
<1>24. UpdatesLead'
  <2>1. LeadBy(todo', l.tid)
    BY <1>16, <1>18
  <2> QED
    BY <1>4, <1>21, <2>1 DEF UpdatesLead
<1>25. CommitsApplied'
  <2>1. mem.balance_applied \subseteq Done /\ Done \subseteq ghost.applied \cup ghost.cut
    BY DEF DriftInv, CommitsApplied
  <2>2. mem'.balance_applied \subseteq Done'
    BY <1>3, <1>10, <2>1
  <2>3. Done' \subseteq ghost'.applied \cup ghost'.cut
    BY <1>10, <1>11, <2>1
  <2> QED
    BY <2>2, <2>3 DEF CommitsApplied
<1>26. AmountsKept'
  <2>1. c.line = l /\ c.part = "full"
    BY DEF c
  <2>2. \A i \in DOMAIN wal' :
          /\ wal'[i].part # "full" => wal'[i].line.tid \in ghost'.cut
          /\ wal'[i].line.tid \notin ghost'.cut =>
               wal'[i].line.amount = Txn[wal'[i].line.tid].amount
    BY <1>10, <1>11, <1>13, <2>1 DEF DriftInv, AmountsKept, RightAmount
  <2>3. \A w \in Range(todo') :
          w.do \in {"prepare", "commit", "insert", "close"} => RightAmount(w.line)'
    BY <1>5, <1>12, <1>19, <1>20 DEF DriftInv, AmountsKept
  <2> QED
    BY <2>2, <2>3 DEF AmountsKept, RightAmount
<1>27. BooksAgree'
  <2> SUFFICES ASSUME NEW a \in DOMAIN db.balance, Explained(a)'
               PROVE  /\ mem.balances[a] = db.balance[a]
                      /\ db.balance[a] + Owed(todo', a) = Ledger(a)'
    BY <1>3, <1>4 DEF BooksAgree
  <2>1. a \in Local /\ db.balance[a] \in Int
    BY <1>0 DEF Stored
  <2>2. mem.balances[a] = db.balance[a] /\ db.balance[a] + Owed(todo, a) = Ledger(a)
    BY <1>4, <1>12 DEF DriftInv, BooksAgree
  <2>3. Owed(todo, a) = 0
    BY <1>7, NothingOwed
  <2>4. db.balance[a] = Ledger(a)
    BY <2>1, <2>2, <2>3
  <2>5. CASE ~first
    <3>1. Done' = Done
      <4>1. l.status = "COMMITTED" => l.tid \in Done
        BY <2>5 DEF DriftInv, CommitsApplied
      <4> QED
        BY <1>10, <4>1
    <3>2. Ledger(a)' = Ledger(a)
      BY <3>1 DEF Ledger
    <3> QED
      BY <1>18, <2>1, <2>2, <2>4, <2>5, <3>2
  <2>6. CASE first
    <3> DEFINE x == Txn[l.tid]
    <3>1. Done' = Done \cup {l.tid}
      BY <1>10, <2>6
    <3>2. /\ ~Touches(l.tid, a) => Ledger(a)' = Ledger(a)
          /\ l.tid \notin Done /\ a = x.sender => Ledger(a)' = Ledger(a) - x.amount
          /\ l.tid \notin Done /\ a = x.receiver => Ledger(a)' = Ledger(a) + x.amount
      BY <1>0, <1>2, <3>1, LedgerAdds
    <3>3. Owed(todo', a) = IF a = x.sender THEN -l.amount
                           ELSE IF a = x.receiver THEN l.amount ELSE 0
      BY <1>16, <2>1, <2>6
    <3>4. x.sender # x.receiver
      BY <1>2, DurableAssumption
    <3>5. Touches(l.tid, a) <=> a = x.sender \/ a = x.receiver
      BY DEF Touches
    <3>6. Touches(l.tid, a) => l.tid \notin Done /\ l.amount = x.amount
      <4> SUFFICES ASSUME Touches(l.tid, a) PROVE l.tid \notin Done /\ l.amount = x.amount
        OBVIOUS
      <4>1. l.tid \notin ghost'.cut /\ l.tid \notin ghost'.again
        BY DEF Explained
      <4>2. l.tid \notin ghost.cut /\ l.tid \notin ghost.applied
        BY <1>11, <2>6, <4>1
      <4>3. l.tid \notin Done
        BY <4>2 DEF DriftInv, CommitsApplied
      <4> QED
        BY <1>13, <4>2, <4>3 DEF RightAmount
    <3> DEFINE L == Ledger(a)
               M == Ledger(a)'
               b == db.balance[a]
               o == Owed(todo', a)
               n == l.amount
    <3> HIDE DEF x, L, M, b, o, n
    <3>7. b \in Int /\ L = b /\ n \in Nat
      BY <1>2, <2>1, <2>4 DEF b, L, n
    <3>8. CASE ~Touches(l.tid, a)
      <4>1. M = L /\ o = 0
        BY <3>2, <3>3, <3>5, <3>8 DEF M, L, o
      <4>2. b + o = M
        BY <3>7, <4>1
      <4> QED
        BY <2>2, <4>2 DEF b, o, M
    <3>9. CASE a = x.sender
      <4>1. M = L - n /\ o = -n
        BY <3>2, <3>3, <3>5, <3>6, <3>9 DEF M, L, o, n
      <4>2. b + o = M
        BY <3>7, <4>1
      <4> QED
        BY <2>2, <4>2 DEF b, o, M
    <3>10. CASE a = x.receiver
      <4>1. M = L + n /\ o = n
        BY <3>2, <3>3, <3>4, <3>5, <3>6, <3>10 DEF M, L, o, n
      <4>2. b + o = M
        BY <3>7, <4>1
      <4> QED
        BY <2>2, <4>2 DEF b, o, M
    <3> QED
      BY <3>5, <3>8, <3>9, <3>10
  <2> QED
    BY <2>5, <2>6
<1> QED
  BY <1>22, <1>23, <1>24, <1>25, <1>26, <1>27 DEF DriftInv

(* A write done that changes no balance leaves the books as they are. *)
LEMMA OtherWriteDrift ==
  ASSUME DriftInv, todo \in Seq(WriteSet), todo # <<>>,
         Head(todo).do \notin {"updateBalance", "putInitial"}, todo' = Tail(todo),
         wal' = wal, up' = up, mem' = mem, ghost' = ghost, db'.balance = db.balance
  PROVE  DriftInv'
<1>1. /\ Head(todo) \in WriteSet /\ Range(todo) = {Head(todo)} \cup Range(todo')
  BY RangeTail
<1>2. \A w \in Range(todo) : w.do # "updateBalance"
  BY NoneBehind DEF DriftInv
<1>3. /\ Done' = Done /\ \A a : Ledger(a)' = Ledger(a)
      /\ \A a : Explained(a)' <=> Explained(a)
      /\ \A l : RightAmount(l)' <=> RightAmount(l)
  BY FileUntouched
<1>4. (\A a : Owed(todo', a) = 0) /\ (\A t : LeadBy(todo', t))
  BY <1>1, <1>2, NothingOwed
<1>5. \A a : Owed(todo, a) = 0
  BY <1>2, NothingOwed
<1>6. GhostOK'
  BY DEF DriftInv, GhostOK
<1>7. KeysFirst'
  BY <1>1 DEF DriftInv, KeysFirst
<1>8. UpdatesLead'
  BY <1>1, <1>2, <1>4 DEF DriftInv, UpdatesLead
<1>9. CommitsApplied'
  BY <1>3 DEF DriftInv, CommitsApplied
<1>10. AmountsKept'
  BY <1>1, <1>3 DEF DriftInv, AmountsKept
<1>11. BooksAgree'
  BY <1>3, <1>4, <1>5 DEF DriftInv, BooksAgree
<1> QED
  BY <1>6, <1>7, <1>8, <1>9, <1>10, <1>11 DEF DriftInv

(* The early return of commitTransaction. *)
LEMMA SkipCommitDrift ==
  ASSUME DurableInv, DriftInv, SkipCommit
  PROVE  DriftInv'
<1>1. /\ todo \in Seq(WriteSet) /\ todo # <<>> /\ Head(todo).do = "commit"
      /\ todo' = Tail(todo) /\ wal' = wal /\ db' = db /\ up' = up /\ mem' = mem
      /\ ghost' = ghost
  BY DEF SkipCommit, DurableInv, DurableTypeInv
<1> QED
  BY <1>1, OtherWriteDrift

(* persistBallotNum. *)
LEMMA WriteBallotDrift ==
  ASSUME DurableInv, DriftInv, WriteBallot
  PROVE  DriftInv'
<1>1. /\ todo \in Seq(WriteSet) /\ db \in Stored /\ todo # <<>>
      /\ Head(todo).do = "persistBallotNum" /\ db' = PutBallot(mem.ballot_num)
      /\ todo' = Tail(todo) /\ wal' = wal /\ up' = up /\ mem' = mem /\ ghost' = ghost
  BY DEF WriteBallot, DurableInv, DurableTypeInv
<1>2. db'.balance = db.balance
  BY <1>1 DEF PutBallot, Stored
<1> QED
  BY <1>1, <1>2, OtherWriteDrift

(* updateBalance pays what is owed; if LevelDB refuses it, the accounts of *)
(* the transaction are explained no longer.                                *)
LEMMA UpdateBalanceDrift ==
  ASSUME DurableInv, RestartInv, DriftInv, UpdateBalance
  PROVE  DriftInv'
<1> DEFINE a == Head(todo).account
           d == Head(todo).delta
           b == mem.balances[a] + d
           t == Last(mem.log).tid
<1>0. /\ db \in Stored /\ todo \in Seq(WriteSet) /\ mem \in Memory /\ wal \in Seq(Chunk)
      /\ GhostOK
  BY DEF DurableInv, DurableTypeInv, DriftInv
<1>1. /\ up /\ todo # <<>> /\ Head(todo).do = "updateBalance"
      /\ mem' = [mem EXCEPT !.balances[a] = b] /\ db' = Put(a, b)
      /\ ghost' = [ghost EXCEPT !.cut = IF mem.bg_error THEN @ \cup Unfinished ELSE @]
      /\ todo' = Tail(todo) /\ wal' = wal /\ up' = up
  BY DEF UpdateBalance
<1>2. /\ Head(todo) \in WriteSet /\ Head(todo) \in Range(todo)
      /\ Range(todo) = {Head(todo)} \cup Range(todo')
  BY <1>0, <1>1, RangeTail
<1>3. a \in Local /\ d \in Int /\ a \in Account
  BY <1>1, <1>2, WriteShape, LocalFinite
<1>4. mem.log # <<>> /\ LeadBy(todo, t)
  BY <1>1, <1>2 DEF DriftInv, UpdatesLead
<1>5. t \in Tid
  <2>1. mem.log \in Seq(LineSet) /\ Len(mem.log) \in 1..Len(mem.log)
    BY <1>0, <1>4, LenProperties, EmptySeq DEF Memory
  <2>2. mem.log[Len(mem.log)] \in LineSet
    BY <2>1, ElementOfSeq
  <2> QED
    BY <2>2 DEF Last, LineSet
<1>6. /\ DOMAIN todo = 1..Len(todo) /\ Len(todo) \in Nat /\ Len(todo) # 0
      /\ Head(todo) = todo[1] /\ DOMAIN todo' = 1..(Len(todo) - 1)
      /\ \A i \in 1..(Len(todo) - 1) : todo'[i] = todo[i + 1]
  BY <1>0, <1>1, HeadTailProperties, LenProperties, EmptySeq
<1>7. 1 \in DOMAIN todo /\ todo[1].do = "updateBalance" /\ todo[1].account = a /\ todo[1].delta = d
  BY <1>1, <1>6
<1>8. Touches(t, a)
  BY <1>4, <1>7 DEF LeadBy
<1>9. \A w \in Range(todo') : w.do = "updateBalance" => Touches(t, w.account)
  BY <1>2, <1>4 DEF LeadBy, Range
<1> HIDE DEF a, d, b, t
<1>10. /\ mem'.log = mem.log /\ mem'.balance_applied = mem.balance_applied
       /\ mem'.balances = [mem.balances EXCEPT ![a] = b]
       /\ mem.balances \in [Account -> Int]
  BY <1>0, <1>1 DEF Memory
<1>11. \A i \in DOMAIN todo' : todo'[i].do = "updateBalance" => i = 1 /\ todo'[i].account # a
  <2> SUFFICES ASSUME NEW i \in DOMAIN todo', todo'[i].do = "updateBalance"
               PROVE  i = 1 /\ todo'[i].account # a
    OBVIOUS
  <2>1. i + 1 \in DOMAIN todo /\ todo'[i] = todo[i + 1] /\ i \in Nat /\ i # 0
    BY <1>6
  <2>2. i + 1 \in {1, 2} /\ (i + 1 = 2 => todo[1].account # todo[2].account)
    BY <1>4, <2>1 DEF LeadBy
  <2>3. i = 1
    BY <2>1, <2>2
  <2> QED
    BY <1>7, <2>1, <2>2, <2>3
<1>12. LeadBy(todo', t)
  <2>1. \A i \in DOMAIN todo' : todo'[i] \in Range(todo')
    BY DEF Range
  <2>2. 1 # 2
    OBVIOUS
  <2> QED
    BY <1>9, <1>11, <2>1, <2>2 DEF LeadBy
<1>13. Owed(todo, a) = d /\ Owed(todo', a) = 0
  <2>1. Owed(todo, a) = d
    BY <1>7 DEF Owed, UpdatesAccount
  <2>2. Owed(todo', a) = 0
    BY <1>11 DEF Owed, UpdatesAccount
  <2> QED
    BY <2>1, <2>2
<1>14. \A k : k # a => Owed(todo', k) = Owed(todo, k)
  <2> SUFFICES ASSUME NEW k, k # a PROVE Owed(todo', k) = Owed(todo, k)
    OBVIOUS
  <2>1. ~UpdatesAccount(todo, 1, k)
    BY <1>7 DEF UpdatesAccount
  <2>2. ~UpdatesAccount(todo', 2, k)
    <3>1. 2 # 1
      OBVIOUS
    <3> QED
      BY <1>11, <3>1 DEF UpdatesAccount
  <2>3. (1 \in DOMAIN todo' <=> 2 \in DOMAIN todo) /\ (1 \in DOMAIN todo' => todo'[1] = todo[2])
    <3>1. 1 \in DOMAIN todo' <=> 2 \in DOMAIN todo
      BY <1>6
    <3>2. 1 \in 1..(Len(todo) - 1) => todo'[1] = todo[1 + 1]
      BY <1>6
    <3> QED
      BY <1>6, <3>1, <3>2
  <2>4. UpdatesAccount(todo', 1, k) <=> UpdatesAccount(todo, 2, k)
    BY <2>3 DEF UpdatesAccount
  <2>5. UpdatesAccount(todo, 2, k) => todo'[1] = todo[2]
    BY <2>3 DEF UpdatesAccount
  <2> QED
    BY <2>1, <2>2, <2>4, <2>5 DEF Owed
<1>15. Unfinished = {t}
  BY <1>1 DEF Unfinished, t
<1>16. /\ ghost' \in [applied : SUBSET Tid, again : SUBSET Tid, cut : SUBSET Tid]
       /\ ghost'.again = ghost.again /\ ghost'.applied = ghost.applied
       /\ ghost.cut \subseteq ghost'.cut
       /\ mem.bg_error => t \in ghost'.cut
  BY <1>0, <1>1, <1>5, <1>15 DEF GhostOK
<1>17. /\ Done' = Done /\ \A k : Ledger(k)' = Ledger(k)
       /\ \A k : Explained(k)' => Explained(k)
       /\ \A l : RightAmount(l) => RightAmount(l)'
  BY <1>1, <1>16 DEF Done, Ledger, Explained, RightAmount
<1>18. /\ ~mem.bg_error =>
            /\ DOMAIN db'.balance = DOMAIN db.balance \cup {a}
            /\ \A k \in DOMAIN db'.balance : db'.balance[k] = IF k = a THEN b ELSE db.balance[k]
       /\ mem.bg_error => db' = db
  BY <1>0, <1>1, PutResult DEF Put
<1>19. GhostOK'
  BY <1>16 DEF GhostOK
<1>20. KeysFirst'
  <2>1. DOMAIN db.balance \subseteq DOMAIN db'.balance
    BY <1>18
  <2>2. Head(todo).do # "putInitial"
    BY <1>1
  <2> QED
    BY <1>1, <1>2, <2>1, <2>2 DEF DriftInv, KeysFirst
<1>21. UpdatesLead'
  BY <1>1, <1>4, <1>10, <1>12 DEF UpdatesLead, t
<1>22. CommitsApplied'
  BY <1>10, <1>16, <1>17 DEF DriftInv, CommitsApplied
<1>23. AmountsKept'
  <2>1. \A i \in DOMAIN wal :
          /\ wal[i].part # "full" => wal[i].line.tid \in ghost'.cut
          /\ wal[i].line.tid \notin ghost'.cut =>
               wal[i].line.amount = Txn[wal[i].line.tid].amount
    BY <1>16 DEF DriftInv, AmountsKept, RightAmount
  <2>2. \A w \in Range(todo') :
          w.do \in {"prepare", "commit", "insert", "close"} => RightAmount(w.line)'
    BY <1>2, <1>17 DEF DriftInv, AmountsKept
  <2> QED
    BY <1>1, <2>1, <2>2 DEF AmountsKept, RightAmount
<1>24. a \in DOMAIN db.balance
  <2>1. Head(todo).do \notin {"putInitial", "persistBallotNum"}
    BY <1>1
  <2>2. \A v \in Range(todo) : v.do # "putInitial"
    BY <1>2, <2>1 DEF RestartInv, StartFirst
  <2> QED
    BY <1>1, <1>3, <2>2 DEF DriftInv, KeysFirst
<1>25. BooksAgree'
  <2> SUFFICES ASSUME NEW k \in DOMAIN db'.balance, Explained(k)'
               PROVE  /\ mem'.balances[k] = db'.balance[k]
                      /\ db'.balance[k] + Owed(todo', k) = Ledger(k)
    BY <1>17 DEF BooksAgree
  <2>1. k \in DOMAIN db.balance
    BY <1>18, <1>24
  <2>2. k \in Account /\ db.balance[k] \in Int
    BY <1>0, <2>1, LocalFinite DEF Stored
  <2>3. mem.balances[k] = db.balance[k] /\ db.balance[k] + Owed(todo, k) = Ledger(k)
    BY <1>1, <1>17, <2>1 DEF DriftInv, BooksAgree
  <2>4. CASE k # a
    <3>1. db'.balance[k] = db.balance[k] /\ mem'.balances[k] = mem.balances[k]
      BY <1>10, <1>18, <2>2, <2>4
    <3> QED
      BY <1>14, <2>3, <2>4, <3>1
  <2>5. CASE k = a
    <3>1. ~mem.bg_error
      BY <1>8, <1>16, <2>5 DEF Explained
    <3>2. db'.balance[k] = b /\ mem'.balances[k] = b
      BY <1>10, <1>18, <2>2, <2>5, <3>1
    <3>3. b = db.balance[k] + d
      BY <2>3, <2>5 DEF b
    <3>4. b \in Int /\ b = Ledger(k)
      BY <1>3, <1>13, <2>2, <2>3, <2>5, <3>3
    <3> QED
      BY <1>13, <2>5, <3>2, <3>4
  <2> QED
    BY <2>4, <2>5
<1> QED
  BY <1>19, <1>20, <1>21, <1>22, <1>23, <1>25 DEF DriftInv

(* A process that ends leaves an account explained only if nothing was     *)
(* owed to it.                                                             *)
LEMMA DownDrift ==
  ASSUME DriftInv, up' = FALSE, todo' = <<>>, mem' = NoMemory, db' = db, wal' = wal,
         ghost' \in [applied : SUBSET Tid, again : SUBSET Tid, cut : SUBSET Tid],
         ghost'.again = ghost.again, ghost'.applied = ghost.applied,
         ghost.cut \subseteq ghost'.cut,
         \A a : Explained(a)' => Owed(todo, a) = 0
  PROVE  DriftInv'
<1>1. Range(todo') = {}
  BY RangeEmpty
<1>2. \A a : Owed(todo', a) = 0
  BY <1>1, NothingOwed
<1>3. /\ Done' = Done /\ \A a : Ledger(a)' = Ledger(a)
      /\ \A a : Explained(a)' => Explained(a)
  BY DEF Done, Ledger, Explained
<1>4. mem'.balance_applied = {} /\ mem'.log = <<>>
  BY DEF NoMemory
<1>5. GhostOK'
  BY DEF GhostOK
<1>6. KeysFirst'
  BY <1>1 DEF DriftInv, KeysFirst
<1>7. UpdatesLead'
  BY <1>1, <1>4 DEF UpdatesLead
<1>8. CommitsApplied'
  BY <1>3, <1>4 DEF DriftInv, CommitsApplied
<1>9. AmountsKept'
  <2>1. \A i \in DOMAIN wal :
          /\ wal[i].part # "full" => wal[i].line.tid \in ghost'.cut
          /\ wal[i].line.tid \notin ghost'.cut =>
               wal[i].line.amount = Txn[wal[i].line.tid].amount
    BY DEF DriftInv, AmountsKept, RightAmount
  <2> QED
    BY <1>1, <2>1 DEF AmountsKept, RightAmount
<1>10. BooksAgree'
  BY <1>2, <1>3 DEF DriftInv, BooksAgree
<1> QED
  BY <1>5, <1>6, <1>7, <1>8, <1>9, <1>10 DEF DriftInv

(* The first balances: the file is empty, so they are what it says.  When  *)
(* one is refused the process ends.                                        *)
LEMMA WriteInitialDrift ==
  ASSUME DurableInv, RestartInv, DriftInv, WriteInitial
  PROVE  DriftInv'
<1> DEFINE a == Head(todo).account
<1>0. todo \in Seq(WriteSet) /\ db \in Stored /\ mem \in Memory /\ wal \in Seq(Chunk)
  BY DEF DurableInv, DurableTypeInv
<1>1. /\ up /\ todo # <<>> /\ Head(todo).do = "putInitial" /\ wal' = wal /\ ghost' = ghost
      /\ db' = Put(a, InitialBalance)
  BY DEF WriteInitial
<1>2. /\ Head(todo) \in WriteSet /\ Head(todo) \in Range(todo)
      /\ Range(todo) = {Head(todo)} \cup Range(Tail(todo))
  BY <1>0, <1>1, RangeTail
<1>3. /\ wal = <<>>
      /\ \A w \in Range(todo) : w.do \in {"putInitial", "persistBallotNum"}
      /\ mem.balances[a] = InitialBalance
  BY <1>1, <1>2 DEF DriftInv, KeysFirst, RestartInv, StartFirst
<1>4. \A k : Owed(todo, k) = 0
  BY <1>3, NothingOwed
<1>5. /\ Done' = Done /\ \A k : Ledger(k)' = Ledger(k)
      /\ \A k : Explained(k)' <=> Explained(k)
      /\ \A l : RightAmount(l)' <=> RightAmount(l)
  BY <1>1, FileUntouched
<1>6. \A k : Ledger(k) = InitialBalance
  <2>1. Done = {}
    BY <1>3 DEF Done
  <2> QED
    BY <2>1, NoneMoves, TypesAssumption DEF Ledger
<1>7. InitialBalance \in Int
  BY TypesAssumption
<1> HIDE DEF a
<1>8. GhostOK'
  BY <1>1 DEF DriftInv, GhostOK
<1>9. CASE ~mem.bg_error /\ todo' = Tail(todo) /\ up' = up /\ mem' = mem
  <2>1. /\ DOMAIN db'.balance = DOMAIN db.balance \cup {a}
        /\ \A k \in DOMAIN db'.balance :
             db'.balance[k] = IF k = a THEN InitialBalance ELSE db.balance[k]
    BY <1>0, <1>1, <1>9, PutResult
  <2>2. \A w \in Range(todo') : w \in Range(todo) /\ w.do # "updateBalance"
    BY <1>2, <1>3, <1>9
  <2>3. (\A k : Owed(todo', k) = 0) /\ (\A t : LeadBy(todo', t))
    BY <2>2, NothingOwed
  <2>4. KeysFirst'
    <3>1. ASSUME NEW k \in Local
          PROVE  \/ k \in DOMAIN db'.balance
                 \/ \E v \in Range(todo') : v.do = "putInitial" /\ v.account = k
      <4>1. \/ k \in DOMAIN db.balance
            \/ \E v \in Range(todo) : v.do = "putInitial" /\ v.account = k
        BY <1>1 DEF DriftInv, KeysFirst
      <4> QED
        BY <1>2, <1>9, <2>1, <4>1 DEF a
    <3> QED
      BY <1>1, <1>3, <3>1 DEF KeysFirst
  <2>5. UpdatesLead'
    BY <1>1, <1>9, <2>2, <2>3 DEF UpdatesLead
  <2>6. CommitsApplied'
    BY <1>1, <1>5, <1>9 DEF DriftInv, CommitsApplied
  <2>7. AmountsKept'
    BY <1>1, <1>5, <2>2 DEF DriftInv, AmountsKept
  <2>8. BooksAgree'
    <3> SUFFICES ASSUME NEW k \in DOMAIN db'.balance, Explained(k)
                 PROVE  /\ mem.balances[k] = db'.balance[k]
                        /\ db'.balance[k] + Owed(todo', k) = InitialBalance
      BY <1>5, <1>6, <1>9 DEF BooksAgree
    <3>1. CASE k = a
      BY <1>3, <1>7, <2>1, <2>3, <3>1
    <3>2. CASE k # a
      <4>1. k \in DOMAIN db.balance /\ db'.balance[k] = db.balance[k]
        BY <2>1, <3>2
      <4>2. mem.balances[k] = db.balance[k] /\ db.balance[k] + Owed(todo, k) = InitialBalance
        BY <1>1, <1>6, <4>1 DEF DriftInv, BooksAgree
      <4> QED
        BY <1>4, <2>3, <4>1, <4>2
    <3> QED
      BY <3>1, <3>2
  <2> QED
    BY <1>8, <2>4, <2>5, <2>6, <2>7, <2>8 DEF DriftInv
<1>10. CASE mem.bg_error /\ up' = FALSE /\ mem' = NoMemory /\ todo' = <<>>
  <2>1. db' = db
    BY <1>1, <1>10 DEF Put
  <2> QED
    BY <1>1, <1>4, <1>8, <1>10, <2>1, DownDrift DEF GhostOK
<1> QED
  BY <1>9, <1>10 DEF WriteInitial

(* A background error changes nothing that is on disk or owed. *)
LEMMA RecordBackgroundErrorDrift ==
  ASSUME DurableInv, DriftInv, RecordBackgroundError
  PROVE  DriftInv'
<1>1. /\ mem'.log = mem.log /\ mem'.balances = mem.balances
      /\ mem'.balance_applied = mem.balance_applied
  BY DEF RecordBackgroundError, DurableInv, DurableTypeInv, Memory
<1>2. wal' = wal /\ db' = db /\ up' = up /\ todo' = todo /\ ghost' = ghost
  BY DEF RecordBackgroundError
<1>3. /\ Done' = Done /\ \A a : Ledger(a)' = Ledger(a)
      /\ \A a : Explained(a)' <=> Explained(a)
      /\ \A l : RightAmount(l)' <=> RightAmount(l)
  BY <1>2, FileUntouched
<1>4. GhostOK' /\ KeysFirst' /\ UpdatesLead'
  BY <1>1, <1>2 DEF DriftInv, GhostOK, KeysFirst, UpdatesLead
<1>5. CommitsApplied' /\ AmountsKept' /\ BooksAgree'
  BY <1>1, <1>2, <1>3 DEF DriftInv, CommitsApplied, AmountsKept, BooksAgree
<1> QED
  BY <1>4, <1>5 DEF DriftInv

(* The process ends between two writes: what it owed is cut off. *)
LEMMA CrashDrift ==
  ASSUME DurableInv, DriftInv, up, wal' = wal,
         ghost' = [ghost EXCEPT !.cut = @ \cup Unfinished],
         up' = FALSE, mem' = NoMemory, todo' = <<>>, db' = db
  PROVE  DriftInv'
<1> DEFINE t == Last(mem.log).tid
<1>0. todo \in Seq(WriteSet) /\ mem \in Memory /\ GhostOK
  BY DEF DurableInv, DurableTypeInv, DriftInv
<1>1. CASE todo # <<>> /\ Head(todo).do = "updateBalance"
  <2>1. Head(todo) \in Range(todo)
    BY <1>0, <1>1, RangeTail
  <2>2. mem.log # <<>> /\ LeadBy(todo, t)
    BY <1>1, <2>1 DEF DriftInv, UpdatesLead
  <2>3. t \in Tid
    <3>1. mem.log \in Seq(LineSet) /\ Len(mem.log) \in 1..Len(mem.log)
      BY <1>0, <2>2, LenProperties, EmptySeq DEF Memory
    <3>2. mem.log[Len(mem.log)] \in LineSet
      BY <3>1, ElementOfSeq
    <3> QED
      BY <3>2 DEF Last, LineSet
  <2>4. Unfinished = {t}
    BY <1>1 DEF Unfinished
  <2> HIDE DEF t
  <2>5. /\ ghost' \in [applied : SUBSET Tid, again : SUBSET Tid, cut : SUBSET Tid]
        /\ ghost'.again = ghost.again /\ ghost'.applied = ghost.applied
        /\ ghost.cut \subseteq ghost'.cut /\ t \in ghost'.cut
    BY <1>0, <2>3, <2>4 DEF GhostOK
  <2>6. ASSUME NEW a, Explained(a)' PROVE Owed(todo, a) = 0
    <3>1. ~Touches(t, a)
      BY <2>5, <2>6 DEF Explained
    <3>2. \A i \in DOMAIN todo : ~UpdatesAccount(todo, i, a)
      BY <2>2, <3>1 DEF LeadBy, UpdatesAccount
    <3>3. ~UpdatesAccount(todo, 1, a) /\ ~UpdatesAccount(todo, 2, a)
      BY <3>2 DEF UpdatesAccount
    <3> QED
      BY <3>3 DEF Owed
  <2> QED
    BY <2>5, <2>6, DownDrift
<1>2. CASE todo = <<>> \/ Head(todo).do # "updateBalance"
  <2>1. \A a : Owed(todo, a) = 0
    BY <1>0, <1>2, NoneBehind, NothingOwed DEF DriftInv
  <2>2. Unfinished = {}
    BY <1>2 DEF Unfinished
  <2>3. /\ ghost' \in [applied : SUBSET Tid, again : SUBSET Tid, cut : SUBSET Tid]
        /\ ghost'.again = ghost.again /\ ghost'.applied = ghost.applied
        /\ ghost.cut \subseteq ghost'.cut
    BY <1>0, <2>2 DEF GhostOK
  <2> QED
    BY <2>1, <2>3, DownDrift
<1> QED
  BY <1>1, <1>2

(* The process ends within a line: nothing is owed then, and the accounts  *)
(* of the line are explained no longer.                                    *)
LEMMA TearDrift ==
  ASSUME DurableInv, RestartInv, DriftInv, up, NEW l \in NextLine, NEW p \in Cuts(l),
         wal' = Append(wal, [line |-> l, part |-> p]),
         ghost' = [ghost EXCEPT !.cut = @ \cup {l.tid}],
         up' = FALSE, mem' = NoMemory, todo' = <<>>, db' = db
  PROVE  DriftInv'
<1> DEFINE c == [line |-> l, part |-> p]
<1>0. /\ wal \in Seq(Chunk) /\ todo \in Seq(WriteSet) /\ db \in Stored /\ GhostOK
  BY DEF DurableInv, DurableTypeInv, DriftInv
<1>1. l \in LineSet /\ todo # <<>> /\ l.tid \in Tid
  BY <1>0, NextLineType DEF LineSet
<1>2. c \in Chunk /\ c.line = l /\ wal' = Append(wal, c)
  <2>1. p \in Part
    BY DEF Cuts, Part
  <2> QED
    BY <1>1, <2>1 DEF Chunk
<1>3. Head(todo).do \in {"commit", "prepare", "insert", "close"}
  <2>1. PICK j \in {1} \cap DOMAIN todo : todo[j].do \in {"commit", "prepare", "insert", "close"}
    BY DEF NextLine
  <2>2. Head(todo) = todo[1]
    BY <1>0, <1>1
  <2> QED
    BY <2>1, <2>2
<1>4. Local \subseteq DOMAIN db.balance
  <2>1. Head(todo) \in Range(todo) /\ Head(todo).do \notin {"putInitial", "persistBallotNum"}
    BY <1>0, <1>1, <1>3, RangeTail
  <2>2. \A v \in Range(todo) : v.do # "putInitial"
    BY <2>1 DEF RestartInv, StartFirst
  <2> QED
    BY <2>2 DEF DriftInv, KeysFirst
<1>5. \A a : Owed(todo, a) = 0
  <2>1. Head(todo).do # "updateBalance"
    BY <1>3
  <2>2. \A w \in Range(todo) : w.do # "updateBalance"
    BY <1>0, <2>1, NoneBehind DEF DriftInv
  <2> QED
    BY <2>2, NothingOwed
<1>6. Range(todo') = {} /\ \A a : Owed(todo', a) = 0
  BY RangeEmpty, NothingOwed
<1>7. /\ ghost' \in [applied : SUBSET Tid, again : SUBSET Tid, cut : SUBSET Tid]
      /\ ghost'.again = ghost.again /\ ghost'.applied = ghost.applied
      /\ ghost'.cut = ghost.cut \cup {l.tid}
  BY <1>0, <1>1 DEF GhostOK
<1> HIDE DEF c
<1>8. /\ Done' = IF l.status = "COMMITTED" THEN Done \cup {l.tid} ELSE Done
      /\ \A i \in DOMAIN wal' : (i \in DOMAIN wal /\ wal'[i] = wal[i]) \/ wal'[i] = c
  BY <1>0, <1>2, DoneAppend
<1>9. \A a : Explained(a)' => Explained(a) /\ ~Touches(l.tid, a)
  BY <1>7 DEF Explained
<1>10. ASSUME NEW a, ~Touches(l.tid, a) PROVE Ledger(a)' = Ledger(a)
  <2>1. CASE l.status = "COMMITTED"
    BY <1>0, <1>1, <1>8, <1>10, <2>1, LedgerAdds
  <2>2. CASE l.status # "COMMITTED"
    BY <1>8, <2>2 DEF Ledger
  <2> QED
    BY <2>1, <2>2
<1>11. mem'.balance_applied = {} /\ mem'.log = <<>>
  BY DEF NoMemory
<1>12. GhostOK'
  BY <1>7 DEF GhostOK
<1>13. KeysFirst'
  BY <1>4, <1>6 DEF KeysFirst
<1>14. UpdatesLead'
  BY <1>6, <1>11 DEF UpdatesLead
<1>15. CommitsApplied'
  BY <1>7, <1>8, <1>11 DEF DriftInv, CommitsApplied
<1>16. AmountsKept'
  <2>1. \A i \in DOMAIN wal' :
          /\ wal'[i].part # "full" => wal'[i].line.tid \in ghost'.cut
          /\ wal'[i].line.tid \notin ghost'.cut =>
               wal'[i].line.amount = Txn[wal'[i].line.tid].amount
    BY <1>2, <1>7, <1>8 DEF DriftInv, AmountsKept, RightAmount
  <2> QED
    BY <1>6, <2>1 DEF AmountsKept, RightAmount
<1>17. BooksAgree'
  BY <1>5, <1>6, <1>9, <1>10 DEF DriftInv, BooksAgree
<1> QED
  BY <1>12, <1>13, <1>14, <1>15, <1>16, <1>17 DEF DriftInv

(* run(): the balances are those on disk, and a first balance is missing   *)
(* only while the file is empty.                                           *)
LEMMA RunDrift ==
  ASSUME DurableInv, DriftInv, Run
  PROVE  DriftInv'
<1> DEFINE missing == Local \ DOMAIN db.balance
<1>0. db \in Stored /\ todo = <<>>
  BY DEF DurableInv, DurableTypeInv, DriftInv, UpdatesLead, Run
<1>1. /\ up' = TRUE /\ wal' = wal /\ db' = db /\ ghost' = ghost
      /\ mem'.balance_applied = {}
  BY DEF Run
<1>2. \A a \in DOMAIN db.balance : mem'.balances[a] = db.balance[a]
  <2>1. DOMAIN db.balance \subseteq Local /\ Local \subseteq Account
    BY <1>0, LocalFinite DEF Stored
  <2> QED
    BY <2>1 DEF Run
<1>3. /\ \A v \in Range(todo') :
               v.do = "persistBallotNum" \/ (v.do = "putInitial" /\ v.account \in missing)
      /\ \A a \in missing : \E v \in Range(todo') : v.do = "putInitial" /\ v.account = a
  BY RunPending
<1>4. missing # {} => wal = <<>>
  BY DEF DriftInv, KeysFirst
<1>5. (\A a : Owed(todo', a) = 0) /\ (\A t : LeadBy(todo', t))
  BY <1>3, NothingOwed
<1>6. \A a : Owed(todo, a) = 0
  BY <1>0, RangeEmpty, NothingOwed
<1>7. /\ Done' = Done /\ \A a : Ledger(a)' = Ledger(a)
      /\ \A a : Explained(a)' <=> Explained(a)
      /\ \A l : RightAmount(l)' <=> RightAmount(l)
  BY <1>1, FileUntouched
<1>8. GhostOK'
  BY <1>1 DEF DriftInv, GhostOK
<1>9. KeysFirst'
  BY <1>1, <1>3, <1>4 DEF DriftInv, KeysFirst
<1>10. UpdatesLead'
  BY <1>1, <1>3, <1>5 DEF UpdatesLead
<1>11. CommitsApplied'
  BY <1>1, <1>7 DEF DriftInv, CommitsApplied
<1>12. AmountsKept'
  BY <1>1, <1>3, <1>7 DEF DriftInv, AmountsKept
<1>13. BooksAgree'
  BY <1>1, <1>2, <1>5, <1>6, <1>7 DEF DriftInv, BooksAgree
<1> QED
  BY <1>8, <1>9, <1>10, <1>11, <1>12, <1>13 DEF DriftInv

(* DriftInv is inductive, given the types and RestartInv. *)
LEMMA DriftInductive == Spec => []DriftInv
<1>1. Init => DriftInv
  <2> SUFFICES ASSUME Init PROVE DriftInv
    OBVIOUS
  <2>1. /\ Range(todo) = {} /\ up = FALSE /\ todo = <<>> /\ wal = <<>> /\ DOMAIN wal = {}
        /\ mem.log = <<>> /\ mem.balance_applied = {} /\ DOMAIN db.balance = {}
    BY RangeEmpty DEF Init, NoMemory
  <2>2. Done = {}
    BY <2>1 DEF Done
  <2>3. GhostOK
    BY DEF Init, GhostOK
  <2> QED
    BY <2>1, <2>2, <2>3
    DEF DriftInv, KeysFirst, UpdatesLead, CommitsApplied, AmountsKept, BooksAgree
<1>2. DurableInv /\ RestartInv /\ DriftInv /\ [Next]_vars => DriftInv'
  <2> SUFFICES ASSUME DurableInv, RestartInv, DriftInv, [Next]_vars PROVE DriftInv'
    OBVIOUS
  <2>1. CASE Handler
    BY <2>1, HandlerDrift
  <2>2. CASE Write
    BY <2>2, AppendEntryDrift, SkipCommitDrift, UpdateBalanceDrift, WriteBallotDrift,
       WriteInitialDrift DEF Write
  <2>3. CASE RecordBackgroundError
    BY <2>3, RecordBackgroundErrorDrift
  <2>4. CASE Crash
    BY <2>4, CrashDrift, TearDrift DEF Crash
  <2>5. CASE Run
    BY <2>5, RunDrift
  <2>6. CASE UNCHANGED vars
    <3>1. /\ wal' = wal /\ db' = db /\ up' = up /\ mem' = mem /\ todo' = todo
          /\ ghost' = ghost
      BY <2>6 DEF vars
    <3> QED
      BY <3>1 DEF DriftInv, GhostOK, KeysFirst, UpdatesLead, CommitsApplied, AmountsKept,
                  BooksAgree, Done, Ledger, Explained, RightAmount
  <2> QED
    BY <2>1, <2>2, <2>3, <2>4, <2>5, <2>6 DEF Next
<1> QED
  BY <1>1, <1>2, DurableInductive, RestartInductive, PTL DEF Spec

(* Between two handlers the balance of an account on disk is the initial   *)
(* one plus the transactions that the WAL commits, each counted once,      *)
(* unless the process ended, or LevelDB refused a write, in the middle of  *)
(* a transaction of that account, or a later life of the process applied   *)
(* one again: there is no third way for LevelDB and the WAL to drift apart.*)
THEOREM DriftIsExplainedHolds == Spec => []DriftIsExplained
<1>1. DurableInv /\ DriftInv => DriftIsExplained
  <2> SUFFICES ASSUME DurableInv, DriftInv, Idle, NEW a \in Local,
                      \A t \in ghost.cut \cup ghost.again : ~Touches(t, a)
               PROVE  db.balance[a] = Ledger(a)
    BY DEF DriftIsExplained
  <2>1. up /\ Range(todo) = {}
    BY RangeEmpty DEF Idle
  <2>2. a \in DOMAIN db.balance
    BY <2>1 DEF DriftInv, KeysFirst
  <2>3. Owed(todo, a) = 0
    BY <2>1, NothingOwed
  <2>4. db.balance[a] \in Int
    BY <2>2 DEF DurableInv, DurableTypeInv, Stored
  <2>5. db.balance[a] + Owed(todo, a) = Ledger(a)
    BY <2>2 DEF DriftInv, BooksAgree, Explained
  <2> QED
    BY <2>3, <2>4, <2>5
<1> QED
  BY <1>1, DurableInductive, DriftInductive, PTL
=============================================================================
