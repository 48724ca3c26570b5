------------------------------ MODULE Durable ------------------------------
(***************************************************************************)
(* What one server keeps on disk, write by write: the lines of its WAL     *)
(* file (src/src/server/wal.cc) and the keys of its LevelDB instance, with *)
(* the order in which the handlers of src/src/server/server.cc write them. *)
(*                                                                         *)
(* Server.tla takes a handler as one step.  Here a handler is a list todo  *)
(* of the writes it makes, and the process may end between any two of      *)
(* them, or in the middle of a WAL line: main installs its signal handlers *)
(* only after the event loop has returned, so the SIGTERM of               *)
(* killAllServers ends a server wherever it is.                            *)
(*                                                                         *)
(* LevelDB may run into a background error (LevelDB.tla); it then refuses  *)
(* every write until it is opened again, and the server only logs that.    *)
(*                                                                         *)
(* An appended line is a chunk of the file.  A line that was cut has no    *)
(* newline, and the next chunk continues it; only chunks at the start of a *)
(* line are seen by recovery.                                              *)
(***************************************************************************)
EXTENDS Types, SequencesExt

CONSTANTS
  Me,          \* the server
  MaxChunks,   \* bound on the WAL lines written
  MaxBallot,   \* bound on the ballot numbers explored
  MaxSync,     \* bound on the entries of a sync reply
  Crashes,     \* bound on the ends of the process explored
  Errors,      \* bound on the background errors of LevelDB explored
  Tears        \* bound on the WAL lines cut by them

VARIABLES
  wal,     \* the chunks of the WAL file
  db,      \* LevelDB: [balance : a function on the accounts that have a key, ballot]
  up,      \* the process runs
  mem,     \* the memory of the process
  todo,    \* the writes the running handler has left, in order
  budget,  \* [crash, error, tear]: the faults that may still happen
  ghost    \* what the properties remember of earlier lives of the process

vars == <<wal, db, up, mem, todo, budget, ghost>>

Local == {a \in Account : IsClientInCluster(Me, a)}

(* A transfer to the sender's own account, which nothing in the code       *)
(* rejects, is left out: updateBalance would put that one account twice,   *)
(* in the end with the balance it had.                                     *)
ASSUME DurableAssumption ==
  /\ Me \in Server
  /\ \A t \in Tid : Txn[t].sender # Txn[t].receiver
  /\ {MaxChunks, MaxBallot, MaxSync, Crashes, Errors, Tears} \subseteq Nat

-----------------------------------------------------------------------------
(***************************************************************************)
(* The WAL file.                                                           *)
(***************************************************************************)

(* A line: operation and transaction, ballot number and amount. *)
Line(t, n, st, amount) == [tid |-> t, ballot |-> n, status |-> st, amount |-> amount]

LineSet == [tid : Tid, ballot : Nat, status : Status, amount : Nat]

(* How much of a line is in the file: all of it; all but the newline; a    *)
(* part that ends inside the amount, between two fields, or inside the     *)
(* name of the operation.                                                  *)
Part == {"full", "no_newline", "amount", "fields", "op"}

Chunk == [line : LineSet, part : Part]

(* The parts of line l that reading it back can tell apart: an amount of   *)
(* one digit cannot be cut.                                                *)
Cuts(l) == {"no_newline", "fields", "op"} \cup (IF l.amount >= 10 THEN {"amount"} ELSE {})

(* What operator>> makes of a chunk: a cut amount loses its last digit. *)
Parsed(c) == IF c.part = "amount" THEN [c.line EXCEPT !.amount = @ \div 10] ELSE c.line

(* The chunks that begin a line. *)
LineStarts(f) == {i \in DOMAIN f : i = 1 \/ f[i - 1].part = "full"}

(* Mutant of Readable: the first malformed line ends the replay. *)
ReadableBefore(f) ==
  {i \in LineStarts(f) :
     \A j \in LineStarts(f) : j <= i => f[j].part \notin {"fields", "op"}}

(* The lines of f that recover parses into an entry.  What follows a       *)
(* complete entry on its line is ignored by operator>>; a line cut between *)
(* fields fails to parse, and one whose operation runs into the next line  *)
(* has no operation recover knows.                                         *)
Readable(f) == {i \in LineStarts(f) : f[i].part \notin {"fields", "op"}}

(* A line cut inside its operation still parses once later chunks complete *)
(* its fields: its ballot is then that of the first chunk with fields.     *)
MergedBallots(f) ==
  {f[j].line.ballot : j \in
     {k \in DOMAIN f : \E i \in LineStarts(f) :
        /\ i < k /\ f[k].part \notin {"op", "fields"}
        /\ \A m \in i..(k - 1) : f[m].part = "op"}}

-----------------------------------------------------------------------------
(***************************************************************************)
(* WAL::recover.                                                           *)
(***************************************************************************)

RecoveredLog(f) ==
  LET I == Readable(f) IN [k \in 1..Cardinality(I) |-> Parsed(f[Nth(I, k)])]

RecoveredBallot(f, n) ==
  Max({n} \cup {f[i].line.ballot : i \in Readable(f)} \cup MergedBallots(f))

(* Mutant of RecoveredIndex: the position is taken after getline. *)
IndexAfterLine(f) ==
  [t \in Tid |->
     LET at == {i \in Readable(f) : f[i].line.tid = t}
     IN  IF at # {} /\ f[Max(at)].line.status = "PREPARED" THEN Max(at) + 1 ELSE 0]

(* transferIndex: the position of the CS_PREPARE line of every transaction *)
(* whose last readable line is one.                                        *)
RecoveredIndex(f) ==
  [t \in Tid |->
     LET at == {i \in Readable(f) : f[i].line.tid = t}
     IN  IF at # {} /\ f[Max(at)].line.status = "PREPARED" THEN Max(at) ELSE 0]

-----------------------------------------------------------------------------
(***************************************************************************)
(* Memory and pending writes.                                              *)
(***************************************************************************)

Memory ==
  [balances : [Account -> Int], balance_applied : SUBSET Tid,
   ballot_num : Nat, promised_num : Nat, log : Seq(LineSet), transferIndex : [Tid -> Nat],
   bg_error : BOOLEAN]

NoMemory ==
  [balances |-> [a \in Account |-> 0], balance_applied |-> {},
   ballot_num |-> 0, promised_num |-> 0, log |-> <<>>, transferIndex |-> [t \in Tid |-> 0],
   bg_error |-> FALSE]

(* db->Put of the balance of account a, and of the ballot. *)
Put(a, b) ==
  IF mem.bg_error THEN db
  ELSE [db EXCEPT !.balance = [k \in DOMAIN @ \cup {a} |-> IF k = a THEN b ELSE @[k]]]

PutBallot(n) == IF mem.bg_error THEN db ELSE [db EXCEPT !.ballot = n]

(* The writes of a handler: an entry through one of the WAL's functions,   *)
(* the balance of an account changed by delta, a first balance, the ballot.*)
WriteLine(do, l)  == [do |-> do, line |-> l]
Change(a, delta)  == [do |-> "updateBalance", account |-> a, delta |-> delta]
PutInitial(a)     == [do |-> "putInitial", account |-> a]
PersistBallotNum  == [do |-> "persistBallotNum"]

(* Mutant of Changes: the test of isClientInCluster is dropped. *)
ChangesBoth(l) ==
  <<Change(Txn[l.tid].sender, -l.amount), Change(Txn[l.tid].receiver, l.amount)>>

(* The updateBalance calls for line l on the accounts this server stores. *)
Changes(l) ==
  LET x == Txn[l.tid] IN
  (IF x.sender \in Local THEN <<Change(x.sender, -l.amount)>> ELSE <<>>)
    \o (IF x.receiver \in Local THEN <<Change(x.receiver, l.amount)>> ELSE <<>>)

Idle == up /\ todo = <<>>

(* The entry that the handler is about to append, or none: a commit that   *)
(* was applied before writes nothing.                                      *)
NextLine ==
  {todo[i].line : i \in {j \in {1} \cap DOMAIN todo :
     /\ todo[j].do \in {"commit", "prepare", "insert", "close"}
     /\ todo[j].do = "commit" => todo[j].line.tid \notin mem.balance_applied}}

-----------------------------------------------------------------------------
(***************************************************************************)
(* Handlers: each starts when the server is idle and queues its writes.    *)
(***************************************************************************)

Room(k) == Len(wal) + k <= MaxChunks

(* processPrepareCall, reissuePrepareForCurrent: a higher ballot. *)
NewBallot(n) ==
  /\ Idle
  /\ n \in (mem.ballot_num + 1)..MaxBallot
  /\ mem' = [mem EXCEPT !.ballot_num = n, !.promised_num = n]
  /\ todo' = <<PersistBallotNum>>
  /\ UNCHANGED <<wal, db, up, budget, ghost>>

(* onPrepareQuorum, processAcceptCall: prepareTransaction for the          *)
(* cross-shard entries ts of the batch.                                    *)
PrepareBatch(ts) ==
  /\ Idle /\ Room(Len(ts)) /\ mem.promised_num # 0
  /\ \A t \in Range(ts) : IsCrossShard(t)
  /\ todo' = [i \in DOMAIN ts |->
       WriteLine("prepare", Line(ts[i], mem.promised_num, "PREPARED", Txn[ts[i]].amount))]
  /\ UNCHANGED <<wal, db, up, mem, budget, ghost>>

(* onAcceptQuorum, processCommitCall: commitTransaction for the            *)
(* intra-shard entries ts of the batch.                                    *)
CommitBatch(ts) ==
  /\ Idle /\ Room(Len(ts)) /\ mem.promised_num # 0
  /\ \A t \in Range(ts) : ~IsCrossShard(t)
  /\ todo' = [i \in DOMAIN ts |->
       WriteLine("commit", Line(ts[i], mem.promised_num, "COMMITTED", Txn[ts[i]].amount))]
  /\ UNCHANGED <<wal, db, up, mem, budget, ghost>>

(* processTpcDecision and the lock-timeout sweep: the WAL reads the        *)
(* prepared entry back from the file and closes it.                        *)
Decide(t, st) ==
  LET read == Parsed(wal[mem.transferIndex[t]]) IN
  /\ Idle /\ Room(1)
  /\ mem.transferIndex[t] # 0
  /\ st \in {"COMMITTED", "ABORTED"}
  /\ todo' = <<WriteLine("close", [read EXCEPT !.status = st])>>
  /\ UNCHANGED <<wal, db, up, mem, budget, ghost>>

(* handleSyncReply: the entries ls of a peer's log, then its last ballot,  *)
(* which persistBallotNum writes after them.                               *)
SyncReply(ls, n) ==
  /\ Idle /\ Room(Len(ls))
  /\ mem' = [mem EXCEPT !.ballot_num = n]
  /\ todo' = Append([i \in DOMAIN ls |-> WriteLine("insert", ls[i])], PersistBallotNum)
  /\ UNCHANGED <<wal, db, up, budget, ghost>>

-----------------------------------------------------------------------------
(***************************************************************************)
(* The writes.                                                             *)
(***************************************************************************)

(* Mutant of IndexAfter: insertEntry forgets to erase a closed entry. *)
IndexAfterKeeps(l) ==
  IF l.status = "PREPARED"
  THEN [mem.transferIndex EXCEPT ![l.tid] = Len(wal) + 1]
  ELSE mem.transferIndex

(* transferIndex after line l: tellp before a prepare, erased otherwise. *)
IndexAfter(l) ==
  [mem.transferIndex EXCEPT ![l.tid] = IF l.status = "PREPARED" THEN Len(wal) + 1 ELSE 0]

(* WAL::commitTransaction, prepareTransaction, insertEntry and the closing *)
(* ones: append the line, push it to log, apply it once if it commits.     *)
(* balance_applied is a set in memory.                                     *)
AppendEntry ==
  /\ up
  /\ \E l \in NextLine :
       LET first == l.status = "COMMITTED" /\ l.tid \notin mem.balance_applied IN
       /\ wal' = Append(wal, [line |-> l, part |-> "full"])
       /\ mem' = [mem EXCEPT
                    !.log = Append(@, l),
                    !.transferIndex = IndexAfter(l),
                    !.balance_applied = IF first THEN @ \cup {l.tid} ELSE @]
       /\ todo' = (IF first THEN Changes(l) ELSE <<>>) \o Tail(todo)
       /\ ghost' = [ghost EXCEPT
                      !.again = IF first /\ l.tid \in ghost.applied THEN @ \cup {l.tid} ELSE @,
                      !.applied = IF first THEN @ \cup {l.tid} ELSE @]
  /\ UNCHANGED <<db, up, budget>>

(* commitTransaction returns early for a tid in balance_applied. *)
SkipCommit ==
  /\ up /\ todo # <<>> /\ Head(todo).do = "commit" /\ NextLine = {}
  /\ todo' = Tail(todo)
  /\ UNCHANGED <<wal, db, up, mem, budget, ghost>>

(* The transaction whose line is written and whose balances are not. *)
Unfinished ==
  IF todo # <<>> /\ Head(todo).do = "updateBalance" THEN {Last(mem.log).tid} ELSE {}

(* Mutant of UpdateBalance: the change is not written through to LevelDB   *)
(* when the balance falls to zero or below.                                *)
UpdatePositive ==
  /\ up /\ todo # <<>> /\ Head(todo).do = "updateBalance"
  /\ LET a == Head(todo).account
         b == mem.balances[a] + Head(todo).delta
     IN  /\ mem' = [mem EXCEPT !.balances[a] = b]
         /\ db' = IF b > 0 THEN Put(a, b) ELSE db
  /\ ghost' = [ghost EXCEPT !.cut = IF mem.bg_error THEN @ \cup Unfinished ELSE @]
  /\ todo' = Tail(todo)
  /\ UNCHANGED <<wal, up, budget>>

(* updateBalance writes the balance in memory to its key; a refused write  *)
(* is only logged.                                                         *)
UpdateBalance ==
  /\ up /\ todo # <<>> /\ Head(todo).do = "updateBalance"
  /\ LET a == Head(todo).account
         b == mem.balances[a] + Head(todo).delta
     IN  /\ mem' = [mem EXCEPT !.balances[a] = b]
         /\ db' = Put(a, b)
  /\ ghost' = [ghost EXCEPT !.cut = IF mem.bg_error THEN @ \cup Unfinished ELSE @]
  /\ todo' = Tail(todo)
  /\ UNCHANGED <<wal, up, budget>>

WriteBallot ==
  /\ up /\ todo # <<>> /\ Head(todo).do = "persistBallotNum"
  /\ db' = PutBallot(mem.ballot_num)
  /\ todo' = Tail(todo)
  /\ UNCHANGED <<wal, up, mem, budget, ghost>>

(* run() gives up, and the process ends, when a first balance is refused. *)
WriteInitial ==
  /\ up /\ todo # <<>> /\ Head(todo).do = "putInitial"
  /\ db' = Put(Head(todo).account, InitialBalance)
  /\ \/ ~mem.bg_error /\ todo' = Tail(todo) /\ UNCHANGED <<up, mem>>
     \/ mem.bg_error /\ up' = FALSE /\ mem' = NoMemory /\ todo' = <<>>
  /\ UNCHANGED <<wal, budget, ghost>>

-----------------------------------------------------------------------------
(***************************************************************************)
(* The end of the process and its next start.                              *)
(***************************************************************************)

(* LevelDB's background thread, or a Put, records an error. *)
RecordBackgroundError ==
  /\ up /\ ~mem.bg_error /\ budget.error > 0
  /\ budget' = [budget EXCEPT !.error = @ - 1]
  /\ mem' = [mem EXCEPT !.bg_error = TRUE]
  /\ UNCHANGED <<wal, db, up, todo, ghost>>

Crash ==
  /\ up /\ budget.crash > 0
  /\ \/ /\ wal' = wal
        /\ budget' = [budget EXCEPT !.crash = @ - 1]
        /\ ghost' = [ghost EXCEPT !.cut = @ \cup Unfinished]
     \/ /\ budget.tear > 0
        /\ \E l \in NextLine : \E p \in Cuts(l) :
             /\ wal' = Append(wal, [line |-> l, part |-> p])
             /\ ghost' = [ghost EXCEPT !.cut = @ \cup {l.tid}]
        /\ budget' = [budget EXCEPT !.crash = @ - 1, !.tear = @ - 1]
  /\ up' = FALSE
  /\ mem' = NoMemory
  /\ todo' = <<>>
  /\ UNCHANGED db

(* run(): the ballot and the balances from LevelDB, with 10 units put for  *)
(* every account that has no key, then the WAL, then the ballot is put.    *)
Run ==
  LET missing == Local \ DOMAIN db.balance IN
  /\ ~up
  /\ up' = TRUE
  /\ mem' = [balances |-> [a \in Account |->
                CASE a \notin Local -> 0
                  [] a \in missing  -> InitialBalance
                  [] OTHER          -> db.balance[a]],
             balance_applied |-> {},
             ballot_num |-> RecoveredBallot(wal, db.ballot),
             promised_num |-> 0,
             log |-> RecoveredLog(wal),
             transferIndex |-> RecoveredIndex(wal),
             bg_error |-> FALSE]
  /\ todo' = Append([i \in 1..Cardinality(missing) |-> PutInitial(SetToSeq(missing)[i])],
                    PersistBallotNum)
  /\ UNCHANGED <<wal, db, budget, ghost>>

-----------------------------------------------------------------------------
Init ==
  /\ wal = <<>>
  /\ db = [balance |-> [a \in {} |-> 0], ballot |-> 0]
  /\ up = FALSE
  /\ mem = NoMemory
  /\ todo = <<>>
  /\ budget = [crash |-> Crashes, error |-> Errors, tear |-> Tears]
  /\ ghost = [applied |-> {}, again |-> {}, cut |-> {}]

(* The batches of one or two different transactions. *)
Batches == {ts \in SeqOf(Tid, 2) : ts # <<>> /\ IsInjective(ts)}

(* What a peer's log may hold: complete entries of any ballot. *)
PeerLine ==
  {Line(t, n, st, Txn[t].amount) : t \in Tid, n \in 1..MaxBallot, st \in Status}

PeerLogs ==
  {ls \in SeqOf({l \in PeerLine : IsCrossShard(l.tid) \/ l.status = "COMMITTED"}, MaxSync) :
     ls # <<>>}

Handler ==
  \/ \E n \in 1..MaxBallot : NewBallot(n)
  \/ \E ts \in Batches : PrepareBatch(ts) \/ CommitBatch(ts)
  \/ \E t \in Tid, st \in {"COMMITTED", "ABORTED"} : Decide(t, st)
  \/ \E ls \in PeerLogs, n \in 1..MaxBallot : SyncReply(ls, n)

Write == AppendEntry \/ SkipCommit \/ UpdateBalance \/ WriteBallot \/ WriteInitial

Next == Handler \/ Write \/ RecordBackgroundError \/ Crash \/ Run

Spec == Init /\ [][Next]_vars
=============================================================================
