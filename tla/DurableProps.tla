---------------------------- MODULE DurableProps ----------------------------
(***************************************************************************)
(* What survives the end of the server process, and what does not.         *)
(***************************************************************************)
EXTENDS Durable

(* Memory, file and pending writes keep their types. *)
DurableTypeOK ==
  /\ wal \in Seq(Chunk)
  /\ DOMAIN db.balance \subseteq Local
  /\ \A a \in DOMAIN db.balance : db.balance[a] \in Int
  /\ db.ballot \in Nat
  /\ up \in BOOLEAN
  /\ mem \in Memory

(* getTransactionFromFile seeks to the position kept in transferIndex,     *)
(* whether the running process wrote the line there (perhaps behind a cut  *)
(* one), a sync inserted it or recovery found it: the line at that         *)
(* position is a prepare of that transaction.                              *)
IndexReadsPrepare ==
  \A t \in Tid : mem.transferIndex[t] # 0 =>
    /\ mem.transferIndex[t] \in DOMAIN wal
    /\ wal[mem.transferIndex[t]].line.tid = t
    /\ wal[mem.transferIndex[t]].line.status = "PREPARED"

Complete == {i \in DOMAIN wal : wal[i].part = "full"}

(* A line that was cut costs at most one complete line besides itself: all *)
(* other complete lines are entries again after a restart, in their order. *)
LossPerTear ==
  Cardinality(Complete \ Readable(wal)) <= Cardinality(DOMAIN wal \ Complete)

(* What the event loop takes for granted between two handlers: a process   *)
(* that ended now would come back with the same log, the same prepared     *)
(* transactions, the same balances and at least the ballot it had.  The    *)
(* exceptions: a line behind a cut one, and what LevelDB refused to write  *)
(* after a background error.                                               *)
RestartIsExact ==
  Idle /\ Complete \subseteq Readable(wal) =>
    /\ RecoveredLog(wal) = mem.log
    /\ RecoveredIndex(wal) = mem.transferIndex
    /\ ~mem.bg_error =>
         /\ \A a \in Local : db.balance[a] = mem.balances[a]
         /\ RecoveredBallot(wal, db.ballot) >= mem.ballot_num

Done == {wal[i].line.tid : i \in {j \in DOMAIN wal : wal[j].line.status = "COMMITTED"}}

Ledger(a) == InitialBalance + Credits(Done, a) - Debits(Done, a)

Touches(t, a) == a \in {Txn[t].sender, Txn[t].receiver}

(* A balance on disk is the initial one plus the transactions the WAL      *)
(* commits, each once, unless the process once ended in the middle of      *)
(* writing a transaction of that account or LevelDB refused that write, or *)
(* the transaction was applied again in a later life (balance_applied      *)
(* starts empty).                                                          *)
DriftIsExplained ==
  Idle => \A a \in Local :
    (\A t \in ghost.cut \cup ghost.again : ~Touches(t, a)) => db.balance[a] = Ledger(a)

-----------------------------------------------------------------------------
(* src/README.md:174: "Balances are intentionally not re-applied from WAL  *)
(* -- LevelDB already has the durable committed state": after a restart    *)
(* the balances on disk include every commit the WAL holds.                *)
LevelDBHasCommitted ==
  Idle /\ ghost.again = {} => \A a \in Local : db.balance[a] = Ledger(a)
=============================================================================
