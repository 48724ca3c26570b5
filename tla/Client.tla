------------------------------- MODULE Client -------------------------------
(***************************************************************************)
(* The client process: the driver's command loop and CSV reader            *)
(* (src/src/driver.cc, src/src/utils/csv_reader.cc), the thread that       *)
(* submits transactions and the thread that consumes replies               *)
(* (src/src/client/client.cc).  The client coordinates two-phase commit.   *)
(*                                                                         *)
(* The threads share processing, under state_mtx, and gRPC's completion    *)
(* queue.  A step is what a thread does under one lock or in one call.     *)
(* Servers and gRPC are external: a server answers a call as it likes, and *)
(* a call completes, with the answer or with an error, in any order.       *)
(* Latencies and counters for the reports are left out.                    *)
(***************************************************************************)
EXTENDS Types, SequencesExt

CONSTANTS
  Rows,        \* the lines of the CSV file
  MaxFailures  \* bound on calls that fail while the servers run

VARIABLES
  pc,          \* the driver's thread: where it is
  todo,        \* the calls processTransactions has left to make
  csv,         \* CSVReader: [pos, currentSetNo, next]
  processing,  \* the table of 2PC votes
  calls,       \* the ClientCalls on the completion queue
  offline,     \* servers that were told to act disconnected
  failures,    \* calls that may still fail
  votes,       \* history: the answers the servers gave
  outcome,     \* history: the decisions taken
  submitted    \* history: the rows handed to processTransactions

vars == <<pc, todo, csv, processing, calls, offline, failures, votes, outcome, submitted>>

(* A row: set number (0 where the column is empty), transaction, and on    *)
(* the first row of a set the connected servers and the leaders.           *)
Row == [set_no : Nat, tid : Tid, servers : SUBSET Server, leaders : SUBSET Server]

ASSUME ClientAssumption ==
  /\ Rows \in Seq(Row)
  /\ Rows # <<>> => Rows[1].set_no = 1
  /\ MaxFailures \in Nat

(* What the reader takes for granted: a row is a transaction of its own    *)
(* (its tid is the clock, in nanoseconds), the first row of a set names a  *)
(* leader of every cluster, and the sets are numbered 1, 2, 3, ... in the  *)
(* order of the file.                                                      *)
ASSUME FileAssumption ==
  /\ \A i, j \in DOMAIN Rows : Rows[i].tid = Rows[j].tid => i = j
  /\ \A i \in DOMAIN Rows : Rows[i].set_no # 0 =>
       /\ \A a \in Account : \E s \in Rows[i].leaders : ServerCluster[s] = AccountCluster[a]
       /\ {Rows[j].set_no : j \in 1..(i - 1)} \ {0} = 1..(Rows[i].set_no - 1)

(* prompt: waits for a command; sending: inside processTransactions;       *)
(* killed: killAllServers is done; joining: the queue is shut down;        *)
(* exited: the reply thread was joined; aborted: gRPC ended the process.   *)
MainState == {"prompt", "sending", "killed", "joining", "exited", "aborted"}

(* Bound on PROCESS_NEXT_SET commands: every set, and one more. *)
MaxSets == Max({0} \cup {Rows[i].set_no : i \in DOMAIN Rows}) + 1

-----------------------------------------------------------------------------
(***************************************************************************)
(* CSVReader::readNextSet.                                                 *)
(***************************************************************************)

(* The rows that belong to set n when the reader is at row p: up to the    *)
(* first row of set n + 1.  A row with any other number joins set n.       *)
NextSetRow(p, n) ==
  LET at == {i \in p..Len(Rows) : Rows[i].set_no = n + 1}
  IN  IF at = {} THEN Len(Rows) + 1 ELSE Min(at)

(* The reader after set n, when row p was the last one it read. *)
ReadUpTo(p, n) ==
  [pos |-> Min({p, Len(Rows)}) + 1, currentSetNo |-> n,
   next |-> IF p \in DOMAIN Rows THEN <<Rows[p]>> ELSE <<>>]

(* Mutant of ReadNextSet: the row that was read ahead joins both sets. *)
ReadOneTooMany(c) ==
  LET n == c.currentSetNo + 1
      p == NextSetRow(c.pos, n)
  IN  [rows |-> c.next \o SubSeq(Rows, c.pos, Min({p, Len(Rows)})),
       csv  |-> ReadUpTo(p, n)]

(* The next set, and the reader after it: the first row of the set after   *)
(* it has been read and waits in nextTransactionSet.  A line that          *)
(* parseCSVLine cannot read throws into the command loop (driver.cc:74)    *)
(* with currentSetNo advanced: the rows here are well formed, so it never  *)
(* happens.                                                                *)
ReadNextSet(c) ==
  LET n == c.currentSetNo + 1
      p == NextSetRow(c.pos, n)
  IN  [rows |-> c.next \o SubSeq(Rows, c.pos, p - 1),
       csv  |-> ReadUpTo(p, n)]

(* The row that names the set's servers and leaders: the last one with a   *)
(* matching number.                                                        *)
HeaderRow(rows, n) ==
  rows[Max({i \in DOMAIN rows : rows[i].set_no = n})]

-----------------------------------------------------------------------------
(***************************************************************************)
(* The submitting thread.                                                  *)
(***************************************************************************)

LeaderOf(leaders, k) == CHOOSE s \in leaders : ServerCluster[s] = k

ClusterOf(t, end) == AccountCluster[Txn[t][end]]

(* The steps of processTransactions for transaction t. *)
Register(t)     == [do |-> "register", tid |-> t]
Send(type, t, s) == [do |-> "send", type |-> type, tid |-> t, to |-> s]

(* Mutant of Steps: the prepares are sent before the transaction is in     *)
(* processing.                                                             *)
StepsUnregistered(t, leaders) ==
  IF ~IsCrossShard(t)
  THEN <<Send("TRANSFER", t, LeaderOf(leaders, ClusterOf(t, "sender")))>>
  ELSE <<Send("TPC_PREPARE", t, LeaderOf(leaders, ClusterOf(t, "sender"))),
         Send("TPC_PREPARE", t, LeaderOf(leaders, ClusterOf(t, "receiver"))),
         Register(t)>>

Steps(t, leaders) ==
  IF ~IsCrossShard(t)
  THEN <<Send("TRANSFER", t, LeaderOf(leaders, ClusterOf(t, "sender")))>>
  ELSE <<Register(t),
         Send("TPC_PREPARE", t, LeaderOf(leaders, ClusterOf(t, "sender"))),
         Send("TPC_PREPARE", t, LeaderOf(leaders, ClusterOf(t, "receiver")))>>

NewCall(type, t, s) == [type |-> type, tid |-> t, to |-> s, status |-> "sent"]

(* The command PROCESS_NEXT_SET: read a set, tell every server who is      *)
(* disconnected, and submit the set.  updateDisconnected ignores the       *)
(* status of its calls: the servers in missed keep their old state.        *)
ProcessNextSet(missed) ==
  LET read == ReadNextSet(csv)
      head == HeaderRow(read.rows, read.csv.currentSetNo)
  IN
  /\ pc = "prompt" /\ csv.currentSetNo < MaxSets
  /\ csv' = read.csv
  /\ IF read.rows = <<>>
     THEN missed = {} /\ UNCHANGED <<pc, todo, offline, failures, submitted>>
     ELSE /\ Cardinality(missed) <= failures
          /\ failures' = failures - Cardinality(missed)
          /\ offline' = ((Server \ head.servers) \ missed) \cup (offline \cap missed)
          /\ todo' = FlattenSeq([i \in DOMAIN read.rows |->
                       Steps(read.rows[i].tid, head.leaders)])
          /\ submitted' = submitted \o [i \in DOMAIN read.rows |->
                            [tid |-> read.rows[i].tid, leaders |-> head.leaders]]
          /\ pc' = "sending"
  /\ UNCHANGED <<processing, calls, votes, outcome>>

(* processing[tid] = {..., 0, 0, ...} under state_mtx. *)
RegisterStep ==
  /\ pc = "sending" /\ todo # <<>> /\ Head(todo).do = "register"
  /\ processing' = [t \in DOMAIN processing \cup {Head(todo).tid} |->
       IF t = Head(todo).tid THEN [successes |-> 0, failures |-> 0] ELSE processing[t]]
  /\ todo' = Tail(todo)
  /\ UNCHANGED <<pc, csv, calls, offline, failures, votes, outcome, submitted>>

(* sendTransfer, tpcPrepare. *)
SendStep ==
  /\ pc = "sending" /\ todo # <<>> /\ Head(todo).do = "send"
  /\ calls' = calls \cup {NewCall(Head(todo).type, Head(todo).tid, Head(todo).to)}
  /\ todo' = Tail(todo)
  /\ UNCHANGED <<pc, csv, processing, offline, failures, votes, outcome, submitted>>

SubmittedAll ==
  /\ pc = "sending" /\ todo = <<>>
  /\ pc' = "prompt"
  /\ UNCHANGED <<todo, csv, processing, calls, offline, failures, votes, outcome, submitted>>

(* The command EXIT or the end of the input: killAllServers ends and waits *)
(* for every server, then main shuts the queue down and joins the thread.  *)
(* A kill or waitpid that fails throws (utils.cc:74-93) and the loop goes  *)
(* on with the next command: no step of this model.                        *)
Exit ==
  /\ pc = "prompt"
  /\ pc' = "killed"
  /\ UNCHANGED <<todo, csv, processing, calls, offline, failures, votes, outcome, submitted>>

(* Mutant of Shutdown: the queue is not shut down. *)
ShutdownForgotten ==
  /\ pc = "killed"
  /\ UNCHANGED vars

Shutdown ==
  /\ pc = "killed"
  /\ pc' = "joining"
  /\ UNCHANGED <<todo, csv, processing, calls, offline, failures, votes, outcome, submitted>>

(* cq.Next returns false once the queue is shut down and drained. *)
Join ==
  /\ pc = "joining" /\ calls = {}
  /\ pc' = "exited"
  /\ UNCHANGED <<todo, csv, processing, calls, offline, failures, votes, outcome, submitted>>

-----------------------------------------------------------------------------
(***************************************************************************)
(* Servers and gRPC.                                                       *)
(***************************************************************************)

Running == pc \in {"prompt", "sending"}

(* The set that transaction t is a row of. *)
SetOf(t) == Max({Rows[j].set_no : j \in {k \in DOMAIN Rows :
                   \E i \in DOMAIN Rows : Rows[i].tid = t /\ k <= i}})

(* The server of call c refuses it: it was told to act disconnected before *)
(* the client sent c.  A call of an earlier set may have been parked by    *)
(* then, and enqueueClientTxn tests i_am_disconnected only on arrival.     *)
Refused(c) ==
  /\ c.to \in offline
  /\ \A i \in DOMAIN submitted : SetOf(submitted[i].tid) <= SetOf(c.tid)

(* The server of call c answers, as it likes unless it must refuse. *)
ServerAnswers(c, status) ==
  /\ c \in calls /\ c.status = "sent" /\ Running
  /\ IF c.type \in {"TRANSFER", "TPC_PREPARE"}
     THEN /\ status \in (IF Refused(c) THEN {"nack"} ELSE {"ack", "nack"})
          /\ votes' = [votes EXCEPT ![c.tid][ServerCluster[c.to]] = status]
     ELSE status = "done" /\ UNCHANGED votes
  /\ calls' = (calls \ {c}) \cup {[c EXCEPT !.status = status]}
  /\ UNCHANGED <<pc, todo, csv, processing, offline, failures, outcome, submitted>>

(* The call fails: its server cannot be reached, or is gone. *)
CallFails(c) ==
  /\ c \in calls /\ c.status = "sent" /\ pc # "aborted"
  /\ IF Running THEN failures > 0 /\ failures' = failures - 1 ELSE UNCHANGED failures
  /\ calls' = (calls \ {c}) \cup {[c EXCEPT !.status = "error"]}
  /\ UNCHANGED <<pc, todo, csv, processing, offline, votes, outcome, submitted>>

-----------------------------------------------------------------------------
(***************************************************************************)
(* consumeReplies.                                                         *)
(***************************************************************************)

Drop(t) == [u \in DOMAIN processing \ {t} |-> processing[u]]

(* tpcCommit, tpcAbort: a call to every server of both clusters. *)
DecisionCalls(t, type) ==
  {NewCall(type, t, s) : s \in {q \in Server : ServerCluster[q] \in Participants(t)}}

(* Mutant of Tally: the first refusal is enough to abort. *)
TallyFirst(t, p) ==
  CASE p.successes = 2 -> "commit"
    [] p.failures > 0  -> "abort"
    [] OTHER           -> "none"

(* Mutant of Tally: nothing is aborted. *)
TallyCommits(t, p) == IF p.successes = 2 THEN "commit" ELSE "none"

(* What the counters p of a transaction decide. *)
Tally(t, p) ==
  CASE p.successes = 2                                  -> "commit"
    [] p.failures > 0 /\ p.successes + p.failures = 2   -> "abort"
    [] OTHER                                            -> "none"

(* A vote arrives.  operator[] makes an entry where there is none.  The    *)
(* second vote decides, and the entry is erased; on a queue that is shut   *)
(* down gRPC refuses the new calls and ends the process.                   *)
CountVote(c) ==
  LET t   == c.tid
      old == IF t \in DOMAIN processing THEN processing[t]
                                        ELSE [successes |-> 0, failures |-> 0]
      new == IF c.status = "ack" THEN [old EXCEPT !.successes = @ + 1]
                                 ELSE [old EXCEPT !.failures = @ + 1]
      d   == Tally(t, new)
  IN
  \/ /\ d = "none"
     /\ processing' = [u \in DOMAIN processing \cup {t} |->
                         IF u = t THEN new ELSE processing[u]]
     /\ calls' = calls \ {c}
     /\ UNCHANGED <<pc, outcome>>
  \/ /\ d # "none" /\ pc # "joining"
     /\ calls' = (calls \ {c}) \cup
          DecisionCalls(t, IF d = "commit" THEN "TPC_COMMIT" ELSE "TPC_ABORT")
     /\ outcome' = [outcome EXCEPT ![t] = d]
     /\ processing' = Drop(t)
     /\ UNCHANGED pc
  \/ /\ d # "none" /\ pc = "joining"
     /\ pc' = "aborted"
     /\ calls' = calls \ {c}
     /\ UNCHANGED <<outcome, processing>>

(* One event of the queue.  ok is false only for events drained after      *)
(* Shutdown; those are discarded, as are failed prepares, whose reply has  *)
(* tid 0, and everything but prepares.                                     *)
ConsumeReply(c, ok) ==
  /\ c \in calls /\ c.status # "sent"
  /\ pc \notin {"exited", "aborted"}
  /\ ~ok => pc = "joining"
  /\ \/ /\ ok /\ c.type = "TPC_PREPARE" /\ c.status # "error"
        /\ CountVote(c)
     \/ /\ ~ok \/ c.type # "TPC_PREPARE" \/ c.status = "error"
        /\ calls' = calls \ {c}
        /\ UNCHANGED <<pc, processing, outcome>>
  /\ UNCHANGED <<todo, csv, offline, failures, votes, submitted>>

-----------------------------------------------------------------------------
Init ==
  /\ pc = "prompt"
  /\ todo = <<>>
  /\ csv = [pos |-> 1, currentSetNo |-> 0, next |-> <<>>]
  /\ processing = [t \in {} |-> 0]
  /\ calls = {}
  /\ offline = {}
  /\ failures = MaxFailures
  /\ votes = [t \in Tid |-> [k \in {AccountCluster[a] : a \in Account} |-> "none"]]
  /\ outcome = [t \in Tid |-> "none"]
  /\ submitted = <<>>

Driver ==
  \/ \E missed \in SUBSET Server : ProcessNextSet(missed)
  \/ Exit

Submit == RegisterStep \/ SendStep \/ SubmittedAll

Environment ==
  \E c \in calls :
    \/ \E status \in {"ack", "nack", "done"} : ServerAnswers(c, status)
    \/ CallFails(c)

Consume == \E c \in calls, ok \in BOOLEAN : ConsumeReply(c, ok)

Next == Driver \/ Submit \/ Shutdown \/ Join \/ Environment \/ Consume

Spec == Init /\ [][Next]_vars

(***************************************************************************)
(* Fairness.  Both threads run on, and gRPC completes every call.  Nothing *)
(* makes the user enter a command.                                         *)
(***************************************************************************)
FairSpec ==
  /\ Spec
  /\ WF_vars(Submit) /\ WF_vars(Shutdown) /\ WF_vars(Join)
  /\ WF_vars(Environment) /\ WF_vars(Consume)
=============================================================================
