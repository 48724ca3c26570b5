---------------------------- MODULE ClientProps ----------------------------
(***************************************************************************)
(* What the client guarantees, as coordinator of two-phase commit and as   *)
(* reader of the transaction file.                                         *)
(***************************************************************************)
EXTENDS Client

(* The client's variables keep their types. *)
ClientTypeOK ==
  /\ pc \in MainState
  /\ DOMAIN processing \subseteq Tid
  /\ \A t \in DOMAIN processing : processing[t] \in [successes : 0..1, failures : 0..1]
  /\ offline \subseteq Server
  /\ failures \in 0..MaxFailures

PrepareCalls(t) == {c \in calls : c.type = "TPC_PREPARE" /\ c.tid = t}

StepsLeft(t) ==
  {i \in DOMAIN todo : todo[i].do = "send" /\ todo[i].tid = t}

(* Whatever the order in which the two threads run and the replies come    *)
(* in, a transaction in processing is still waiting: the votes counted,    *)
(* the prepares under way and the ones still to be sent are two.  Only a   *)
(* prepare that failed, whose reply names no transaction, or an event      *)
(* discarded while the queue drains, is missing from the sum.              *)
VotesInFlight ==
  \A t \in DOMAIN processing :
    LET sum == processing[t].successes + processing[t].failures
                 + Cardinality(PrepareCalls(t)) + Cardinality(StepsLeft(t))
    IN  /\ sum <= 2
        /\ Running /\ failures = MaxFailures => sum = 2

(* Every row of the file is submitted once, in the order of the file,      *)
(* although readNextSet reads one row ahead, and with the leaders of the   *)
(* set it belongs to.                                                      *)
RowsInOrder ==
  /\ Len(submitted) <= Len(Rows)
  /\ \A i \in DOMAIN submitted :
       LET heads == {j \in 1..i : Rows[j].set_no # 0}
       IN  /\ submitted[i].tid = Rows[i].tid
           /\ submitted[i].leaders = Rows[Max(heads)].leaders

(* The client implements the coordinator that Server.tla assumes. *)
Abstract ==
  INSTANCE Coordinator WITH
    decisions <- {<<c.to, c.tid>> : c \in
      {d \in calls : d.type \in {"TPC_COMMIT", "TPC_ABORT"} /\ d.status = "sent"}}

ImplementsCoordinator == Abstract!CoordinatorSpec

(* A transaction whose prepares were both answered is decided, unless the  *)
(* user ends the client first.                                             *)
VotedEventuallyDecided ==
  \A t \in Tid :
    (IsCrossShard(t) /\ \A k \in Participants(t) : votes[t][k] # "none")
      ~> (outcome[t] # "none" \/ pc \notin {"prompt", "sending"})

(* Once the user asks for it the client process ends: the reply thread     *)
(* drains the queue and is joined, or gRPC ends the process.               *)
ExitCompletes == pc = "killed" ~> pc \in {"exited", "aborted"}

-----------------------------------------------------------------------------
(* src/README.md:99: "If any cluster responds ABORT or the coordinator     *)
(* times out: client broadcasts TpcAbort(tid)": a transaction that was     *)
(* submitted is decided, also when a leader does not answer.               *)
CoordinatorTimesOut ==
  \A t \in Tid :
    t \in DOMAIN processing ~> (outcome[t] # "none" \/ pc \notin {"prompt", "sending"})
=============================================================================
