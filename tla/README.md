# A TLA+ model of the sharded transaction store

The store keeps the balances of 3000 accounts in shards. Each shard is kept by a
cluster of three servers that agree on batches of transfers with Multi-Paxos; a
transfer between two shards runs under two-phase commit (2PC) with the client as
coordinator. This directory models that system in TLA+, checks it with TLC on
small instances and proves facts about every instance with TLAPS.

## Inventory

| Component | State | Operations | Talks to |
|---|---|---|---|
| Server, Multi-Paxos (`src/src/server/server.cc`) | ballots, promise, accepted batch, `pending_`, `current_`, vote counters | start, validate, accept, commit, abort, finish a round; handlers of Prepare, Accept, Commit and of their replies | peers of its cluster through OutCall and InCall |
| Server, 2PC participant | `locks`, `prepareTimestamps`, `balance_applied`, `balances` | TpcPrepare (through a round), TpcCommit, TpcAbort, the lock-timeout sweep | the client |
| Server, sync | `log`, `last_inserted`, `paxos_index`, `in_sync` | request, serve and apply missing log entries | peers |
| Server, disconnection | `i_am_disconnected` | Disconnect | the client; most handlers then answer no |
| Server, start and durable state | keys of LevelDB: balances, ballot | `run`, `updateBalance`, `persistBallotNum` | WAL, LevelDB |
| WAL (`wal.cc`) | the file, `transferIndex` | append prepare, commit, abort, synced entry; read an entry back; recover | the server, on every append and at its start |
| InCall, OutCall | one object per RPC under way | park, answer; send, time out, deliver a reply | gRPC's completion queues |
| Client (`client.cc`) | `processing`: the votes per transaction | send transfers, count votes, broadcast the decision, shut down | every server |
| Driver, CSV reader | the reader's position and the row read ahead | command loop, `readNextSet`, exit | the client |
| Sharding (`utils.cc`) | none | cluster of an account, of a server | everyone |
| LevelDB (`src/leveldb`) | log, memtables, versions, files | Open, Put, Get, background compaction | the server |
| Command parser, process management, reports | none of the store's | read input, start processes, print | the client |

A server is one thread: a handler runs to its end before the next one starts. What is
hard is between the handlers: two rounds of one cluster overlap with the Commit messages
of the round before; a Prepare overtakes a Commit; a sync is answered from a log that
moves while the answer is under way; 2PC decisions arrive in any order with the round that
prepares the transaction; the lock timeout races the decision; a deadline races the reply.
Inside a handler only the end of the process matters: it may come between any two of its
writes to the WAL and to LevelDB. The client has two threads that share `processing`.
LevelDB has the calling threads and a background thread that gives up its mutex around
every access to the disk.

What makes each part correct:

- *rounds*: every parked call is answered, once; a queue never waits for nobody;
  all votes are counted or still to come;
- *log*: `paxos_index` counts the Paxos entries, `last_inserted` stays inside the
  log, balances are those of the committed entries;
- *2PC*: nothing commits undecided, a transaction that a server prepared in a round is
  closed, money is conserved; the coordinator decides once, after all votes;
- *durable state*: a restart between two handlers changes nothing; what a restart inside
  one can lose is bounded and named;
- *client*: the file is submitted in order, voted transactions are decided, it ends when
  told to;
- *LevelDB*: an answered Put survives, a group of Puts is atomic, no file in use is
  removed, every call returns.

## Modules

| Module | Models |
|---|---|
| `Types` | servers, accounts, clusters, transactions, ballots, log entries and the pure operators on them. The cluster of an account and of a server are arbitrary functions; the transactions are a constant function `Txn` from tids: sender, receiver and amount never change once the client has drawn a tid |
| `Server` | the servers. `srv[s]` is the memory of `ServerImpl` on server `s`, field by field; a handler is one action |
| `Durable` | one server write by write: WAL lines, LevelDB keys, the end of the process, `run` |
| `Coordinator` | abstract: what the coordinator of 2PC promises |
| `Client` | the client process: driver, CSV reader, submitting thread, reply thread |
| `Sharding` | the placement of accounts and servers |
| `KVStore` | abstract: what a caller of `DB::Put` may rely on |
| `LevelDB` | the store: group commit, log, memtables, compactions, MANIFEST, recovery |
| `ServerProps`, `DurableProps`, `ClientProps`, `LevelDBProps` | the properties, and claims of the repository's documents that the code does not keep |
| `MCServer`, `MCDurable`, `MCClient`, `MCLevelDB` and the `.cfg` files | instances for TLC |
| `TypesProofs`, `ServerProofs`, `WakeupProofs`, `StoreProofs`, `DurableProofs`, `ClientProofs`, `LevelDBProofs`, `LevelsProofs` | theorems, and the lemmas they rest on |

How they fit: `Server` takes the coordinator as the action `ClientDecide`, a rule over the
votes; `Client` is the coordinator with its threads and calls. Both are shown to implement
`Coordinator` (`ServersFollowCoordinator`, `ImplementsCoordinator`), so that what one
assumes of the other is what the other does. `Server` takes a handler with its writes as
one step; `Durable` takes the writes apart and shows when that is right
(`RestartIsExact`) and what happens when it is not (`DriftIsExplained`). `Durable` takes a
Put that succeeded as durable, which `LevelDB` shows by implementing `KVStore`, and a
failing LevelDB as one that refuses all later writes, which is what `bg_error_` does. In
`LevelDB` one Put can also fail alone, when the file of a new log cannot be created
(`db_impl.cc:1370`); `Durable` has no such single failure.

### Server.tla

| Action | Code |
|---|---|
| `EnqueueClientTxn` | `InCall::Proceed` for Transfer and TpcPrepare, `enqueueClientTxn` |
| `ClientDecide` | `Client::consumeReplies` with the second vote, `tpcCommit`, `tpcAbort` |
| `ProcessTpcDecision` | `processTpcDecision` with `WAL::commitTransaction(TpcTid)` or `abortTransaction` |
| `LockTimeout` | the sweep at the end of the loop of `HandleRPCs` |
| `ProcessCall` | `processPrepareCall`, `processAcceptCall`, `processCommitCall`, `processSyncCall` |
| `HandleRPCResponse` | `OutCall::HandleRPCResponse`, `handlePrepareReply`, `handleAcceptReply`, `handleSyncReply` and through them `onPrepareQuorum`, `onAcceptQuorum`, `onRoundAbort`, `finishRound` |
| `ProcessDisconnectCall` | `processDisconnectCall` |
| `Restart` | the end of the process between two handlers, then `run` with `WAL::recover` |

`outcalls` holds the peer calls that are under way: the request, whether the peer has
handled it, the reply, and whether the caller still waits. A call may fail with
`DEADLINE_EXCEEDED` or `UNAVAILABLE` before or after the peer handles it, and the
request may be handled after the caller has given up, or never. Nobody waits for a
Commit. Requests and replies arrive in any order.

The loops of the code over a batch are closed forms: `Select` for a loop that pushes
some of the elements it visits, `Survivors` for the validation loop of
`onPrepareQuorum`, `InsertEntries` for the loop of `handleSyncReply`. `Debits` and
`Credits` count money unit by unit, which keeps recursion out of the modules that
proofs are about.

Abstractions: the batch carries tids; `accept_num` and `accept_val` of a Prepare
reply are left out because no code reads them; `commit_successes` and
`commit_failures` are never written; `disconnected` is written and never read;
Balance and Logs only read. Timestamps become membership in `prepareTimestamps`, and
a timeout may happen whenever it is set. The WAL and LevelDB hold what `log`,
`ballot_num` and `balances` hold whenever no handler runs and nothing has failed, so
`Server.tla` has no variables for them; `RestartIsExact` of `Durable.tla` is that fact. Clusters without servers in an instance vote as they like.

### Durable.tla

| Action | Code |
|---|---|
| `NewBallot`, `PrepareBatch`, `CommitBatch`, `Decide`, `SyncReply` | the handlers that write, reduced to the list of their writes, `todo` |
| `AppendEntry`, `SkipCommit` | `WAL::prepareTransaction`, `commitTransaction`, `abortTransaction`, `insertEntry` with the `log.push_back` and the test of `balance_applied` around them |
| `UpdateBalance`, `WriteBallot`, `WriteInitial` | one `db->Put` each |
| `Crash` | the process ends between two writes or inside a WAL line |
| `RecordBackgroundError` | LevelDB refuses every write from now on |
| `Run` | `run`: LevelDB, then `WAL::recover` |

The file is a sequence of chunks, one per append; a chunk may be cut inside the name of
its operation, between fields, inside the last number, or just before the newline, which
are the cuts that reading the file back can tell apart. The next append continues a cut
line. A transfer from an account to itself, which nothing in the code rejects, is left out
(`DurableAssumption`): `updateBalance` would put that account twice, in the end with the
balance it had. `Readable`, `Parsed`, `RecoveredLog`, `RecoveredIndex` and `RecoveredBallot` are
`recover` and `getTransactionFromFile` on such a file.

### Client.tla

`todo` is what is left of `processTransactions`; a step is one registration under
`state_mtx` or one call sent. `calls` is the completion queue: a call is sent, answered or
failed, and consumed in any order. `ConsumeReply` is one turn of `consumeReplies`;
`CountVote` the branch for `TPC_PREPARE`. A failed prepare is dropped because its reply
has tid 0. After `Shutdown` drained events may come with `ok = false`, and a decision that
is taken then makes gRPC end the process (`aborted`). `ReadNextSet` is `readNextSet` with
the row it reads ahead. `votes`, `outcome` and `submitted` are histories. A server answers
as it likes, except that it refuses what was sent after it was told to act disconnected
(`Refused`); a call of an earlier set may be parked by then and still be acknowledged. Two
exceptions of the command loop are left out: a line that `parseCSVLine` cannot read
(`driver.cc:74`; the rows of the model are well formed) and a `kill` or `waitpid` that fails
in `killAllServers` (`utils.cc:74-93`), after which the loop goes on and the client does not
exit.

`ClientAssumption` types the file; `FileAssumption` says what the code takes for granted of
it. Rows have different tids (`client.cc:71` draws the clock, in nanoseconds); the first
row of a set names a leader of every cluster (`processTransactions` indexes `leaders` with
the cluster, `client.cc:63`); sets are numbered 1, 2, 3, ... in file order (`readNextSet`
looks for `currentSetNo + 1` only).

### LevelDB.tla

An action is the code between two points where `mutex_` is released, or one unlocked
access to the disk.

| Actions | Code |
|---|---|
| `Write`, `Resume`, `AddRecord`, `FinishWrite`, `Return` | `DBImpl::Write`, `MakeRoomForWrite`, `BuildBatchGroup`, `log::Writer::AddRecord` |
| `Get`, `GetReturns` | `DBImpl::Get`, `Version::Get` |
| `BackgroundCall`, `BuildTable`, `LogMemTable` | `BackgroundCompaction`, `CompactMemTable`, `WriteLevel0Table` |
| `CompactMemTableFirst`, `CompactEntry`, `InstallCompactionResults` | `PickCompaction`, `SetupOtherInputs`, `DoCompactionWork` |
| `WriteManifest`, `Install`, `RemoveObsoleteFiles`, `ObsoleteFilesRemoved` | `LogAndApply`, `RemoveObsoleteFiles`, the end of `BackgroundCall` |
| `Recover`, `RecoverLogFile`, `NewManifest`, `SetCurrentFile`, `OpenReturns` | `DB::Open` |
| `BuildTableFails`, `CompactionFails`, `ManifestFails`, `MakeRoomForWrite` | the error paths: those that set `bg_error_`, and a new log that cannot be created, which fails one Put |
| `Crash` | the process ends; what it wrote to files stays |

The server calls the store from one thread; the model has two so that group commit and
the queue of writers happen, and a Get runs at any time beside the writers (`run` itself
alternates Get and Put, `server.cc:91-111`). The constant `Reads` bounds who reads what.
Sizes are numbers of entries. Which file of a level is
compacted next (`compact_pointer_`) is left open. Byte limits the balances never reach
(group size, grandparent overlap) are left out, and so is `AddBoundaryInputs`, which finds no
file to add as long as two tables of a level share no user key or are equal.

`Builds` names the builds of the server that may open the store. In a `"debug"` build the
checks of `VersionSet::Builder` (`version_set.cc:699-712` and `722-725`) end the process
when two tables of a level above 0 overlap (`MustNotOverlap`); `NDEBUG` removes them from a
`"release"` build, which is what the build of `src/README.md` gives, because
`src/spdlog/CMakeLists.txt:22` sets the build type before LevelDB is configured.

## Runs

Every account starts with the program's 10 units.

| Run | Instance | Distinct states | Shows |
|---|---|---|---|
| Answered | 3 servers, 1 leader, one cross-shard transfer, any number of deadlines and lock timeouts, one disconnection, fair | 0.25M | `VotesAccounted`, `EventuallyAnswered`, `PreparedEventuallyClosed` |
| Contention | 3 servers, 2 leaders, 2 conflicting intra-shard transfers, one restart, at most 4 calls under way | 0.5M | `TypeOK`, `DurableVotes`, `NoLostWakeup`, `ParkedCalls`, `AnsweredOnce` |
| Tpc | a cross-shard and an intra-shard transfer out of one account, one lock timeout, at most 4 calls | 0.27M | `DurableVotes`, `RecoveryRestoresIndex`, `PaxosIndexCounts`, `BalancesMatchLog`, `CommitOnlyIfDecided` |
| Money | 2 clusters of 2 servers, cross-shard transfers both ways, one call UNAVAILABLE | 62k | `MoneyConserved`, `ServersFollowCoordinator` |
| Durable | one server, 3 WAL lines, two ends of the process, one of them in a line, one LevelDB error, syncs of up to 2 entries | 2.9M | `IndexReadsPrepare`, `LossPerTear`, `RestartIsExact`, `DriftIsExplained`, `DurableTypeOK` |
| Client | 3 transactions in 2 sets, 3 servers in 2 clusters, one failing call, fair | 0.2M | `VotesInFlight`, `RowsInOrder`, `ImplementsCoordinator`, `VotedEventuallyDecided`, `ExitCompletes`, `ClientTypeOK` |
| LevelDB | 2 threads, 2 keys, 3 Puts, any number of Gets of one of them, 3 levels, both builds, one crash, one failing write, fair; from an empty directory or one with a table and a log | 0.29M | `ImplementsKVStore`, `CallsReturn`, `NeededFilesKept`, `StableReads`, `MemtablesLogged`, `MemoryMatchesDisk`, `LevelsDisjoint`, `LevelDBTypeOK` |

Five runs refute what a document, a comment or an assertion says of the program:

| Run | Claim | What happens |
|---|---|---|
| ReplicaLogs | `paxos_index` does not drift between replicas (`src/src/server/server.h:149`) | a Prepare overtakes a Commit, the replica asks for a sync, the Commit lands, the sync ships the same entry again |
| Atomicity | a cross-shard transaction commits on both clusters or neither (`src/CHANGES.md:343`) | the lock timeout aborts on one cluster's leader what the coordinator commits on the other |
| CommittedOnDisk | LevelDB already has the durable committed state (`src/README.md:174`) | the process ends between the WAL line of a commit and its two Puts; no restart repairs the balances |
| TimesOut | the client broadcasts TpcAbort when the coordinator times out (`src/README.md:99`) | a prepare that fails is dropped, nothing times out, the transaction is never decided |
| Reopen | files of a level above 0 "Must not overlap" (assertion, `src/leveldb/db/version_set.cc:722`) | a MANIFEST record fails after it reached the disk, `DoCompactionWork` calls `CompactMemTable` for the same memtable again, and `DB::Open` meets two tables of it in one level: a build with assertions ends there, at this start and at every later one |

More claims of the documents fail and have a formula or a plain reason here, but no run of
their own. The first four formulas are in `ServerProps.tla`; to see TLC refute one, put it
into `Contention.cfg` (`BallotMonotone`, without faults), `Tpc.cfg` (`AppliedAtMostOnce`,
with `Budget <- OneRestart`) or `Answered.cfg` (`LivePeerFinishesRound`, with
`Budget <- OneUnreachable`; `EveryPreparedClosed`, with a budget of one restart and any
number of lock timeouts; the instance of `Tpc.cfg` under `FairSpec` refutes it without a
restart, through a sync).

- `BallotMonotone`: the ballot number increases monotonically (`src/README.md:77`); a sync
  replaces `ballot_num` by the lower ballot of the peer's last entry.
- `AppliedAtMostOnce`: each tid's effect applies at most once per server
  (`src/CHANGES.md:341`); `balance_applied` is lost in a restart.
- `LivePeerFinishesRound`: a live peer finishes the round (`src/src/server/server.h:113`);
  an UNAVAILABLE call is not counted, and one vote of each kind decides nothing.
- `EveryPreparedClosed`: every recorded `CS_PREPARE` gets a timestamp (`src/README.md:192`)
  and so cannot hold its locks for ever; a prepare that came by Sync (`server.cc:648`,
  `wal.cc:238`) or was read back after a restart has none and is closed by a decision or
  never. `PreparedEventuallyClosed`, which holds, is about the prepares of rounds only.
- locks are released only after commit or abort (`src/README.md:141`); `processCommitCall`
  (`server.cc:495`) erases those of cross-shard entries when the Paxos round commits.
- the WAL rebuilds pending locks (`src/README.md:174`); `run` (`server.cc:113`) rebuilds
  none. The models do as the code does.

What the runs do not promise: `DriftIsExplained` names the two ways in which a balance on
disk can leave the ledger (a write cut off or refused, and a transaction applied again in
a later life of the process); `LossPerTear` allows one complete line per cut line to be
lost, because the next append continues it; `LevelsDisjoint` is strict for a build with
assertions, and allows a build without them the two equal tables that the run Reopen is
about, which such a build takes over from the MANIFEST and reads correctly
(`MemoryMatchesDisk`, `ImplementsKVStore` hold in the same run).

### Bounds

`MaxBallot` bounds the ballots; 3 allows a round, a retry and the next round, 2 is
enough for one round per cluster. `Budget` says how many faults of each kind may
happen (-1: any number); one fault of a kind at any point of any interleaving is
where the hazards are. `FourCalls` bounds the calls under way in Contention and Tpc: a full
round has two calls per phase, so four let two rounds overlap. Two transactions are enough
for a conflict, a batch of two, and a queue behind a running round. Answered has one: a
call that waits behind a round is started when the round ends, which `NoLostWakeup` and
`ParkedCalls` say and the theorems prove for every instance. A cluster of two
servers in Money is a cluster whose third server never answers: `MAJORITY` stays 2. The two
servers that never lead are interchangeable, so safety runs with one leader use their
permutations as symmetry; liveness runs use none, and no constraint.

Durable: three chunks let a line be cut, continued and followed by a third; two ends of
the process let a recovered server write and be recovered again. The amounts have two
digits, so that a cut in the last number gives a smaller amount. Client: two sets for the
row read ahead, one cross-shard transaction between two intra-shard ones, one leader that
acts disconnected. LevelDB: `write_buffer_size`, the level-0 triggers and the level sizes
are scaled down until three Puts rotate the memtable, stop writers, compact level 0 into
1 and 1 into 2, and nest a memtable compaction in a level compaction; one crash may fall
into any of it, recovery included. One thread may read one key at any moment, between its
own writes and during those of the other thread. Reopen is the same instance with debug
builds only.

`CHECK_DEADLOCK FALSE` everywhere: once the clients have sent everything and all calls
have returned, or the client has exited, the system has nothing left to do.

### Fairness

Server: `Fairness` says that as long as a server has something to do (an open call, a
decision to handle, a prepared transaction the sweep may time out), some server
eventually takes a step. The code justifies it: `HandleRPCs` polls both
completion queues for ever, gRPC completes every call with the reply or with
`DEADLINE_EXCEEDED`, and the sweep runs in every iteration. Nothing is assumed of
clients, failures, restarts, or of a Commit, for which nobody waits. The condition is
written out as `Busy` so that it reads the same for TLC and for a reader. A behaviour
that runs into `MaxBallot` with work left is not fair in this sense, so the liveness
runs speak of the behaviours within the bound.

Client: weak fairness of the submitting thread, of the reply thread, of `Shutdown` and
`Join`, and of the environment, which completes every call: gRPC fails the calls of a
server that is gone, and `killAllServers` waits until they are. Nothing makes the user
enter a command.

LevelDB: weak fairness of every calling thread, of the background thread and of
`DB::Open`: threads are scheduled and the mutex is always released. No fairness of crashes
or faults.

## Theorems

`TypesProofs.tla` has the lemmas on the operators: `Select` enumerates the chosen
positions in order (`SelectProperties`, from the existence of the k-th element of a
finite set of naturals), and `Debits` and `Credits` are naturals. It also shows what the
sum over a set is: the fold that `Total` is made of has a result for every order in which a
finite set can be taken apart and the same one for all (`SumsUp`, `FoldIsSum`), so a sum may be
computed element by element (`SumOf`) and set by set (`MappedSplits`). The argument is a least
counterexample on the cardinality of the set, which needs no induction principle.

`ServerProofs.tla` proves `TypeCorrect`, `Spec => []TypeOK`, from `TypesAssumption` and
`ServerAssumption` only: any number of servers, clusters, accounts and transactions,
any bounds. There is one lemma per part of a handler, from a state of a server to a
state of a server, one per action, and the theorem is their combination. `TypeOK` is
inductive as it stands because it says of `outcalls` that they are finite (a new call
needs a fresh copy number) and of `transferIndex` that it points into the log (closing
a transaction reads the entry there).

`WakeupProofs.tla` proves `NoLostWakeupHolds`, `Spec => []NoLostWakeup`, from the same
assumptions. `NoLostWakeup` is not inductive: `maybeStartRound` looks at
`is_paxos_running`, but `handleSyncReply`, which ends a sync, looks at `current_` to
choose between reissuing the round and starting the next one. If the two disagreed a
sync could end with a round that nobody drives. The inductive invariant `WakeupInv`
therefore adds `is_paxos_running <=> current_ # <<>>` (and `TypeOK`). The proof has
frame lemmas for the parts of handlers that leave the round alone (`SameRound`), one
lemma per part that changes it (`ReissueAwake`, `MaybeStartRoundAwake`,
`FinishRoundAwake`, `StartSyncAwake`, ...), and one per action. The case that needs an
argument is `onPrepareQuorum`: the survivors of a running round are either none, and
the round finishes, or a non-empty batch, and it waits for Accept replies.

It also proves `VotesAccountedHolds`: a round that waits for promises or acceptances has
as many votes counted and calls open as the cluster has servers, so that one of the two
quorums must be reached. The theorem has two hypotheses, and TLC finds a counterexample
without either: no call fails as `UNAVAILABLE` (such a call is counted nowhere,
`server.cc:620`), and a cluster has one leader (a second leader's Prepare replaces
`promised_num` under a running round, `server.cc:408`, and its replies then count for
nobody). The code guarantees neither; both are listed as hazards. The inductive invariant `VotesInv` says of every
server that its calls differ by their copy, so that one answer closes one call; that only
a leader has Prepares and Accepts out, and to its peers only (`CallsOK`); that a server
that leads nothing has no queue and no phase (`Follows`); and that the ballot a phase waits
under is the server's own, which with one leader per cluster no handler of another's Prepare
can replace (`PrepareCounted`, `AcceptCounted`). An answer or a deadline moves one call
from the open ones to the counted ones; a reissued Prepare starts from the leader's own
vote and a call to each peer.

`StoreProofs.tla` proves the properties of a server's queue, log and balances. It does so
in two stages. The first shows once, handler by handler, that whatever an action does to a
server is a `QueueStep` (transactions arrive, a batch is formed, filtered, and settled with
answers) together with a `LogStep` (nothing, the prepares and commits of a round, a decision
or a lock timeout, entries of a peer by Sync, a restart); `NextMoves` is that fact for every
step of `Next`. The second then needs one lemma per kind of step and not one per action and
property. The inductive invariant `StoreInv` says of every server:

- `Queued`: `pending_` and `current_` are without repetition and disjoint, name exactly the
  parked calls, and there is a batch exactly while a round runs;
- `LogOK`: `paxos_index` counts the Paxos entries of the log, `transferIndex` is what replaying
  the log gives, only cross-shard transactions are in it, and a cross-shard entry is committed
  or applied only after the decision;
- `VoteOK`, `AckOK`: what a client was told is in the log, and log entries are never moved.

All append paths are reduced to one shape: the log grows at its end by entries `new`
(`Inserted`), and counting positions, recovering the index and collecting the committed
transactions are shown to distribute over that concatenation (`PaxosConcat`,
`RecoveredConcat`, `CommittedConcat`). From `StoreInv` follow, for any servers, clusters,
accounts, transactions and fault bounds, `ParkedCallsHold`, `AnsweredOnceHolds`,
`PaxosIndexCountsHolds`, `RecoveryRestoresIndexHolds`, `DurableVotesHolds` and
`CommitOnlyIfDecidedHolds`.

`BalancesMatchLogHolds` adds `MoneyInv`: the transactions applied to a balance are those
committed in the log, so one that is committed a second time is not applied a second time.
It is proved for instances without restarts (`Budget["restart"] = 0`), which is also what
the run checks. With restarts it is false: `balance_applied` is not in the WAL, so a Sync
that ships a committed entry again after a restart applies it again (`AppliedAtMostOnce`).

`MoneyConservedHolds`: whenever no call is open and no decision is undelivered, the balances
of the leaders add up to what the accounts started with. A leader's balance of an account
is what it started with plus the effects of the transactions that its log commits
(`MoneyInv`), so what remains is that the two leaders of a cross-shard transaction commit the
same ones. `ConservedInv` has what that takes: calls for votes are answered by leaders only
(`LeadersSpeak`), a decision to commit finds a PREPARED entry of the transaction in the log
of both leaders (`CommitsPrepared`), and nothing but a decision closes a prepared entry
(`MayAbort`). When everything was delivered, each committed transaction is therefore in both
logs (`QuietCommitted`), one leader's debit is the other's credit, and the totals over shards
cancel (`ShardTotal`, `TotalOfLeaders`). Hypotheses: a shard has one leader, no server
restarts and no lock times out. The last two are needed: after a lock timeout a leader ignores
the commit that its peer obeys (`TpcAtomicity`, violated in the Atomicity run), and after a
restart a transaction can be applied twice (`AppliedAtMostOnce`).

`ServersFollowCoordinatorHolds` is the refinement of `Coordinator`: initial states map to
initial states and every step to a step or a stutter under the mapping `ClusterVotes`. Its
invariant `VotingInv` adds `OneVoice`, that a transaction is parked or answered on at most
one server of a cluster; without it two servers of a cluster could vote differently. A
vote appears only when a round settles (`VotesStand`), a decision only when all votes are
there (`DecideImplements`). Hypothesis: every cluster a transaction touches has servers in
the instance, because a cluster without servers votes as it likes and leaves no vote
behind that the mapping could read.

The last section of `ClientProofs.tla` proves, from `ShardingAssumption` (all three numbers are positive),
that the cluster of an account is in range (`ClientClusterInRange`; `processTransactions`
indexes `leaders` with it), that accounts are placed in order (`ClientClustersMonotone`),
that no cluster is empty when there are no more clusters than accounts
(`EveryClusterHasAccount`) and that a cluster is `cluster_size` consecutive servers
(`ServersOfCluster`), also where the numbers do not divide each other. All rest on
`CeilDivBounds` and `CeilDivUnique`: the quotient rounded up is the only k with
m <= k * n < m + n.

`DurableProofs.tla` proves, from `TypesAssumption` and `DurableAssumption`,
`DurableTypeCorrect`, `IndexReadsPrepareHolds` and `LossPerTearHolds`. The first two hold
together: closing an entry reads the line at its position in `transferIndex`, so the write
it queues is a line only because the position is in the file. The inductive invariant
`DurableInv` adds the shapes of the pending writes (`WriteSet`) to `DurableTypeOK` and
conjoins `IndexReadsPrepare`; there is one lemma per action. An append moves no position,
and recovery keeps the position of a prepare only (`RecoveredIndexPrepare`). `LossPerTear`
follows from the types: the line before a complete line that recovery misses is a cut one,
and two lines do not share the line before them.

`DurableProofs.tla` also proves `RestartIsExactHolds`, `Spec => []RestartIsExact`, from the same
assumptions. The property speaks of the moments between two handlers; the inductive
invariant `RestartInv` has to hold in the middle of one. `Rebuilt`: replaying the file gives
the log and the index in memory after every line. `BalanceKept` and `BallotKept`: what is in
memory is in LevelDB or still queued. `StartFirst`: while a first balance is queued nothing
that changes a balance is, or the put of 10 units would undo a transfer. The argument about
the file is that recovery of a file with one more line is the recovery of the file with one
more entry (`RecoveredLogAppend`, `RecoveredIndexAppend`), which holds only if the line is
not the continuation of a cut one; hence the premise of the property.

Its last theorem is `DriftIsExplainedHolds`, `Spec => []DriftIsExplained`. In
the middle of a handler the line is in the file and its balances are not yet in LevelDB, so
the inductive invariant `DriftInv` counts what an account is *owed* by the changes still in
`todo`: the balance on disk plus what is owed is what the lines of the file add up to
(`BooksAgree`), for every account none of whose transactions was cut off, refused or
applied again. Four facts hold it up. `UpdatesLead`: pending changes come first, are those of the last
line of the log, and are for different accounts; an account's own balance is thus paid
once, and a process that ends there cuts off exactly that transaction. `CommitsApplied`: a
transaction that the file commits was applied or cut off, so one that a later life
commits again shows in the ghost. `AmountsKept`: only a cut line can carry another amount
than its transaction, in the file and in the entry that a decision reads back from it.
`KeysFirst`: no line is written before every account has its key, so the first balances
meet an empty ledger.

`ClientProofs.tla` proves, from `TypesAssumption`, `ClientAssumption` and `FileAssumption`,
`ClientTypeOKHolds`, `RowsInOrderHolds`, `VotesInFlightHolds` and
`ClientImplementsCoordinator`, for every file, every cluster and any number of failing
calls. TLC checked the inductive invariant `ClientInv` on the instance of the Client run
first. Its parts:

- `ReaderInv`: as many rows were submitted as the reader has returned; it has read no
  further, or exactly one row, which opens the next set (`ReaderAt`).
- `QueueInv`: what `processTransactions` still has to do asks each cluster of a transaction
  once, and registers a cross-shard transaction before it asks. The steps of a set are a
  flattened sequence of short sequences, which a theorem about all sequences would need
  induction for; `Flattens` instead says where each element comes from, and that it holds
  follows from a least counterexample.
- `FreshInv`: a transaction not submitted or not registered yet is untouched, so
  registering it starts from two missing votes.
- `AskedInv`, `AskedOnce`: a cluster's vote is in one place only: yet to be asked for, on the
  queue, or given. An answered call carries the vote that the server gave.
- `TallyInv`: the counters equal the votes whose calls are off the queue until the queue is
  shut down, when discarded events make them a lower bound. This is why the second vote
  and the decision coincide.
- `DecisionsInv`: a decision under way is the one taken. `NothingLost`: without a failed call
  a missing vote is under way or still to be asked for.

The refinement reads `Coordinator`'s pending deliveries off the decision calls that are
still unanswered. An answer to a prepare is a vote cast, the reply that completes the
second vote is `Decide`, the end of a decision call is its delivery, and every other step
of either thread leaves the coordinator as it is.

`LevelDBProofs.tla` proves, from `LevelDBAssumption` only, `NeededFilesKeptHolds`: for any threads, keys, buffer and level sizes, and any number of Puts,
crashes and failed writes. The inductive invariant is `FilesInv`, with a part per state of
`DB::Open`:

- `CurrentHeld`: the version under CURRENT has all its tables, numbered below its
  `next_file_number_`, so that a restart finds every file and hands out none of their numbers.
- `RecoveringInv`, `OpeningInv`: the MANIFEST that a start writes is numbered above CURRENT's,
  so it cannot overwrite the version a second crash would fall back to, and the tables made
  from the logs are new.
- `ServingInv`: the logs of both memtables are on disk and not older than `log_number_`
  (`LogsHeld`), and nothing in `files_to_delete` is needed (`DoomedUnneeded`).
- `OpenInv`: without a background error the MANIFEST holds the current version, except
  between its record and the installation of the version. After an error the two may
  differ, because a record that was reported as failed may be on disk; what saves the files
  then is that `RemoveObsoleteFiles` returns at once when `bg_error_` is set. Outputs of
  a compaction are in `pending_outputs_` and in no version (`CompactionInv`), the table of a
  memtable belongs to nobody until it is installed (`BuildInv`), also when it is built in
  the middle of a compaction, and the version that a Get refers to keeps its tables, none
  of them an output that is still being written (`ReadersInv`).

How many tables `RecoverLogFile` makes of a log is the length of a fold over a fold.
`TablesOfLogSequence` shows that it is a number: both folds exist (`ReadAllExists`,
`InsertAllExists`, by a least counterexample over the positions of the log) and keep
sequences, provided that the log is one of the four fragment types, which every step keeps
(`LogsReadable`).

`LevelsProofs.tla` proves `LevelsDisjointHolds` from the same assumption. It needs that
there are finitely many threads and some key, and that the instance allows the one Put with
which an old database starts. The property is about the current version of an open store,
but a step that breaks it is prepared long before: by a memtable placed below level 0, a
compaction that chose its inputs, an output closed too early, a version recovered from a
MANIFEST. The invariant has these layers, the first two in `LevelDBProofs.tla`:

- `QueueInv`: `writers_` has no thread twice, and only its head is past the wait, so one
  thread at a time numbers and writes a group.
- `RecordsInv`: every log, memtable and table holds well-formed records, and a table is never
  empty; a smallest and a largest key exist wherever the code compares them.
- `SequenceInv`: sequence numbers are given once. What has been written is not above
  `last_sequence_`, and a compaction's `smallest_snapshot` is not below any of its inputs:
  the reason why two neighbouring output tables never share a user key, because the second
  entry of a key is dropped and not carried over into the next table.
- `FreshInv`: a table that is being written is not in the version under CURRENT, so writing
  it cannot change what a restart reads.
- `LevelsInv`: the versions that exist, and the one that exists once the edit under way is
  applied, are sorted. The outputs of a compaction lie beside the rest of the next level
  (`Beside`), which rests on its inputs leaving no gap (`NoGap`): every table of the next
  level that overlaps the range of the inputs is an input. The table of a memtable goes to
  a level where nothing overlaps it, also while a compaction is in the middle of writing.
  `Twins` covers a failed MANIFEST write: the record may be on disk, the store does not
  install the version, and the MANIFEST may hold a table of the memtable that the store
  builds a second one of.
- `StrictInv`: in builds with assertions the version in memory, and the one that the edit
  under way makes of it, have no equal tables either. `Recover` starts from a version that
  passed `MustNotOverlap`, and no step after it brings a second table of a memtable into
  the version: the failed record is in the MANIFEST and not in memory.

`StableReadsHolds`, in the same module, is about a Get that holds no mutex while others put,
switch memtables, compact, install and unlink. Its layer is `ReadsStable`: what the Get found
is what a search of its two memtables and of its version finds now (`FoundBy`). A Put inserts
into a memtable that the Get may be reading; it changes nothing for the Get because its
sequence number is above the snapshot (`SequenceInv`, `ReaderKnown`). The files of its version
are kept (`ReadersInv`), and the table that is being written is none of them.

`LevelDBTypeOKHolds`, in the same module, is more than typing. That `next_file_number_` is
above every file of an open store is what keeps a file from being written twice, and it is
re-established by every start, from a directory that a crash left with logs, tables and
MANIFESTs of several incarnations. It adds these layers:

- `NumbersInv`: which logs a restart would read, and what is numbered below what, in every
  stage of `DB::Open` and while it is open. All logs of an open store but those of the two
  memtables are below `log_number_`, which is that of the older one; the table of a memtable
  is newer than every level-0 table (`AddedNumbers`).
- `ManifestsInv`: once CURRENT names the MANIFEST of this process, it is the newest.
- `IssuedInv`: `last_sequence_` with the writers that wait, the sequence number under CURRENT
  and those in the logs are within what the calls of Put account for, so a recovery that
  takes the maximum over logs and MANIFEST does not invent one.
- `ReadsTyped`: a Get's answer is a value that was put. `NewestIs` shows that the `CHOOSE` of
  a search has a candidate: there is an entry of the highest rank and newest in it.

`MemtablesLoggedHolds` is LevelDB's write-ahead rule. A record is written fragment by
fragment without `mutex_`, while writers join the queue and the background thread builds,
installs and removes; the rule says what may be missing from memory at any such moment, and
that is at most the group whose record is complete. It is not inductive, because the
fragments of an unfinished record are in the log and count for nothing yet. `WriteAheadInv`
says what they are: the log holds the memtable and the first `sent` entries of the group
that the head of the queue leads, numbered from `last_sequence_` on, and the group that the
queue says is the group that was numbered, since only the head leads and nobody leaves from
the middle (`QueueInv`). `CompleteAppend` gives what a fragment of each type does to the
complete records.

Only model-checked: everything else in the tables above. Liveness is outside what the
prover does. Of LevelDB, `MemoryMatchesDisk` and `ImplementsKVStore` are checked by
the run only: they say which value wins for every key over every table and log record, and
the proof of their inductive invariant is not written yet.

## Not modelled

- `printBalance`, `printDatastore`, `printPerformance`, the latencies and the command
  parser: they read and format.
- `loadConfig`, `startAllServers`: they fill the configuration and fork; the configuration
  is a constant of the models.
- InCall objects as memory: their registration and deletion.
- A WAL stream that cannot be opened.
- LevelDB beyond what the server calls: deletes, write batches of the caller, snapshots,
  iterators, manual and seek-triggered compactions, closing, repair; and the layers below
  (`table/`, caches, filters, skip list, `env_posix.cc`, the block structure of log files
  and with it a log write that fails partway), which appear through what they promise.
- spdlog with its copy of fmt, gRPC, googletest, benchmark: third-party code without
  state of the store. spdlog alone is about half of the repository's lines, so the share of
  lines that the modules stand for stays small whatever is modelled of the store.

## Plan

1. *Proofs*: `MemoryMatchesDisk` and the refinement of `KVStore`.
2. *Abstract specifications*: a round as an atomic decision on a batch, the ledger of
   one server as a set of applied transactions, with `Server` shown to implement them
   where it does.
3. *LevelDB's log format*: blocks, fragments and a failed write, for the hazard at
   `db_impl.cc:1243`.
