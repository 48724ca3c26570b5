---------------------------- MODULE LevelDBProps ----------------------------
(***************************************************************************)
(* What makes the store correct for the server that uses it.               *)
(***************************************************************************)
EXTENDS LevelDB

(* The entries of the complete records of a log. *)
Complete(log) ==
  {log[i].entry : i \in {j \in DOMAIN log :
                           \E m \in j .. Len(log) : log[m].type \in {"full", "last"}}}

(* What a restart would find for key k: the logs that the MANIFEST under   *)
(* CURRENT does not cover, newest first, then its version.                 *)
Restarted(k) ==
  IF disk.current = 0 THEN NoValue
  ELSE LET m == disk.manifests[disk.current]
           top == Max({0} \cup DOMAIN disk.tables)
           logs == {n \in DOMAIN disk.logs : n >= m.log_number}
       IN  Search(k, MaxPuts + 1,
                  {<<top + n, Complete(disk.logs[n])>> : n \in logs}
                    \cup {VersionSource(m.files, r) : r \in VersionRanks(m.files)})

Writing(t) == th[t].pc \notin {"idle", "reading"}

(* The record of t's group is complete in the log. *)
RecordWritten(t) ==
  \/ th[t].pc = "done"
  \/ /\ writers # <<>> /\ th[Head(writers)].pc = "logged"
     /\ \E i \in 1 .. th[Head(writers)].group : writers[i] = t

(* Type correctness; file numbers are handed out once (next_file_number_   *)
(* is above every file the process wrote or found live).                   *)
LevelDBTypeOK ==
  /\ db.state \in {"closed", "recovering", "opening", "open", "corrupt", "aborted"}
  /\ \A t \in Thread :
       \/ th[t] = Idle
       \/ th[t] \in [pc : {"queued", "woken", "delayed", "bgwait", "bgwoken", "logging",
                           "logged", "done"},
                     key : Key, val : 1 .. MaxPuts, slept : BOOLEAN,
                     group : 0 .. Cardinality(Thread), sent : 0 .. Cardinality(Thread)]
       \/ th[t] \in [pc : {"reading"}, key : Key, snapshot : 0 .. MaxPuts + 1, mem : Nat, imm : Nat,
                     files : [Level -> SUBSET Nat], seen : (0 .. MaxPuts) \cup {NoValue}]
  /\ Range(writers) = {t \in Thread : Writing(t) /\ th[t].pc # "done"}
  /\ IsInjective(writers)
  /\ DOMAIN mems = Referenced(th, db)
  /\ db.state = "open" =>
       \A n \in DOMAIN disk.tables \cup DOMAIN disk.logs \cup DOMAIN disk.manifests :
         n < vset.next_file

(* RemoveObsoleteFiles never unlinks a file somebody needs: the files of   *)
(* the current version, of the version a Get or a compaction refers to,    *)
(* the outputs of a compaction under way, the MANIFEST under CURRENT with  *)
(* its tables, and the logs of both memtables.                             *)
NeededFilesKept ==
  /\ disk.current # 0 =>
       /\ disk.current \in DOMAIN disk.manifests
       /\ FilesOf(disk.manifests[disk.current].files) \subseteq DOMAIN disk.tables
  /\ db.state # "corrupt"
  /\ db.state \in {"opening", "open"} =>
       /\ LiveFiles(vset, compaction) \subseteq DOMAIN disk.tables
       /\ {db.mem, db.imm} \ {0} \subseteq DOMAIN disk.logs
  /\ compaction # NoCompaction => compaction.outputs \subseteq DOMAIN disk.tables

(* The write-ahead rule: a memtable holds exactly the complete records of  *)
(* its log, and of a group whose record is complete but whose sequence     *)
(* numbers are not yet published only the log knows.  MakeRoomForWrite may *)
(* hand the pair to the background thread, other writers may join the      *)
(* queue while the record is written, and RemoveObsoleteFiles may run.     *)
Unpublished ==
  UNION {{GroupEntry(writers, i) : i \in 1 .. th[t].group} :
           t \in {u \in Thread : th[u].pc = "logged"}}

MemtablesLogged ==
  db.state = "open" =>
    /\ Complete(disk.logs[db.mem]) = mems[db.mem] \cup Unpublished
    /\ db.imm # 0 => Complete(disk.logs[db.imm]) = mems[db.imm]

(* What Get finds in memory is what a restart would find on disk, whenever *)
(* no group is between its log record and its sequence number.             *)
MemoryMatchesDisk ==
  db.state = "open" /\ (\A t \in Thread : ~RecordWritten(t) \/ th[t].pc = "done") =>
    \A k \in Key :
      Lookup(k, vset.last_sequence, db.mem, db.imm, vset.files) = Restarted(k)

(* A Get that searches without mutex_ finds what it would have found at    *)
(* once, whatever writers and the background thread do meanwhile.          *)
StableReads ==
  \A t \in Thread : th[t].pc = "reading" =>
    LET g == th[t] IN
    /\ FilesOf(g.files) \subseteq DOMAIN disk.tables
    /\ Lookup(g.key, g.snapshot, g.mem, g.imm, g.files) = g.seen

(* Above level 0 no two files of a level share a key range, also when a    *)
(* memtable is compacted in the middle of a level compaction; Version's    *)
(* binary search depends on it.  A debug build has no exception.  In a     *)
(* release build Recover takes over what OpenPassesAssertions is about,    *)
(* two tables of one memtable, and these are equal, so that the search     *)
(* finds the same in both.                                                 *)
LevelsDisjoint ==
  \A l \in Level \ {0} : \A m, n \in vset.files[l] :
    m # n => \/ Largest(m) < Smallest(n) \/ Largest(n) < Smallest(m)
             \/ "release" \in Builds /\ disk.tables[m] = disk.tables[n]

(* The store implements the abstract one.  The value of a key is what a    *)
(* restart would find, so a compaction, the removal of files, a failed     *)
(* MANIFEST write, a crash and the recovery change nothing, a group takes  *)
(* effect as a whole, and an answered Put is never lost.                   *)
Abstract ==
  INSTANCE KVStore WITH
    store <- [k \in Key |-> Restarted(k)],
    calls <- [t \in Thread |->
                IF Writing(t) THEN [waiting |-> TRUE, key |-> th[t].key, val |-> th[t].val,
                                    applied |-> RecordWritten(t)]
                              ELSE [waiting |-> FALSE]]

ImplementsKVStore == Abstract!StoreSpec

(* Every Put and every Get returns (or dies with the process): no signal   *)
(* of w.cv or background_work_finished_signal_ is lost, and writers that   *)
(* wait for room always have a compaction under way.                       *)
CallsReturn ==
  \A t \in Thread : th[t].pc # "idle" ~> th[t].pc = "idle"

(* A claim that is not kept, MaybeAddFile's "Must not overlap" about the   *)
(* files of a level above 0: DB::Open finds no other files in a MANIFEST.  *)
(* When LogAndApply fails although its record reached the disk,            *)
(* DoCompactionWork calls CompactMemTable again for the same imm_, and the *)
(* MANIFEST then has two tables of it, whose numbers differ, in one level. *)
OpenPassesAssertions == db.state # "aborted"
=============================================================================
