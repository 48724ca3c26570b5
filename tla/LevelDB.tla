------------------------------ MODULE LevelDB ------------------------------
(***************************************************************************)
(* The key-value store under the server: LevelDB's write path (group       *)
(* commit, log, memtable), the background thread (memtable and level       *)
(* compaction, MANIFEST, removal of obsolete files), Get, and DB::Open     *)
(* after a crash of the process.                                           *)
(*                                                                         *)
(* An action is one stretch of code between two points where mutex_ is     *)
(* released, or one unlocked access to the disk.  What the process wrote   *)
(* survives a crash; a write cut short is a log record without its last    *)
(* fragment.  Sizes are numbers of entries, and byte limits the program's  *)
(* data never reaches (group size, grandparent overlap) are left out.      *)
(***************************************************************************)
EXTENDS Integers, Sequences, SequencesExt, FiniteSetsExt

CONSTANTS
  Thread,                     \* the threads of the server that call the store
  Key,                        \* user keys, in the comparator's order
  NoValue,                    \* Status::NotFound
  WriteBufferSize,            \* options_.write_buffer_size
  L0_CompactionTrigger, L0_SlowdownWritesTrigger, L0_StopWritesTrigger,
  NumLevels, MaxMemCompactLevel,
  MaxLevelEntries,            \* MaxBytesForLevel
  MaxOutputEntries,           \* MaxOutputFileSize
  Builds,                     \* of the server that open the store, with or without assertions
  Reads,                      \* the Gets of the instance, pairs of a thread and a key
  MaxPuts, MaxCrashes, MaxFaults   \* bounds of the instance

ASSUME LevelDBAssumption ==
  /\ IsFiniteSet(Thread)
  /\ Key \subseteq Nat /\ Key # {}
  /\ WriteBufferSize \in Nat /\ MaxOutputEntries \in Nat \ {0}
  /\ 0 < L0_CompactionTrigger
  /\ L0_CompactionTrigger <= L0_SlowdownWritesTrigger
  /\ L0_SlowdownWritesTrigger <= L0_StopWritesTrigger
  /\ MaxMemCompactLevel \in Nat /\ NumLevels \in Nat /\ MaxMemCompactLevel < NumLevels
  /\ MaxPuts \in Nat \ {0}

VARIABLES
  disk,       \* CURRENT, MANIFESTs, logs and tables
  db,         \* DBImpl: state of DB::Open, mem_, imm_, bg_error_, pending_outputs_
  vset,       \* VersionSet: current_, log_number_, next_file_number_, ...
  mems,       \* the memtables somebody refers to, by the number of their log
  writers,    \* writers_
  th,         \* the server's threads inside the store
  bg,         \* the background thread
  compaction, \* the CompactionState it works on
  doomed,     \* files_to_delete of RemoveObsoleteFiles
  bounds      \* how often the bounded events have happened

ldbVars == <<disk, db, vset, mems, writers, th, bg, compaction, doomed, bounds>>

Level == 0 .. NumLevels - 1
NoFiles == [l \in Level |-> {}]
Idle == [pc |-> "idle"]
NoCompaction == [level |-> -1]
Closed == [state |-> "closed", mem |-> 0, imm |-> 0, bg_error |-> FALSE,
           pending |-> {}]
NewVersionSet == [files |-> NoFiles, log_number |-> 0, next_file |-> 2,
                  last_sequence |-> 0, manifest |-> 0]

Count(b) == bounds' = [bounds EXCEPT ![b] = @ + 1]

(* The files f, with x as file n. *)
WithFile(f, n, x) == [i \in DOMAIN f \cup {n} |-> IF i = n THEN x ELSE f[i]]

-----------------------------------------------------------------------------
(* Tables, versions and the search order of Get.                           *)

KeysOf(n) == {e.key : e \in disk.tables[n]}
Smallest(n) == Min(KeysOf(n))
Largest(n) == Max(KeysOf(n))

FilesOf(v) == UNION {v[l] : l \in Level}

(* The value of key k in sources, pairs of a rank and a set of entries of  *)
(* which the highest rank is searched first: the newest entry of the first *)
(* source that has one.                                                    *)
Search(k, snapshot, sources) ==
  LET seen == UNION {{[rank |-> s[1], seq |-> e.seq, val |-> e.val] :
                        e \in {f \in s[2] : f.key = k /\ f.seq <= snapshot}} : s \in sources}
      first == {c \in seen : \A d \in seen : d.rank < c.rank \/ (d.rank = c.rank /\ d.seq <= c.seq)}
  IN  IF seen = {} THEN NoValue ELSE (CHOOSE c \in first : TRUE).val

(* Level-0 tables are searched newest first, then level by level.          *)
VersionRanks(v) == v[0] \cup {0 - l : l \in Level \ {0}}
VersionSource(v, r) ==
  <<r, IF r > 0 THEN disk.tables[r] ELSE UNION {disk.tables[n] : n \in v[0 - r]}>>

Lookup(k, snapshot, mem, imm, v) ==
  LET top == Max({0} \cup v[0]) IN
  Search(k, snapshot,
         {<<top + 2, mems[mem]>>, <<top + 1, IF imm = 0 THEN {} ELSE mems[imm]>>}
           \cup {VersionSource(v, r) : r \in VersionRanks(v)})

Overlapping(S, lo, hi) == {n \in S : Largest(n) >= lo /\ Smallest(n) <= hi}

Hull(S) == <<Min({Smallest(n) : n \in S}), Max({Largest(n) : n \in S})>>

(* Level-0 files may overlap each other: the range grows with every file   *)
(* taken in, until nothing more overlaps it.                               *)
GetOverlappingInputs(v, l, lo, hi) ==
  LET first == Overlapping(v[l], lo, hi)
      Grown(C) == first \subseteq C /\ Overlapping(v[l], Hull(C)[1], Hull(C)[2]) \subseteq C
  IN  IF l > 0 \/ first = {} THEN first
      ELSE CHOOSE C \in SUBSET v[l] :
             /\ C # {} /\ Grown(C)
             /\ \A D \in SUBSET v[l] : D # {} /\ Grown(D) => Cardinality(C) <= Cardinality(D)

(* Finalize: l is the first level with the highest score, as a fraction. *)
Score(v, l) ==
  IF l = 0 THEN <<Cardinality(v[0]), L0_CompactionTrigger>>
  ELSE <<MapThenSumSet(LAMBDA n : Cardinality(disk.tables[n]), v[l]), MaxLevelEntries>>
Higher(s, t) == s[1] * t[2] > t[1] * s[2]
CompactionLevel(v, l) ==
  /\ l # NumLevels - 1
  /\ \A m \in Level \ {NumLevels - 1} :
       ~Higher(Score(v, m), Score(v, l)) /\ (m < l => Higher(Score(v, l), Score(v, m)))
NeedsCompaction(v) ==
  \E l \in Level : CompactionLevel(v, l) /\ Score(v, l)[1] >= Score(v, l)[2]

(* MaybeScheduleCompaction: the background thread's next state, with       *)
(* mutex_ held.                                                            *)
MaybeScheduled(b, err, imm, v) ==
  IF b.pc = "idle" /\ ~err /\ (imm # 0 \/ NeedsCompaction(v))
    THEN [pc |-> "scheduled"] ELSE b

-----------------------------------------------------------------------------
(* The write path.                                                         *)

(* SignalAll on background_work_finished_signal_. *)
Awakened(T) ==
  [t \in Thread |-> IF T[t].pc = "bgwait" THEN [T[t] EXCEPT !.pc = "bgwoken"] ELSE T[t]]

(* Mutant of HeadSignalled: the new head is left asleep. *)
NobodySignalled(T, q) == T

(* Signal to the new head of the queue. *)
HeadSignalled(T, q) ==
  IF q # <<>> /\ T[Head(q)].pc = "queued" THEN [T EXCEPT ![Head(q)].pc = "woken"] ELSE T

(* The entries of the group a leader builds from queue q. *)
GroupEntry(q, i) ==
  [seq |-> vset.last_sequence + i, key |-> th[q[i]].key, val |-> th[q[i]].val]

(* BuildBatchGroup: every writer now in the queue joins the leader.        *)
BuildBatchGroup(T, t, q) == [T EXCEPT ![t].pc = "logging", ![t].group = Len(q)]

(* Mutant of SwitchMemTable: the memtable is not reset. *)
SwitchOnlyLog(err) ==
  LET log == vset.next_file IN
  /\ vset' = [vset EXCEPT !.next_file = @ + 1]
  /\ disk' = [disk EXCEPT !.logs = WithFile(@, log, <<>>)]
  /\ mems' = WithFile(mems, log, mems[db.mem])
  /\ db' = [db EXCEPT !.mem = log, !.imm = db.mem, !.bg_error = err]

(* A new log and an empty memtable; the old one waits for compaction. *)
SwitchMemTable(err) ==
  LET log == vset.next_file IN
  /\ vset' = [vset EXCEPT !.next_file = @ + 1]
  /\ disk' = [disk EXCEPT !.logs = WithFile(@, log, <<>>)]
  /\ mems' = WithFile(mems, log, {})
  /\ db' = [db EXCEPT !.mem = log, !.imm = db.mem, !.bg_error = err]

(* A Put that fails before anything of it was logged. *)
Refused(t, q, T) ==
  /\ writers' = Tail(q)
  /\ th' = HeadSignalled([T EXCEPT ![t] = Idle], Tail(q))

(* MakeRoomForWrite and the rest of Write up to the first unlock, run by   *)
(* the head t of queue q with the threads in states T and bounds at b.     *)
MakeRoomForWrite(t, q, T, b) ==
  LET l0 == Cardinality(vset.files[0])
      delay == ~T[t].slept /\ l0 >= L0_SlowdownWritesTrigger
      full == ~db.bg_error /\ ~delay /\ Cardinality(mems[db.mem]) > WriteBufferSize
      wait == db.imm # 0 \/ l0 >= L0_StopWritesTrigger
  IN
  \/ db.bg_error /\ Refused(t, q, T) /\ bounds' = b /\ UNCHANGED <<disk, db, vset, mems, bg>>
  \/ /\ full /\ ~wait /\ b.faults < MaxFaults     \* the new log cannot be created:
     /\ Refused(t, q, T)                           \* its number is given back, and
     /\ bounds' = [b EXCEPT !.faults = @ + 1]      \* this Put alone fails
     /\ UNCHANGED <<disk, db, vset, mems, bg>>
  \/ /\ ~db.bg_error /\ delay
     /\ writers' = q
     /\ th' = [T EXCEPT ![t].pc = "delayed", ![t].slept = TRUE]
     /\ bounds' = b /\ UNCHANGED <<disk, db, vset, mems, bg>>
  \/ /\ ~db.bg_error /\ ~delay /\ ~full                     \* there is room
     /\ writers' = q
     /\ th' = BuildBatchGroup(T, t, q)
     /\ bounds' = b /\ UNCHANGED <<disk, db, vset, mems, bg>>
  \/ /\ full /\ wait
     /\ writers' = q
     /\ th' = [T EXCEPT ![t].pc = "bgwait"]
     /\ bounds' = b /\ UNCHANGED <<disk, db, vset, mems, bg>>
  \/ /\ full /\ ~wait
     /\ SwitchMemTable(FALSE)
     /\ bg' = MaybeScheduled(bg, FALSE, db.mem, vset.files)
     /\ writers' = q
     /\ th' = BuildBatchGroup(T, t, q)
     /\ bounds' = b
  \/ /\ full /\ ~wait /\ b.faults < MaxFaults     \* closing the old log fails: a
     /\ SwitchMemTable(TRUE)                       \* background error, and this Put
     /\ Refused(t, q, T)                           \* returns it
     /\ bounds' = [b EXCEPT !.faults = @ + 1]
     /\ UNCHANGED bg

(* DB::Put, DBImpl::Write: join the queue; the head goes on, the others    *)
(* wait on their condition variable.                                       *)
Write(t, k) ==
  /\ db.state = "open" /\ th[t].pc = "idle" /\ bounds.puts < MaxPuts
  /\ LET call == [pc |-> "queued", key |-> k, val |-> bounds.puts + 1,
                  slept |-> FALSE, group |-> 0, sent |-> 0]
         T == [th EXCEPT ![t] = call]
         b == [bounds EXCEPT !.puts = @ + 1]
     IN  IF writers = <<>>
           THEN MakeRoomForWrite(t, <<t>>, T, b)
           ELSE /\ writers' = Append(writers, t)
                /\ th' = T /\ bounds' = b
                /\ UNCHANGED <<disk, db, vset, mems, bg>>
  /\ UNCHANGED <<compaction, doomed>>

(* A writer that was signalled, or whose delay is over, locks again. *)
Resume(t) ==
  /\ th[t].pc \in {"woken", "delayed", "bgwoken"}
  /\ MakeRoomForWrite(t, writers, th, bounds)
  /\ UNCHANGED <<compaction, doomed>>

(* log::Writer::AddRecord, one flushed fragment of the group's record.     *)
AddRecord(t) ==
  LET n == th[t].group
      i == th[t].sent + 1
      type == CASE n = 1 -> "full" [] n > 1 /\ i = 1 -> "first"
                [] n > 1 /\ i = n -> "last" [] OTHER -> "middle"
  IN  /\ th[t].pc = "logging"
      /\ disk' = [disk EXCEPT !.logs[db.mem] =
                    Append(@, [type |-> type, entry |-> GroupEntry(writers, i)])]
      /\ th' = [th EXCEPT ![t].sent = i, ![t].pc = IF i = n THEN "logged" ELSE "logging"]
      /\ UNCHANGED <<db, vset, mems, writers, bg, compaction, doomed, bounds>>

(* Mutant of FinishWrite: only the leader leaves the queue. *)
FinishLeader(t) ==
  LET n == th[t].group
      group == {writers[i] : i \in 1 .. n}
      T == [u \in Thread |-> IF u = t THEN Idle
                             ELSE IF u \in group THEN [th[u] EXCEPT !.pc = "done"]
                             ELSE th[u]]
  IN  /\ th[t].pc = "logged"
      /\ mems' = [mems EXCEPT ![db.mem] = @ \cup {GroupEntry(writers, i) : i \in 1 .. n}]
      /\ vset' = [vset EXCEPT !.last_sequence = @ + n]
      /\ writers' = Tail(writers)
      /\ th' = HeadSignalled(T, Tail(writers))
      /\ UNCHANGED <<disk, db, bg, compaction, doomed, bounds>>

(* The end of Write: InsertInto the memtable, publish the sequence         *)
(* numbers, answer the group and wake the new head.                        *)
FinishWrite(t) ==
  LET n == th[t].group
      group == {writers[i] : i \in 1 .. n}
      rest == SubSeq(writers, n + 1, Len(writers))
      T == [u \in Thread |-> IF u = t THEN Idle
                             ELSE IF u \in group THEN [th[u] EXCEPT !.pc = "done"]
                             ELSE th[u]]
  IN  /\ th[t].pc = "logged"
      /\ mems' = [mems EXCEPT ![db.mem] = @ \cup {GroupEntry(writers, i) : i \in 1 .. n}]
      /\ vset' = [vset EXCEPT !.last_sequence = @ + n]
      /\ writers' = rest
      /\ th' = HeadSignalled(T, rest)
      /\ UNCHANGED <<disk, db, bg, compaction, doomed, bounds>>

(* A writer of the group finds done set and returns. *)
Return(t) ==
  /\ th[t].pc = "done"
  /\ th' = [th EXCEPT ![t] = Idle]
  /\ UNCHANGED <<disk, db, vset, mems, writers, bg, compaction, doomed, bounds>>

-----------------------------------------------------------------------------
(* DBImpl::Get: a snapshot and references to both memtables and to the     *)
(* current version are taken under mutex_, the search runs without it,     *)
(* while others write and the background thread compacts.  seen keeps what *)
(* the search finds if it runs at once.                                    *)

Get(t, k) ==
  /\ db.state = "open" /\ th[t].pc = "idle" /\ <<t, k>> \in Reads
  /\ th' = [th EXCEPT ![t] =
              [pc |-> "reading", key |-> k, snapshot |-> vset.last_sequence,
               mem |-> db.mem, imm |-> db.imm, files |-> vset.files,
               seen |-> Lookup(k, vset.last_sequence, db.mem, db.imm, vset.files)]]
  /\ UNCHANGED <<disk, db, vset, mems, writers, bg, compaction, doomed, bounds>>

(* The search is over; the last reference to a memtable frees it. *)
Referenced(T, d) ==
  ({d.mem, d.imm} \cup UNION {{T[t].mem, T[t].imm} : t \in {u \in Thread : T[u].pc = "reading"}}) \ {0}

GetReturns(t) ==
  /\ th[t].pc = "reading"
  /\ th' = [th EXCEPT ![t] = Idle]
  /\ mems' = Restrict(mems, Referenced(th', db))
  /\ UNCHANGED <<disk, db, vset, writers, bg, compaction, doomed, bounds>>

-----------------------------------------------------------------------------
(* Version edits, the MANIFEST and the removal of obsolete files.          *)

NoEdit == [del |-> NoFiles, add |-> NoFiles]
AddFile(l, n) == [NoEdit EXCEPT !.add[l] = {n}]

(* VersionSet::Builder. *)
Edited(files, edit) == [l \in Level |-> (files[l] \ edit.del[l]) \cup edit.add[l]]

(* SaveTo and MaybeAddFile check that the files of a level above 0 do not  *)
(* overlap, in the order of internal keys: user keys up, sequence numbers  *)
(* down.  A version that does not pass ends a "debug" build of the server; *)
(* in a "release" build NDEBUG removed the checks.  Only Recover meets one *)
(* that may not pass: where it was checked, LogAndApply keeps the levels   *)
(* apart (LevelsDisjoint).                                                 *)
Precedes(m, n) ==
  \A e \in disk.tables[m], f \in disk.tables[n] :
    e.key < f.key \/ (e.key = f.key /\ e.seq > f.seq)
MustNotOverlap(v) ==
  \A l \in Level \ {0} : \A m, n \in v[l] : m # n => Precedes(m, n) \/ Precedes(n, m)

(* LogAndApply up to the unlock: the record to write. *)
Logged(kind, edit, log_number) ==
  [pc |-> "manifest", kind |-> kind, edit |-> edit, log_number |-> log_number,
   next_file |-> vset.next_file, last_sequence |-> vset.last_sequence]

(* The version a MANIFEST holds after one more record. *)
WithRecord(m, r) ==
  [files |-> Edited(m.files, r.edit), log_number |-> r.log_number,
   next_file |-> r.next_file, last_sequence |-> r.last_sequence]

(* Mutant of LiveFiles: only the current version counts. *)
LiveInCurrent(v, c) == FilesOf(v.files)

(* AddLiveFiles: the files of every version somebody refers to. *)
LiveFiles(v, c) ==
  FilesOf(v.files)
    \cup (IF c = NoCompaction THEN {} ELSE FilesOf(c.files))
    \cup UNION {FilesOf(th[t].files) : t \in {u \in Thread : th[u].pc = "reading"}}

(* Mutant of ObsoleteFiles: every log but that of mem_ is obsolete. *)
ObsoleteBeforeMem(d, v, c) ==
  IF d.bg_error THEN {}
  ELSE {<<"log", n>> : n \in {m \in DOMAIN disk.logs : m < d.mem}}
         \cup {<<"manifest", n>> : n \in {m \in DOMAIN disk.manifests : m < v.manifest}}
         \cup {<<"table", n>> : n \in DOMAIN disk.tables \ (d.pending \cup LiveFiles(v, c))}

(* Mutant of ObsoleteFiles: pending_outputs_ is not looked at. *)
ObsoletePending(d, v, c) ==
  IF d.bg_error THEN {}
  ELSE {<<"log", n>> : n \in {m \in DOMAIN disk.logs : m < v.log_number}}
         \cup {<<"manifest", n>> : n \in {m \in DOMAIN disk.manifests : m < v.manifest}}
         \cup {<<"table", n>> : n \in DOMAIN disk.tables \ LiveFiles(v, c)}

(* RemoveObsoleteFiles, the part that runs with mutex_ held. *)
ObsoleteFiles(d, v, c) ==
  IF d.bg_error THEN {}
  ELSE {<<"log", n>> : n \in {m \in DOMAIN disk.logs : m < v.log_number}}
         \cup {<<"manifest", n>> : n \in {m \in DOMAIN disk.manifests : m < v.manifest}}
         \cup {<<"table", n>> : n \in DOMAIN disk.tables \ (d.pending \cup LiveFiles(v, c))}

(* The disk after the files of S are unlinked. *)
Removed(S) ==
  LET Left(type, f) == Restrict(f, {n \in DOMAIN f : <<type, n>> \notin S})
  IN  [disk EXCEPT !.logs = Left("log", @), !.manifests = Left("manifest", @),
                   !.tables = Left("table", @)]

(* The unlocked part: nobody else looks at these files, and only a crash   *)
(* shows that they go one by one.                                          *)
RemoveObsoleteFiles ==
  /\ doomed # {}
  /\ disk' = Removed(doomed)
  /\ doomed' = {}
  /\ UNCHANGED <<db, vset, mems, writers, th, bg, compaction, bounds>>

-----------------------------------------------------------------------------
(* The background thread.                                                  *)

(* The end of BackgroundCall; the threads are in states T. *)
FinishCall(T, err, imm, files) ==
  /\ bg' = MaybeScheduled(Idle, err, imm, files)
  /\ th' = Awakened(T)

(* CompactMemTable returns: into DoCompactionWork if that called it, which *)
(* signals the waiting writers and goes on with its entry, else to the end *)
(* of BackgroundCall.                                                      *)
MemTableDone(err, imm, files) ==
  IF compaction # NoCompaction
    THEN bg' = [pc |-> "entry"] /\ th' = Awakened(th)
    ELSE FinishCall(th, err, imm, files)

(* WriteLevel0Table allocates the number of the table, then unlocks. *)
CompactMemTable ==
  /\ vset' = [vset EXCEPT !.next_file = @ + 1]
  /\ db' = [db EXCEPT !.pending = @ \cup {vset.next_file}]
  /\ bg' = [pc |-> "build", file |-> vset.next_file]

BuildTable ==
  /\ bg.pc = "build"
  /\ disk' = [disk EXCEPT !.tables = WithFile(@, bg.file, mems[db.imm])]
  /\ bg' = [bg EXCEPT !.pc = "built"]
  /\ UNCHANGED <<db, vset, mems, writers, th, compaction, doomed, bounds>>

(* The file system refuses the table: BuildTable removes it and            *)
(* CompactMemTable records the error.                                      *)
BuildTableFails ==
  /\ bg.pc = "build" /\ bounds.faults < MaxFaults
  /\ Count("faults")
  /\ db' = [db EXCEPT !.bg_error = TRUE, !.pending = @ \ {bg.file}]
  /\ MemTableDone(TRUE, db.imm, vset.files)
  /\ UNCHANGED <<disk, vset, mems, writers, compaction, doomed>>

(* Mutant of PickLevelForMemTableOutput: the overlaps below level 0 are    *)
(* not looked at.                                                          *)
PickDeepest(v, n) ==
  IF Overlapping(v[0], Smallest(n), Largest(n)) # {} THEN 0 ELSE MaxMemCompactLevel

PickLevelForMemTableOutput(v, n) ==
  LET Free(l) == Overlapping(v[l], Smallest(n), Largest(n)) = {}
  IN  IF ~Free(0) THEN 0
      ELSE Max({l \in 0 .. MaxMemCompactLevel : \A j \in 1 .. l : Free(j)})

(* The end of WriteLevel0Table and the start of LogAndApply. *)
LogMemTable ==
  /\ bg.pc = "built"
  /\ db' = [db EXCEPT !.pending = @ \ {bg.file}]
  /\ bg' = Logged("memtable", AddFile(PickLevelForMemTableOutput(vset.files, bg.file), bg.file),
                  db.mem)
  /\ UNCHANGED <<disk, vset, mems, writers, th, compaction, doomed, bounds>>

(* PickCompaction: the files of level l that are compacted when f is       *)
(* picked, and SetupOtherInputs: the overlapping files of the next level,  *)
(* and more files of level l where that adds none to the next level.       *)
(* AddBoundaryInputs is left out, it finds no file to add: those of level  *)
(* 0 that share a user key are inputs already, and those of another level  *)
(* share none or are equal (LevelsDisjoint).                               *)
PickedInputs(v, l, f) ==
  IF l = 0 THEN GetOverlappingInputs(v, 0, Smallest(f), Largest(f)) ELSE {f}

(* Mutant of NextLevelInputs: files of the next level that only end in the *)
(* range are missed.                                                       *)
NextLevelInside(v, l, in0) ==
  {n \in v[l + 1] : Smallest(n) > Hull(in0)[1] /\ Smallest(n) <= Hull(in0)[2]}

NextLevelInputs(v, l, in0) == GetOverlappingInputs(v, l + 1, Hull(in0)[1], Hull(in0)[2])

SetupOtherInputs(v, l, in0, in1) ==
  LET all == Hull(in0 \cup in1)
      grown == GetOverlappingInputs(v, l, all[1], all[2])
  IN  IF /\ in1 # {} /\ Cardinality(grown) > Cardinality(in0)
         /\ Cardinality(NextLevelInputs(v, l, grown)) = Cardinality(in1)
        THEN <<grown, NextLevelInputs(v, l, grown)>>
        ELSE <<in0, in1>>

IsTrivialMove(inputs) == Cardinality(inputs[1]) = 1 /\ inputs[2] = {}

StartCompaction(l, inputs) ==
  [level |-> l, inputs |-> inputs, files |-> vset.files,
   todo |-> UNION {disk.tables[n] : n \in inputs[1] \cup inputs[2]},
   prev |-> [key |-> -1, seq |-> 0], smallest_snapshot |-> vset.last_sequence,
   outputs |-> {}, builder |-> 0]

(* BackgroundCall up to the first unlock.  Which file of the level comes   *)
(* next depends on compact_pointer_, which is left open.                   *)
BackgroundCall ==
  /\ bg.pc = "scheduled"
  /\ \/ /\ db.bg_error
        /\ FinishCall(th, TRUE, db.imm, vset.files)
        /\ UNCHANGED <<db, vset, compaction>>
     \/ /\ ~db.bg_error /\ db.imm # 0
        /\ CompactMemTable
        /\ UNCHANGED <<th, compaction>>
     \/ /\ ~db.bg_error /\ db.imm = 0 /\ NeedsCompaction(vset.files)
        /\ \E l \in {m \in Level : CompactionLevel(vset.files, m)} :
           \E f \in vset.files[l] :
           \E in0 \in {PickedInputs(vset.files, l, f)} :
           \E in1 \in {NextLevelInputs(vset.files, l, in0)} :
           \E inputs \in {SetupOtherInputs(vset.files, l, in0, in1)} :
             IF IsTrivialMove(inputs)
               THEN /\ bg' = Logged("move", [del |-> [NoFiles EXCEPT ![l] = inputs[1]],
                                             add |-> [NoFiles EXCEPT ![l + 1] = inputs[1]]],
                                    vset.log_number)
                    /\ UNCHANGED compaction
               ELSE /\ bg' = [pc |-> "work"]
                    /\ compaction' = StartCompaction(l, inputs)
        /\ UNCHANGED <<db, vset, th>>
  /\ UNCHANGED <<disk, mems, writers, doomed, bounds>>

(* DoCompactionWork puts a memtable that waits first.  has_imm_ is read    *)
(* without mutex_, so an iteration may also miss it.                       *)
CompactMemTableFirst ==
  /\ bg.pc = "work" /\ compaction.todo # {} /\ db.imm # 0
  /\ CompactMemTable
  /\ UNCHANGED <<disk, mems, writers, th, compaction, doomed, bounds>>

(* One iteration of DoCompactionWork: an entry hidden by a newer one of    *)
(* its key is dropped, another goes to the output file, which is opened    *)
(* when there is none and closed when it is full.                          *)
CompactEntry ==
  LET c == compaction
      e == CHOOSE x \in c.todo :
             \A y \in c.todo : x.key < y.key \/ (x.key = y.key /\ x.seq >= y.seq)
      drop == c.prev.key = e.key /\ c.prev.seq <= c.smallest_snapshot
      out == IF c.builder = 0 THEN vset.next_file ELSE c.builder
      content == {e} \cup IF c.builder = 0 THEN {} ELSE disk.tables[out]
      next == [c EXCEPT !.todo = @ \ {e}, !.prev = [key |-> e.key, seq |-> e.seq]]
  IN  /\ bg.pc \in {"work", "entry"} /\ c.todo # {}
      /\ bg' = [pc |-> "work"]
      /\ \/ /\ drop
            /\ compaction' = next
            /\ UNCHANGED <<disk, db, vset>>
         \/ /\ ~drop
            /\ disk' = [disk EXCEPT !.tables = WithFile(@, out, content)]
            /\ compaction' = [next EXCEPT
                 !.outputs = @ \cup {out},
                 !.builder = IF Cardinality(content) >= MaxOutputEntries THEN 0 ELSE out]
            /\ db' = [db EXCEPT !.pending = @ \cup {out}]
            /\ vset' = [vset EXCEPT !.next_file = IF c.builder = 0 THEN @ + 1 ELSE @]
      /\ UNCHANGED <<mems, writers, th, doomed, bounds>>

(* InstallCompactionResults up to the unlock of LogAndApply. *)
InstallCompactionResults ==
  LET c == compaction IN
  /\ bg.pc = "work" /\ c.todo = {}
  /\ bg' = Logged("compaction",
                  [del |-> [NoFiles EXCEPT ![c.level] = c.inputs[1], ![c.level + 1] = c.inputs[2]],
                   add |-> [NoFiles EXCEPT ![c.level + 1] = c.outputs]],
                  vset.log_number)
  /\ UNCHANGED <<disk, db, vset, mems, writers, th, compaction, doomed, bounds>>

(* An output file cannot be written: the compaction is given up, and       *)
(* RemoveObsoleteFiles leaves its files alone.                             *)
CompactionFails ==
  /\ bg.pc \in {"work", "entry"} /\ bounds.faults < MaxFaults
  /\ Count("faults")
  /\ db' = [db EXCEPT !.bg_error = TRUE, !.pending = @ \ compaction.outputs]
  /\ compaction' = NoCompaction
  /\ FinishCall(th, TRUE, db.imm, vset.files)
  /\ UNCHANGED <<disk, vset, mems, writers, doomed>>

(* LogAndApply without mutex_: the record reaches the MANIFEST. *)
WriteManifest ==
  /\ bg.pc = "manifest"
  /\ disk' = [disk EXCEPT !.manifests[vset.manifest] = WithRecord(@, bg)]
  /\ bg' = [bg EXCEPT !.pc = "install"]
  /\ UNCHANGED <<db, vset, mems, writers, th, compaction, doomed, bounds>>

(* AddRecord or Sync fails, before or after the record was written; the    *)
(* version is not installed and every later write is refused.              *)
ManifestFails ==
  /\ bg.pc = "manifest" /\ bounds.faults < MaxFaults
  /\ Count("faults")
  /\ \/ UNCHANGED disk
     \/ disk' = [disk EXCEPT !.manifests[vset.manifest] = WithRecord(@, bg)]
  /\ db' = [db EXCEPT !.bg_error = TRUE,
              !.pending = IF bg.kind = "compaction" THEN @ \ compaction.outputs ELSE @]
  /\ \/ bg.kind = "memtable" /\ MemTableDone(TRUE, db.imm, vset.files) /\ UNCHANGED compaction
     \/ /\ bg.kind # "memtable"
        /\ compaction' = NoCompaction
        /\ FinishCall(th, TRUE, db.imm, vset.files)
  /\ UNCHANGED <<vset, mems, writers, doomed>>

(* The end of LogAndApply and what its caller does next with mutex_ held.  *)
Installed == [vset EXCEPT !.files = Edited(@, bg.edit), !.log_number = bg.log_number]

Install ==
  /\ bg.pc = "install"
  /\ vset' = Installed
  /\ \/ /\ bg.kind = "memtable"
        /\ db' = [db EXCEPT !.imm = 0]
        /\ mems' = Restrict(mems, Referenced(th, db'))
        /\ doomed' = ObsoleteFiles(db', Installed, compaction)
        /\ bg' = [pc |-> "delete", kind |-> "memtable"]
        /\ UNCHANGED <<th, compaction>>
     \/ /\ bg.kind = "compaction"
        /\ db' = [db EXCEPT !.pending = @ \ compaction.outputs]
        /\ compaction' = NoCompaction
        /\ doomed' = ObsoleteFiles(db', Installed, NoCompaction)
        /\ bg' = [pc |-> "delete", kind |-> "compaction"]
        /\ UNCHANGED <<th, mems>>
     \/ /\ bg.kind = "move"
        /\ FinishCall(th, db.bg_error, db.imm, Installed.files)
        /\ UNCHANGED <<db, mems, doomed, compaction>>
  /\ UNCHANGED <<disk, writers, bounds>>

(* RemoveObsoleteFiles has locked mutex_ again. *)
ObsoleteFilesRemoved ==
  /\ bg.pc = "delete" /\ doomed = {}
  /\ \/ bg.kind = "memtable" /\ MemTableDone(db.bg_error, db.imm, vset.files)
     \/ bg.kind = "compaction" /\ FinishCall(th, db.bg_error, db.imm, vset.files)
  /\ UNCHANGED <<disk, db, vset, mems, writers, compaction, doomed, bounds>>

-----------------------------------------------------------------------------
(* DB::Open and crashes.                                                   *)

(* NewDB: MANIFEST-000001 and a CURRENT that names it. *)
NewDB ==
  [disk EXCEPT !.current = 1,
     !.manifests = WithFile(@, 1, [files |-> NoFiles, log_number |-> 0, next_file |-> 2,
                                   last_sequence |-> 0])]

(* Recover: the version of the MANIFEST that CURRENT names, if it passes   *)
(* the assertions of the Builder and its files are there, and the logs     *)
(* that are not yet in it.  A file of any type with the number counts as   *)
(* present.                                                                *)
Recover ==
  /\ db.state = "closed"
  /\ disk' = IF disk.current = 0 THEN NewDB ELSE disk
  /\ LET m == disk'.manifests[disk'.current]
         present == DOMAIN disk.tables \cup DOMAIN disk.logs \cup DOMAIN disk.manifests
     IN  \/ /\ "debug" \in Builds /\ ~MustNotOverlap(m.files)
            /\ db' = [Closed EXCEPT !.state = "aborted"]
            /\ UNCHANGED <<vset, bg>>
         \/ /\ "release" \in Builds \/ MustNotOverlap(m.files)
            /\ vset' = [files |-> m.files, log_number |-> m.log_number,
                        next_file |-> m.next_file + 1, manifest |-> m.next_file,
                        last_sequence |-> m.last_sequence]
            /\ db' = [Closed EXCEPT !.state =
                        IF FilesOf(m.files) \subseteq present THEN "recovering" ELSE "corrupt"]
            /\ bg' = [pc |-> "open", edit |-> NoEdit, max_sequence |-> 0,
                      logs |-> {n \in DOMAIN disk.logs : n >= m.log_number}]
  /\ UNCHANGED <<mems, writers, th, compaction, doomed, bounds>>

(* log::Reader: the records of a log, each a set of entries.  A record     *)
(* without its last fragment is dropped.                                   *)
ReadFragment(acc, f) ==
  CASE f.type = "full"   -> [records |-> Append(acc.records, {f.entry}), scratch |-> {}]
    [] f.type = "first"  -> [acc EXCEPT !.scratch = {f.entry}]
    [] f.type = "middle" -> [acc EXCEPT !.scratch = @ \cup {f.entry}]
    [] f.type = "last"   -> [records |-> Append(acc.records, acc.scratch \cup {f.entry}),
                             scratch |-> {}]
ReadRecords(log) == FoldLeft(ReadFragment, [records |-> <<>>, scratch |-> {}], log).records

(* RecoverLogFile: the records fill memtables, and each one that is full,  *)
(* or the last, becomes a level-0 table.                                   *)
InsertRecord(tables, r) ==
  IF tables # <<>> /\ Cardinality(Last(tables)) <= WriteBufferSize
    THEN Front(tables) \o <<Last(tables) \cup r>>
    ELSE Append(tables, r)
TablesOfLog(log) == FoldLeft(InsertRecord, <<>>, ReadRecords(log))

RecoverLogFile ==
  /\ db.state = "recovering" /\ bg.logs # {}
  /\ LET n == Min(bg.logs)
         full == TablesOfLog(disk.logs[n])
         numbers == vset.next_file .. vset.next_file + Len(full) - 1
         seqs == {e.seq : e \in UNION Range(full)}
     IN  /\ disk' = [disk EXCEPT !.tables = [i \in numbers \cup DOMAIN @ |->
                         IF i \in numbers THEN full[i - vset.next_file + 1] ELSE @[i]]]
         /\ vset' = [vset EXCEPT !.next_file = Max({@ + Len(full), n + 1})]
         /\ bg' = [bg EXCEPT !.logs = @ \ {n}, !.edit.add[0] = @ \cup numbers,
                             !.max_sequence = Max({@} \cup seqs)]
  /\ UNCHANGED <<db, mems, writers, th, compaction, doomed, bounds>>

(* The rest of DB::Open: a new log and memtable, and a new MANIFEST with a *)
(* snapshot of the version and the edit of the recovery ...                *)
NewManifest ==
  /\ db.state = "recovering" /\ bg.logs = {}
  /\ LET log == vset.next_file
         last == Max({vset.last_sequence, bg.max_sequence})
     IN  /\ vset' = [vset EXCEPT !.next_file = log + 1, !.last_sequence = last,
                       !.files = Edited(@, bg.edit), !.log_number = log]
         /\ disk' = [disk EXCEPT !.logs = WithFile(@, log, <<>>),
                       !.manifests = WithFile(@, vset.manifest,
                          [files |-> Edited(vset.files, bg.edit), log_number |-> log,
                           next_file |-> log + 1, last_sequence |-> last])]
         /\ db' = [db EXCEPT !.state = "opening", !.mem = log]
         /\ mems' = [i \in {log} |-> {}]
  /\ UNCHANGED <<writers, th, bg, compaction, doomed, bounds>>

(* ... that SetCurrentFile installs with a rename, after which the files   *)
(* of the previous incarnation are removed.                                *)
SetCurrentFile ==
  /\ db.state = "opening" /\ disk.current # vset.manifest
  /\ disk' = [disk EXCEPT !.current = vset.manifest]
  /\ doomed' = ObsoleteFiles(db, vset, NoCompaction)
  /\ UNCHANGED <<db, vset, mems, writers, th, bg, compaction, bounds>>

OpenReturns ==
  /\ db.state = "opening" /\ disk.current = vset.manifest /\ doomed = {}
  /\ db' = [db EXCEPT !.state = "open"]
  /\ bg' = MaybeScheduled(Idle, FALSE, 0, vset.files)
  /\ UNCHANGED <<disk, vset, mems, writers, th, compaction, doomed, bounds>>

(* The process dies, perhaps while it removes files; what it wrote to      *)
(* files stays.                                                            *)
Crash ==
  /\ db.state # "closed" /\ bounds.crashes < MaxCrashes
  /\ Count("crashes")
  /\ db' = Closed /\ vset' = NewVersionSet /\ mems' = <<>>
  /\ writers' = <<>> /\ th' = [t \in Thread |-> Idle]
  /\ bg' = Idle /\ compaction' = NoCompaction /\ doomed' = {}
  /\ \E S \in SUBSET doomed : disk' = Removed(S)

-----------------------------------------------------------------------------
(* The server starts in an empty directory, or where an earlier run left a *)
(* table in level 1 and a newer value of its key in the log.               *)
NoDatabase == [current |-> 0, manifests |-> <<>>, logs |-> <<>>, tables |-> <<>>]

OldDatabase ==
  LET k == Min(Key) IN
  [current |-> 5,
   manifests |-> [i \in {5} |-> [files |-> [NoFiles EXCEPT ![1] = {6}], log_number |-> 7,
                                 next_file |-> 8, last_sequence |-> 1]],
   logs |-> [i \in {7} |-> <<[type |-> "full", entry |-> [seq |-> 2, key |-> k, val |-> 1]]>>],
   tables |-> [i \in {6} |-> {[seq |-> 1, key |-> k, val |-> 0]}]]

NothingYet == [puts |-> 0, crashes |-> 0, faults |-> 0]

LevelDBInit ==
  /\ \/ disk = NoDatabase /\ bounds = NothingYet
     \/ disk = OldDatabase /\ bounds = [NothingYet EXCEPT !.puts = 1]
  /\ db = Closed /\ vset = NewVersionSet /\ mems = <<>>
  /\ writers = <<>> /\ th = [t \in Thread |-> Idle]
  /\ bg = Idle /\ compaction = NoCompaction /\ doomed = {}

ThreadStep(t) ==
  Resume(t) \/ AddRecord(t) \/ FinishWrite(t) \/ Return(t) \/ GetReturns(t)

BackgroundStep ==
  \/ BackgroundCall \/ BuildTable \/ LogMemTable \/ CompactMemTableFirst \/ CompactEntry
  \/ InstallCompactionResults \/ WriteManifest \/ Install \/ RemoveObsoleteFiles
  \/ ObsoleteFilesRemoved

OpenStep == Recover \/ RecoverLogFile \/ NewManifest \/ SetCurrentFile \/ OpenReturns

LevelDBNext ==
  \/ \E t \in Thread, k \in Key : Write(t, k) \/ Get(t, k)
  \/ \E t \in Thread : ThreadStep(t)
  \/ BackgroundStep \/ OpenStep
  \/ BuildTableFails \/ CompactionFails \/ ManifestFails \/ Crash

LevelDBSpec == LevelDBInit /\ [][LevelDBNext]_ldbVars

(* Every thread keeps running: the scheduler of the operating system and   *)
(* a mutex that is always released.                                        *)
LevelDBFairSpec ==
  /\ LevelDBSpec
  /\ \A t \in Thread : WF_ldbVars(ThreadStep(t))
  /\ WF_ldbVars(BackgroundStep) /\ WF_ldbVars(OpenStep)
=============================================================================
