--------------------------- MODULE LevelDBProofs ---------------------------
(***************************************************************************)
(* The store, for any keys, threads, limits and bounds: no file that       *)
(* somebody needs is removed, whatever fails and whenever the process      *)
(* ends.  Then what the proofs of LevelsProofs rest on: the queue of       *)
(* writers, and the entries that logs, memtables and tables hold.          *)
(***************************************************************************)
EXTENDS LevelDBProps, FiniteSetTheorems, SequenceTheorems, WellFoundedInduction, TLAPS

(***************************************************************************)
(* The invariant.                                                          *)
(***************************************************************************)

(* The fields of the records the program changes one by one. *)
DiskShape == disk = [current |-> disk.current, manifests |-> disk.manifests,
                     logs |-> disk.logs, tables |-> disk.tables]
DBShape == db = [state |-> db.state, mem |-> db.mem, imm |-> db.imm,
                 bg_error |-> db.bg_error, pending |-> db.pending]
VersionSetShape == vset = [files |-> vset.files, log_number |-> vset.log_number,
                           next_file |-> vset.next_file, last_sequence |-> vset.last_sequence,
                           manifest |-> vset.manifest]

WriterPcs == {"queued", "woken", "delayed", "bgwait", "bgwoken", "logging", "logged", "done"}

ThreadShape(r) == "pc" \in DOMAIN r

Shapes ==
  /\ DiskShape /\ DBShape /\ VersionSetShape
  /\ DOMAIN th = Thread /\ \A t \in Thread : ThreadShape(th[t])
  /\ db.state \in {"closed", "recovering", "opening", "open", "aborted"}
  /\ DOMAIN disk.logs \subseteq Nat

Tables == DOMAIN disk.tables

(* The files of v are among the tables S, with numbers below n. *)
Held(S, v, n) == \A f \in FilesOf(v) : f \in S /\ f \in Nat /\ f < n

UnderCurrent == disk.manifests[disk.current]

(* A restart from what is on disk finds every file, and hands out none of  *)
(* their numbers again.                                                    *)
CurrentHeld ==
  /\ disk.current = 0 => db.state = "closed"
  /\ disk.current # 0 =>
       /\ disk.current \in DOMAIN disk.manifests
       /\ disk.current \in Nat /\ UnderCurrent.next_file \in Nat
       /\ disk.current < UnderCurrent.next_file
       /\ Held(Tables, UnderCurrent.files, UnderCurrent.next_file)

(* Before the store is open nobody is at work. *)
NobodyYet ==
  db.state # "open" =>
    /\ compaction = NoCompaction /\ \A t \in Thread : th[t].pc = "idle"
    /\ bg.pc \in {"idle", "open"}
    /\ db.state # "opening" => doomed = {}

RecoveringInv ==
  db.state = "recovering" =>
    /\ vset.files = UnderCurrent.files /\ vset.manifest = UnderCurrent.next_file
    /\ vset.next_file \in Nat /\ vset.manifest < vset.next_file
    /\ bg = [pc |-> "open", edit |-> bg.edit, max_sequence |-> bg.max_sequence, logs |-> bg.logs]
    /\ bg.edit = [del |-> bg.edit.del, add |-> bg.edit.add]
    /\ DOMAIN bg.edit.add = Level /\ Held(Tables, bg.edit.add, vset.next_file)
    /\ bg.logs \subseteq DOMAIN disk.logs
    /\ db.imm = 0 /\ db.bg_error = FALSE

OpeningInv ==
  db.state = "opening" =>
    /\ vset.manifest \in DOMAIN disk.manifests /\ vset.manifest # 0
    /\ disk.manifests[vset.manifest].files = vset.files
    /\ disk.manifests[vset.manifest].next_file = vset.next_file
    /\ db.imm = 0 /\ db.bg_error = FALSE
    /\ doomed # {} => disk.current = vset.manifest

(* The logs of both memtables are on disk, and newer than what the version *)
(* covers.                                                                 *)
LogsHeld ==
  /\ vset.log_number \in Nat /\ db.mem \in Nat /\ db.imm \in Nat
  /\ db.mem \in DOMAIN disk.logs /\ vset.log_number <= db.mem /\ db.mem < vset.next_file
  /\ db.imm # 0 => db.imm \in DOMAIN disk.logs /\ vset.log_number <= db.imm

(* Nothing that is about to be unlinked is needed. *)
Outputs(c) == IF c = NoCompaction THEN {} ELSE c.outputs
Needed == LiveFiles(vset, compaction) \cup Outputs(compaction) \cup FilesOf(UnderCurrent.files)

DoomedUnneeded ==
  \A d \in doomed :
    /\ d[1] = "log" => d[2] < vset.log_number
    /\ d[1] = "manifest" => d[2] < vset.manifest
    /\ d[1] = "table" => d[2] \notin Needed

ServingInv ==
  db.state \in {"opening", "open"} =>
    /\ vset.next_file \in Nat /\ vset.manifest \in Nat /\ vset.manifest < vset.next_file
    /\ Held(Tables, vset.files, vset.next_file)
    /\ LogsHeld /\ DoomedUnneeded

(* The compaction's own files. *)
CompactionInv ==
  compaction # NoCompaction =>
    /\ {"todo", "prev", "files", "outputs", "builder"} \subseteq DOMAIN compaction
    /\ Held(Tables, compaction.files, vset.next_file)
    /\ compaction.outputs \subseteq Tables \cap db.pending
    /\ \A o \in compaction.outputs : o \in Nat /\ o < vset.next_file /\ o \notin FilesOf(vset.files)
    /\ compaction.builder \in compaction.outputs \cup {0}

(* A Get runs on a version all of whose files stay and are no outputs of   *)
(* the compaction under way.                                               *)
Reading(t) == th[t].pc = "reading"

ReadersInv ==
  \A t \in Thread : Reading(t) =>
    /\ Held(Tables, th[t].files, vset.next_file)
    /\ compaction # NoCompaction => FilesOf(th[t].files) \cap compaction.outputs = {}

(* The table of a memtable belongs to nobody yet. *)
Unclaimed(n) ==
  /\ n \in Nat /\ n < vset.next_file /\ n \notin FilesOf(vset.files)
  /\ n \notin Outputs(compaction)

BuildInv ==
  /\ bg = [pc |-> bg.pc, file |-> bg.file]
  /\ db.imm # 0 /\ Unclaimed(bg.file)
  /\ bg.pc = "built" => bg.file \in Tables

(* A version edit on its way to the MANIFEST. *)
EditInv ==
  /\ bg = [pc |-> bg.pc, kind |-> bg.kind, edit |-> bg.edit, log_number |-> bg.log_number,
           next_file |-> bg.next_file, last_sequence |-> bg.last_sequence]
  /\ bg.next_file \in Nat /\ bg.next_file <= vset.next_file
  /\ UnderCurrent.next_file <= bg.next_file
  /\ Held(Tables, bg.edit.add, bg.next_file)
  /\ \/ /\ bg.kind = "memtable" /\ db.imm # 0 /\ bg.log_number = db.mem
        /\ FilesOf(bg.edit.add) \cap Outputs(compaction) = {}
     \/ /\ bg.kind = "compaction" /\ bg.log_number = vset.log_number
        /\ compaction # NoCompaction
     \/ /\ bg.kind = "move" /\ bg.log_number = vset.log_number
        /\ compaction = NoCompaction
  /\ bg.pc = "install" /\ ~db.bg_error => UnderCurrent.files = Edited(vset.files, bg.edit)

BackgroundInv ==
  \/ bg.pc \in {"idle", "scheduled"} /\ bg = [pc |-> bg.pc] /\ compaction = NoCompaction
  \/ bg.pc \in {"work", "entry"} /\ compaction # NoCompaction
  \/ bg.pc \in {"build", "built"} /\ BuildInv
  \/ bg.pc \in {"manifest", "install"} /\ EditInv
  \/ bg.pc = "delete" /\ (bg.kind = "memtable" \/ (bg.kind = "compaction" /\ compaction = NoCompaction))

(* While LevelDB has no error the MANIFEST holds the current version: one  *)
(* that may hold more is never followed by a removal.                      *)
OpenInv ==
  db.state = "open" =>
    /\ disk.current = vset.manifest
    /\ UnderCurrent.next_file <= vset.next_file
    /\ ~db.bg_error /\ bg.pc # "install" => UnderCurrent.files = vset.files
    /\ doomed # {} => bg.pc = "delete"
    /\ db.bg_error \in BOOLEAN
    /\ BackgroundInv /\ CompactionInv /\ ReadersInv

FilesInv ==
  /\ Shapes /\ CurrentHeld /\ NobodyYet /\ RecoveringInv /\ OpeningInv /\ ServingInv /\ OpenInv


(***************************************************************************)
(* Files of a version.                                                     *)
(***************************************************************************)

LEMMA FilesOfIs ==
  ASSUME NEW v, NEW n
  PROVE  n \in FilesOf(v) <=> \E l \in Level : n \in v[l]
BY DEF FilesOf

(* An edit adds no file but its own. *)
LEMMA FilesOfEdited ==
  ASSUME NEW v, NEW e, NEW n \in FilesOf(Edited(v, e))
  PROVE  n \in FilesOf(v) \cup FilesOf(e.add)
<1>1. PICK l \in Level : n \in Edited(v, e)[l]
  BY FilesOfIs
<1>2. n \in v[l] \/ n \in e.add[l]
  BY <1>1 DEF Edited
<1> QED
  BY <1>2, FilesOfIs

LEMMA FilesOfOne ==
  ASSUME NEW i, NEW S, NEW n \in FilesOf([NoFiles EXCEPT ![i] = S])
  PROVE  n \in S
<1>1. PICK l \in Level : n \in [NoFiles EXCEPT ![i] = S][l]
  BY FilesOfIs
<1> QED
  BY <1>1 DEF NoFiles

LEMMA FilesOfNone ==
  \A n : n \notin FilesOf(NoFiles)
BY DEF FilesOf, NoFiles

LEMMA LiveFilesIs ==
  ASSUME NEW v, NEW c, NEW n
  PROVE  n \in LiveFiles(v, c) <=>
           \/ n \in FilesOf(v.files)
           \/ c # NoCompaction /\ n \in FilesOf(c.files)
           \/ \E t \in Thread : th[t].pc = "reading" /\ n \in FilesOf(th[t].files)
BY DEF LiveFiles

LEMMA NeededIs ==
  ASSUME NEW n
  PROVE  n \in Needed <=>
           \/ n \in FilesOf(vset.files) \/ n \in FilesOf(UnderCurrent.files)
           \/ compaction # NoCompaction /\ (n \in FilesOf(compaction.files) \/ n \in compaction.outputs)
           \/ \E t \in Thread : th[t].pc = "reading" /\ n \in FilesOf(th[t].files)
<1>1. n \in Outputs(compaction) <=> compaction # NoCompaction /\ n \in compaction.outputs
  BY DEF Outputs
<1> QED
  BY <1>1, LiveFilesIs DEF Needed

LEMMA NeededIsNext ==
  ASSUME NEW n
  PROVE  n \in Needed' <=>
           \/ n \in FilesOf(vset'.files) \/ n \in FilesOf(UnderCurrent'.files)
           \/ compaction' # NoCompaction /\ (n \in FilesOf(compaction'.files) \/ n \in compaction'.outputs)
           \/ \E t \in Thread : th'[t].pc = "reading" /\ n \in FilesOf(th'[t].files)
<1>1. n \in Outputs(compaction)' <=> compaction' # NoCompaction /\ n \in compaction'.outputs
  BY DEF Outputs
<1>2. n \in LiveFiles(vset, compaction)' <=>
           \/ n \in FilesOf(vset'.files)
           \/ compaction' # NoCompaction /\ n \in FilesOf(compaction'.files)
           \/ \E t \in Thread : th'[t].pc = "reading" /\ n \in FilesOf(th'[t].files)
  BY DEF LiveFiles
<1> QED
  BY <1>1, <1>2 DEF Needed

(***************************************************************************)
(* The initial states.                                                     *)
(***************************************************************************)

LEMMA FilesInvInit == LevelDBInit => FilesInv
<1> SUFFICES ASSUME LevelDBInit PROVE FilesInv
  OBVIOUS
<1>1. /\ db = [state |-> "closed", mem |-> 0, imm |-> 0, bg_error |-> FALSE, pending |-> {}]
      /\ bg.pc = "idle" /\ vset = NewVersionSet /\ th = [t \in Thread |-> Idle]
      /\ compaction = NoCompaction /\ doomed = {}
  BY DEF LevelDBInit, Closed, Idle
<1>2. disk = NoDatabase \/ disk = OldDatabase
  BY DEF LevelDBInit
<1>3. DiskShape /\ DOMAIN disk.logs \subseteq Nat
  BY <1>2 DEF DiskShape, NoDatabase, OldDatabase
<1>4. Shapes
  BY <1>1, <1>3 DEF Shapes, DBShape, VersionSetShape, NewVersionSet, ThreadShape, Idle
<1>5. CurrentHeld
  <2>1. CASE disk = NoDatabase
    BY <2>1, <1>1 DEF CurrentHeld, NoDatabase
  <2>2. CASE disk = OldDatabase
    <3>1. /\ disk.current = 5 /\ 5 \in DOMAIN disk.manifests
          /\ UnderCurrent.files = [NoFiles EXCEPT ![1] = {6}] /\ UnderCurrent.next_file = 8
          /\ 6 \in DOMAIN disk.tables
      BY <2>2 DEF OldDatabase, UnderCurrent
    <3>2. \A n \in FilesOf(UnderCurrent.files) : n \in {6}
      BY <3>1, FilesOfOne
    <3>3. ASSUME NEW n \in FilesOf(UnderCurrent.files)
          PROVE  n \in DOMAIN disk.tables /\ n \in Nat /\ n < 8
      <4>1. n = 6
        BY <3>2
      <4> QED
        BY <3>1, <4>1
    <3>4. Held(Tables, UnderCurrent.files, 8)
      BY <3>3 DEF Held, Tables
    <3> QED
      BY <3>1, <3>4 DEF CurrentHeld
  <2> QED
    BY <1>2, <2>1, <2>2
<1> QED
  BY <1>1, <1>4, <1>5 DEF FilesInv, Idle, NobodyYet, RecoveringInv, OpeningInv, ServingInv, OpenInv


LEMMA HeldGrows ==
  ASSUME NEW S, NEW v, NEW n \in Nat, Held(S, v, n), NEW R, S \subseteq R, NEW k \in Nat, n <= k
  PROVE  Held(R, v, k)
BY DEF Held

(***************************************************************************)
(* Steps of the server's threads.                                          *)
(***************************************************************************)

(* What a call of the server may do to the files: start another log. *)
ThreadsMove ==
  /\ db.state = "open" /\ Shapes' /\ db'.state = "open"
  /\ db'.pending = db.pending /\ db'.bg_error \in BOOLEAN /\ (db.bg_error => db'.bg_error)
  /\ disk'.current = disk.current /\ disk'.manifests = disk.manifests
  /\ disk'.tables = disk.tables
  /\ vset'.files = vset.files /\ vset'.manifest = vset.manifest
  /\ vset'.log_number = vset.log_number
  /\ vset'.next_file \in Nat /\ vset.next_file <= vset'.next_file
  /\ LogsHeld'
  /\ db.imm # 0 => db'.imm = db.imm /\ db'.mem = db.mem
  /\ bg' = bg \/ (bg.pc = "idle" /\ bg' = [pc |-> "scheduled"])
  /\ compaction' = compaction /\ doomed' = doomed
  /\ \A t \in Thread : th'[t].pc = "reading" =>
       th'[t].files = vset.files \/ (th[t].pc = "reading" /\ th'[t] = th[t])

LEMMA ThreadsMoveKeeps ==
  ASSUME FilesInv, ThreadsMove
  PROVE  FilesInv'
<1>1. db.state = "open" /\ db'.state = "open" /\ Shapes'
  BY DEF ThreadsMove
<1>2. /\ disk'.current = disk.current /\ disk'.manifests = disk.manifests
      /\ disk'.tables = disk.tables /\ UnderCurrent' = UnderCurrent /\ Tables' = Tables
      /\ vset'.files = vset.files /\ vset'.manifest = vset.manifest
      /\ vset'.log_number = vset.log_number
      /\ compaction' = compaction /\ doomed' = doomed
  BY DEF ThreadsMove, UnderCurrent, Tables
<1>3. vset.next_file \in Nat /\ vset'.next_file \in Nat /\ vset.next_file <= vset'.next_file
  BY <1>1 DEF FilesInv, ServingInv, ThreadsMove
<1>4. CurrentHeld'
  BY <1>1, <1>2 DEF FilesInv, CurrentHeld
<1>5. \A v : Held(Tables, v, vset.next_file) => Held(Tables', v, vset'.next_file)
  BY <1>2, <1>3, HeldGrows
<1>6. ASSUME NEW n, n \in Needed' PROVE n \in Needed
  <2>1. \/ n \in FilesOf(vset.files) \/ n \in FilesOf(UnderCurrent.files)
        \/ compaction # NoCompaction /\ (n \in FilesOf(compaction.files) \/ n \in compaction.outputs)
        \/ \E t \in Thread : th'[t].pc = "reading" /\ n \in FilesOf(th'[t].files)
    BY <1>2, <1>6, NeededIsNext
  <2>2. ASSUME NEW t \in Thread, th'[t].pc = "reading", n \in FilesOf(th'[t].files)
        PROVE  n \in FilesOf(vset.files) \/ (th[t].pc = "reading" /\ n \in FilesOf(th[t].files))
    BY <2>2 DEF ThreadsMove
  <2> QED
    BY <2>1, <2>2, NeededIs
<1>7. ServingInv'
  <2>1. Held(Tables', vset'.files, vset'.next_file)
    BY <1>1, <1>2, <1>5 DEF FilesInv, ServingInv
  <2>2. DoomedUnneeded'
    <3>1. DoomedUnneeded
      BY <1>1 DEF FilesInv, ServingInv
    <3> QED
      BY <1>2, <1>6, <3>1 DEF DoomedUnneeded
  <2>3. LogsHeld'
    BY DEF ThreadsMove
  <2> QED
    BY <1>1, <1>2, <1>3, <2>1, <2>2, <2>3 DEF FilesInv, ServingInv
<1>8. OpenInv
  BY DEF FilesInv
<1>9. CompactionInv'
  <2>1. CompactionInv
    BY <1>1, <1>8 DEF OpenInv
  <2> SUFFICES ASSUME compaction # NoCompaction PROVE CompactionInv'
    BY <1>2 DEF CompactionInv
  <2>2. Held(Tables', compaction'.files, vset'.next_file)
    BY <1>2, <1>5, <2>1 DEF CompactionInv
  <2>3. db'.pending = db.pending
    BY DEF ThreadsMove
  <2> QED
    BY <1>2, <1>3, <2>1, <2>2, <2>3 DEF CompactionInv
<1>10. ReadersInv'
  <2> SUFFICES ASSUME NEW t \in Thread, th'[t].pc = "reading"
               PROVE  /\ Held(Tables', th'[t].files, vset'.next_file)
                      /\ compaction # NoCompaction => FilesOf(th'[t].files) \cap compaction.outputs = {}
    BY <1>2 DEF ThreadsMove, ReadersInv, Reading
  <2>1. th'[t].files = vset.files \/ (th[t].pc = "reading" /\ th'[t] = th[t])
    BY DEF ThreadsMove
  <2>2. CASE th'[t].files = vset.files
    <3>1. Held(Tables', vset.files, vset'.next_file)
      BY <1>1, <1>5 DEF FilesInv, ServingInv
    <3>2. compaction # NoCompaction => FilesOf(vset.files) \cap compaction.outputs = {}
      BY <1>1, <1>8 DEF OpenInv, CompactionInv
    <3> QED
      BY <2>2, <3>1, <3>2
  <2>3. CASE th[t].pc = "reading" /\ th'[t] = th[t]
    <3>1. /\ Held(Tables, th[t].files, vset.next_file)
          /\ compaction # NoCompaction => FilesOf(th[t].files) \cap compaction.outputs = {}
      BY <1>1, <1>8, <2>3 DEF OpenInv, ReadersInv, Reading
    <3> QED
      BY <2>3, <3>1, <1>5
  <2> QED
    BY <2>1, <2>2, <2>3
<1>11. BackgroundInv'
  <2>1. BackgroundInv
    BY <1>1, <1>8 DEF OpenInv
  <2>2. CASE bg.pc = "idle" /\ bg' = [pc |-> "scheduled"]
    <3>1. compaction = NoCompaction
      BY <2>1, <2>2 DEF BackgroundInv
    <3> QED
      BY <1>2, <2>2, <3>1 DEF BackgroundInv
  <2>3. CASE bg' = bg
    <3>1. ASSUME BuildInv PROVE BuildInv'
      <4>1. db'.imm # 0
        BY <3>1 DEF BuildInv, ThreadsMove
      <4> QED
        BY <1>2, <1>3, <2>3, <3>1, <4>1 DEF BuildInv, Unclaimed, Outputs
    <3>2. ASSUME EditInv PROVE EditInv'
      <4>1. bg.kind = "memtable" => db'.imm # 0 /\ bg.log_number = db'.mem
        BY <3>2 DEF EditInv, ThreadsMove
      <4>2. ~db'.bg_error => ~db.bg_error
        BY DEF ThreadsMove
      <4>3. Held(Tables', bg'.edit.add, bg'.next_file)
        BY <1>2, <2>3, <3>2 DEF EditInv
      <4>4. bg'.next_file \in Nat /\ bg'.next_file <= vset'.next_file
        BY <1>3, <2>3, <3>2 DEF EditInv
      <4> QED
        BY <1>2, <2>3, <3>2, <4>1, <4>2, <4>3, <4>4 DEF EditInv, Outputs
    <3> QED
      BY <1>2, <2>1, <2>3, <3>1, <3>2 DEF BackgroundInv
  <2> QED
    BY <2>2, <2>3 DEF ThreadsMove
<1>12. OpenInv'
  <2>1. /\ disk'.current = vset'.manifest
        /\ UnderCurrent'.next_file <= vset'.next_file
    <3>1. UnderCurrent.next_file \in Nat
      BY <1>1 DEF FilesInv, CurrentHeld
    <3> QED
      BY <1>1, <1>2, <1>3, <1>8, <3>1 DEF OpenInv
  <2>2. ~db'.bg_error /\ bg'.pc # "install" => UnderCurrent'.files = vset'.files
    <3>1. bg'.pc # "install" => bg.pc # "install"
      BY DEF ThreadsMove
    <3> QED
      BY <1>1, <1>2, <1>8, <3>1 DEF OpenInv, ThreadsMove
  <2>3. doomed' # {} => bg'.pc = "delete"
    BY <1>1, <1>2, <1>8 DEF OpenInv, ThreadsMove
  <2>4. db'.bg_error \in BOOLEAN
    BY DEF ThreadsMove
  <2> QED
    BY <2>1, <2>2, <2>3, <2>4, <1>9, <1>10, <1>11 DEF OpenInv
<1> QED
  BY <1>1, <1>4, <1>7, <1>12 DEF FilesInv, NobodyYet, RecoveringInv, OpeningInv


(* T has no other readers than there are. *)
ReadersStay(T) ==
  /\ DOMAIN T = Thread
  /\ \A u \in Thread : ThreadShape(T[u]) /\ (T[u].pc = "reading" => T[u] = th[u])

(* A call stays one when its fields change. *)
LEMMA WriterMoves ==
  ASSUME NEW r, ThreadShape(r), NEW p
  PROVE  ThreadShape([r EXCEPT !.pc = p]) /\ [r EXCEPT !.pc = p].pc = p
BY DEF ThreadShape

LEMMA WriterSlept ==
  ASSUME NEW r, ThreadShape(r), NEW p, NEW x
  PROVE  ThreadShape([r EXCEPT !.pc = p, !.slept = x]) /\ [r EXCEPT !.pc = p, !.slept = x].pc = p
BY DEF ThreadShape

LEMMA WriterGrouped ==
  ASSUME NEW r, ThreadShape(r), NEW p, NEW x
  PROVE  ThreadShape([r EXCEPT !.pc = p, !.group = x]) /\ [r EXCEPT !.pc = p, !.group = x].pc = p
BY DEF ThreadShape

LEMMA WriterSent ==
  ASSUME NEW r, ThreadShape(r), NEW p, NEW x
  PROVE  ThreadShape([r EXCEPT !.pc = p, !.sent = x]) /\ [r EXCEPT !.pc = p, !.sent = x].pc = p
BY DEF ThreadShape

LEMMA ReadersStayExcept ==
  ASSUME NEW T, ReadersStay(T), NEW t, NEW r, ThreadShape(r), r.pc # "reading"
  PROVE  ReadersStay([T EXCEPT ![t] = r])
BY DEF ReadersStay

LEMMA IdleShape == ThreadShape(Idle) /\ Idle.pc = "idle"
BY DEF ThreadShape, Idle

LEMMA HeadSignalledStays ==
  ASSUME NEW T, ReadersStay(T), NEW q
  PROVE  ReadersStay(HeadSignalled(T, q))
<1>1. CASE q # <<>> /\ T[Head(q)].pc = "queued"
  <2> DEFINE h == Head(q)
             r == [T[h] EXCEPT !.pc = "woken"]
  <2>1. HeadSignalled(T, q) = [T EXCEPT ![h] = r]
    BY <1>1 DEF HeadSignalled
  <2> HIDE DEF h, r
  <2>2. CASE h \in Thread
    <3>1. ThreadShape(T[h]) /\ T[h].pc \in WriterPcs
      BY <1>1, <2>2 DEF ReadersStay, WriterPcs, h
    <3>2. "woken" \in WriterPcs
      BY DEF WriterPcs
    <3>3. ThreadShape(r) /\ r.pc = "woken"
      BY <3>1, <3>2, WriterMoves DEF r
    <3>4. r.pc # "reading"
      BY <3>3
    <3>5. ReadersStay([T EXCEPT ![h] = r])
      BY <3>3, <3>4, ReadersStayExcept
    <3> QED
      BY <2>1, <3>5
  <2>3. CASE h \notin Thread
    BY <2>1, <2>3 DEF ReadersStay
  <2> QED
    BY <2>2, <2>3
<1>2. CASE ~(q # <<>> /\ T[Head(q)].pc = "queued")
  <2>1. HeadSignalled(T, q) = T
    BY <1>2 DEF HeadSignalled
  <2> QED
    BY <2>1
<1> QED
  BY <1>1, <1>2


LEMMA ReadersStayMoves ==
  ASSUME Shapes, ReadersStay(th'), db'.state = "open", DiskShape', DBShape', VersionSetShape',
         DOMAIN disk'.logs \subseteq Nat
  PROVE  /\ Shapes'
         /\ \A t \in Thread : th'[t].pc = "reading" => th'[t] = th[t]
BY DEF Shapes, ReadersStay

(* A step that changes the threads only. *)
LEMMA QuietMoves ==
  ASSUME FilesInv, db.state = "open", ReadersStay(th'),
         UNCHANGED <<disk, db, vset, bg, compaction, doomed>>
  PROVE  ThreadsMove
<1>1. Shapes /\ LogsHeld /\ vset.next_file \in Nat /\ db.bg_error \in BOOLEAN
  BY DEF FilesInv, ServingInv, OpenInv
<1>2. Shapes' /\ \A t \in Thread : th'[t].pc = "reading" => th'[t] = th[t]
  BY <1>1, ReadersStayMoves DEF Shapes, DiskShape, DBShape, VersionSetShape
<1> QED
  BY <1>1, <1>2 DEF ThreadsMove, LogsHeld

(* A new log is one nobody knew. *)
LEMMA SwitchMoves ==
  ASSUME FilesInv, db.state = "open", ReadersStay(th'), NEW err \in BOOLEAN, SwitchMemTable(err),
         db.imm = 0, ~db.bg_error, compaction' = compaction, doomed' = doomed,
         bg' = bg \/ (bg.pc = "idle" /\ bg' = [pc |-> "scheduled"])
  PROVE  ThreadsMove
<1> DEFINE log == vset.next_file
<1>1. Shapes /\ LogsHeld /\ log \in Nat
  BY DEF FilesInv, ServingInv
<1>2. /\ disk'.current = disk.current /\ disk'.manifests = disk.manifests
      /\ disk'.tables = disk.tables /\ disk'.logs = WithFile(disk.logs, log, <<>>) /\ DiskShape'
  BY <1>1 DEF SwitchMemTable, Shapes, DiskShape
<1>3. /\ vset'.files = vset.files /\ vset'.manifest = vset.manifest
      /\ vset'.log_number = vset.log_number /\ vset'.next_file = log + 1 /\ VersionSetShape'
  BY <1>1 DEF SwitchMemTable, Shapes, VersionSetShape
<1>4. /\ db'.state = db.state /\ db'.mem = log /\ db'.imm = db.mem /\ db'.bg_error = err
      /\ db'.pending = db.pending /\ DBShape'
  BY <1>1 DEF SwitchMemTable, Shapes, DBShape
<1>5. DOMAIN disk'.logs = DOMAIN disk.logs \cup {log}
  BY <1>2 DEF WithFile
<1>6. LogsHeld'
  BY <1>1, <1>3, <1>4, <1>5 DEF LogsHeld
<1>7. Shapes' /\ \A t \in Thread : th'[t].pc = "reading" => th'[t] = th[t]
  BY <1>1, <1>2, <1>3, <1>4, <1>5, ReadersStayMoves DEF Shapes
<1> QED
  BY <1>1, <1>2, <1>3, <1>4, <1>6, <1>7 DEF ThreadsMove

LEMMA MaybeScheduledIs ==
  ASSUME NEW b, NEW err, NEW imm, NEW v
  PROVE  \/ MaybeScheduled(b, err, imm, v) = b
         \/ b.pc = "idle" /\ MaybeScheduled(b, err, imm, v) = [pc |-> "scheduled"]
BY DEF MaybeScheduled

LEMMA MakeRoomMoves ==
  ASSUME FilesInv, db.state = "open", NEW t \in Thread, NEW q, NEW T, NEW b,
         ReadersStay(T), T[t].pc \in WriterPcs, MakeRoomForWrite(t, q, T, b),
         compaction' = compaction, doomed' = doomed
  PROVE  ThreadsMove /\ ReadersStay(th')
<1>1. ThreadShape(T[t])
  BY DEF ReadersStay
<1>2. ASSUME NEW p \in WriterPcs, NEW x, NEW g
      PROVE  /\ ReadersStay([T EXCEPT ![t].pc = p])
             /\ ReadersStay([T EXCEPT ![t].pc = p, ![t].slept = x])
             /\ ReadersStay([T EXCEPT ![t].pc = p, ![t].group = g])
  <2>1. p # "reading" /\ DOMAIN T = Thread
    BY DEF WriterPcs, ReadersStay
  <2>2. /\ [T EXCEPT ![t].pc = p] = [T EXCEPT ![t] = [T[t] EXCEPT !.pc = p]]
        /\ [T EXCEPT ![t].pc = p, ![t].slept = x] = [T EXCEPT ![t] = [T[t] EXCEPT !.pc = p, !.slept = x]]
        /\ [T EXCEPT ![t].pc = p, ![t].group = g] = [T EXCEPT ![t] = [T[t] EXCEPT !.pc = p, !.group = g]]
    BY <2>1
  <2>3. ReadersStay([T EXCEPT ![t] = [T[t] EXCEPT !.pc = p]])
    <3> DEFINE r == T[t]
    <3>1. ThreadShape(r) /\ r.pc \in WriterPcs
      BY <1>1
    <3> HIDE DEF r
    <3>2. ThreadShape([r EXCEPT !.pc = p]) /\ [r EXCEPT !.pc = p].pc = p
      BY ONLY <3>1, p \in WriterPcs, WriterMoves
    <3>3. [r EXCEPT !.pc = p].pc # "reading"
      BY <2>1, <3>2
    <3> QED
      BY <3>2, <3>3, ReadersStayExcept DEF r
  <2>4. ReadersStay([T EXCEPT ![t] = [T[t] EXCEPT !.pc = p, !.slept = x]])
    <3> DEFINE r == T[t]
    <3>1. ThreadShape(r) /\ r.pc \in WriterPcs
      BY <1>1
    <3> HIDE DEF r
    <3>2. ThreadShape([r EXCEPT !.pc = p, !.slept = x]) /\ [r EXCEPT !.pc = p, !.slept = x].pc = p
      BY ONLY <3>1, p \in WriterPcs, WriterSlept
    <3>3. [r EXCEPT !.pc = p, !.slept = x].pc # "reading"
      BY <2>1, <3>2
    <3> QED
      BY <3>2, <3>3, ReadersStayExcept DEF r
  <2>5. ReadersStay([T EXCEPT ![t] = [T[t] EXCEPT !.pc = p, !.group = g]])
    <3> DEFINE r == T[t]
    <3>1. ThreadShape(r) /\ r.pc \in WriterPcs
      BY <1>1
    <3> HIDE DEF r
    <3>2. ThreadShape([r EXCEPT !.pc = p, !.group = g]) /\ [r EXCEPT !.pc = p, !.group = g].pc = p
      BY ONLY <3>1, p \in WriterPcs, WriterGrouped
    <3>3. [r EXCEPT !.pc = p, !.group = g].pc # "reading"
      BY <2>1, <3>2
    <3> QED
      BY <3>2, <3>3, ReadersStayExcept DEF r
  <2> QED
    BY <2>2, <2>3, <2>4, <2>5
<1>3. "delayed" \in WriterPcs /\ "bgwait" \in WriterPcs /\ "logging" \in WriterPcs
  BY DEF WriterPcs
<1>4. Refused(t, q, T) => ReadersStay(th')
  BY ReadersStayExcept, IdleShape, HeadSignalledStays DEF Refused
<1>5. ReadersStay(BuildBatchGroup(T, t, q))
  BY <1>2, <1>3 DEF BuildBatchGroup
<1>6. CASE UNCHANGED <<disk, db, vset, mems, bg>>
  <2>1. ReadersStay(th')
    BY <1>2, <1>3, <1>4, <1>5, <1>6 DEF MakeRoomForWrite, SwitchMemTable
  <2> QED
    BY <1>6, <2>1, QuietMoves
<1>7. CASE ~UNCHANGED <<disk, db, vset, mems, bg>>
  <2>1. PICK err \in BOOLEAN :
          /\ SwitchMemTable(err) /\ ~db.bg_error /\ db.imm = 0
          /\ \/ bg' = MaybeScheduled(bg, FALSE, db.mem, vset.files) /\ th' = BuildBatchGroup(T, t, q)
             \/ Refused(t, q, T) /\ bg' = bg
    BY <1>7 DEF MakeRoomForWrite
  <2>2. ReadersStay(th')
    BY <1>4, <1>5, <2>1
  <2>3. bg' = bg \/ (bg.pc = "idle" /\ bg' = [pc |-> "scheduled"])
    BY <2>1, MaybeScheduledIs
  <2> QED
    BY <2>1, <2>2, <2>3, SwitchMoves
<1> QED
  BY <1>6, <1>7


(* A thread that writes is at work, so the store is open. *)
LEMMA WriterAtWork ==
  ASSUME FilesInv, NEW t \in Thread, th[t].pc \in WriterPcs
  PROVE  db.state = "open" /\ ReadersStay(th)
<1>1. th[t].pc # "idle"
  BY DEF WriterPcs
<1>2. db.state = "open"
  BY <1>1 DEF FilesInv, NobodyYet
<1> QED
  BY <1>2 DEF ReadersStay, FilesInv, Shapes

LEMMA WriteMoves ==
  ASSUME FilesInv, NEW t \in Thread, NEW k, Write(t, k)
  PROVE  ThreadsMove /\ ReadersStay(th')
<1> DEFINE call == [pc |-> "queued", key |-> k, val |-> bounds.puts + 1,
                    slept |-> FALSE, group |-> 0, sent |-> 0]
           T == [th EXCEPT ![t] = call]
           b == [bounds EXCEPT !.puts = @ + 1]
<1>1. db.state = "open" /\ ReadersStay(th)
  BY DEF Write, FilesInv, Shapes, ReadersStay
<1>2. ThreadShape(call) /\ call.pc = "queued" /\ call.pc \in WriterPcs
  BY DEF ThreadShape, WriterPcs
<1>3. ReadersStay(T)
  <2> HIDE DEF call
  <2>1. call.pc # "reading"
    BY <1>2
  <2> QED
    BY <1>1, <1>2, <2>1, ReadersStayExcept
<1>4. T[t].pc \in WriterPcs
  <2> HIDE DEF call
  <2> QED
    BY <1>1, <1>2 DEF ReadersStay
<1>5. compaction' = compaction /\ doomed' = doomed
  BY DEF Write
<1>6. \/ MakeRoomForWrite(t, <<t>>, T, b)
      \/ th' = T /\ UNCHANGED <<disk, db, vset, mems, bg>>
  BY DEF Write
<1> HIDE DEF T, b
<1>7. CASE MakeRoomForWrite(t, <<t>>, T, b)
  BY <1>1, <1>3, <1>4, <1>5, <1>7, MakeRoomMoves
<1>8. CASE th' = T /\ UNCHANGED <<disk, db, vset, mems, bg>>
  BY <1>1, <1>3, <1>5, <1>8, QuietMoves
<1> QED
  BY <1>6, <1>7, <1>8

LEMMA ResumeMoves ==
  ASSUME FilesInv, NEW t \in Thread, Resume(t)
  PROVE  ThreadsMove /\ ReadersStay(th')
<1>1. th[t].pc \in WriterPcs
  BY DEF Resume, WriterPcs
<1>2. db.state = "open" /\ ReadersStay(th)
  BY <1>1, WriterAtWork
<1> QED
  BY <1>1, <1>2, MakeRoomMoves DEF Resume


LEMMA AddRecordMoves ==
  ASSUME FilesInv, NEW t \in Thread, AddRecord(t)
  PROVE  ThreadsMove /\ ReadersStay(th')
<1>1. th[t].pc \in WriterPcs
  BY DEF AddRecord, WriterPcs
<1>2. db.state = "open" /\ ReadersStay(th)
  BY <1>1, WriterAtWork
<1>3. Shapes /\ LogsHeld /\ vset.next_file \in Nat /\ db.bg_error \in BOOLEAN
  BY <1>2 DEF FilesInv, ServingInv, OpenInv
<1>4. UNCHANGED <<db, vset, bg, compaction, doomed>>
  BY DEF AddRecord
<1>5. PICK x : disk' = [disk EXCEPT !.logs = [@ EXCEPT ![db.mem] = x]]
  BY DEF AddRecord
<1>6. /\ DiskShape' /\ disk'.current = disk.current /\ disk'.manifests = disk.manifests
      /\ disk'.tables = disk.tables /\ DOMAIN disk'.logs = DOMAIN disk.logs
  BY <1>3, <1>5 DEF Shapes, DiskShape
<1>7. ReadersStay(th')
  <2> DEFINE r == th[t]
             i == th[t].sent + 1
             p == IF i = th[t].group THEN "logged" ELSE "logging"
  <2>1. th' = [th EXCEPT ![t].sent = i, ![t].pc = p]
    BY DEF AddRecord
  <2>2. ThreadShape(r) /\ r.pc \in WriterPcs /\ DOMAIN th = Thread
    BY <1>1, <1>2 DEF ReadersStay
  <2>3. p \in WriterPcs /\ p # "reading"
    BY DEF WriterPcs
  <2> HIDE DEF i, p
  <2>4. th' = [th EXCEPT ![t] = [r EXCEPT !.pc = p, !.sent = i]]
    BY <2>1, <2>2
  <2> HIDE DEF r
  <2>5. ThreadShape([r EXCEPT !.pc = p, !.sent = i]) /\ [r EXCEPT !.pc = p, !.sent = i].pc = p
    BY ONLY <2>2, <2>3, WriterSent
  <2>6. [r EXCEPT !.pc = p, !.sent = i].pc # "reading"
    BY <2>3, <2>5
  <2> QED
    BY <1>2, <2>4, <2>5, <2>6, ReadersStayExcept
<1>8. Shapes' /\ \A u \in Thread : th'[u].pc = "reading" => th'[u] = th[u]
  BY <1>2, <1>3, <1>4, <1>6, <1>7, ReadersStayMoves DEF Shapes, DBShape, VersionSetShape
<1>9. LogsHeld'
  BY <1>3, <1>4, <1>6 DEF LogsHeld
<1> QED
  BY <1>2, <1>3, <1>4, <1>6, <1>7, <1>8, <1>9 DEF ThreadsMove

LEMMA FinishWriteMoves ==
  ASSUME FilesInv, NEW t \in Thread, FinishWrite(t)
  PROVE  ThreadsMove /\ ReadersStay(th')
<1>1. th[t].pc \in WriterPcs
  BY DEF FinishWrite, WriterPcs
<1>2. db.state = "open" /\ ReadersStay(th)
  BY <1>1, WriterAtWork
<1>3. Shapes /\ LogsHeld /\ vset.next_file \in Nat /\ db.bg_error \in BOOLEAN
  BY <1>2 DEF FilesInv, ServingInv, OpenInv
<1>4. UNCHANGED <<disk, db, bg, compaction, doomed>>
  BY DEF FinishWrite
<1>5. PICK x : vset' = [vset EXCEPT !.last_sequence = x]
  BY DEF FinishWrite
<1>6. /\ VersionSetShape' /\ vset'.files = vset.files /\ vset'.manifest = vset.manifest
      /\ vset'.log_number = vset.log_number /\ vset'.next_file = vset.next_file
  BY <1>3, <1>5 DEF Shapes, VersionSetShape
<1>7. ReadersStay(th')
  <2> DEFINE group == {writers[i] : i \in 1 .. th[t].group}
             rest == SubSeq(writers, th[t].group + 1, Len(writers))
             T == [u \in Thread |-> IF u = t THEN Idle
                                    ELSE IF u \in group THEN [th[u] EXCEPT !.pc = "done"]
                                    ELSE th[u]]
  <2>1. th' = HeadSignalled(T, rest)
    BY DEF FinishWrite
  <2>2. ASSUME NEW u \in Thread
        PROVE  ThreadShape(T[u]) /\ (T[u].pc = "reading" => T[u] = th[u])
    <3>1. ThreadShape(th[u])
      BY <1>2 DEF ReadersStay
    <3> DEFINE r == th[u]
    <3>2. ThreadShape(r)
      BY <3>1
    <3> HIDE DEF r
    <3>3. ThreadShape([r EXCEPT !.pc = "done"]) /\ [r EXCEPT !.pc = "done"].pc = "done"
      BY ONLY <3>2, WriterMoves
    <3>4. T[u] \in {Idle, [r EXCEPT !.pc = "done"], th[u]}
      BY DEF r
    <3> QED
      BY <3>1, <3>3, <3>4, IdleShape
  <2>3. ReadersStay(T)
    BY <2>2 DEF ReadersStay
  <2> HIDE DEF T
  <2> QED
    BY <2>1, <2>3, HeadSignalledStays
<1>8. Shapes' /\ \A u \in Thread : th'[u].pc = "reading" => th'[u] = th[u]
  BY <1>2, <1>3, <1>4, <1>6, <1>7, ReadersStayMoves DEF Shapes, DBShape, DiskShape
<1>9. LogsHeld'
  BY <1>3, <1>4, <1>6 DEF LogsHeld
<1> QED
  BY <1>2, <1>3, <1>4, <1>6, <1>7, <1>8, <1>9 DEF ThreadsMove

LEMMA ReturnMoves ==
  ASSUME FilesInv, NEW t \in Thread, Return(t)
  PROVE  ThreadsMove /\ ReadersStay(th')
<1>1. th[t].pc \in WriterPcs
  BY DEF Return, WriterPcs
<1>2. db.state = "open" /\ ReadersStay(th)
  BY <1>1, WriterAtWork
<1>3. ReadersStay(th')
  BY <1>2, ReadersStayExcept, IdleShape DEF Return
<1> QED
  BY <1>2, <1>3, QuietMoves DEF Return


LEMMA GetMoves ==
  ASSUME FilesInv, NEW t \in Thread, NEW k, Get(t, k)
  PROVE  ThreadsMove
<1> DEFINE g == [pc |-> "reading", key |-> k, snapshot |-> vset.last_sequence,
                 mem |-> db.mem, imm |-> db.imm, files |-> vset.files,
                 seen |-> Lookup(k, vset.last_sequence, db.mem, db.imm, vset.files)]
<1>1. /\ db.state = "open" /\ th' = [th EXCEPT ![t] = g]
      /\ UNCHANGED <<disk, db, vset, mems, bg, compaction, doomed>>
  BY DEF Get
<1>2. Shapes /\ LogsHeld /\ vset.next_file \in Nat /\ db.bg_error \in BOOLEAN
  BY <1>1 DEF FilesInv, ServingInv, OpenInv
<1>3. g.files = vset.files /\ ThreadShape(g)
  BY DEF ThreadShape
<1> HIDE DEF g
<1>4. DOMAIN th' = Thread /\ th'[t] = g /\ \A u \in Thread \ {t} : th'[u] = th[u]
  BY <1>1, <1>2 DEF Shapes
<1>5. Shapes'
  BY <1>1, <1>2, <1>3, <1>4 DEF Shapes, DiskShape, DBShape, VersionSetShape
<1>6. \A u \in Thread : th'[u].files = vset.files \/ th'[u] = th[u]
  BY <1>3, <1>4
<1> QED
  BY <1>1, <1>2, <1>5, <1>6 DEF ThreadsMove, LogsHeld

LEMMA GetReturnsMoves ==
  ASSUME FilesInv, NEW t \in Thread, GetReturns(t)
  PROVE  ThreadsMove /\ ReadersStay(th')
<1>1. th[t].pc = "reading" /\ th' = [th EXCEPT ![t] = Idle]
  BY DEF GetReturns
<1>2. db.state = "open"
  <2>1. th[t].pc # "idle"
    BY <1>1
  <2> QED
    BY <2>1 DEF FilesInv, NobodyYet
<1>3. ReadersStay(th')
  BY <1>1, IdleShape DEF FilesInv, Shapes, ReadersStay
<1> QED
  BY <1>2, <1>3, QuietMoves DEF GetReturns


(* A step of a thread keeps the invariant. *)
LEMMA ThreadsKeep ==
  ASSUME FilesInv, NEW t \in Thread, NEW k, Write(t, k) \/ Get(t, k) \/ ThreadStep(t)
  PROVE  FilesInv'
<1>1. ThreadsMove
  BY WriteMoves, GetMoves, ResumeMoves, AddRecordMoves, FinishWriteMoves, ReturnMoves,
     GetReturnsMoves DEF ThreadStep
<1> QED
  BY <1>1, ThreadsMoveKeeps

(***************************************************************************)
(* Steps of the background thread.                                         *)
(***************************************************************************)

(* The background thread wakes writers and touches no other call. *)
ThreadsKept ==
  /\ DOMAIN th' = Thread
  /\ \A u \in Thread :
       /\ ThreadShape(th'[u])
       /\ th'[u].pc = "reading" => th'[u] = th[u]
       /\ th[u].pc = "idle" => th'[u] = th[u]

LEMMA AwakenedKept ==
  ASSUME Shapes, th' = th \/ th' = Awakened(th)
  PROVE  ThreadsKept
<1>1. CASE th' = th
  BY <1>1 DEF ThreadsKept, Shapes
<1>2. CASE th' = Awakened(th)
  <2>1. DOMAIN th' = Thread
    BY <1>2 DEF Awakened
  <2>2. ASSUME NEW u \in Thread
        PROVE  /\ ThreadShape(th'[u])
               /\ th'[u].pc = "reading" => th'[u] = th[u]
               /\ th[u].pc = "idle" => th'[u] = th[u]
    <3> DEFINE r == th[u]
    <3>1. ThreadShape(r)
      BY DEF Shapes
    <3>2. th'[u] = IF r.pc = "bgwait" THEN [r EXCEPT !.pc = "bgwoken"] ELSE r
      BY <1>2 DEF Awakened
    <3> HIDE DEF r
    <3>3. ThreadShape([r EXCEPT !.pc = "bgwoken"]) /\ [r EXCEPT !.pc = "bgwoken"].pc = "bgwoken"
      BY ONLY <3>1, WriterMoves
    <3>4. CASE r.pc = "bgwait"
      BY <3>2, <3>3, <3>4 DEF r
    <3>5. CASE r.pc # "bgwait"
      BY <3>1, <3>2, <3>5 DEF r
    <3> QED
      BY <3>4, <3>5
  <2> QED
    BY <2>1, <2>2 DEF ThreadsKept
<1> QED
  BY <1>1, <1>2

(* A reader before and after, in the words of the invariant. *)
LEMMA ReadersKept ==
  ASSUME FilesInv, db.state = "open", ThreadsKept,
         vset.next_file \in Nat, vset'.next_file \in Nat,
         vset.next_file <= vset'.next_file,
         \A u \in Thread : th[u].pc = "reading" => Held(Tables', th[u].files, vset.next_file),
         compaction' # NoCompaction =>
           \A u \in Thread : th[u].pc = "reading" => FilesOf(th[u].files) \cap compaction'.outputs = {}
  PROVE  ReadersInv'
<1> SUFFICES ASSUME NEW t \in Thread, th'[t].pc = "reading"
             PROVE  /\ Held(Tables', th'[t].files, vset'.next_file)
                    /\ compaction' # NoCompaction => FilesOf(th'[t].files) \cap compaction'.outputs = {}
  BY DEF ReadersInv, Reading
<1>1. th'[t] = th[t] /\ th[t].pc = "reading"
  BY DEF ThreadsKept
<1>2. Held(Tables', th[t].files, vset'.next_file)
  BY <1>1, HeldGrows
<1> QED
  BY <1>1, <1>2

(* A step that leaves the version and the logs alone and removes nothing. *)
BackgroundMove ==
  /\ db.state = "open" /\ Shapes' /\ db'.state = "open" /\ ThreadsKept
  /\ db'.mem = db.mem /\ db'.imm = db.imm /\ mems' = mems
  /\ db'.bg_error \in BOOLEAN /\ (db.bg_error => db'.bg_error)
  /\ disk'.current = disk.current
  /\ disk'.logs = disk.logs /\ Tables \subseteq Tables'
  /\ vset'.files = vset.files /\ vset'.manifest = vset.manifest
  /\ vset'.log_number = vset.log_number
  /\ vset'.next_file \in Nat /\ vset.next_file <= vset'.next_file
  /\ doomed = {} /\ doomed' = {}

LEMMA BackgroundMoveKeeps ==
  ASSUME FilesInv, BackgroundMove, BackgroundInv', CompactionInv', CurrentHeld',
         UnderCurrent'.next_file <= vset'.next_file,
         ~db'.bg_error /\ bg'.pc # "install" => UnderCurrent'.files = vset'.files,
         compaction' # NoCompaction =>
           \A u \in Thread : th[u].pc = "reading" => FilesOf(th[u].files) \cap compaction'.outputs = {}
  PROVE  FilesInv'
<1>1. /\ db.state = "open" /\ db'.state = "open" /\ Shapes' /\ Tables \subseteq Tables'
      /\ vset'.files = vset.files /\ vset'.manifest = vset.manifest
      /\ vset'.log_number = vset.log_number /\ doomed' = {}
      /\ disk'.current = disk.current
  BY DEF BackgroundMove
<1>2. vset.next_file \in Nat /\ vset'.next_file \in Nat /\ vset.next_file <= vset'.next_file
  BY <1>1 DEF FilesInv, ServingInv, BackgroundMove
<1>3. ServingInv'
  <2>1. Held(Tables', vset'.files, vset'.next_file)
    BY <1>1, <1>2, HeldGrows DEF FilesInv, ServingInv
  <2>2. DoomedUnneeded'
    BY <1>1 DEF DoomedUnneeded
  <2>3. LogsHeld'
    <3>1. LogsHeld
      BY <1>1 DEF FilesInv, ServingInv
    <3> QED
      BY <1>1, <1>2, <3>1 DEF LogsHeld, BackgroundMove
  <2> QED
    BY <1>1, <1>2, <2>1, <2>2, <2>3 DEF FilesInv, ServingInv
<1>4. ReadersInv'
  <2>1. ASSUME NEW u \in Thread, th[u].pc = "reading"
        PROVE  Held(Tables', th[u].files, vset.next_file)
    BY <1>1, <1>2, <2>1, HeldGrows DEF FilesInv, OpenInv, ReadersInv, Reading
  <2> QED
    BY <1>1, <1>2, <2>1, ReadersKept DEF BackgroundMove
<1>5. OpenInv'
  <2>1. disk.current = vset.manifest
    BY <1>1 DEF FilesInv, OpenInv
  <2>2. db'.bg_error \in BOOLEAN
    BY DEF BackgroundMove
  <2> QED
    BY <1>1, <1>4, <2>1, <2>2 DEF OpenInv
<1> QED
  BY <1>1, <1>3, <1>5 DEF FilesInv, NobodyYet, RecoveringInv, OpeningInv

(* ... and leaves the MANIFEST alone, too. *)
BackgroundQuiet ==
  BackgroundMove /\ disk'.manifests = disk.manifests /\ bg.pc # "install"

LEMMA BackgroundQuietKeeps ==
  ASSUME FilesInv, BackgroundQuiet, BackgroundInv', CompactionInv',
         compaction' # NoCompaction =>
           \A u \in Thread : th[u].pc = "reading" => FilesOf(th[u].files) \cap compaction'.outputs = {}
  PROVE  FilesInv'
<1>1. /\ db.state = "open" /\ db'.state = "open" /\ Tables \subseteq Tables'
      /\ vset'.files = vset.files /\ vset'.manifest = vset.manifest
      /\ disk'.current = disk.current /\ UnderCurrent' = UnderCurrent /\ bg.pc # "install"
  BY DEF BackgroundQuiet, BackgroundMove, UnderCurrent
<1>2. vset.next_file \in Nat /\ vset'.next_file \in Nat /\ vset.next_file <= vset'.next_file
  BY <1>1 DEF FilesInv, ServingInv, BackgroundQuiet, BackgroundMove
<1>3. disk.current # 0 /\ UnderCurrent.next_file \in Nat
  BY <1>1 DEF FilesInv, CurrentHeld
<1>4. CurrentHeld'
  <2>1. Held(Tables', UnderCurrent.files, UnderCurrent.next_file)
    BY <1>1, <1>3, HeldGrows DEF FilesInv, CurrentHeld
  <2> QED
    BY <1>1, <2>1 DEF FilesInv, CurrentHeld, BackgroundQuiet
<1>5. ~db.bg_error => UnderCurrent.files = vset.files
  BY <1>1 DEF FilesInv, OpenInv
<1>6. UnderCurrent.next_file <= vset.next_file
  BY <1>1 DEF FilesInv, OpenInv
<1>7. UnderCurrent'.next_file <= vset'.next_file
  BY <1>1, <1>2, <1>3, <1>6
<1>8. db'.bg_error \in BOOLEAN /\ (db.bg_error => db'.bg_error)
  BY DEF BackgroundQuiet, BackgroundMove
<1>9. ~db'.bg_error => UnderCurrent'.files = vset'.files
  BY <1>1, <1>5, <1>8
<1> QED
  BY <1>4, <1>7, <1>9, BackgroundMoveKeeps DEF BackgroundQuiet

(* Whenever the background thread is at work. *)
LEMMA AtWork ==
  ASSUME FilesInv, bg.pc \notin {"idle", "open"}
  PROVE  /\ db.state = "open" /\ Shapes /\ BackgroundInv /\ CompactionInv /\ ReadersInv
         /\ vset.next_file \in Nat /\ db.bg_error \in BOOLEAN
         /\ Held(Tables, vset.files, vset.next_file)
         /\ bg.pc # "delete" => doomed = {}
         /\ UnderCurrent.next_file \in Nat /\ UnderCurrent.next_file <= vset.next_file
<1>1. db.state = "open"
  BY DEF FilesInv, NobodyYet
<1>2. ServingInv /\ OpenInv /\ CurrentHeld /\ Shapes
  BY DEF FilesInv
<1>3. vset.next_file \in Nat /\ Held(Tables, vset.files, vset.next_file)
  BY <1>1, <1>2 DEF ServingInv
<1>4. UnderCurrent.next_file \in Nat
  BY <1>1, <1>2 DEF CurrentHeld
<1> QED
  BY <1>1, <1>2, <1>3, <1>4 DEF OpenInv

LEMMA ReadersOutputs ==
  ASSUME ReadersInv, compaction # NoCompaction
  PROVE  \A u \in Thread : th[u].pc = "reading" => FilesOf(th[u].files) \cap compaction.outputs = {}
BY DEF ReadersInv, Reading

(* A compaction that goes on keeps its part of the invariant. *)
LEMMA CompactionKept ==
  ASSUME CompactionInv, compaction' = compaction, Tables \subseteq Tables',
         vset'.files = vset.files, vset.next_file \in Nat, vset'.next_file \in Nat,
         vset.next_file <= vset'.next_file,
         compaction # NoCompaction => compaction.outputs \subseteq db'.pending
  PROVE  CompactionInv'
<1> SUFFICES ASSUME compaction # NoCompaction PROVE CompactionInv'
  BY DEF CompactionInv
<1>1. Held(Tables', compaction.files, vset'.next_file)
  BY HeldGrows DEF CompactionInv
<1>2. \A o \in compaction.outputs : o \in Nat /\ o < vset'.next_file
  BY DEF CompactionInv
<1> QED
  BY <1>1, <1>2 DEF CompactionInv

LEMMA CompactionNone ==
  ASSUME compaction' = NoCompaction
  PROVE  CompactionInv'
BY DEF CompactionInv

(* The end of BackgroundCall, and of CompactMemTable. *)
LEMMA FinishCallDone ==
  ASSUME NEW err, NEW imm, NEW v, FinishCall(th, err, imm, v), compaction' = NoCompaction
  PROVE  BackgroundInv' /\ th' = Awakened(th)
<1>1. bg' = Idle \/ bg' = [pc |-> "scheduled"]
  BY MaybeScheduledIs DEF FinishCall
<1> QED
  BY <1>1 DEF FinishCall, BackgroundInv, Idle

LEMMA MemTableDoneDone ==
  ASSUME NEW err, NEW imm, NEW v, MemTableDone(err, imm, v), compaction' = compaction
  PROVE  BackgroundInv' /\ th' = Awakened(th)
<1>1. CASE compaction # NoCompaction
  <2>1. bg' = [pc |-> "entry"] /\ th' = Awakened(th)
    BY <1>1 DEF MemTableDone
  <2> QED
    BY <1>1, <2>1 DEF BackgroundInv
<1>2. CASE compaction = NoCompaction
  BY <1>2, FinishCallDone DEF MemTableDone
<1> QED
  BY <1>1, <1>2

LEMMA BuildTableKeeps ==
  ASSUME FilesInv, BuildTable
  PROVE  FilesInv'
<1>1. bg.pc = "build"
  BY DEF BuildTable
<1>2. /\ db.state = "open" /\ Shapes /\ BackgroundInv /\ CompactionInv /\ ReadersInv
      /\ vset.next_file \in Nat /\ db.bg_error \in BOOLEAN /\ doomed = {}
  BY <1>1, AtWork
<1>3. BuildInv
  BY <1>1, <1>2 DEF BackgroundInv
<1>4. /\ UNCHANGED <<db, vset, mems, th, compaction, doomed>>
      /\ bg' = [pc |-> "built", file |-> bg.file]
  <2>1. bg' = [bg EXCEPT !.pc = "built"] /\ bg = [pc |-> bg.pc, file |-> bg.file]
    BY <1>3 DEF BuildTable, BuildInv
  <2> QED
    BY <2>1 DEF BuildTable
<1>5. /\ disk'.current = disk.current /\ disk'.manifests = disk.manifests
      /\ disk'.logs = disk.logs /\ disk'.tables = WithFile(disk.tables, bg.file, mems[db.imm])
      /\ DiskShape'
  BY <1>2 DEF BuildTable, Shapes, DiskShape
<1>6. Tables' = Tables \cup {bg.file}
  BY <1>5 DEF Tables, WithFile
<1>7. ThreadsKept
  BY <1>2, <1>4, AwakenedKept
<1>8. Shapes'
  BY <1>2, <1>4, <1>5 DEF Shapes, DBShape, VersionSetShape
<1>9. BackgroundInv'
  <2>1. bg'.pc = "built" /\ bg'.file = bg.file /\ bg' = [pc |-> bg'.pc, file |-> bg'.file]
    BY <1>4
  <2>2. BuildInv'
    BY <1>3, <1>4, <1>6, <2>1 DEF BuildInv, Unclaimed, Outputs
  <2> QED
    BY <2>1, <2>2 DEF BackgroundInv
<1>10. CompactionInv'
  BY <1>2, <1>4, <1>6, CompactionKept DEF CompactionInv
<1>11. BackgroundQuiet
  BY <1>1, <1>2, <1>4, <1>5, <1>6, <1>7, <1>8 DEF BackgroundQuiet, BackgroundMove
<1> QED
  BY <1>2, <1>4, <1>9, <1>10, <1>11, BackgroundQuietKeeps, ReadersOutputs


LEMMA BuildTableFailsKeeps ==
  ASSUME FilesInv, BuildTableFails
  PROVE  FilesInv'
<1>1. bg.pc = "build"
  BY DEF BuildTableFails
<1>2. /\ db.state = "open" /\ Shapes /\ BackgroundInv /\ CompactionInv /\ ReadersInv
      /\ vset.next_file \in Nat /\ db.bg_error \in BOOLEAN /\ doomed = {}
  BY <1>1, AtWork
<1>3. BuildInv
  BY <1>1, <1>2 DEF BackgroundInv
<1>4. UNCHANGED <<disk, vset, mems, compaction, doomed>>
  BY DEF BuildTableFails
<1>5. /\ db'.state = db.state /\ db'.mem = db.mem /\ db'.imm = db.imm
      /\ db'.bg_error = TRUE /\ db'.pending = db.pending \ {bg.file} /\ DBShape'
  BY <1>2 DEF BuildTableFails, Shapes, DBShape
<1>6. BackgroundInv' /\ th' = Awakened(th)
  BY <1>4, MemTableDoneDone DEF BuildTableFails
<1>7. ThreadsKept
  BY <1>2, <1>6, AwakenedKept
<1>8. Shapes' /\ Tables' = Tables
  BY <1>2, <1>4, <1>5, <1>7 DEF Shapes, DiskShape, VersionSetShape, ThreadsKept, Tables
<1>9. compaction # NoCompaction => compaction.outputs \subseteq db'.pending
  BY <1>2, <1>3, <1>5 DEF CompactionInv, BuildInv, Unclaimed, Outputs
<1>10. CompactionInv'
  BY <1>2, <1>4, <1>8, <1>9, CompactionKept
<1>11. BackgroundQuiet
  <2>1. db'.bg_error \in BOOLEAN /\ (db.bg_error => db'.bg_error)
    BY <1>5
  <2>2. db'.state = "open" /\ db'.mem = db.mem /\ db'.imm = db.imm
    BY <1>2, <1>5
  <2> QED
    BY <1>1, <1>2, <1>4, <1>7, <1>8, <2>1, <2>2 DEF BackgroundQuiet, BackgroundMove
<1> QED
  BY <1>2, <1>4, <1>6, <1>10, <1>11, BackgroundQuietKeeps, ReadersOutputs

(* The number of a new table is nobody's. *)
LEMMA CompactMemTableKeeps ==
  ASSUME FilesInv, bg.pc \in {"scheduled", "work"}, db.imm # 0, CompactMemTable,
         UNCHANGED <<disk, mems, th, compaction, doomed>>
  PROVE  FilesInv'
<1>1. bg.pc \notin {"idle", "open", "delete", "install"}
  OBVIOUS
<1>2. /\ db.state = "open" /\ Shapes /\ BackgroundInv /\ CompactionInv /\ ReadersInv
      /\ vset.next_file \in Nat /\ db.bg_error \in BOOLEAN /\ doomed = {}
      /\ Held(Tables, vset.files, vset.next_file)
  BY <1>1, AtWork
<1>3. /\ vset'.files = vset.files /\ vset'.manifest = vset.manifest
      /\ vset'.log_number = vset.log_number /\ vset'.next_file = vset.next_file + 1
      /\ VersionSetShape'
  BY <1>2 DEF CompactMemTable, Shapes, VersionSetShape
<1>4. /\ db'.state = db.state /\ db'.mem = db.mem /\ db'.imm = db.imm
      /\ db'.bg_error = db.bg_error /\ db'.pending = db.pending \cup {vset.next_file} /\ DBShape'
  BY <1>2 DEF CompactMemTable, Shapes, DBShape
<1>5. ThreadsKept
  BY <1>2, AwakenedKept
<1>6. Shapes' /\ Tables' = Tables
  BY <1>2, <1>3, <1>4, <1>5 DEF Shapes, DiskShape, ThreadsKept, Tables
<1>7. BackgroundInv'
  <2>1. bg' = [pc |-> "build", file |-> vset.next_file]
    BY DEF CompactMemTable
  <2>2. vset.next_file \notin FilesOf(vset.files)
    BY <1>2 DEF Held
  <2>3. vset.next_file \notin Outputs(compaction)
    BY <1>2 DEF Outputs, CompactionInv
  <2>4. Unclaimed(bg.file)'
    BY <1>2, <1>3, <2>1, <2>2, <2>3 DEF Unclaimed, Outputs
  <2>5. BuildInv'
    BY <1>4, <2>1, <2>4 DEF BuildInv
  <2> QED
    BY <2>1, <2>5 DEF BackgroundInv
<1>8. CompactionInv'
  BY <1>2, <1>3, <1>4, <1>6, CompactionKept DEF CompactionInv
<1>9. BackgroundQuiet
  <2>1. bg.pc # "install" /\ doomed' = {} /\ disk' = disk /\ mems' = mems
    BY <1>1, <1>2
  <2>2. vset'.next_file \in Nat /\ vset.next_file <= vset'.next_file
    BY <1>2, <1>3
  <2> QED
    BY <1>2, <1>3, <1>4, <1>5, <1>6, <2>1, <2>2 DEF BackgroundQuiet, BackgroundMove
<1> QED
  BY <1>2, <1>7, <1>8, <1>9, BackgroundQuietKeeps, ReadersOutputs

LEMMA LogMemTableKeeps ==
  ASSUME FilesInv, LogMemTable
  PROVE  FilesInv'
<1>1. bg.pc = "built"
  BY DEF LogMemTable
<1>2. /\ db.state = "open" /\ Shapes /\ BackgroundInv /\ CompactionInv /\ ReadersInv
      /\ vset.next_file \in Nat /\ db.bg_error \in BOOLEAN /\ doomed = {}
      /\ UnderCurrent.next_file \in Nat /\ UnderCurrent.next_file <= vset.next_file
  BY <1>1, AtWork
<1>3. BuildInv
  BY <1>1, <1>2 DEF BackgroundInv
<1>4. UNCHANGED <<disk, vset, mems, th, compaction, doomed>>
  BY DEF LogMemTable
<1>5. /\ db'.state = db.state /\ db'.mem = db.mem /\ db'.imm = db.imm
      /\ db'.bg_error = db.bg_error /\ db'.pending = db.pending \ {bg.file} /\ DBShape'
  BY <1>2 DEF LogMemTable, Shapes, DBShape
<1>6. ThreadsKept
  BY <1>2, <1>4, AwakenedKept
<1>7. Shapes' /\ Tables' = Tables /\ UnderCurrent' = UnderCurrent
  BY <1>2, <1>4, <1>5, <1>6 DEF Shapes, DiskShape, VersionSetShape, ThreadsKept, Tables, UnderCurrent
<1>8. BackgroundInv'
  <2> DEFINE l == PickLevelForMemTableOutput(vset.files, bg.file)
             e == AddFile(l, bg.file)
  <2>1. bg' = [pc |-> "manifest", kind |-> "memtable", edit |-> e, log_number |-> db.mem,
               next_file |-> vset.next_file, last_sequence |-> vset.last_sequence]
    BY DEF LogMemTable, Logged
  <2> HIDE DEF l
  <2>2. e.add = [NoFiles EXCEPT ![l] = {bg.file}]
    BY DEF AddFile, NoEdit
  <2> HIDE DEF e
  <2>3. \A n \in FilesOf(e.add) : n = bg.file
    BY <2>2, FilesOfOne
  <2>4. Held(Tables, e.add, vset.next_file)
    BY <1>1, <1>3, <2>3 DEF Held, BuildInv, Unclaimed
  <2>5. FilesOf(e.add) \cap Outputs(compaction) = {}
    BY <1>3, <2>3 DEF BuildInv, Unclaimed
  <2>6. EditInv'
    BY <1>2, <1>3, <1>4, <1>5, <1>7, <2>1, <2>4, <2>5 DEF EditInv, BuildInv, Outputs
  <2> QED
    BY <2>1, <2>6 DEF BackgroundInv
<1>9. compaction # NoCompaction => compaction.outputs \subseteq db'.pending
  BY <1>2, <1>3, <1>5 DEF CompactionInv, BuildInv, Unclaimed, Outputs
<1>10. CompactionInv'
  BY <1>2, <1>4, <1>7, <1>9, CompactionKept
<1>11. BackgroundQuiet
  BY <1>1, <1>2, <1>4, <1>5, <1>6, <1>7 DEF BackgroundQuiet, BackgroundMove
<1> QED
  BY <1>2, <1>4, <1>8, <1>10, <1>11, BackgroundQuietKeeps, ReadersOutputs


(* Every nonempty set of naturals has a least element. *)
LEMMA LeastNumber ==
  ASSUME NEW T \in SUBSET Nat, T # {}
  PROVE  \E m \in T : \A y \in T : m <= y
<1>1. PICK m \in T : \A y \in T : ~(<<y, m>> \in OpToRel(<, Nat))
  BY WFMin, NatLessThanWellFounded
<1>2. \A y \in T : ~(y < m)
  BY <1>1 DEF OpToRel
<1> QED
  BY <1>2

(* The files of a version are finitely many. *)
LEMMA HeldFinite ==
  ASSUME NEW S, NEW v, NEW n \in Nat, Held(S, v, n), NEW l \in Level
  PROVE  IsFiniteSet(v[l])
<1>1. v[l] \subseteq 0..n
  <2> SUFFICES ASSUME NEW f \in v[l] PROVE f \in 0..n
    OBVIOUS
  <2>1. f \in FilesOf(v)
    BY FilesOfIs
  <2> QED
    BY <2>1 DEF Held
<1>2. IsFiniteSet(0..n)
  BY FS_Interval
<1> QED
  BY <1>1, <1>2, FS_Subset

(* GetOverlappingInputs returns files of its level: the range that it grows *)
(* stops at the latest when all files are in.                              *)
LEMMA OverlappingInputsOfLevel ==
  ASSUME NEW v, NEW l, NEW lo, NEW hi, IsFiniteSet(v[l])
  PROVE  GetOverlappingInputs(v, l, lo, hi) \subseteq v[l]
<1> DEFINE first == Overlapping(v[l], lo, hi)
           Grown(C) == first \subseteq C /\ Overlapping(v[l], Hull(C)[1], Hull(C)[2]) \subseteq C
           Least(C) == /\ C # {} /\ Grown(C)
                       /\ \A D \in SUBSET v[l] : D # {} /\ Grown(D) => Cardinality(C) <= Cardinality(D)
<1>1. GetOverlappingInputs(v, l, lo, hi) =
        IF l > 0 \/ first = {} THEN first ELSE CHOOSE C \in SUBSET v[l] : Least(C)
  BY DEF GetOverlappingInputs
<1>2. first \subseteq v[l] /\ \A a, b : Overlapping(v[l], a, b) \subseteq v[l]
  BY DEF Overlapping
<1>3. Grown(v[l])
  BY <1>2
<1> HIDE DEF first, Grown
<1>4. ASSUME first # {} PROVE \E C \in SUBSET v[l] : Least(C)
  <2> DEFINE cand == {D \in SUBSET v[l] : D # {} /\ Grown(D)}
             sizes == {Cardinality(D) : D \in cand}
  <2>1. v[l] \in cand
    BY <1>2, <1>3, <1>4
  <2>2. \A D \in cand : Cardinality(D) \in Nat
    BY FS_Subset, FS_CardinalityType
  <2>3. sizes \in SUBSET Nat /\ sizes # {}
    BY <2>1, <2>2
  <2>4. PICK m \in sizes : \A y \in sizes : m <= y
    <3> HIDE DEF sizes
    <3> QED BY <2>3, LeastNumber
  <2>5. PICK C \in cand : m = Cardinality(C)
    BY <2>4
  <2>6. \A D \in SUBSET v[l] : D # {} /\ Grown(D) => Cardinality(C) <= Cardinality(D)
    BY <2>4, <2>5
  <2> QED
    BY <2>5, <2>6
<1> HIDE DEF Least
<1>5. first # {} => (CHOOSE C \in SUBSET v[l] : Least(C)) \in SUBSET v[l]
  BY <1>4
<1> QED
  BY <1>1, <1>2, <1>5


LEMMA InputsOfLevel ==
  ASSUME NEW v, NEW l, IsFiniteSet(v[l]), NEW f \in v[l], NEW in1
  PROVE  SetupOtherInputs(v, l, PickedInputs(v, l, f), in1)[1] \subseteq v[l]
<1> DEFINE in0 == PickedInputs(v, l, f)
           all == Hull(in0 \cup in1)
           grown == GetOverlappingInputs(v, l, all[1], all[2])
<1>1. in0 \subseteq v[l]
  <2>1. CASE l = 0
    BY <2>1, OverlappingInputsOfLevel DEF PickedInputs
  <2>2. CASE l # 0
    BY <2>2 DEF PickedInputs
  <2> QED
    BY <2>1, <2>2
<1>2. grown \subseteq v[l]
  BY OverlappingInputsOfLevel
<1>3. SetupOtherInputs(v, l, in0, in1) \in {<<grown, NextLevelInputs(v, l, grown)>>, <<in0, in1>>}
  BY DEF SetupOtherInputs
<1> HIDE DEF in0, grown
<1>4. SetupOtherInputs(v, l, in0, in1)[1] \in {grown, in0}
  BY <1>3
<1> QED
  BY <1>1, <1>2, <1>4 DEF in0

LEMMA BackgroundCallKeeps ==
  ASSUME FilesInv, BackgroundCall
  PROVE  FilesInv'
<1>1. bg.pc = "scheduled"
  BY DEF BackgroundCall
<1>2. /\ db.state = "open" /\ Shapes /\ BackgroundInv /\ CompactionInv /\ ReadersInv
      /\ vset.next_file \in Nat /\ db.bg_error \in BOOLEAN /\ doomed = {}
      /\ Held(Tables, vset.files, vset.next_file)
      /\ UnderCurrent.next_file \in Nat /\ UnderCurrent.next_file <= vset.next_file
  BY <1>1, AtWork
<1>3. compaction = NoCompaction /\ UNCHANGED <<disk, mems, doomed>>
  BY <1>1, <1>2 DEF BackgroundInv, BackgroundCall
<1>4. ASSUME UNCHANGED <<db, vset>>, th' = th \/ th' = Awakened(th)
      PROVE  BackgroundQuiet
  <2>1. ThreadsKept
    BY <1>2, <1>4, AwakenedKept
  <2>2. Shapes' /\ Tables' = Tables
    BY <1>2, <1>3, <1>4, <2>1 DEF Shapes, DiskShape, DBShape, VersionSetShape, ThreadsKept, Tables
  <2> QED
    BY <1>1, <1>2, <1>3, <1>4, <2>1, <2>2 DEF BackgroundQuiet, BackgroundMove
<1>5. CASE FinishCall(th, TRUE, db.imm, vset.files) /\ UNCHANGED <<db, vset, compaction>>
  <2>1. BackgroundInv' /\ th' = Awakened(th)
    BY <1>3, <1>5, FinishCallDone
  <2>2. CompactionInv'
    BY <1>3, <1>5, CompactionNone
  <2> QED
    BY <1>3, <1>4, <1>5, <2>1, <2>2, BackgroundQuietKeeps
<1>6. CASE db.imm # 0 /\ CompactMemTable /\ UNCHANGED <<th, compaction>>
  BY <1>1, <1>3, <1>6, CompactMemTableKeeps
<1>7. ASSUME UNCHANGED <<db, vset, th>>, NEW l \in Level, NEW f \in vset.files[l], NEW inputs,
             inputs[1] \subseteq vset.files[l],
             \/ /\ bg' = Logged("move", [del |-> [NoFiles EXCEPT ![l] = inputs[1]],
                                         add |-> [NoFiles EXCEPT ![l + 1] = inputs[1]]],
                                vset.log_number)
                /\ compaction' = compaction
             \/ /\ bg' = [pc |-> "work"]
                /\ compaction' = StartCompaction(l, inputs)
      PROVE  FilesInv'
  <2>1. BackgroundQuiet
    BY <1>4, <1>7
  <2>2. Tables' = Tables /\ UnderCurrent' = UnderCurrent
    BY <1>3 DEF Tables, UnderCurrent
  <2>3. CASE /\ bg' = Logged("move", [del |-> [NoFiles EXCEPT ![l] = inputs[1]],
                                      add |-> [NoFiles EXCEPT ![l + 1] = inputs[1]]],
                             vset.log_number)
             /\ compaction' = compaction
    <3> DEFINE add == [NoFiles EXCEPT ![l + 1] = inputs[1]]
               e == [del |-> [NoFiles EXCEPT ![l] = inputs[1]], add |-> add]
    <3>1. Held(Tables, add, vset.next_file)
      <4> SUFFICES ASSUME NEW n \in FilesOf(add)
                   PROVE  n \in Tables /\ n \in Nat /\ n < vset.next_file
        BY DEF Held
      <4>1. n \in inputs[1]
        BY FilesOfOne
      <4>2. n \in FilesOf(vset.files)
        BY <1>7, <4>1, FilesOfIs
      <4> QED
        BY <1>2, <4>2 DEF Held
    <3> HIDE DEF add
    <3>2. bg' = [pc |-> "manifest", kind |-> "move", edit |-> e, log_number |-> vset.log_number,
                 next_file |-> vset.next_file, last_sequence |-> vset.last_sequence]
      BY <2>3 DEF Logged, add
    <3>3. e.add = add
      OBVIOUS
    <3> HIDE DEF e
    <3>4. EditInv'
      BY <1>2, <1>3, <1>7, <2>2, <2>3, <3>1, <3>2, <3>3 DEF EditInv
    <3>5. BackgroundInv'
      BY <3>2, <3>4 DEF BackgroundInv
    <3>6. CompactionInv'
      BY <1>3, <2>3, CompactionNone
    <3> QED
      BY <1>3, <2>1, <2>3, <3>5, <3>6, BackgroundQuietKeeps
  <2>4. CASE bg' = [pc |-> "work"] /\ compaction' = StartCompaction(l, inputs)
    <3> DEFINE todo == UNION {disk.tables[n] : n \in inputs[1] \cup inputs[2]}
               prev == [key |-> -1, seq |-> 0]
               last == vset.last_sequence
    <3>1. compaction' = [level |-> l, inputs |-> inputs, files |-> vset.files, todo |-> todo,
                         prev |-> prev, smallest_snapshot |-> last, outputs |-> {}, builder |-> 0]
      BY <2>4 DEF StartCompaction
    <3> HIDE DEF todo, prev, last
    <3>2. /\ compaction'.files = vset.files /\ compaction'.outputs = {} /\ compaction'.builder = 0
          /\ "outputs" \in DOMAIN compaction'
      BY <3>1
    <3>3. compaction' # NoCompaction
      BY <3>2 DEF NoCompaction
    <3>4. {"todo", "prev", "files", "outputs", "builder"} \subseteq DOMAIN compaction'
      BY <3>1
    <3>5. CompactionInv'
      BY <1>2, <1>7, <2>2, <3>2, <3>3, <3>4 DEF CompactionInv
    <3>6. BackgroundInv'
      BY <2>4, <3>3 DEF BackgroundInv
    <3> QED
      BY <2>1, <3>2, <3>5, <3>6, BackgroundQuietKeeps
  <2> QED
    BY <1>7, <2>3, <2>4
<1>8. CASE ~db.bg_error /\ db.imm = 0
  <2>1. PICK l \in Level : \E f \in vset.files[l] :
          \E in0 \in {PickedInputs(vset.files, l, f)} :
          \E in1 \in {NextLevelInputs(vset.files, l, in0)} :
          \E inputs \in {SetupOtherInputs(vset.files, l, in0, in1)} :
             IF IsTrivialMove(inputs)
               THEN /\ bg' = Logged("move", [del |-> [NoFiles EXCEPT ![l] = inputs[1]],
                                             add |-> [NoFiles EXCEPT ![l + 1] = inputs[1]]],
                                    vset.log_number)
                    /\ UNCHANGED compaction
               ELSE /\ bg' = [pc |-> "work"]
                    /\ compaction' = StartCompaction(l, inputs)
    BY <1>8 DEF BackgroundCall
  <2>2. PICK f, in1, inputs :
          /\ f \in vset.files[l]
          /\ inputs = SetupOtherInputs(vset.files, l, PickedInputs(vset.files, l, f), in1)
          /\ \/ /\ bg' = Logged("move", [del |-> [NoFiles EXCEPT ![l] = inputs[1]],
                                         add |-> [NoFiles EXCEPT ![l + 1] = inputs[1]]],
                                vset.log_number)
                /\ compaction' = compaction
             \/ /\ bg' = [pc |-> "work"]
                /\ compaction' = StartCompaction(l, inputs)
    BY <2>1
  <2>3. IsFiniteSet(vset.files[l])
    BY <1>2, HeldFinite
  <2>4. inputs[1] \subseteq vset.files[l]
    BY <2>2, <2>3, InputsOfLevel
  <2>5. UNCHANGED <<db, vset, th>>
    BY <1>8 DEF BackgroundCall
  <2> QED
    BY <1>7, <2>2, <2>4, <2>5
<1> QED
  BY <1>5, <1>6, <1>8 DEF BackgroundCall


LEMMA CompactMemTableFirstKeeps ==
  ASSUME FilesInv, CompactMemTableFirst
  PROVE  FilesInv'
BY CompactMemTableKeeps DEF CompactMemTableFirst

(* A table written by a compaction is new, or one it wrote before. *)
LEMMA CompactEntryKeeps ==
  ASSUME FilesInv, CompactEntry
  PROVE  FilesInv'
<1> DEFINE c == compaction
           e == CHOOSE x \in c.todo :
                  \A y \in c.todo : x.key < y.key \/ (x.key = y.key /\ x.seq >= y.seq)
           out == IF c.builder = 0 THEN vset.next_file ELSE c.builder
           content == {e} \cup IF c.builder = 0 THEN {} ELSE disk.tables[out]
           left == c.todo \ {e}
           prev == [key |-> e.key, seq |-> e.seq]
           more == c.outputs \cup {out}
           open == IF Cardinality(content) >= MaxOutputEntries THEN 0 ELSE out
<1>1. bg.pc \in {"work", "entry"}
  BY DEF CompactEntry
<1>2. /\ db.state = "open" /\ Shapes /\ BackgroundInv /\ CompactionInv /\ ReadersInv
      /\ vset.next_file \in Nat /\ db.bg_error \in BOOLEAN /\ doomed = {}
      /\ Held(Tables, vset.files, vset.next_file)
  <2>1. bg.pc \notin {"idle", "open", "delete"}
    BY <1>1
  <2> QED
    BY <2>1, AtWork
<1>3. c # NoCompaction
  BY <1>1, <1>2 DEF BackgroundInv
<1>4. bg' = [pc |-> "work"] /\ UNCHANGED <<mems, th, doomed>>
  BY DEF CompactEntry
<1>5. \/ /\ compaction' = [c EXCEPT !.todo = left, !.prev = prev]
         /\ UNCHANGED <<disk, db, vset>>
      \/ /\ disk' = [disk EXCEPT !.tables = WithFile(@, out, content)]
         /\ compaction' = [c EXCEPT !.todo = left, !.prev = prev, !.outputs = more, !.builder = open]
         /\ db' = [db EXCEPT !.pending = @ \cup {out}]
         /\ vset' = [vset EXCEPT !.next_file = IF c.builder = 0 THEN @ + 1 ELSE @]
  BY <1>3 DEF CompactEntry
<1>6. ThreadsKept
  BY <1>2, <1>4, AwakenedKept
<1> HIDE DEF e, content, left, prev
<1>7. {"todo", "prev", "files", "outputs", "builder"} \subseteq DOMAIN c
  BY <1>2, <1>3 DEF CompactionInv
<1>8. /\ Held(Tables, c.files, vset.next_file) /\ c.outputs \subseteq Tables \cap db.pending
      /\ \A o \in c.outputs : o \in Nat /\ o < vset.next_file /\ o \notin FilesOf(vset.files)
      /\ c.builder \in c.outputs \cup {0}
      /\ \A u \in Thread : th[u].pc = "reading" => FilesOf(th[u].files) \cap c.outputs = {}
  BY <1>2, <1>3, ReadersOutputs DEF CompactionInv
<1>9. CASE /\ compaction' = [c EXCEPT !.todo = left, !.prev = prev]
           /\ UNCHANGED <<disk, db, vset>>
  <2>1. /\ compaction'.files = c.files /\ compaction'.outputs = c.outputs
        /\ compaction'.builder = c.builder /\ DOMAIN compaction' = DOMAIN c
    BY <1>7, <1>9
  <2>2. compaction' # NoCompaction
    BY <1>7, <2>1 DEF NoCompaction
  <2>3. Shapes' /\ Tables' = Tables
    BY <1>2, <1>6, <1>9 DEF Shapes, DiskShape, DBShape, VersionSetShape, ThreadsKept, Tables
  <2>4. CompactionInv'
    <3> HIDE DEF c
    <3> QED BY <1>7, <1>8, <1>9, <2>1, <2>3 DEF CompactionInv
  <2>5. BackgroundInv'
    BY <1>4, <2>2 DEF BackgroundInv
  <2>6. BackgroundQuiet
    BY <1>1, <1>2, <1>4, <1>6, <1>9, <2>3 DEF BackgroundQuiet, BackgroundMove
  <2> QED
    BY <1>8, <2>1, <2>4, <2>5, <2>6, BackgroundQuietKeeps
<1>10. CASE /\ disk' = [disk EXCEPT !.tables = WithFile(@, out, content)]
            /\ compaction' = [c EXCEPT !.todo = left, !.prev = prev, !.outputs = more, !.builder = open]
            /\ db' = [db EXCEPT !.pending = @ \cup {out}]
            /\ vset' = [vset EXCEPT !.next_file = IF c.builder = 0 THEN @ + 1 ELSE @]
  <2>1. /\ compaction'.files = c.files /\ compaction'.outputs = more
        /\ compaction'.builder = open /\ DOMAIN compaction' = DOMAIN c
    <3> HIDE DEF more, open
    <3> QED BY <1>7, <1>10
  <2>2. compaction' # NoCompaction
    BY <1>7, <2>1 DEF NoCompaction
  <2>3. /\ disk'.current = disk.current /\ disk'.manifests = disk.manifests
        /\ disk'.logs = disk.logs /\ disk'.tables = WithFile(disk.tables, out, content)
        /\ DiskShape'
    <3> HIDE DEF out
    <3> QED BY <1>2, <1>10 DEF Shapes, DiskShape
  <2>4. /\ vset'.files = vset.files /\ vset'.manifest = vset.manifest
        /\ vset'.log_number = vset.log_number
        /\ vset'.next_file = (IF c.builder = 0 THEN vset.next_file + 1 ELSE vset.next_file)
        /\ VersionSetShape'
    BY <1>2, <1>10 DEF Shapes, VersionSetShape
  <2>5. /\ db'.state = db.state /\ db'.mem = db.mem /\ db'.imm = db.imm
        /\ db'.bg_error = db.bg_error /\ db'.pending = db.pending \cup {out} /\ DBShape'
    <3> HIDE DEF out
    <3> QED BY <1>2, <1>10 DEF Shapes, DBShape
  <2>6. Tables' = Tables \cup {out}
    BY <2>3 DEF Tables, WithFile
  <2>7. /\ vset'.next_file \in Nat /\ vset.next_file <= vset'.next_file
        /\ out \in Nat /\ out < vset'.next_file
        /\ out \in c.outputs \/ out = vset.next_file
    BY <1>2, <1>8, <2>4
  <2>8. out \notin FilesOf(vset.files)
    BY <1>2, <1>8, <2>7 DEF Held
  <2>9. \A u \in Thread : th[u].pc = "reading" => out \notin FilesOf(th[u].files)
    <3> SUFFICES ASSUME NEW u \in Thread, th[u].pc = "reading", out \in FilesOf(th[u].files)
                 PROVE  FALSE
      OBVIOUS
    <3>1. Held(Tables, th[u].files, vset.next_file)
      BY <1>2 DEF ReadersInv, Reading
    <3>2. out < vset.next_file
      BY <3>1 DEF Held
    <3>3. out \in c.outputs
      BY <1>2, <2>7, <3>2
    <3> QED
      BY <1>8, <3>3
  <2>10. Shapes'
    BY <1>2, <1>6, <2>3, <2>4, <2>5 DEF Shapes, ThreadsKept
  <2> HIDE DEF out
  <2>11. CompactionInv'
    <3>1. Held(Tables', compaction'.files, vset'.next_file)
      BY <1>2, <1>8, <2>1, <2>6, <2>7, HeldGrows
    <3>2. \A o \in more : o \in Nat /\ o < vset'.next_file /\ o \notin FilesOf(vset.files)
      BY <1>2, <1>8, <2>7, <2>8
    <3>3. more \subseteq Tables' \cap db'.pending
      BY <1>8, <2>5, <2>6
    <3>4. open \in more \cup {0}
      OBVIOUS
    <3> HIDE DEF more, open
    <3> QED
      BY <1>7, <2>1, <2>4, <3>1, <3>2, <3>3, <3>4 DEF CompactionInv
  <2>12. BackgroundInv'
    BY <1>4, <2>2 DEF BackgroundInv
  <2>13. BackgroundQuiet
    <3>1. bg.pc # "install" /\ Tables \subseteq Tables'
      BY <1>1, <2>6
    <3> QED
      BY <1>2, <1>4, <1>6, <2>3, <2>4, <2>5, <2>7, <2>10, <3>1 DEF BackgroundQuiet, BackgroundMove
  <2>14. \A u \in Thread : th[u].pc = "reading" => FilesOf(th[u].files) \cap more = {}
    BY <1>8, <2>9
  <2> HIDE DEF more
  <2> QED
    BY <2>1, <2>11, <2>12, <2>13, <2>14, BackgroundQuietKeeps
<1> QED
  BY <1>5, <1>9, <1>10


LEMMA InstallCompactionResultsKeeps ==
  ASSUME FilesInv, InstallCompactionResults
  PROVE  FilesInv'
<1>1. bg.pc = "work"
  BY DEF InstallCompactionResults
<1>2. /\ db.state = "open" /\ Shapes /\ BackgroundInv /\ CompactionInv /\ ReadersInv
      /\ vset.next_file \in Nat /\ db.bg_error \in BOOLEAN /\ doomed = {}
      /\ UnderCurrent.next_file \in Nat /\ UnderCurrent.next_file <= vset.next_file
  BY <1>1, AtWork
<1>3. UNCHANGED <<disk, db, vset, mems, th, compaction, doomed>> /\ compaction # NoCompaction
  BY <1>1, <1>2 DEF InstallCompactionResults, BackgroundInv
<1>4. ThreadsKept
  BY <1>2, <1>3, AwakenedKept
<1>5. Shapes' /\ Tables' = Tables /\ UnderCurrent' = UnderCurrent
  BY <1>2, <1>3, <1>4 DEF Shapes, DiskShape, DBShape, VersionSetShape, ThreadsKept, Tables, UnderCurrent
<1>6. BackgroundInv'
  <2> DEFINE add == [NoFiles EXCEPT ![compaction.level + 1] = compaction.outputs]
             del == [NoFiles EXCEPT ![compaction.level] = compaction.inputs[1],
                                    ![compaction.level + 1] = compaction.inputs[2]]
             e == [del |-> del, add |-> add]
  <2>1. \A n \in FilesOf(add) : n \in compaction.outputs
    BY FilesOfOne
  <2>2. Held(Tables, add, vset.next_file)
    BY <1>2, <1>3, <2>1 DEF Held, CompactionInv
  <2> HIDE DEF add, del
  <2>3. e.add = add
    OBVIOUS
  <2>4. bg' = [pc |-> "manifest", kind |-> "compaction", edit |-> e, log_number |-> vset.log_number,
               next_file |-> vset.next_file, last_sequence |-> vset.last_sequence]
    BY DEF InstallCompactionResults, Logged, e, add, del
  <2> HIDE DEF e
  <2>5. EditInv'
    BY <1>2, <1>3, <1>5, <2>2, <2>3, <2>4 DEF EditInv
  <2> QED
    BY <2>4, <2>5 DEF BackgroundInv
<1>7. CompactionInv'
  BY <1>2, <1>3, <1>5, CompactionKept DEF CompactionInv
<1>8. BackgroundQuiet
  BY <1>1, <1>2, <1>3, <1>4, <1>5 DEF BackgroundQuiet, BackgroundMove
<1> QED
  BY <1>2, <1>3, <1>6, <1>7, <1>8, BackgroundQuietKeeps, ReadersOutputs

LEMMA CompactionFailsKeeps ==
  ASSUME FilesInv, CompactionFails
  PROVE  FilesInv'
<1>1. bg.pc \in {"work", "entry"} /\ bg.pc \notin {"idle", "open", "delete", "install"}
  BY DEF CompactionFails
<1>2. /\ db.state = "open" /\ Shapes /\ vset.next_file \in Nat /\ doomed = {}
  BY <1>1, AtWork
<1>3. UNCHANGED <<disk, vset, mems, doomed>> /\ compaction' = NoCompaction
  BY DEF CompactionFails
<1>4. /\ db'.state = db.state /\ db'.mem = db.mem /\ db'.imm = db.imm
      /\ db'.bg_error = TRUE /\ DBShape'
  BY <1>2 DEF CompactionFails, Shapes, DBShape
<1>5. BackgroundInv' /\ th' = Awakened(th)
  BY <1>3, FinishCallDone DEF CompactionFails
<1>6. ThreadsKept
  BY <1>2, <1>5, AwakenedKept
<1>7. Shapes' /\ Tables' = Tables
  BY <1>2, <1>3, <1>4, <1>6 DEF Shapes, DiskShape, VersionSetShape, ThreadsKept, Tables
<1>8. BackgroundQuiet
  <2>1. db'.bg_error \in BOOLEAN /\ (db.bg_error => db'.bg_error)
    BY <1>4
  <2>2. db'.state = "open" /\ db'.mem = db.mem /\ db'.imm = db.imm
    BY <1>2, <1>4
  <2> QED
    BY <1>1, <1>2, <1>3, <1>6, <1>7, <2>1, <2>2 DEF BackgroundQuiet, BackgroundMove
<1> QED
  BY <1>3, <1>5, <1>8, CompactionNone, BackgroundQuietKeeps

LEMMA ObsoleteFilesRemovedKeeps ==
  ASSUME FilesInv, ObsoleteFilesRemoved
  PROVE  FilesInv'
<1>1. bg.pc = "delete" /\ doomed = {}
  BY DEF ObsoleteFilesRemoved
<1>2. /\ db.state = "open" /\ Shapes /\ BackgroundInv /\ CompactionInv /\ ReadersInv
      /\ vset.next_file \in Nat /\ db.bg_error \in BOOLEAN
  BY <1>1, AtWork
<1>3. UNCHANGED <<disk, db, vset, mems, compaction, doomed>>
  BY DEF ObsoleteFilesRemoved
<1>4. BackgroundInv' /\ th' = Awakened(th)
  <2>1. CASE MemTableDone(db.bg_error, db.imm, vset.files)
    BY <1>3, <2>1, MemTableDoneDone
  <2>2. CASE bg.kind = "compaction" /\ FinishCall(th, db.bg_error, db.imm, vset.files)
    <3>1. compaction = NoCompaction
      BY <1>1, <1>2, <2>2 DEF BackgroundInv
    <3> QED
      BY <1>3, <2>2, <3>1, FinishCallDone
  <2> QED
    BY <2>1, <2>2 DEF ObsoleteFilesRemoved
<1>5. ThreadsKept
  BY <1>2, <1>4, AwakenedKept
<1>6. Shapes' /\ Tables' = Tables
  BY <1>2, <1>3, <1>5 DEF Shapes, DiskShape, DBShape, VersionSetShape, ThreadsKept, Tables
<1>7. CompactionInv'
  BY <1>2, <1>3, <1>6, CompactionKept DEF CompactionInv
<1>8. BackgroundQuiet
  BY <1>1, <1>2, <1>3, <1>5, <1>6 DEF BackgroundQuiet, BackgroundMove
<1> QED
  BY <1>2, <1>3, <1>4, <1>7, <1>8, BackgroundQuietKeeps, ReadersOutputs


(* The record in the MANIFEST: what a restart would find is on disk. *)
LEMMA ManifestWritten ==
  ASSUME FilesInv, bg.pc = "manifest",
         disk' = [disk EXCEPT !.manifests[vset.manifest] = WithRecord(@, bg)]
  PROVE  /\ DiskShape' /\ disk'.current = disk.current /\ disk'.logs = disk.logs
         /\ disk'.tables = disk.tables
         /\ UnderCurrent'.next_file = bg.next_file
         /\ UnderCurrent'.files = Edited(UnderCurrent.files, bg.edit)
         /\ db'.state = "open" => CurrentHeld'
<1>1. /\ db.state = "open" /\ Shapes /\ BackgroundInv /\ vset.next_file \in Nat
      /\ UnderCurrent.next_file \in Nat
  BY AtWork
<1>2. EditInv
  BY <1>1 DEF BackgroundInv
<1>3. disk.current = vset.manifest /\ disk.current # 0 /\ CurrentHeld
  BY <1>1 DEF FilesInv, OpenInv, CurrentHeld
<1>4. disk' = [disk EXCEPT !.manifests = [disk.manifests EXCEPT ![disk.current] = WithRecord(UnderCurrent, bg)]]
  BY <1>1, <1>3 DEF UnderCurrent, Shapes, DiskShape
<1>5. /\ DiskShape' /\ disk'.current = disk.current /\ disk'.logs = disk.logs
      /\ disk'.tables = disk.tables
      /\ disk'.manifests = [disk.manifests EXCEPT ![disk.current] = WithRecord(UnderCurrent, bg)]
  <2> DEFINE m == [disk.manifests EXCEPT ![disk.current] = WithRecord(UnderCurrent, bg)]
  <2>1. disk' = [disk EXCEPT !.manifests = m]
    BY <1>4
  <2> HIDE DEF m
  <2> QED
    BY <1>1, <2>1 DEF Shapes, DiskShape, m
<1>6. disk.current \in DOMAIN disk.manifests
  BY <1>3 DEF CurrentHeld
<1>7. UnderCurrent' = WithRecord(UnderCurrent, bg) /\ DOMAIN disk'.manifests = DOMAIN disk.manifests
  BY <1>5, <1>6 DEF UnderCurrent
<1>8. /\ UnderCurrent'.next_file = bg.next_file
      /\ UnderCurrent'.files = Edited(UnderCurrent.files, bg.edit)
  BY <1>7 DEF WithRecord
<1>9. Held(Tables, UnderCurrent'.files, bg.next_file)
  <2> SUFFICES ASSUME NEW n \in FilesOf(UnderCurrent'.files)
               PROVE  n \in Tables /\ n \in Nat /\ n < bg.next_file
    BY DEF Held
  <2>1. n \in FilesOf(UnderCurrent.files) \cup FilesOf(bg.edit.add)
    BY <1>8, FilesOfEdited
  <2>2. bg.next_file \in Nat /\ UnderCurrent.next_file <= bg.next_file
    BY <1>2 DEF EditInv
  <2>3. CASE n \in FilesOf(UnderCurrent.files)
    <3>1. n \in Tables /\ n \in Nat /\ n < UnderCurrent.next_file
      BY <1>3, <2>3 DEF CurrentHeld, Held
    <3> QED
      BY <1>1, <2>2, <3>1
  <2>4. CASE n \in FilesOf(bg.edit.add)
    BY <1>2, <2>4 DEF EditInv, Held
  <2> QED
    BY <2>1, <2>3, <2>4
<1>10. bg.next_file \in Nat /\ disk.current < bg.next_file
  <2>1. disk.current \in Nat /\ disk.current < UnderCurrent.next_file
    BY <1>3 DEF CurrentHeld
  <2>2. bg.next_file \in Nat /\ UnderCurrent.next_file <= bg.next_file
    BY <1>2 DEF EditInv
  <2> QED
    BY <1>1, <2>1, <2>2
<1>11. Tables' = Tables
  BY <1>5 DEF Tables
<1>12. CurrentHeld'
  <2>1. disk'.current # 0 /\ disk'.current \in Nat /\ disk'.current \in DOMAIN disk'.manifests
    BY <1>3, <1>5, <1>6, <1>7 DEF CurrentHeld
  <2>2. UnderCurrent'.next_file \in Nat /\ disk'.current < UnderCurrent'.next_file
    BY <1>5, <1>8, <1>10
  <2>3. Held(Tables', UnderCurrent'.files, UnderCurrent'.next_file)
    BY <1>8, <1>9, <1>11
  <2> QED
    BY <2>1, <2>2, <2>3 DEF CurrentHeld
<1> QED
  BY <1>5, <1>8, <1>12

LEMMA WriteManifestKeeps ==
  ASSUME FilesInv, WriteManifest
  PROVE  FilesInv'
<1>1. bg.pc = "manifest"
  BY DEF WriteManifest
<1>2. /\ db.state = "open" /\ Shapes /\ BackgroundInv /\ CompactionInv /\ ReadersInv
      /\ vset.next_file \in Nat /\ db.bg_error \in BOOLEAN /\ doomed = {}
  BY <1>1, AtWork
<1>3. EditInv
  BY <1>1, <1>2 DEF BackgroundInv
<1>4. UNCHANGED <<db, vset, mems, th, compaction, doomed>>
  BY DEF WriteManifest
<1>5. /\ DiskShape' /\ disk'.current = disk.current /\ disk'.logs = disk.logs
      /\ disk'.tables = disk.tables
      /\ UnderCurrent'.next_file = bg.next_file
      /\ UnderCurrent'.files = Edited(UnderCurrent.files, bg.edit)
      /\ CurrentHeld'
  BY <1>1, <1>2, <1>4, ManifestWritten DEF WriteManifest
<1>6. bg' = [pc |-> "install", kind |-> bg.kind, edit |-> bg.edit, log_number |-> bg.log_number,
             next_file |-> bg.next_file, last_sequence |-> bg.last_sequence]
  BY <1>3 DEF WriteManifest, EditInv
<1>7. ThreadsKept
  BY <1>2, <1>4, AwakenedKept
<1>8. Shapes' /\ Tables' = Tables
  BY <1>2, <1>4, <1>5, <1>7 DEF Shapes, DBShape, VersionSetShape, ThreadsKept, Tables
<1>9. ~db.bg_error => UnderCurrent.files = vset.files
  BY <1>1, <1>2 DEF FilesInv, OpenInv
<1>10. BackgroundInv'
  <2>1. /\ bg'.pc = "install" /\ bg'.kind = bg.kind /\ bg'.edit = bg.edit
        /\ bg'.log_number = bg.log_number /\ bg'.next_file = bg.next_file
        /\ bg' = [pc |-> bg'.pc, kind |-> bg'.kind, edit |-> bg'.edit, log_number |-> bg'.log_number,
                  next_file |-> bg'.next_file, last_sequence |-> bg'.last_sequence]
    BY <1>6
  <2>2. UnderCurrent'.next_file <= bg'.next_file
    BY <1>3, <1>5, <2>1 DEF EditInv
  <2>3. ~db'.bg_error => UnderCurrent'.files = Edited(vset'.files, bg'.edit)
    BY <1>4, <1>5, <1>9, <2>1
  <2>4. EditInv'
    BY <1>3, <1>4, <1>8, <2>1, <2>2, <2>3 DEF EditInv, Outputs
  <2> QED
    BY <2>1, <2>4 DEF BackgroundInv
<1>11. CompactionInv'
  BY <1>2, <1>4, <1>8, CompactionKept DEF CompactionInv
<1>12. BackgroundMove
  BY <1>2, <1>4, <1>5, <1>7, <1>8 DEF BackgroundMove
<1>13. UnderCurrent'.next_file <= vset'.next_file /\ bg'.pc = "install"
  BY <1>3, <1>4, <1>5, <1>6 DEF EditInv
<1> QED
  BY <1>2, <1>4, <1>5, <1>10, <1>11, <1>12, <1>13, BackgroundMoveKeeps, ReadersOutputs

(* A failure leaves an error, after which nothing is removed any more. *)
LEMMA ManifestFailsKeeps ==
  ASSUME FilesInv, ManifestFails
  PROVE  FilesInv'
<1>1. bg.pc = "manifest"
  BY DEF ManifestFails
<1>2. /\ db.state = "open" /\ Shapes /\ BackgroundInv /\ CompactionInv /\ ReadersInv
      /\ vset.next_file \in Nat /\ db.bg_error \in BOOLEAN /\ doomed = {}
  BY <1>1, AtWork
<1>3. EditInv
  BY <1>1, <1>2 DEF BackgroundInv
<1>4. UNCHANGED <<vset, mems, doomed>>
  BY DEF ManifestFails
<1>5. /\ db'.state = db.state /\ db'.mem = db.mem /\ db'.imm = db.imm /\ db'.bg_error = TRUE
      /\ db'.pending = (IF bg.kind = "compaction" THEN db.pending \ compaction.outputs ELSE db.pending)
      /\ DBShape'
  BY <1>2 DEF ManifestFails, Shapes, DBShape
<1>6. db'.bg_error \in BOOLEAN /\ db'.bg_error /\ db'.state = "open"
  BY <1>2, <1>5
<1>7. \/ bg.kind = "memtable" /\ compaction' = compaction
      \/ compaction' = NoCompaction
  BY DEF ManifestFails
<1>8. BackgroundInv' /\ th' = Awakened(th)
  BY MemTableDoneDone, FinishCallDone DEF ManifestFails
<1>9. ThreadsKept
  BY <1>2, <1>8, AwakenedKept
<1>10. CompactionInv' \/ ~(Tables' = Tables)
  <2> SUFFICES ASSUME Tables' = Tables PROVE CompactionInv'
    OBVIOUS
  <2>1. CASE compaction' = NoCompaction
    BY <2>1, CompactionNone
  <2>2. CASE bg.kind = "memtable" /\ compaction' = compaction
    <3>1. db'.pending = db.pending
      BY <1>5, <2>2
    <3> QED
      BY <1>2, <1>4, <2>2, <3>1, CompactionKept DEF CompactionInv
  <2> QED
    BY <1>7, <2>1, <2>2
<1>11. compaction' # NoCompaction =>
         \A u \in Thread : th[u].pc = "reading" => FilesOf(th[u].files) \cap compaction'.outputs = {}
  BY <1>2, <1>7, ReadersOutputs
<1>12. CASE disk' = disk
  <2>1. Shapes' /\ Tables' = Tables
    BY <1>2, <1>4, <1>5, <1>9, <1>12 DEF Shapes, DiskShape, VersionSetShape, ThreadsKept, Tables
  <2>2. BackgroundQuiet
    BY <1>1, <1>2, <1>4, <1>5, <1>6, <1>9, <1>12, <2>1 DEF BackgroundQuiet, BackgroundMove
  <2> QED
    BY <1>8, <1>10, <1>11, <2>1, <2>2, BackgroundQuietKeeps
<1>13. CASE disk' = [disk EXCEPT !.manifests[vset.manifest] = WithRecord(@, bg)]
  <2>1. /\ DiskShape' /\ disk'.current = disk.current /\ disk'.logs = disk.logs
        /\ disk'.tables = disk.tables
        /\ UnderCurrent'.next_file = bg.next_file
        /\ CurrentHeld'
    BY <1>1, <1>6, <1>13, ManifestWritten
  <2>2. Shapes' /\ Tables' = Tables
    BY <1>2, <1>4, <1>5, <1>9, <2>1 DEF Shapes, VersionSetShape, ThreadsKept, Tables
  <2>3. BackgroundMove
    BY <1>2, <1>4, <1>5, <1>6, <1>9, <2>1, <2>2 DEF BackgroundMove
  <2>4. UnderCurrent'.next_file <= vset'.next_file
    BY <1>3, <1>4, <2>1 DEF EditInv
  <2> QED
    BY <1>6, <1>8, <1>10, <1>11, <2>1, <2>2, <2>3, <2>4, BackgroundMoveKeeps
<1> QED
  BY <1>12, <1>13 DEF ManifestFails


(* RemoveObsoleteFiles takes nothing that its arguments need. *)
LEMMA ObsoleteFilesAre ==
  ASSUME NEW d, NEW v, NEW c, NEW x \in ObsoleteFiles(d, v, c)
  PROVE  /\ ~d.bg_error
         /\ x[1] = "log" => x[2] < v.log_number
         /\ x[1] = "manifest" => x[2] < v.manifest
         /\ x[1] = "table" =>
              /\ x[2] \notin d.pending /\ x[2] \notin FilesOf(v.files)
              /\ c # NoCompaction => x[2] \notin FilesOf(c.files)
              /\ \A t \in Thread : th[t].pc = "reading" => x[2] \notin FilesOf(th[t].files)
<1>1. ~d.bg_error
  BY DEF ObsoleteFiles
<1>2. \/ \E n \in DOMAIN disk.logs : n < v.log_number /\ x = <<"log", n>>
      \/ \E n \in DOMAIN disk.manifests : n < v.manifest /\ x = <<"manifest", n>>
      \/ \E n \in DOMAIN disk.tables : n \notin d.pending /\ n \notin LiveFiles(v, c) /\ x = <<"table", n>>
  BY <1>1 DEF ObsoleteFiles
<1>3. CASE \E n \in DOMAIN disk.logs : n < v.log_number /\ x = <<"log", n>>
  BY <1>1, <1>3
<1>4. CASE \E n \in DOMAIN disk.manifests : n < v.manifest /\ x = <<"manifest", n>>
  BY <1>1, <1>4
<1>5. CASE \E n \in DOMAIN disk.tables : n \notin d.pending /\ n \notin LiveFiles(v, c) /\ x = <<"table", n>>
  <2>1. PICK n : n \notin d.pending /\ n \notin LiveFiles(v, c) /\ x = <<"table", n>>
    BY <1>5
  <2>2. x[1] = "table" /\ x[2] = n
    BY <2>1
  <2>3. /\ n \notin FilesOf(v.files) /\ (c # NoCompaction => n \notin FilesOf(c.files))
        /\ \A t \in Thread : th[t].pc = "reading" => n \notin FilesOf(th[t].files)
    BY <2>1, LiveFilesIs
  <2> QED
    BY <1>1, <2>1, <2>2, <2>3
<1> QED
  BY <1>2, <1>3, <1>4, <1>5

LEMMA InstallKeeps ==
  ASSUME FilesInv, Install
  PROVE  FilesInv'
<1>1. bg.pc = "install"
  BY DEF Install
<1>2. /\ db.state = "open" /\ Shapes /\ BackgroundInv /\ CompactionInv /\ ReadersInv
      /\ vset.next_file \in Nat /\ db.bg_error \in BOOLEAN /\ doomed = {}
      /\ Held(Tables, vset.files, vset.next_file)
      /\ UnderCurrent.next_file \in Nat /\ UnderCurrent.next_file <= vset.next_file
  BY <1>1, AtWork
<1>3. EditInv
  BY <1>1, <1>2 DEF BackgroundInv
<1>4. /\ vset'.files = Edited(vset.files, bg.edit) /\ vset'.log_number = bg.log_number
      /\ vset'.next_file = vset.next_file /\ vset'.manifest = vset.manifest /\ VersionSetShape'
      /\ vset' = Installed
  BY <1>2 DEF Install, Installed, Shapes, VersionSetShape
<1>5. disk' = disk /\ Tables' = Tables /\ UnderCurrent' = UnderCurrent /\ DiskShape'
  BY <1>2 DEF Install, Tables, UnderCurrent, Shapes, DiskShape
<1>6. ~db.bg_error => UnderCurrent.files = vset'.files
  BY <1>1, <1>3, <1>4 DEF EditInv
<1>7. Held(Tables', vset'.files, vset'.next_file)
  <2> SUFFICES ASSUME NEW n \in FilesOf(vset'.files)
               PROVE  n \in Tables /\ n \in Nat /\ n < vset.next_file
    BY <1>4, <1>5 DEF Held
  <2>1. n \in FilesOf(vset.files) \/ n \in FilesOf(bg.edit.add)
    BY <1>4, FilesOfEdited
  <2>2. n \in FilesOf(bg.edit.add) => n \in Tables /\ n \in Nat /\ n < bg.next_file
    BY <1>3 DEF EditInv, Held
  <2>3. bg.next_file \in Nat /\ bg.next_file <= vset.next_file
    BY <1>3 DEF EditInv
  <2>4. n \in FilesOf(vset.files) => n \in Tables /\ n \in Nat /\ n < vset.next_file
    BY <1>2 DEF Held
  <2> QED
    BY <1>2, <2>1, <2>2, <2>3, <2>4
<1>8. ServingInv /\ LogsHeld /\ CurrentHeld /\ disk.current = vset.manifest
  BY <1>2 DEF FilesInv, ServingInv, OpenInv
<1>9. ASSUME DBShape', ThreadsKept, db'.state = "open", db'.bg_error = db.bg_error, db'.mem = db.mem,
             db'.imm \in {0, db.imm}, bg.kind = "memtable" => db'.imm = 0,
             DoomedUnneeded', doomed' # {} => bg'.pc = "delete",
             BackgroundInv', CompactionInv', ReadersInv', bg'.pc # "install"
      PROVE  FilesInv'
  <2>1. Shapes'
    BY <1>2, <1>4, <1>5, <1>9 DEF Shapes, ThreadsKept
  <2>2. CurrentHeld'
    <3>1. disk.current # 0
      BY <1>2, <1>8 DEF CurrentHeld
    <3> QED
      BY <1>5, <1>8, <3>1 DEF CurrentHeld
  <2>3. LogsHeld'
    <3>1. bg.log_number = db.mem \/ bg.log_number = vset.log_number
      BY <1>3 DEF EditInv
    <3>2. CASE bg.kind = "memtable"
      <4>1. bg.log_number = db.mem /\ db'.imm = 0
        BY <1>3, <1>9, <3>2 DEF EditInv
      <4> QED
        BY <1>4, <1>5, <1>8, <1>9, <4>1 DEF LogsHeld
    <3>3. CASE bg.kind # "memtable"
      <4>1. bg.log_number = vset.log_number
        BY <1>3, <3>3 DEF EditInv
      <4> QED
        BY <1>4, <1>5, <1>8, <1>9, <4>1 DEF LogsHeld
    <3> QED
      BY <3>2, <3>3
  <2>4. ServingInv'
    BY <1>2, <1>4, <1>7, <1>8, <1>9, <2>3 DEF ServingInv
  <2>5. OpenInv'
    BY <1>2, <1>4, <1>5, <1>6, <1>8, <1>9 DEF OpenInv
  <2> QED
    BY <1>9, <2>1, <2>2, <2>4, <2>5 DEF FilesInv, NobodyYet, RecoveringInv, OpeningInv
<1>10. CASE bg.kind = "memtable"
  <2>1. /\ db' = [db EXCEPT !.imm = 0] /\ doomed' = ObsoleteFiles(db', Installed, compaction)
        /\ bg' = [pc |-> "delete", kind |-> "memtable"] /\ th' = th /\ compaction' = compaction
    BY <1>10 DEF Install
  <2>2. /\ db'.state = "open" /\ db'.mem = db.mem /\ db'.imm = 0 /\ db'.bg_error = db.bg_error
        /\ db'.pending = db.pending /\ DBShape'
    BY <1>2, <2>1 DEF Shapes, DBShape
  <2>3. db.imm # 0 /\ FilesOf(bg.edit.add) \cap Outputs(compaction) = {}
    BY <1>3, <1>10 DEF EditInv
  <2>5. ThreadsKept
    BY <1>2, <2>1, AwakenedKept
  <2>6. ReadersInv'
    BY <1>2, <1>4, <1>5, <2>1 DEF ReadersInv, Reading
  <2>7. BackgroundInv'
    BY <2>1 DEF BackgroundInv
  <2>8. CompactionInv'
    <3> SUFFICES ASSUME compaction # NoCompaction PROVE CompactionInv'
      BY <2>1 DEF CompactionInv
    <3>1. \A o \in compaction.outputs : o \notin FilesOf(vset'.files)
      <4> SUFFICES ASSUME NEW o \in compaction.outputs, o \in FilesOf(vset'.files) PROVE FALSE
        OBVIOUS
      <4>1. o \in FilesOf(vset.files) \/ o \in FilesOf(bg.edit.add)
        BY <1>4, FilesOfEdited
      <4>2. o \in Outputs(compaction)
        BY DEF Outputs
      <4> QED
        BY <1>2, <2>3, <4>1, <4>2 DEF CompactionInv
    <3> QED
      BY <1>2, <1>4, <1>5, <2>1, <2>2, <3>1 DEF CompactionInv
  <2>9. DoomedUnneeded'
    <3> SUFFICES ASSUME NEW d \in doomed'
                 PROVE  /\ d[1] = "log" => d[2] < vset'.log_number
                        /\ d[1] = "manifest" => d[2] < vset'.manifest
                        /\ d[1] = "table" => d[2] \notin Needed'
      BY DEF DoomedUnneeded
    <3>1. /\ ~db'.bg_error
          /\ d[1] = "log" => d[2] < vset'.log_number
          /\ d[1] = "manifest" => d[2] < vset'.manifest
          /\ d[1] = "table" =>
               /\ d[2] \notin db'.pending /\ d[2] \notin FilesOf(vset'.files)
               /\ compaction # NoCompaction => d[2] \notin FilesOf(compaction.files)
               /\ \A t \in Thread : th[t].pc = "reading" => d[2] \notin FilesOf(th[t].files)
      BY <1>4, <2>1, ObsoleteFilesAre
    <3>2. ASSUME d[1] = "table" PROVE d[2] \notin Needed'
      <4>1. d[2] \notin FilesOf(UnderCurrent'.files)
        BY <1>5, <1>6, <2>2, <3>1, <3>2
      <4>2. compaction # NoCompaction => d[2] \notin compaction.outputs
        BY <1>2, <2>2, <3>1, <3>2 DEF CompactionInv
      <4> QED
        BY <2>1, <3>1, <3>2, <4>1, <4>2, NeededIsNext
    <3> QED
      BY <3>1, <3>2
  <2>10. bg'.pc = "delete"
    BY <2>1
  <2> QED
    BY <1>9, <2>2, <2>5, <2>6, <2>7, <2>8, <2>9, <2>10
<1>11. ASSUME bg.kind # "memtable", th' = th \/ th' = Awakened(th), compaction' = NoCompaction
       PROVE  ThreadsKept /\ ReadersInv' /\ CompactionInv'
  <2>1. ThreadsKept
    BY <1>2, <1>11, AwakenedKept
  <2>2. ASSUME NEW u \in Thread, th[u].pc = "reading"
        PROVE  Held(Tables', th[u].files, vset.next_file)
    BY <1>2, <1>5, <2>2 DEF ReadersInv, Reading
  <2>3. vset'.next_file \in Nat /\ vset.next_file <= vset'.next_file
    BY <1>2, <1>4
  <2>4. ReadersInv'
    BY <1>2, <1>11, <2>1, <2>2, <2>3, ReadersKept
  <2> QED
    BY <1>11, <2>1, <2>4, CompactionNone
<1>12. CASE bg.kind = "compaction"
  <2>1. /\ db' = [db EXCEPT !.pending = @ \ compaction.outputs] /\ compaction' = NoCompaction
        /\ doomed' = ObsoleteFiles(db', Installed, NoCompaction)
        /\ bg' = [pc |-> "delete", kind |-> "compaction"] /\ th' = th /\ mems' = mems
    BY <1>12 DEF Install
  <2>2. /\ db'.state = "open" /\ db'.mem = db.mem /\ db'.imm = db.imm /\ db'.bg_error = db.bg_error
        /\ DBShape'
    BY <1>2, <2>1 DEF Shapes, DBShape
  <2>3. ThreadsKept /\ ReadersInv' /\ CompactionInv'
    BY <1>11, <1>12, <2>1, <2>2
  <2>4. BackgroundInv' /\ bg'.pc = "delete"
    BY <2>1 DEF BackgroundInv
  <2>5. DoomedUnneeded'
    <3> SUFFICES ASSUME NEW d \in doomed'
                 PROVE  /\ d[1] = "log" => d[2] < vset'.log_number
                        /\ d[1] = "manifest" => d[2] < vset'.manifest
                        /\ d[1] = "table" => d[2] \notin Needed'
      BY DEF DoomedUnneeded
    <3>1. /\ ~db'.bg_error
          /\ d[1] = "log" => d[2] < vset'.log_number
          /\ d[1] = "manifest" => d[2] < vset'.manifest
          /\ d[1] = "table" =>
               /\ d[2] \notin FilesOf(vset'.files)
               /\ \A t \in Thread : th[t].pc = "reading" => d[2] \notin FilesOf(th[t].files)
      BY <1>4, <2>1, ObsoleteFilesAre
    <3>2. ASSUME d[1] = "table" PROVE d[2] \notin Needed'
      <4>1. d[2] \notin FilesOf(UnderCurrent'.files)
        BY <1>5, <1>6, <2>2, <3>1, <3>2
      <4> QED
        BY <2>1, <3>1, <3>2, <4>1, NeededIsNext
    <3> QED
      BY <3>1, <3>2
  <2> QED
    BY <1>9, <1>12, <2>2, <2>3, <2>4, <2>5
<1>13. CASE bg.kind = "move"
  <2>1. /\ FinishCall(th, db.bg_error, db.imm, Installed.files)
        /\ UNCHANGED <<db, mems, doomed, compaction>>
    BY <1>13 DEF Install
  <2>2. compaction = NoCompaction
    BY <1>3, <1>13 DEF EditInv
  <2>3. BackgroundInv' /\ th' = Awakened(th)
    BY <2>1, <2>2, FinishCallDone
  <2>4. ThreadsKept /\ ReadersInv' /\ CompactionInv'
    BY <1>11, <1>13, <2>1, <2>2, <2>3
  <2>5. bg'.pc # "install"
    <3>1. bg' = Idle \/ bg' = [pc |-> "scheduled"]
      BY <2>1, MaybeScheduledIs DEF FinishCall
    <3> QED
      BY <3>1 DEF Idle
  <2>6. DoomedUnneeded' /\ doomed' = {}
    BY <1>2, <2>1 DEF DoomedUnneeded
  <2>7. DBShape'
    BY <1>2, <2>1 DEF Shapes, DBShape
  <2> QED
    BY <1>2, <1>9, <1>13, <2>1, <2>3, <2>4, <2>5, <2>6, <2>7
<1> QED
  BY <1>10, <1>12, <1>13 DEF Install

(***************************************************************************)
(* What a log is read into.                                                *)
(***************************************************************************)

(* g is the fold of log::Reader over the fragments of a log, and of        *)
(* RecoverLogFile over its records; both are defined by recursion on sets  *)
(* of positions, which is well founded where the positions are 1..n.       *)
ReadAll(log, g) ==
  g = [s \in SUBSET DOMAIN log |->
         IF s = {} THEN [records |-> <<>>, scratch |-> {}]
         ELSE ReadFragment(g[s \ {Max(s)}], log[Max(s)])]

InsertAll(records, g) ==
  g = [s \in SUBSET DOMAIN records |->
         IF s = {} THEN <<>> ELSE InsertRecord(g[s \ {Max(s)}], records[Max(s)])]

LEMMA ReadRecordsIs ==
  ASSUME NEW log
  PROVE  ReadRecords(log) = (CHOOSE g : ReadAll(log, g))[DOMAIN log].records
BY DEF ReadRecords, FoldLeft, MapThenFoldSet, ReadAll

LEMMA TablesOfLogIs ==
  ASSUME NEW log
  PROVE  TablesOfLog(log) = (CHOOSE g : InsertAll(ReadRecords(log), g))[DOMAIN ReadRecords(log)]
BY Zenon DEF TablesOfLog, FoldLeft, MapThenFoldSet, InsertAll

LEMMA MaxIs ==
  ASSUME NEW S \in SUBSET Int, NEW m \in S, \A y \in S : y <= m
  PROVE  Max(S) = m
<1>1. m \in S /\ \A y \in S : m >= y
  OBVIOUS
<1>2. Max(S) \in S /\ \A y \in S : Max(S) >= y
  BY <1>1 DEF Max
<1>3. Max(S) >= m /\ Max(S) <= m /\ Max(S) \in Int
  BY <1>2
<1> QED
  BY <1>3

LEMMA MaxOfPositions ==
  ASSUME NEW n \in Nat, NEW S \in SUBSET (1..n), S # {}
  PROVE  Max(S) \in S
<1> DEFINE T == {n - i : i \in S}
<1>1. T \in SUBSET Nat /\ T # {}
  <2>1. \A i \in S : n - i \in Nat
    OBVIOUS
  <2> QED
    BY <2>1
<1>2. PICK m \in T : \A y \in T : m <= y
  BY <1>1, LeastNumber
<1>3. PICK i \in S : m = n - i
  BY <1>2
<1>4. \A j \in S : n - i <= n - j
  BY <1>2, <1>3
<1>5. \A j \in S : j <= i
  BY <1>3, <1>4
<1>6. S \in SUBSET Int
  OBVIOUS
<1> QED
  BY <1>3, <1>5, <1>6, MaxIs

(* Taking the last position away leaves the positions before it. *)
LEMMA LastPosition ==
  ASSUME NEW n \in Nat, n # 0
  PROVE  /\ Max(1..n) = n /\ (1..n) \ {n} = 1..(n - 1) /\ 1..n # {} /\ n - 1 \in Nat
<1>1. n \in 1..n /\ (1..n) \in SUBSET Int /\ \A y \in 1..n : y <= n
  OBVIOUS
<1>2. Max(1..n) = n
  BY <1>1, MaxIs
<1> QED
  BY <1>1, <1>2

LEMMA ReadAllExists ==
  ASSUME NEW n \in Nat, NEW log, DOMAIN log = 1..n
  PROVE  \E g : ReadAll(log, g)
<1> DEFINE Base == [records |-> <<>>, scratch |-> {}]
           Upto(k, g) == g = [s \in SUBSET (1..k) |->
                                IF s = {} THEN Base ELSE ReadFragment(g[s \ {Max(s)}], log[Max(s)])]
           Bad == {k \in Nat : ~\E g : Upto(k, g)}
<1> HIDE DEF Base
<1>1. Bad = {}
  <2> SUFFICES ASSUME Bad # {} PROVE FALSE
    OBVIOUS
  <2>1. PICK m \in Bad : \A y \in Bad : m <= y
    BY LeastNumber
  <2>2. CASE m = 0
    <3>1. 1..0 = {}
      OBVIOUS
    <3>2. Upto(0, [s \in SUBSET {} |-> Base])
      BY <3>1
    <3> QED
      BY <2>1, <2>2, <3>2
  <2>3. CASE m # 0
    <3>1. m \in Nat /\ m - 1 \in Nat /\ m - 1 \notin Bad
      <4>1. m \in Nat
        BY <2>1
      <4>2. m - 1 \in Nat /\ ~(m <= m - 1)
        BY <2>3, <4>1
      <4> HIDE DEF Bad
      <4> QED
        BY <2>1, <4>1, <4>2
    <3>2. PICK g : Upto(m - 1, g)
      BY <3>1
    <3> DEFINE h == [s \in SUBSET (1..m) |->
                       IF m \in s THEN ReadFragment(g[s \ {m}], log[m]) ELSE g[s]]
    <3>3. ASSUME NEW s \in SUBSET (1..m)
          PROVE  h[s] = IF s = {} THEN Base ELSE ReadFragment(h[s \ {Max(s)}], log[Max(s)])
      <4>1. CASE s = {}
        <5>1. h[s] = g[s] /\ s \in SUBSET (1..(m - 1))
          BY <4>1
        <5>2. g[s] = Base
          BY <3>2, <4>1, <5>1
        <5> QED
          BY <4>1, <5>1, <5>2
      <4>2. CASE m \in s
        <5>1. Max(s) = m
          <6>1. s \in SUBSET Int /\ \A y \in s : y <= m
            BY <3>1
          <6> QED
            BY <4>2, <6>1, MaxIs
        <5>2. h[s] = ReadFragment(g[s \ {m}], log[m])
          BY <4>2
        <5>3. h[s \ {m}] = g[s \ {m}]
          BY <4>2
        <5> QED
          BY <4>2, <5>1, <5>2, <5>3
      <4>3. CASE s # {} /\ m \notin s
        <5>1. s \in SUBSET (1..(m - 1)) /\ h[s] = g[s]
          BY <3>1, <4>3
        <5>2. Max(s) \in s
          BY <3>1, <4>3, MaxOfPositions
        <5>3. g[s] = ReadFragment(g[s \ {Max(s)}], log[Max(s)])
          BY <3>2, <4>3, <5>1
        <5>4. h[s \ {Max(s)}] = g[s \ {Max(s)}]
          BY <4>3
        <5> HIDE DEF h
        <5> QED
          BY <4>3, <5>1, <5>3, <5>4
      <4> QED
        BY <4>1, <4>2, <4>3
    <3>4. Upto(m, h)
      BY <3>3
    <3> QED
      BY <2>1, <3>4
  <2> QED
    BY <2>2, <2>3
<1>2. \E g : Upto(n, g)
  BY <1>1
<1> QED
  BY <1>2 DEF ReadAll, Base

LEMMA InsertAllExists ==
  ASSUME NEW n \in Nat, NEW records, DOMAIN records = 1..n
  PROVE  \E g : InsertAll(records, g)
<1> DEFINE Upto(k, g) == g = [s \in SUBSET (1..k) |->
                                IF s = {} THEN <<>> ELSE InsertRecord(g[s \ {Max(s)}], records[Max(s)])]
           Bad == {k \in Nat : ~\E g : Upto(k, g)}
<1>1. Bad = {}
  <2> SUFFICES ASSUME Bad # {} PROVE FALSE
    OBVIOUS
  <2>1. PICK m \in Bad : \A y \in Bad : m <= y
    BY LeastNumber
  <2>2. CASE m = 0
    <3>1. 1..0 = {}
      OBVIOUS
    <3>2. Upto(0, [s \in SUBSET {} |-> <<>>])
      BY <3>1
    <3> QED
      BY <2>1, <2>2, <3>2
  <2>3. CASE m # 0
    <3>1. m \in Nat /\ m - 1 \in Nat /\ m - 1 \notin Bad
      <4>1. m \in Nat
        BY <2>1
      <4>2. m - 1 \in Nat /\ ~(m <= m - 1)
        BY <2>3, <4>1
      <4> HIDE DEF Bad
      <4> QED
        BY <2>1, <4>1, <4>2
    <3>2. PICK g : Upto(m - 1, g)
      BY <3>1
    <3> DEFINE h == [s \in SUBSET (1..m) |->
                       IF m \in s THEN InsertRecord(g[s \ {m}], records[m]) ELSE g[s]]
    <3>3. ASSUME NEW s \in SUBSET (1..m)
          PROVE  h[s] = IF s = {} THEN <<>> ELSE InsertRecord(h[s \ {Max(s)}], records[Max(s)])
      <4>1. CASE s = {}
        <5>1. h[s] = g[s] /\ s \in SUBSET (1..(m - 1))
          BY <4>1
        <5>2. g[s] = <<>>
          BY <3>2, <4>1, <5>1
        <5> QED
          BY <4>1, <5>1, <5>2
      <4>2. CASE m \in s
        <5>1. Max(s) = m
          <6>1. s \in SUBSET Int /\ \A y \in s : y <= m
            BY <3>1
          <6> QED
            BY <4>2, <6>1, MaxIs
        <5>2. h[s] = InsertRecord(g[s \ {m}], records[m])
          BY <4>2
        <5>3. h[s \ {m}] = g[s \ {m}]
          BY <4>2
        <5> QED
          BY <4>2, <5>1, <5>2, <5>3
      <4>3. CASE s # {} /\ m \notin s
        <5>1. s \in SUBSET (1..(m - 1)) /\ h[s] = g[s]
          BY <3>1, <4>3
        <5>2. Max(s) \in s
          BY <3>1, <4>3, MaxOfPositions
        <5>3. g[s] = InsertRecord(g[s \ {Max(s)}], records[Max(s)])
          BY <3>2, <4>3, <5>1
        <5>4. h[s \ {Max(s)}] = g[s \ {Max(s)}]
          BY <4>3
        <5> HIDE DEF h
        <5> QED
          BY <4>3, <5>1, <5>3, <5>4
      <4> QED
        BY <4>1, <4>2, <4>3
    <3>4. Upto(m, h)
      BY <3>3
    <3> QED
      BY <2>1, <3>4
  <2> QED
    BY <2>2, <2>3
<1>2. \E g : Upto(n, g)
  BY <1>1
<1> QED
  BY <1>2 DEF InsertAll

IsSequence(s) == \E A : s \in Seq(A)

LEMMA SequenceGrows ==
  ASSUME NEW s, IsSequence(s), NEW x
  PROVE  IsSequence(Append(s, x))
<1>1. PICK A : s \in Seq(A)
  BY DEF IsSequence
<1>2. s \in Seq(A \cup {x})
  BY <1>1
<1>3. Append(s, x) \in Seq(A \cup {x})
  BY <1>2
<1> QED
  BY <1>3 DEF IsSequence

LEMMA SequencePositions ==
  ASSUME NEW s, IsSequence(s)
  PROVE  Len(s) \in Nat /\ DOMAIN s = 1..Len(s)
BY DEF IsSequence

LEMMA LastReplaced ==
  ASSUME NEW s, IsSequence(s), s # <<>>, NEW x
  PROVE  IsSequence(Front(s) \o <<x>>)
<1>1. PICK A : s \in Seq(A)
  BY DEF IsSequence
<1>2. s \in Seq(A \cup {x}) /\ Len(s) \in Nat /\ Len(s) # 0
  BY <1>1
<1>3. Front(s) \in Seq(A \cup {x})
  BY <1>2 DEF Front
<1>4. Front(s) \o <<x>> \in Seq(A \cup {x})
  BY <1>3
<1> QED
  BY <1>4 DEF IsSequence

(* A log holds fragments of the four types log::Writer emits. *)
FragmentType == {"full", "first", "middle", "last"}
IsLog(log) == IsSequence(log) /\ \A i \in DOMAIN log : log[i].type \in FragmentType

LEMMA ReadRecordsSequence ==
  ASSUME NEW log, IsLog(log)
  PROVE  IsSequence(ReadRecords(log))
<1> DEFINE n == Len(log)
           g == CHOOSE f : ReadAll(log, f)
           Good(a) == "records" \in DOMAIN a /\ IsSequence(a.records)
           Bad == {k \in Nat : k <= n /\ ~Good(g[1..k])}
<1>1. n \in Nat /\ DOMAIN log = 1..n
  BY SequencePositions DEF IsLog
<1>2. ReadAll(log, g)
  BY <1>1, ReadAllExists
<1> HIDE DEF g, n
<1>3. Bad = {}
  <2> SUFFICES ASSUME Bad # {} PROVE FALSE
    OBVIOUS
  <2>1. PICK m \in Bad : \A y \in Bad : m <= y
    BY LeastNumber
  <2>2. m \in Nat /\ m <= n /\ ~Good(g[1..m])
    BY <2>1
  <2>3. (1..m) \in SUBSET DOMAIN log
    BY <1>1, <2>2
  <2>4. CASE m = 0
    <3>1. 1..m = {}
      BY <2>4
    <3>2. g[1..m] = [records |-> <<>>, scratch |-> {}]
      BY <1>2, <2>3, <3>1 DEF ReadAll
    <3>3. <<>> \in Seq({})
      OBVIOUS
    <3>4. Good(g[1..m])
      BY <3>2, <3>3 DEF IsSequence
    <3> QED
      BY <2>2, <3>4
  <2>5. CASE m # 0
    <3> DEFINE a == g[1..(m - 1)]
               f == log[m]
    <3>1. /\ Max(1..m) = m /\ (1..m) \ {m} = 1..(m - 1) /\ 1..m # {} /\ m - 1 \in Nat
      BY <2>2, <2>5, LastPosition
    <3>2. g[1..m] = ReadFragment(a, f)
      BY <1>2, <2>3, <3>1 DEF ReadAll
    <3>3. m - 1 \notin Bad /\ m - 1 <= n
      <4>1. ~(m <= m - 1) /\ m - 1 <= n
        BY <1>1, <2>2, <3>1
      <4> HIDE DEF Bad
      <4> QED
        BY <2>1, <4>1
    <3>4. Good(a)
      BY <3>1, <3>3
    <3>5. f.type \in FragmentType
      BY <1>1, <2>2, <2>5 DEF IsLog
    <3> HIDE DEF a, f
    <3>6. IsSequence(Append(a.records, {f.entry})) /\ IsSequence(Append(a.records, a.scratch \cup {f.entry}))
      BY <3>4, SequenceGrows
    <3>7. CASE f.type = "full"
      <4>1. ReadFragment(a, f) = [records |-> Append(a.records, {f.entry}), scratch |-> {}]
        BY <3>7 DEF ReadFragment
      <4> QED
        BY <2>2, <3>2, <3>6, <4>1
    <3>8. CASE f.type = "first"
      <4>1. ReadFragment(a, f) = [a EXCEPT !.scratch = {f.entry}]
        BY <3>8 DEF ReadFragment
      <4> QED
        BY <2>2, <3>2, <3>4, <4>1
    <3>9. CASE f.type = "middle"
      <4>1. ReadFragment(a, f) = [a EXCEPT !.scratch = @ \cup {f.entry}]
        BY <3>9 DEF ReadFragment
      <4> QED
        BY <2>2, <3>2, <3>4, <4>1
    <3>10. CASE f.type = "last"
      <4>1. ReadFragment(a, f) = [records |-> Append(a.records, a.scratch \cup {f.entry}), scratch |-> {}]
        BY <3>10 DEF ReadFragment
      <4> QED
        BY <2>2, <3>2, <3>6, <4>1
    <3> QED
      BY <3>5, <3>7, <3>8, <3>9, <3>10 DEF FragmentType
  <2> QED
    BY <2>4, <2>5
<1>4. Good(g[1..n])
  BY <1>1, <1>3
<1> QED
  BY <1>1, <1>4, ReadRecordsIs DEF g

LEMMA TablesOfLogSequence ==
  ASSUME NEW log, IsLog(log)
  PROVE  IsSequence(TablesOfLog(log))
<1> DEFINE records == ReadRecords(log)
           n == Len(records)
           g == CHOOSE f : InsertAll(records, f)
           Bad == {k \in Nat : k <= n /\ ~IsSequence(g[1..k])}
<1>1. n \in Nat /\ DOMAIN records = 1..n
  BY SequencePositions, ReadRecordsSequence
<1> HIDE DEF records
<1>2. InsertAll(records, g)
  BY <1>1, InsertAllExists
<1> HIDE DEF g, n
<1>3. Bad = {}
  <2> SUFFICES ASSUME Bad # {} PROVE FALSE
    OBVIOUS
  <2>1. PICK m \in Bad : \A y \in Bad : m <= y
    BY LeastNumber
  <2>2. m \in Nat /\ m <= n /\ ~IsSequence(g[1..m])
    BY <2>1
  <2>3. (1..m) \in SUBSET DOMAIN records
    BY <1>1, <2>2
  <2>4. CASE m = 0
    <3>1. 1..m = {}
      BY <2>4
    <3>2. g[1..m] = <<>>
      BY <1>2, <2>3, <3>1 DEF InsertAll
    <3>3. <<>> \in Seq({})
      OBVIOUS
    <3> QED
      BY <2>2, <3>2, <3>3 DEF IsSequence
  <2>5. CASE m # 0
    <3> DEFINE a == g[1..(m - 1)]
               r == records[m]
    <3>1. /\ Max(1..m) = m /\ (1..m) \ {m} = 1..(m - 1) /\ 1..m # {} /\ m - 1 \in Nat
      BY <2>2, <2>5, LastPosition
    <3>2. g[1..m] = InsertRecord(a, r)
      BY <1>2, <2>3, <3>1 DEF InsertAll
    <3>3. m - 1 \notin Bad /\ m - 1 <= n
      <4>1. ~(m <= m - 1) /\ m - 1 <= n
        BY <1>1, <2>2, <3>1
      <4> HIDE DEF Bad
      <4> QED
        BY <2>1, <4>1
    <3>4. IsSequence(a)
      BY <3>1, <3>3
    <3> HIDE DEF a, r
    <3>5. IsSequence(Append(a, r))
      BY <3>4, SequenceGrows
    <3>6. a # <<>> => IsSequence(Front(a) \o <<Last(a) \cup r>>)
      BY <3>4, LastReplaced
    <3>7. IsSequence(InsertRecord(a, r))
      BY <3>5, <3>6 DEF InsertRecord
    <3> QED
      BY <2>2, <3>2, <3>7
  <2> QED
    BY <2>4, <2>5
<1>4. IsSequence(g[1..n])
  BY <1>1, <1>3
<1> QED
  BY <1>1, <1>4, TablesOfLogIs DEF g, records

(***************************************************************************)
(* Files are removed, some or all of those that were doomed.               *)
(***************************************************************************)

LEMMA RemovedIs ==
  ASSUME NEW S, DiskShape, disk' = Removed(S)
  PROVE  /\ DiskShape' /\ disk'.current = disk.current
         /\ disk'.logs = [n \in {m \in DOMAIN disk.logs : <<"log", m>> \notin S} |-> disk.logs[n]]
         /\ disk'.manifests =
              [n \in {m \in DOMAIN disk.manifests : <<"manifest", m>> \notin S} |-> disk.manifests[n]]
         /\ disk'.tables =
              [n \in {m \in DOMAIN disk.tables : <<"table", m>> \notin S} |-> disk.tables[n]]
BY DEF Removed, Restrict, DiskShape

(* What a removal of doomed files leaves. *)
LEMMA RemovedUnneeded ==
  ASSUME FilesInv, NEW S \in SUBSET doomed, disk' = Removed(S)
  PROVE  /\ DiskShape' /\ disk'.current = disk.current
         /\ DOMAIN disk'.logs \subseteq DOMAIN disk.logs
         /\ disk.current # 0 => disk.current \in DOMAIN disk'.manifests /\ UnderCurrent' = UnderCurrent
         /\ \A f : f \in Tables /\ (f \in Needed \/ S = {}) =>
                     f \in Tables' /\ disk'.tables[f] = disk.tables[f]
         /\ \A n \in DOMAIN disk.logs : vset.log_number <= n \/ S = {} => n \in DOMAIN disk'.logs
<1>1. DiskShape /\ CurrentHeld /\ DOMAIN disk.logs \subseteq Nat
  BY DEF FilesInv, Shapes
<1>2. /\ DiskShape' /\ disk'.current = disk.current
      /\ disk'.logs = [n \in {m \in DOMAIN disk.logs : <<"log", m>> \notin S} |-> disk.logs[n]]
      /\ disk'.manifests =
           [n \in {m \in DOMAIN disk.manifests : <<"manifest", m>> \notin S} |-> disk.manifests[n]]
      /\ disk'.tables =
           [n \in {m \in DOMAIN disk.tables : <<"table", m>> \notin S} |-> disk.tables[n]]
  BY <1>1, RemovedIs
<1>3. ASSUME NEW d \in S
      PROVE  /\ disk.current = vset.manifest /\ DoomedUnneeded /\ vset.log_number \in Nat
  <2>1. doomed # {}
    BY <1>3
  <2>2. db.state \in {"opening", "open"}
    BY <2>1 DEF FilesInv, NobodyYet, Shapes
  <2>3. disk.current = vset.manifest
    BY <2>1, <2>2 DEF FilesInv, OpeningInv, OpenInv
  <2> QED
    BY <2>2, <2>3 DEF FilesInv, ServingInv, LogsHeld
<1>4. ASSUME disk.current # 0
      PROVE  disk.current \in DOMAIN disk'.manifests /\ UnderCurrent' = UnderCurrent
  <2>1. disk.current \in DOMAIN disk.manifests /\ disk.current \in Nat
    BY <1>1, <1>4 DEF CurrentHeld
  <2>2. <<"manifest", disk.current>> \notin S
    <3> SUFFICES ASSUME <<"manifest", disk.current>> \in S PROVE FALSE
      OBVIOUS
    <3>1. disk.current = vset.manifest /\ DoomedUnneeded
      BY <1>3
    <3> DEFINE d == <<"manifest", disk.current>>
    <3>2. d \in doomed /\ d[1] = "manifest" /\ d[2] = disk.current
      OBVIOUS
    <3>3. d[2] < vset.manifest
      BY <3>1, <3>2 DEF DoomedUnneeded
    <3> QED
      BY <2>1, <3>1, <3>2, <3>3
  <2> QED
    BY <1>2, <2>1, <2>2 DEF UnderCurrent
<1>5. ASSUME NEW f, f \in Tables, f \in Needed \/ S = {}
      PROVE  f \in Tables' /\ disk'.tables[f] = disk.tables[f]
  <2>1. <<"table", f>> \notin S
    <3> SUFFICES ASSUME <<"table", f>> \in S PROVE FALSE
      OBVIOUS
    <3>1. DoomedUnneeded
      BY <1>3
    <3> DEFINE d == <<"table", f>>
    <3>2. d \in doomed /\ d[1] = "table" /\ d[2] = f
      OBVIOUS
    <3> QED
      BY <1>5, <3>1, <3>2 DEF DoomedUnneeded
  <2> QED
    BY <1>2, <1>5, <2>1 DEF Tables
<1>6. ASSUME NEW n \in DOMAIN disk.logs, vset.log_number <= n \/ S = {}
      PROVE  n \in DOMAIN disk'.logs
  <2>1. <<"log", n>> \notin S
    <3> SUFFICES ASSUME <<"log", n>> \in S PROVE FALSE
      OBVIOUS
    <3>1. DoomedUnneeded /\ vset.log_number \in Nat
      BY <1>3
    <3> DEFINE d == <<"log", n>>
    <3>2. d \in doomed /\ d[1] = "log" /\ d[2] = n
      OBVIOUS
    <3>3. d[2] < vset.log_number
      BY <3>1, <3>2 DEF DoomedUnneeded
    <3> QED
      BY <1>1, <1>6, <3>1, <3>2, <3>3
  <2> QED
    BY <1>2, <2>1
<1> QED
  BY <1>2, <1>4, <1>5, <1>6

LEMMA RemoveObsoleteFilesKeeps ==
  ASSUME FilesInv, RemoveObsoleteFiles
  PROVE  FilesInv'
<1>1. /\ doomed # {} /\ disk' = Removed(doomed) /\ doomed' = {}
      /\ UNCHANGED <<db, vset, mems, writers, th, bg, compaction, bounds>>
  BY DEF RemoveObsoleteFiles
<1>2. db.state \in {"opening", "open"}
  BY <1>1 DEF FilesInv, NobodyYet, Shapes
<1>3. /\ DiskShape' /\ disk'.current = disk.current
      /\ DOMAIN disk'.logs \subseteq DOMAIN disk.logs
      /\ disk.current # 0 => disk.current \in DOMAIN disk'.manifests /\ UnderCurrent' = UnderCurrent
      /\ \A f : f \in Tables /\ f \in Needed => f \in Tables'
      /\ \A n \in DOMAIN disk.logs : vset.log_number <= n => n \in DOMAIN disk'.logs
  BY <1>1, RemovedUnneeded
<1>4. /\ disk.current = vset.manifest /\ disk.current # 0 /\ UnderCurrent' = UnderCurrent
      /\ disk.current \in DOMAIN disk'.manifests
  <2>1. disk.current # 0
    BY <1>2 DEF FilesInv, CurrentHeld
  <2> QED
    BY <1>1, <1>2, <1>3, <2>1 DEF FilesInv, OpeningInv, OpenInv
<1>5. ASSUME NEW v, NEW k, Held(Tables, v, k), FilesOf(v) \subseteq Needed
      PROVE  Held(Tables', v, k)
  BY <1>3, <1>5 DEF Held
<1>6. Shapes'
  BY <1>1, <1>3 DEF FilesInv, Shapes, DBShape, VersionSetShape
<1>7. CurrentHeld'
  <2>1. FilesOf(UnderCurrent.files) \subseteq Needed
    BY NeededIs
  <2>2. Held(Tables, UnderCurrent.files, UnderCurrent.next_file)
    BY <1>4 DEF FilesInv, CurrentHeld
  <2>3. Held(Tables', UnderCurrent.files, UnderCurrent.next_file)
    BY <1>5, <2>1, <2>2
  <2> QED
    BY <1>3, <1>4, <2>3 DEF FilesInv, CurrentHeld
<1>8. OpeningInv'
  <2> SUFFICES ASSUME db.state = "opening" PROVE OpeningInv'
    BY <1>1 DEF OpeningInv
  <2>1. vset.manifest \in DOMAIN disk'.manifests /\ disk'.manifests[vset.manifest] = disk.manifests[vset.manifest]
    BY <1>3, <1>4 DEF UnderCurrent
  <2> QED
    BY <1>1, <2>1 DEF FilesInv, OpeningInv
<1>9. ServingInv'
  <2>1. FilesOf(vset.files) \subseteq Needed
    BY NeededIs
  <2>2. ServingInv /\ Held(Tables, vset.files, vset.next_file) /\ LogsHeld
    BY <1>2 DEF FilesInv, ServingInv
  <2>3. Held(Tables', vset.files, vset.next_file)
    BY <1>5, <2>1, <2>2
  <2>4. LogsHeld'
    BY <1>1, <1>3, <2>2 DEF LogsHeld
  <2>5. DoomedUnneeded'
    BY <1>1 DEF DoomedUnneeded
  <2> QED
    BY <1>1, <1>2, <2>2, <2>3, <2>4, <2>5 DEF ServingInv
<1>10. OpenInv'
  <2> SUFFICES ASSUME db.state = "open" PROVE OpenInv'
    BY <1>1 DEF OpenInv
  <2>1. bg.pc = "delete" /\ BackgroundInv /\ CompactionInv /\ ReadersInv
    BY <1>1 DEF FilesInv, OpenInv
  <2>2. BackgroundInv'
    BY <1>1, <2>1 DEF BackgroundInv
  <2>3. CompactionInv'
    <3> SUFFICES ASSUME compaction # NoCompaction PROVE CompactionInv'
      BY <1>1 DEF CompactionInv
    <3>1. FilesOf(compaction.files) \subseteq Needed /\ compaction.outputs \subseteq Needed
      BY NeededIs
    <3>2. Held(Tables', compaction.files, vset.next_file)
      BY <1>5, <2>1, <3>1 DEF CompactionInv
    <3>3. compaction.outputs \subseteq Tables' \cap db.pending
      BY <1>3, <2>1, <3>1 DEF CompactionInv
    <3> QED
      BY <1>1, <2>1, <3>2, <3>3 DEF CompactionInv
  <2>4. ReadersInv'
    <3>1. ASSUME NEW t \in Thread, th[t].pc = "reading"
          PROVE  Held(Tables', th[t].files, vset.next_file)
      <4>1. FilesOf(th[t].files) \subseteq Needed
        BY <3>1, NeededIs
      <4>2. Held(Tables, th[t].files, vset.next_file)
        BY <2>1, <3>1 DEF ReadersInv, Reading
      <4> QED
        BY <1>5, <4>1, <4>2
    <3> QED
      BY <1>1, <2>1, <3>1 DEF ReadersInv, Reading
  <2> QED
    BY <1>1, <1>3, <1>4, <2>2, <2>3, <2>4 DEF FilesInv, OpenInv
<1> QED
  BY <1>1, <1>2, <1>6, <1>7, <1>8, <1>9, <1>10 DEF FilesInv, NobodyYet, RecoveringInv

LEMMA CrashKeeps ==
  ASSUME FilesInv, Crash
  PROVE  FilesInv'
<1>1. PICK S \in SUBSET doomed : disk' = Removed(S)
  BY DEF Crash
<1>2. /\ db' = Closed /\ vset' = NewVersionSet /\ th' = [t \in Thread |-> Idle] /\ bg' = Idle
      /\ compaction' = NoCompaction /\ doomed' = {}
  BY DEF Crash
<1>3. /\ DiskShape' /\ disk'.current = disk.current
      /\ DOMAIN disk'.logs \subseteq DOMAIN disk.logs
      /\ disk.current # 0 => disk.current \in DOMAIN disk'.manifests /\ UnderCurrent' = UnderCurrent
      /\ \A f : f \in Tables /\ f \in Needed => f \in Tables'
  BY <1>1, RemovedUnneeded
<1>4. Shapes'
  BY <1>2, <1>3 DEF FilesInv, Shapes, DBShape, Closed, VersionSetShape, NewVersionSet, ThreadShape, Idle
<1>5. db'.state = "closed" /\ bg'.pc = "idle" /\ \A t \in Thread : th'[t].pc = "idle"
  BY <1>2 DEF Closed, Idle
<1>6. CurrentHeld'
  <2> SUFFICES ASSUME disk.current # 0 PROVE CurrentHeld'
    BY <1>3, <1>5 DEF CurrentHeld
  <2>1. FilesOf(UnderCurrent.files) \subseteq Needed
    BY NeededIs
  <2>2. Held(Tables, UnderCurrent.files, UnderCurrent.next_file)
    BY DEF FilesInv, CurrentHeld
  <2>3. Held(Tables', UnderCurrent.files, UnderCurrent.next_file)
    BY <1>3, <2>1, <2>2 DEF Held
  <2> QED
    BY <1>3, <2>3 DEF FilesInv, CurrentHeld
<1> QED
  BY <1>2, <1>4, <1>5, <1>6 DEF FilesInv, NobodyYet, RecoveringInv, OpeningInv, ServingInv, OpenInv

(***************************************************************************)
(* DB::Open.                                                               *)
(***************************************************************************)

(* Recover meets a version that passes the assertions, or ends the process. *)
Recovered == Recover /\ db'.state # "aborted"
Aborted == Recover /\ db'.state = "aborted"

LEMMA RecoverCases == Recover => Recovered \/ Aborted
BY DEF Recovered, Aborted

LEMMA AbortedIs ==
  ASSUME Aborted, DiskShape
  PROVE  /\ db.state = "closed" /\ db' = [Closed EXCEPT !.state = "aborted"] /\ disk.current # 0
         /\ UNCHANGED <<disk, vset, mems, writers, th, bg, compaction, doomed, bounds>>
<1> DEFINE m == disk'.manifests[disk'.current]
           aborts == /\ ~MustNotOverlap(m.files) /\ db' = [Closed EXCEPT !.state = "aborted"]
                     /\ UNCHANGED <<vset, bg>>
<1>1. /\ db.state = "closed" /\ disk' = (IF disk.current = 0 THEN NewDB ELSE disk)
      /\ UNCHANGED <<mems, writers, th, compaction, doomed, bounds>>
      /\ aborts \/ \E s \in {"recovering", "corrupt"} : db' = [Closed EXCEPT !.state = s]
  BY DEF Aborted, Recover
<1>2. ASSUME NEW s \in {"recovering", "corrupt"}, db' = [Closed EXCEPT !.state = s]
      PROVE  FALSE
  <2>1. db'.state = s
    BY <1>2 DEF Closed
  <2> QED
    BY <1>2, <2>1 DEF Aborted
<1>3. aborts
  BY <1>1, <1>2
<1>4. ASSUME disk.current = 0 PROVE FALSE
  <2>1. disk' = NewDB
    BY <1>1, <1>4
  <2>2. /\ disk'.current = 1
        /\ disk'.manifests = WithFile(disk.manifests, 1,
             [files |-> NoFiles, log_number |-> 0, next_file |-> 2, last_sequence |-> 0])
    BY <2>1 DEF NewDB, DiskShape
  <2>3. m = [files |-> NoFiles, log_number |-> 0, next_file |-> 2, last_sequence |-> 0]
    BY <2>2 DEF WithFile
  <2>4. m.files = NoFiles
    BY <2>3
  <2>5. MustNotOverlap(NoFiles)
    BY DEF MustNotOverlap, NoFiles
  <2> QED
    BY <1>3, <2>4, <2>5
<1> QED
  BY <1>1, <1>3, <1>4

LEMMA AbortedKeeps ==
  ASSUME FilesInv, Aborted
  PROVE  FilesInv'
<1>1. Shapes /\ DiskShape
  BY DEF FilesInv, Shapes
<1>2. /\ db.state = "closed" /\ db' = [Closed EXCEPT !.state = "aborted"] /\ disk.current # 0
      /\ UNCHANGED <<disk, vset, mems, writers, th, bg, compaction, doomed, bounds>>
  BY <1>1, AbortedIs
<1>3. db'.state = "aborted" /\ DBShape'
  BY <1>2 DEF Closed, DBShape
<1>4. Shapes'
  BY <1>1, <1>2, <1>3 DEF Shapes, DiskShape, VersionSetShape
<1>5. CurrentHeld' /\ NobodyYet'
  BY <1>2, <1>3 DEF FilesInv, CurrentHeld, NobodyYet, Held, UnderCurrent, Tables
<1> QED
  BY <1>3, <1>4, <1>5 DEF FilesInv, RecoveringInv, OpeningInv, ServingInv, OpenInv

LEMMA RecoveredKeeps ==
  ASSUME FilesInv, Recovered
  PROVE  FilesInv'
<1> DEFINE m == disk'.manifests[disk'.current]
           present == DOMAIN disk.tables \cup DOMAIN disk.logs \cup DOMAIN disk.manifests
<1>1. /\ db.state = "closed" /\ disk' = (IF disk.current = 0 THEN NewDB ELSE disk)
      /\ vset' = [files |-> m.files, log_number |-> m.log_number, next_file |-> m.next_file + 1,
                  manifest |-> m.next_file, last_sequence |-> m.last_sequence]
      /\ db' = [Closed EXCEPT !.state =
                  IF FilesOf(m.files) \subseteq present THEN "recovering" ELSE "corrupt"]
      /\ bg' = [pc |-> "open", edit |-> NoEdit, max_sequence |-> 0,
                logs |-> {n \in DOMAIN disk.logs : n >= m.log_number}]
      /\ UNCHANGED <<mems, writers, th, compaction, doomed, bounds>>
  BY DEF Recovered, Recover, Closed
<1>2. /\ DiskShape /\ DOMAIN disk.logs \subseteq Nat /\ CurrentHeld /\ NobodyYet
      /\ DOMAIN th = Thread /\ \A t \in Thread : ThreadShape(th[t])
  BY DEF FilesInv, Shapes
<1>3. /\ DiskShape' /\ disk'.logs = disk.logs /\ disk'.tables = disk.tables /\ Tables' = Tables
      /\ disk'.current # 0 /\ disk'.current \in DOMAIN disk'.manifests /\ disk'.current \in Nat
      /\ m.next_file \in Nat /\ disk'.current < m.next_file /\ Held(Tables, m.files, m.next_file)
  <2>1. CASE disk.current = 0
    <3>1. disk' = NewDB
      BY <1>1, <2>1
    <3>2. /\ DiskShape' /\ disk'.logs = disk.logs /\ disk'.tables = disk.tables /\ disk'.current = 1
          /\ disk'.manifests = WithFile(disk.manifests, 1,
                [files |-> NoFiles, log_number |-> 0, next_file |-> 2, last_sequence |-> 0])
      BY <1>2, <3>1 DEF NewDB, DiskShape
    <3>3. /\ 1 \in DOMAIN disk'.manifests
          /\ m = [files |-> NoFiles, log_number |-> 0, next_file |-> 2, last_sequence |-> 0]
      BY <3>2 DEF WithFile
    <3>4. Held(Tables, m.files, m.next_file)
      BY <3>3, FilesOfNone DEF Held
    <3> QED
      BY <3>2, <3>3, <3>4 DEF Tables
  <2>2. CASE disk.current # 0
    <3>1. disk' = disk
      BY <1>1, <2>2
    <3> QED
      BY <1>2, <2>2, <3>1 DEF CurrentHeld, UnderCurrent, Tables, DiskShape
  <2> QED
    BY <2>1, <2>2
<1> HIDE DEF m
<1>4. UnderCurrent' = m
  BY DEF UnderCurrent, m
<1>5. db' = [Closed EXCEPT !.state = "recovering"]
  <2>1. FilesOf(m.files) \subseteq present
    BY <1>3 DEF Held, Tables
  <2> QED
    BY <1>1, <2>1
<1>6. db'.state = "recovering" /\ db'.imm = 0 /\ db'.bg_error = FALSE /\ DBShape'
  BY <1>5 DEF Closed, DBShape
<1>7. /\ vset'.files = m.files /\ vset'.manifest = m.next_file /\ vset'.next_file = m.next_file + 1
      /\ VersionSetShape'
  BY <1>1 DEF VersionSetShape
<1>8. Shapes'
  BY <1>1, <1>2, <1>3, <1>6, <1>7 DEF Shapes
<1>9. CurrentHeld'
  BY <1>3, <1>4, <1>6 DEF CurrentHeld
<1>10. NobodyYet'
  BY <1>1, <1>2, <1>6 DEF NobodyYet
<1>11. RecoveringInv'
  <2>1. /\ bg'.pc = "open" /\ bg'.edit = NoEdit /\ bg'.logs \subseteq DOMAIN disk.logs
        /\ bg' = [pc |-> "open", edit |-> bg'.edit, max_sequence |-> bg'.max_sequence, logs |-> bg'.logs]
    BY <1>1, <1>2
  <2>2. bg'.edit = [del |-> bg'.edit.del, add |-> bg'.edit.add] /\ bg'.edit.add = NoFiles
    BY <2>1 DEF NoEdit
  <2>3. DOMAIN bg'.edit.add = Level
    BY <2>2 DEF NoFiles
  <2>4. Held(Tables', bg'.edit.add, vset'.next_file)
    BY <2>2, FilesOfNone DEF Held
  <2>5. vset'.next_file \in Nat /\ vset'.manifest < vset'.next_file
    BY <1>3, <1>7
  <2> QED
    BY <1>3, <1>4, <1>6, <1>7, <2>1, <2>2, <2>3, <2>4, <2>5 DEF RecoveringInv
<1> QED
  BY <1>6, <1>8, <1>9, <1>10, <1>11 DEF FilesInv, OpeningInv, ServingInv, OpenInv

LEMMA RecoverKeeps ==
  ASSUME FilesInv, Recover
  PROVE  FilesInv'
BY RecoverCases, AbortedKeeps, RecoveredKeeps

LEMMA NewManifestKeeps ==
  ASSUME FilesInv, NewManifest
  PROVE  FilesInv'
<1> DEFINE log == vset.next_file
           last == Max({vset.last_sequence, bg.max_sequence})
           record == [files |-> Edited(vset.files, bg.edit), log_number |-> log,
                      next_file |-> log + 1, last_sequence |-> last]
<1>1. /\ db.state = "recovering"
      /\ vset' = [vset EXCEPT !.next_file = log + 1, !.last_sequence = last,
                              !.files = Edited(@, bg.edit), !.log_number = log]
      /\ disk' = [disk EXCEPT !.logs = WithFile(@, log, <<>>),
                              !.manifests = WithFile(@, vset.manifest, record)]
      /\ db' = [db EXCEPT !.state = "opening", !.mem = log]
      /\ UNCHANGED <<writers, th, bg, compaction, doomed, bounds>>
  BY DEF NewManifest
<1> HIDE DEF last
<1>2. /\ Shapes /\ CurrentHeld /\ NobodyYet /\ RecoveringInv /\ disk.current # 0
  BY <1>1 DEF FilesInv, CurrentHeld
<1>3. /\ log \in Nat /\ vset.manifest = UnderCurrent.next_file /\ vset.manifest \in Nat
      /\ vset.manifest < log /\ disk.current \in Nat /\ disk.current < vset.manifest
      /\ disk.current \in DOMAIN disk.manifests
  BY <1>1, <1>2 DEF CurrentHeld, RecoveringInv
<1>4. /\ vset'.files = Edited(vset.files, bg.edit) /\ vset'.next_file = log + 1
      /\ vset'.log_number = log /\ vset'.manifest = vset.manifest /\ VersionSetShape'
  BY <1>1, <1>2 DEF Shapes, VersionSetShape
<1>5. /\ disk'.logs = WithFile(disk.logs, log, <<>>) /\ disk'.current = disk.current
      /\ disk'.manifests = WithFile(disk.manifests, vset.manifest, record)
      /\ disk'.tables = disk.tables /\ DiskShape'
  BY <1>1, <1>2 DEF Shapes, DiskShape
<1>6. /\ db'.state = "opening" /\ db'.mem = log /\ db'.imm = 0 /\ db'.bg_error = FALSE /\ DBShape'
  BY <1>1, <1>2 DEF Shapes, DBShape, RecoveringInv
<1>7. /\ DOMAIN disk'.logs = DOMAIN disk.logs \cup {log} /\ Tables' = Tables
      /\ vset.manifest \in DOMAIN disk'.manifests /\ disk'.manifests[vset.manifest] = record
      /\ disk.current \in DOMAIN disk'.manifests
      /\ disk'.manifests[disk.current] = disk.manifests[disk.current]
  <2>1. disk.current \in DOMAIN disk.manifests \ {vset.manifest}
    BY <1>3
  <2> HIDE DEF record
  <2>2. DOMAIN disk'.logs = DOMAIN disk.logs \cup {log} /\ Tables' = Tables
    BY <1>5 DEF Tables, WithFile
  <2>3. /\ vset.manifest \in DOMAIN disk'.manifests /\ disk'.manifests[vset.manifest] = record
        /\ disk.current \in DOMAIN disk'.manifests
        /\ disk'.manifests[disk.current] = disk.manifests[disk.current]
    BY <1>5, <2>1 DEF WithFile
  <2> QED
    BY <2>2, <2>3
<1>8. UnderCurrent' = UnderCurrent
  BY <1>5, <1>7 DEF UnderCurrent
<1>9. Shapes'
  BY <1>1, <1>2, <1>3, <1>4, <1>5, <1>6, <1>7 DEF Shapes
<1>10. CurrentHeld'
  BY <1>2, <1>5, <1>7, <1>8 DEF CurrentHeld
<1>11. NobodyYet'
  BY <1>1, <1>2, <1>6 DEF NobodyYet
<1>12. doomed' = {}
  BY <1>1, <1>2 DEF NobodyYet
<1>13. OpeningInv'
  <2>1. record.files = vset'.files /\ record.next_file = vset'.next_file
    BY <1>4
  <2>2. vset.manifest # 0
    BY <1>3
  <2> HIDE DEF record
  <2> QED
    BY <1>4, <1>6, <1>7, <1>12, <2>1, <2>2 DEF OpeningInv
<1>14. Held(Tables, vset'.files, log + 1)
  <2> SUFFICES ASSUME NEW n \in FilesOf(vset'.files) PROVE n \in Tables /\ n \in Nat /\ n < log + 1
    BY DEF Held
  <2>1. n \in FilesOf(vset.files) \/ n \in FilesOf(bg.edit.add)
    BY <1>4, FilesOfEdited
  <2>2. n \in FilesOf(vset.files) => n \in Tables /\ n \in Nat /\ n < vset.manifest
    BY <1>1, <1>2 DEF RecoveringInv, CurrentHeld, Held
  <2>3. n \in FilesOf(bg.edit.add) => n \in Tables /\ n \in Nat /\ n < log
    BY <1>1, <1>2 DEF RecoveringInv, Held
  <2> QED
    BY <1>3, <2>1, <2>2, <2>3
<1>15. ServingInv'
  <2>1. LogsHeld'
    BY <1>3, <1>4, <1>6, <1>7 DEF LogsHeld
  <2>2. DoomedUnneeded'
    BY <1>12 DEF DoomedUnneeded
  <2>3. log + 1 \in Nat /\ vset.manifest < log + 1
    BY <1>3
  <2> QED
    BY <1>3, <1>4, <1>7, <1>14, <2>1, <2>2, <2>3 DEF ServingInv
<1> QED
  BY <1>6, <1>9, <1>10, <1>11, <1>13, <1>15 DEF FilesInv, RecoveringInv, OpenInv

LEMMA SetCurrentFileKeeps ==
  ASSUME FilesInv, SetCurrentFile
  PROVE  FilesInv'
<1>1. /\ db.state = "opening" /\ disk' = [disk EXCEPT !.current = vset.manifest]
      /\ doomed' = ObsoleteFiles(db, vset, NoCompaction)
      /\ UNCHANGED <<db, vset, mems, writers, th, bg, compaction, bounds>>
  BY DEF SetCurrentFile
<1>2. Shapes /\ NobodyYet /\ OpeningInv /\ ServingInv
  BY DEF FilesInv
<1>3. /\ disk'.current = vset.manifest /\ disk'.logs = disk.logs /\ disk'.tables = disk.tables
      /\ disk'.manifests = disk.manifests /\ DiskShape' /\ Tables' = Tables
  BY <1>1, <1>2 DEF Shapes, DiskShape, Tables
<1>4. /\ UnderCurrent'.files = vset.files /\ UnderCurrent'.next_file = vset.next_file
      /\ vset.manifest \in DOMAIN disk.manifests /\ vset.manifest # 0
  BY <1>1, <1>2, <1>3 DEF OpeningInv, UnderCurrent
<1>5. Shapes'
  BY <1>1, <1>2, <1>3 DEF Shapes, DBShape, VersionSetShape
<1>6. CurrentHeld'
  BY <1>1, <1>2, <1>3, <1>4 DEF CurrentHeld, ServingInv
<1>7. OpeningInv'
  BY <1>1, <1>2, <1>3 DEF OpeningInv
<1>8. DoomedUnneeded'
  <2> SUFFICES ASSUME NEW d \in doomed'
               PROVE  /\ d[1] = "log" => d[2] < vset'.log_number
                      /\ d[1] = "manifest" => d[2] < vset'.manifest
                      /\ d[1] = "table" => d[2] \notin Needed'
    BY DEF DoomedUnneeded
  <2>1. /\ d[1] = "log" => d[2] < vset.log_number
        /\ d[1] = "manifest" => d[2] < vset.manifest
        /\ d[1] = "table" => d[2] \notin FilesOf(vset.files)
    BY <1>1, ObsoleteFilesAre
  <2>2. compaction' = NoCompaction /\ \A t \in Thread : th'[t].pc # "reading"
    BY <1>1, <1>2 DEF NobodyYet
  <2> QED
    BY <1>1, <1>4, <2>1, <2>2, NeededIsNext
<1>9. LogsHeld'
  BY <1>1, <1>2, <1>3 DEF ServingInv, LogsHeld
<1>10. ServingInv'
  BY <1>1, <1>2, <1>3, <1>8, <1>9 DEF ServingInv
<1> QED
  BY <1>1, <1>2, <1>5, <1>6, <1>7, <1>10 DEF FilesInv, NobodyYet, RecoveringInv, OpenInv

LEMMA OpenReturnsKeeps ==
  ASSUME FilesInv, OpenReturns
  PROVE  FilesInv'
<1>1. /\ db.state = "opening" /\ disk.current = vset.manifest /\ doomed = {}
      /\ db' = [db EXCEPT !.state = "open"]
      /\ bg' = MaybeScheduled(Idle, FALSE, 0, vset.files)
      /\ UNCHANGED <<disk, vset, mems, writers, th, compaction, doomed, bounds>>
  BY DEF OpenReturns
<1>2. Shapes /\ CurrentHeld /\ NobodyYet /\ OpeningInv /\ ServingInv
  BY DEF FilesInv
<1>3. /\ db'.state = "open" /\ db'.mem = db.mem /\ db'.imm = 0 /\ db'.bg_error = FALSE /\ DBShape'
  BY <1>1, <1>2 DEF Shapes, DBShape, OpeningInv
<1>4. UnderCurrent' = UnderCurrent /\ Tables' = Tables
  BY <1>1 DEF UnderCurrent, Tables
<1>5. Shapes'
  BY <1>1, <1>2, <1>3 DEF Shapes, DiskShape, VersionSetShape
<1>6. CurrentHeld'
  BY <1>1, <1>2, <1>3, <1>4 DEF CurrentHeld
<1>7. ServingInv'
  <2>1. LogsHeld'
    BY <1>1, <1>2, <1>3 DEF ServingInv, LogsHeld, OpeningInv
  <2>2. DoomedUnneeded'
    BY <1>1 DEF DoomedUnneeded
  <2> QED
    BY <1>1, <1>2, <1>4, <2>1, <2>2 DEF ServingInv
<1>8. compaction' = NoCompaction /\ \A t \in Thread : th'[t].pc = "idle"
  BY <1>1, <1>2 DEF NobodyYet
<1>9. BackgroundInv' /\ bg'.pc \in {"idle", "scheduled"}
  <2>1. bg' = Idle \/ bg' = [pc |-> "scheduled"]
    BY <1>1, MaybeScheduledIs
  <2> QED
    BY <1>8, <2>1 DEF BackgroundInv, Idle
<1>10. CompactionInv' /\ ReadersInv'
  BY <1>8 DEF CompactionInv, ReadersInv, Reading
<1>11. /\ UnderCurrent.next_file = vset.next_file /\ UnderCurrent.files = vset.files
  BY <1>1, <1>2 DEF OpeningInv, UnderCurrent
<1>12. UnderCurrent'.next_file <= vset'.next_file
  <2>1. vset.next_file \in Nat
    BY <1>1, <1>2 DEF ServingInv
  <2> QED
    BY <1>1, <1>4, <1>11, <2>1
<1>13. OpenInv'
  BY <1>1, <1>3, <1>4, <1>9, <1>10, <1>11, <1>12 DEF OpenInv
<1> QED
  BY <1>3, <1>5, <1>6, <1>7, <1>13 DEF FilesInv, NobodyYet, RecoveringInv, OpeningInv

(* Every log on disk can be read. *)
LogsReadable == \A n \in DOMAIN disk.logs : IsLog(disk.logs[n])

LEMMA MaxOfTwo ==
  ASSUME NEW a \in Nat, NEW b \in Nat
  PROVE  Max({a, b}) \in Nat /\ a <= Max({a, b}) /\ b <= Max({a, b})
<1>1. {a, b} \in SUBSET Int
  OBVIOUS
<1>2. CASE a <= b
  <2>1. \A y \in {a, b} : y <= b
    BY <1>2
  <2>2. Max({a, b}) = b
    BY <1>1, <2>1, MaxIs
  <2> QED
    BY <1>2, <2>2
<1>3. CASE ~(a <= b)
  <2>1. \A y \in {a, b} : y <= a
    BY <1>3
  <2>2. Max({a, b}) = a
    BY <1>1, <2>1, MaxIs
  <2> QED
    BY <1>3, <2>2
<1> QED
  BY <1>2, <1>3

LEMMA MinOfNumbers ==
  ASSUME NEW S \in SUBSET Nat, S # {}
  PROVE  Min(S) \in S
<1>1. \E m \in S : \A y \in S : m <= y
  BY LeastNumber
<1> QED
  BY <1>1 DEF Min

LEMMA RecoverLogFileKeeps ==
  ASSUME FilesInv, LogsReadable, RecoverLogFile
  PROVE  FilesInv'
<1> DEFINE n == Min(bg.logs)
           full == TablesOfLog(disk.logs[n])
           numbers == vset.next_file .. vset.next_file + Len(full) - 1
           seqs == {e.seq : e \in UNION Range(full)}
           top == Max({vset.next_file + Len(full), n + 1})
           tables == [i \in numbers \cup Tables |->
                        IF i \in numbers THEN full[i - vset.next_file + 1] ELSE disk.tables[i]]
           highest == Max({bg.max_sequence} \cup seqs)
<1>1. /\ db.state = "recovering" /\ bg.logs # {}
      /\ disk' = [disk EXCEPT !.tables = tables]
      /\ vset' = [vset EXCEPT !.next_file = top]
      /\ bg' = [bg EXCEPT !.logs = @ \ {n}, !.edit.add[0] = @ \cup numbers, !.max_sequence = highest]
      /\ UNCHANGED <<db, mems, writers, th, compaction, doomed, bounds>>
  BY DEF RecoverLogFile, Tables
<1>2. Shapes /\ CurrentHeld /\ NobodyYet /\ RecoveringInv /\ disk.current # 0
  BY <1>1 DEF FilesInv, CurrentHeld
<1>3. /\ vset.next_file \in Nat /\ bg.logs \subseteq DOMAIN disk.logs /\ DOMAIN bg.edit.add = Level
      /\ vset.manifest = UnderCurrent.next_file /\ vset.manifest \in Nat
      /\ vset.manifest < vset.next_file
      /\ Held(Tables, bg.edit.add, vset.next_file)
      /\ bg = [pc |-> "open", edit |-> bg.edit, max_sequence |-> bg.max_sequence, logs |-> bg.logs]
      /\ bg.edit = [del |-> bg.edit.del, add |-> bg.edit.add]
      /\ db.imm = 0 /\ db.bg_error = FALSE /\ vset.files = UnderCurrent.files
  BY <1>1, <1>2 DEF RecoveringInv, CurrentHeld
<1>4. n \in bg.logs /\ n \in Nat
  <2>1. bg.logs \subseteq Nat
    BY <1>2, <1>3 DEF Shapes
  <2> QED
    BY <1>1, <2>1, MinOfNumbers
<1>5. Len(full) \in Nat
  <2>1. n \in DOMAIN disk.logs
    BY <1>3, <1>4
  <2>2. IsLog(disk.logs[n])
    BY <2>1 DEF LogsReadable
  <2> QED
    BY <2>2, TablesOfLogSequence, SequencePositions
<1> HIDE DEF n, full, seqs, highest
<1>6. top \in Nat /\ vset.next_file + Len(full) <= top
  <2>1. vset.next_file + Len(full) \in Nat /\ n + 1 \in Nat
    BY <1>3, <1>4, <1>5
  <2> QED
    BY <2>1, MaxOfTwo
<1>7. \A i \in numbers : i \in Nat /\ i < top
  BY <1>3, <1>5, <1>6
<1>8. vset.next_file <= top /\ vset.manifest < top
  BY <1>3, <1>5, <1>6
<1> HIDE DEF top
<1>9. DOMAIN tables = numbers \cup Tables
  OBVIOUS
<1> HIDE DEF tables, numbers
<1>10. /\ disk'.tables = tables /\ disk'.current = disk.current /\ disk'.logs = disk.logs
       /\ disk'.manifests = disk.manifests /\ DiskShape'
  BY <1>1, <1>2 DEF Shapes, DiskShape
<1>11. /\ vset'.next_file = top /\ vset'.files = vset.files /\ vset'.manifest = vset.manifest
       /\ VersionSetShape'
  BY <1>1, <1>2 DEF Shapes, VersionSetShape
<1>12. Tables' = Tables \cup numbers /\ UnderCurrent' = UnderCurrent
  BY <1>9, <1>10 DEF Tables, UnderCurrent
<1>13. Shapes'
  BY <1>1, <1>2, <1>10, <1>11 DEF Shapes, DBShape
<1>14. CurrentHeld'
  BY <1>1, <1>2, <1>10, <1>12 DEF CurrentHeld, Held
<1>15. /\ bg'.logs = bg.logs \ {n} /\ bg'.pc = "open"
       /\ bg'.edit = [bg.edit EXCEPT !.add[0] = @ \cup numbers]
       /\ bg' = [pc |-> "open", edit |-> bg'.edit, max_sequence |-> bg'.max_sequence, logs |-> bg'.logs]
  <2> DEFINE e2 == [bg.edit EXCEPT !.add[0] = @ \cup numbers]
             b2 == [bg EXCEPT !.logs = @ \ {n}]
             b3 == [b2 EXCEPT !.edit = e2]
  <2>1. bg' = [b3 EXCEPT !.max_sequence = highest]
    BY <1>1
  <2> HIDE DEF e2
  <2>2. b2 = [pc |-> "open", edit |-> bg.edit, max_sequence |-> bg.max_sequence, logs |-> bg.logs \ {n}]
    BY <1>3
  <2> HIDE DEF b2
  <2>3. b3 = [pc |-> "open", edit |-> e2, max_sequence |-> bg.max_sequence, logs |-> bg.logs \ {n}]
    BY <2>2
  <2> HIDE DEF b3
  <2>4. bg' = [pc |-> "open", edit |-> e2, max_sequence |-> highest, logs |-> bg.logs \ {n}]
    BY <2>1, <2>3
  <2> QED
    BY <2>4 DEF e2
<1>16. /\ bg'.edit.add = [bg.edit.add EXCEPT ![0] = @ \cup numbers]
       /\ bg'.edit = [del |-> bg'.edit.del, add |-> bg'.edit.add]
  BY <1>3, <1>15
<1>17. NobodyYet'
  BY <1>1, <1>2, <1>15 DEF NobodyYet
<1>18. Held(Tables', bg'.edit.add, top)
  <2> SUFFICES ASSUME NEW f \in FilesOf(bg'.edit.add) PROVE f \in Tables' /\ f \in Nat /\ f < top
    BY DEF Held
  <2>1. PICK l \in Level : f \in bg'.edit.add[l]
    BY FilesOfIs
  <2>2. f \in bg.edit.add[l] \/ f \in numbers
    BY <1>3, <1>16, <2>1
  <2>3. CASE f \in numbers
    BY <1>7, <1>12, <2>3
  <2>4. CASE f \in bg.edit.add[l]
    <3>1. f \in FilesOf(bg.edit.add)
      BY <2>4, FilesOfIs
    <3>2. f \in Tables /\ f \in Nat /\ f < vset.next_file
      BY <1>3, <3>1 DEF Held
    <3> QED
      BY <1>3, <1>6, <1>8, <1>12, <3>2
  <2> QED
    BY <2>2, <2>3, <2>4
<1>19. DOMAIN bg'.edit.add = Level
  BY <1>3, <1>16
<1>20. RecoveringInv'
  BY <1>1, <1>3, <1>6, <1>8, <1>10, <1>11, <1>12, <1>15, <1>16, <1>18, <1>19 DEF RecoveringInv
<1> QED
  BY <1>1, <1>13, <1>14, <1>17, <1>20 DEF FilesInv, OpeningInv, ServingInv, OpenInv

(***************************************************************************)
(* Every step keeps the logs readable.                                     *)
(***************************************************************************)

LEMMA LogsSame ==
  ASSUME LogsReadable, disk'.logs = disk.logs
  PROVE  LogsReadable'
BY DEF LogsReadable

LEMMA LogsStarted ==
  ASSUME LogsReadable, NEW n, disk'.logs = WithFile(disk.logs, n, <<>>)
  PROVE  LogsReadable'
<1>1. IsLog(<<>>)
  <2>1. <<>> \in Seq({}) /\ DOMAIN <<>> = {}
    OBVIOUS
  <2> QED
    BY <2>1 DEF IsLog, IsSequence
<1>2. ASSUME NEW m \in DOMAIN disk'.logs PROVE IsLog(disk'.logs[m])
  <2>1. m = n \/ m \in DOMAIN disk.logs
    BY DEF WithFile
  <2>2. disk'.logs[m] = IF m = n THEN <<>> ELSE disk.logs[m]
    BY DEF WithFile
  <2> QED
    BY <1>1, <2>1, <2>2 DEF LogsReadable
<1> QED
  BY <1>2 DEF LogsReadable

LEMMA LogsRemoved ==
  ASSUME LogsReadable, DiskShape, NEW S, disk' = Removed(S)
  PROVE  LogsReadable'
<1>1. disk'.logs = [n \in {m \in DOMAIN disk.logs : <<"log", m>> \notin S} |-> disk.logs[n]]
  BY RemovedIs
<1> QED
  BY <1>1 DEF LogsReadable

LEMMA FragmentAdded ==
  ASSUME NEW log, IsLog(log), NEW f, f.type \in FragmentType
  PROVE  IsLog(Append(log, f))
<1>1. IsSequence(Append(log, f))
  BY SequenceGrows DEF IsLog
<1>2. PICK A : log \in Seq(A)
  BY DEF IsLog, IsSequence
<1>3. log \in Seq(A \cup {f})
  BY <1>2
<1>4. ASSUME NEW i \in DOMAIN Append(log, f)
      PROVE  (i \in DOMAIN log /\ Append(log, f)[i] = log[i]) \/ Append(log, f)[i] = f
  BY <1>3
<1> QED
  BY <1>1, <1>4 DEF IsLog

LEMMA AddRecordReadable ==
  ASSUME FilesInv, LogsReadable, NEW t \in Thread, AddRecord(t)
  PROVE  LogsReadable'
<1> DEFINE n == th[t].group
           i == th[t].sent + 1
           type == CASE n = 1 -> "full" [] n > 1 /\ i = 1 -> "first"
                     [] n > 1 /\ i = n -> "last" [] OTHER -> "middle"
           f == [type |-> type, entry |-> GroupEntry(writers, i)]
           longer == Append(disk.logs[db.mem], f)
<1>1. disk' = [disk EXCEPT !.logs[db.mem] = longer]
  BY DEF AddRecord
<1>2. f.type \in FragmentType
  BY DEF FragmentType
<1> HIDE DEF f
<1>3. db.mem \in DOMAIN disk.logs => IsLog(longer)
  BY <1>2, FragmentAdded DEF LogsReadable
<1> HIDE DEF longer
<1>4. disk'.logs = [disk.logs EXCEPT ![db.mem] = longer]
  BY <1>1 DEF FilesInv, Shapes, DiskShape
<1> QED
  BY <1>3, <1>4 DEF LogsReadable

LEMMA MakeRoomReadable ==
  ASSUME FilesInv, LogsReadable, NEW t, NEW q, NEW T, NEW b, MakeRoomForWrite(t, q, T, b)
  PROVE  LogsReadable'
<1>1. disk' = disk \/ SwitchMemTable(FALSE) \/ SwitchMemTable(TRUE)
  BY DEF MakeRoomForWrite
<1>2. disk' = disk \/ disk'.logs = WithFile(disk.logs, vset.next_file, <<>>)
  BY <1>1 DEF SwitchMemTable, FilesInv, Shapes, DiskShape
<1> QED
  BY <1>2, LogsSame, LogsStarted

LEMMA LogsReadableInit == LevelDBInit => LogsReadable
<1> SUFFICES ASSUME LevelDBInit PROVE LogsReadable
  OBVIOUS
<1>1. CASE disk = NoDatabase
  BY <1>1 DEF NoDatabase, LogsReadable
<1>2. CASE disk = OldDatabase
  <2> DEFINE f == [type |-> "full", entry |-> [seq |-> 2, key |-> Min(Key), val |-> 1]]
  <2>1. disk.logs = [i \in {7} |-> <<f>>]
    BY <1>2 DEF OldDatabase
  <2>2. f.type \in FragmentType
    BY DEF FragmentType
  <2> HIDE DEF f
  <2>3. IsLog(<<f>>)
    <3>1. <<f>> \in Seq({f}) /\ DOMAIN <<f>> = {1} /\ <<f>>[1] = f
      OBVIOUS
    <3> QED
      BY <2>2, <3>1 DEF IsLog, IsSequence
  <2> QED
    BY <2>1, <2>3 DEF LogsReadable
<1> QED
  BY <1>1, <1>2 DEF LevelDBInit

LEMMA LogsReadableNext ==
  ASSUME FilesInv, LogsReadable, [LevelDBNext]_ldbVars
  PROVE  LogsReadable'
<1>1. DiskShape
  BY DEF FilesInv, Shapes
<1>2. CASE disk' = disk
  BY <1>2, LogsSame
<1>3. ASSUME NEW t \in Thread, NEW k, Write(t, k) \/ Get(t, k)
      PROVE  LogsReadable'
  <2>1. CASE Get(t, k)
    BY <1>2, <2>1 DEF Get
  <2>2. CASE Write(t, k)
    BY <1>2, <2>2, MakeRoomReadable DEF Write
  <2> QED
    BY <1>3, <2>1, <2>2
<1>4. ASSUME NEW t \in Thread, ThreadStep(t)
      PROVE  LogsReadable'
  <2>1. CASE Resume(t)
    BY <2>1, MakeRoomReadable DEF Resume
  <2>2. CASE AddRecord(t)
    BY <2>2, AddRecordReadable
  <2>3. CASE FinishWrite(t) \/ Return(t) \/ GetReturns(t)
    BY <1>2, <2>3 DEF FinishWrite, Return, GetReturns
  <2> QED
    BY <1>4, <2>1, <2>2, <2>3 DEF ThreadStep
<1>5. CASE BackgroundStep
  <2>1. CASE BackgroundCall \/ LogMemTable \/ CompactMemTableFirst \/ InstallCompactionResults
             \/ Install \/ ObsoleteFilesRemoved
    BY <1>2, <2>1 DEF BackgroundCall, LogMemTable, CompactMemTableFirst, InstallCompactionResults,
                      Install, ObsoleteFilesRemoved
  <2>2. CASE BuildTable
    <3>1. disk'.logs = disk.logs
      BY <1>1, <2>2 DEF BuildTable, DiskShape
    <3> QED
      BY <3>1, LogsSame
  <2>3. CASE CompactEntry
    <3>1. disk'.logs = disk.logs
      BY <1>1, <2>3 DEF CompactEntry, DiskShape
    <3> QED
      BY <3>1, LogsSame
  <2>4. CASE WriteManifest
    <3>1. disk'.logs = disk.logs
      BY <1>1, <2>4 DEF WriteManifest, DiskShape
    <3> QED
      BY <3>1, LogsSame
  <2>5. CASE RemoveObsoleteFiles
    BY <1>1, <2>5, LogsRemoved DEF RemoveObsoleteFiles
  <2> QED
    BY <1>5, <2>1, <2>2, <2>3, <2>4, <2>5 DEF BackgroundStep
<1>6. CASE OpenStep
  <2>1. CASE Recover
    <3>1. disk' = disk \/ disk' = NewDB
      BY <2>1 DEF Recover
    <3>2. disk'.logs = disk.logs
      BY <1>1, <3>1 DEF NewDB, DiskShape
    <3> QED
      BY <3>2, LogsSame
  <2>2. CASE RecoverLogFile
    <3>1. disk'.logs = disk.logs
      BY <1>1, <2>2 DEF RecoverLogFile, DiskShape
    <3> QED
      BY <3>1, LogsSame
  <2>3. CASE NewManifest
    <3>1. disk'.logs = WithFile(disk.logs, vset.next_file, <<>>)
      BY <1>1, <2>3 DEF NewManifest, DiskShape
    <3> QED
      BY <3>1, LogsStarted
  <2>4. CASE SetCurrentFile
    <3>1. disk'.logs = disk.logs
      BY <1>1, <2>4 DEF SetCurrentFile, DiskShape
    <3> QED
      BY <3>1, LogsSame
  <2>5. CASE OpenReturns
    BY <1>2, <2>5 DEF OpenReturns
  <2> QED
    BY <1>6, <2>1, <2>2, <2>3, <2>4, <2>5 DEF OpenStep
<1>7. CASE BuildTableFails \/ CompactionFails
  BY <1>2, <1>7 DEF BuildTableFails, CompactionFails
<1>8. CASE ManifestFails
  <2>1. disk'.logs = disk.logs
    BY <1>1, <1>8 DEF ManifestFails, DiskShape
  <2> QED
    BY <2>1, LogsSame
<1>9. CASE Crash
  BY <1>1, <1>9, LogsRemoved DEF Crash
<1>10. CASE UNCHANGED ldbVars
  BY <1>2, <1>10 DEF ldbVars
<1> QED
  BY <1>3, <1>4, <1>5, <1>6, <1>7, <1>8, <1>9, <1>10 DEF LevelDBNext

(***************************************************************************)
(* No file that somebody needs is removed.                                 *)
(***************************************************************************)

LEMMA FilesInvNext ==
  ASSUME FilesInv, LogsReadable, [LevelDBNext]_ldbVars
  PROVE  FilesInv'
<1>1. ASSUME NEW t \in Thread, NEW k, Write(t, k) \/ Get(t, k) PROVE FilesInv'
  BY <1>1, ThreadsKeep
<1>2. ASSUME NEW t \in Thread, ThreadStep(t) PROVE FilesInv'
  BY <1>2, ThreadsKeep
<1>3. CASE BackgroundStep
  BY <1>3, BackgroundCallKeeps, BuildTableKeeps, LogMemTableKeeps, CompactMemTableFirstKeeps,
     CompactEntryKeeps, InstallCompactionResultsKeeps, WriteManifestKeeps, InstallKeeps,
     RemoveObsoleteFilesKeeps, ObsoleteFilesRemovedKeeps DEF BackgroundStep
<1>4. CASE OpenStep
  BY <1>4, RecoverKeeps, RecoverLogFileKeeps, NewManifestKeeps, SetCurrentFileKeeps,
     OpenReturnsKeeps DEF OpenStep
<1>5. CASE BuildTableFails \/ CompactionFails \/ ManifestFails \/ Crash
  BY <1>5, BuildTableFailsKeeps, CompactionFailsKeeps, ManifestFailsKeeps, CrashKeeps
<1>6. CASE UNCHANGED ldbVars
  <2>1. UNCHANGED <<disk, db, vset, mems, th, bg, compaction, doomed>>
    BY <1>6 DEF ldbVars
  <2>2. Shapes' /\ UnderCurrent' = UnderCurrent /\ Tables' = Tables
    BY <2>1 DEF FilesInv, Shapes, DiskShape, DBShape, VersionSetShape, UnderCurrent, Tables
  <2>3. CurrentHeld' /\ NobodyYet' /\ OpeningInv' /\ RecoveringInv'
    BY <2>1, <2>2 DEF FilesInv, CurrentHeld, NobodyYet, OpeningInv, RecoveringInv
  <2>4. \A n : n \in Needed' <=> n \in Needed
    BY <2>1, <2>2, NeededIs, NeededIsNext
  <2>5. ServingInv'
    BY <2>1, <2>2, <2>4 DEF FilesInv, ServingInv, LogsHeld, DoomedUnneeded
  <2>6. Outputs(compaction)' = Outputs(compaction)
    BY <2>1 DEF Outputs
  <2>7. BackgroundInv <=> BackgroundInv'
    BY <2>1, <2>2, <2>6 DEF BackgroundInv, BuildInv, EditInv, Unclaimed
  <2>8. (CompactionInv <=> CompactionInv') /\ (ReadersInv <=> ReadersInv')
    BY <2>1, <2>2 DEF CompactionInv, ReadersInv, Reading
  <2>9. OpenInv'
    BY <2>1, <2>2, <2>7, <2>8 DEF FilesInv, OpenInv
  <2> QED
    BY <2>2, <2>3, <2>5, <2>9 DEF FilesInv
<1> QED
  BY <1>1, <1>2, <1>3, <1>4, <1>5, <1>6 DEF LevelDBNext

LEMMA FilesInvHolds == LevelDBSpec => [](FilesInv /\ LogsReadable)
<1>1. LevelDBInit => FilesInv /\ LogsReadable
  BY FilesInvInit, LogsReadableInit
<1>2. FilesInv /\ LogsReadable /\ [LevelDBNext]_ldbVars => (FilesInv /\ LogsReadable)'
  BY FilesInvNext, LogsReadableNext
<1> QED
  BY <1>1, <1>2, PTL DEF LevelDBSpec

LEMMA FilesInvKeepsNeeded ==
  ASSUME FilesInv
  PROVE  NeededFilesKept
<1>1. disk.current # 0 => /\ disk.current \in DOMAIN disk.manifests
                          /\ FilesOf(disk.manifests[disk.current].files) \subseteq DOMAIN disk.tables
  BY DEF FilesInv, CurrentHeld, Held, UnderCurrent, Tables
<1>2. db.state # "corrupt"
  BY DEF FilesInv, Shapes
<1>3. ASSUME compaction # NoCompaction
      PROVE  /\ db.state = "open" /\ compaction.outputs \subseteq DOMAIN disk.tables
             /\ FilesOf(compaction.files) \subseteq DOMAIN disk.tables
  <2>1. db.state = "open"
    BY <1>3 DEF FilesInv, NobodyYet
  <2> QED
    BY <1>3, <2>1 DEF FilesInv, OpenInv, CompactionInv, Held, Tables
<1>4. ASSUME NEW t \in Thread, th[t].pc = "reading"
      PROVE  FilesOf(th[t].files) \subseteq DOMAIN disk.tables
  <2>1. db.state = "open"
    BY <1>4 DEF FilesInv, NobodyYet
  <2> QED
    BY <1>4, <2>1 DEF FilesInv, OpenInv, ReadersInv, Reading, Held, Tables
<1>5. ASSUME db.state \in {"opening", "open"}
      PROVE  /\ LiveFiles(vset, compaction) \subseteq DOMAIN disk.tables
             /\ {db.mem, db.imm} \ {0} \subseteq DOMAIN disk.logs
  <2>1. Held(Tables, vset.files, vset.next_file) /\ LogsHeld
    BY <1>5 DEF FilesInv, ServingInv
  <2>2. FilesOf(vset.files) \subseteq DOMAIN disk.tables
    BY <2>1 DEF Held, Tables
  <2>3. {db.mem, db.imm} \ {0} \subseteq DOMAIN disk.logs
    BY <2>1 DEF LogsHeld
  <2> QED
    BY <1>3, <1>4, <2>2, <2>3, LiveFilesIs
<1> QED
  BY <1>1, <1>2, <1>3, <1>5 DEF NeededFilesKept

(* Whatever writes, compactions, failed writes of the MANIFEST, crashes    *)
(* and restarts do: DBImpl::RemoveObsoleteFiles never unlinks a file that  *)
(* a version, a compaction, a Get, a memtable or the next DB::Open needs,  *)
(* and DB::Open never finds a file of its version missing.                 *)
THEOREM NeededFilesKeptHolds == LevelDBSpec => []NeededFilesKept
BY FilesInvHolds, FilesInvKeepsNeeded, PTL

-----------------------------------------------------------------------------
(***************************************************************************)
(* The queue of writers: who is in it, that only its head is at work, and  *)
(* that a group is a part of it.                                           *)
(***************************************************************************)

Call == [pc : WriterPcs, key : Key, val : 1 .. MaxPuts, slept : BOOLEAN,
         group : 0 .. Cardinality(Thread), sent : 0 .. Cardinality(Thread)]

InQueue == WriterPcs \ {"done"}

(* A call while n writers are in the queue. *)
CallOK(r, n) ==
  /\ r = Idle \/ r \in Call \/ r.pc = "reading"
  /\ r.pc \in {"logging", "logged"} => r.group \in 1 .. n
  /\ r.pc = "logging" => r.sent < r.group
  /\ r.pc \in InQueue \ {"logging", "logged"} => r.sent = 0

Behind(q, t) == \A i \in DOMAIN q : i # 1 => q[i] # t

QueueOf(T, q) ==
  /\ DOMAIN T = Thread /\ q \in Seq(Thread)
  /\ \A i, j \in DOMAIN q : q[i] = q[j] => i = j
  /\ \A t \in Thread : CallOK(T[t], Len(q))
  /\ \A t \in Thread : (\E i \in DOMAIN q : q[i] = t) <=> T[t].pc \in InQueue
  /\ \A i \in DOMAIN q : i # 1 => T[q[i]].pc = "queued"

QueueInv ==
  /\ QueueOf(th, writers)
  /\ bounds \in [puts : 0 .. MaxPuts, crashes : Nat, faults : Nat]

LEMMA SequenceIs ==
  ASSUME NEW A, NEW q \in Seq(A)
  PROVE  /\ Len(q) \in Nat /\ DOMAIN q = 1..Len(q) /\ \A i \in DOMAIN q : q[i] \in A
         /\ q # <<>> => Len(q) > 0 /\ 1 \in DOMAIN q /\ Head(q) = q[1]
OBVIOUS

(* No more writers than threads. *)
LEMMA QueueFits ==
  ASSUME NEW q \in Seq(Thread), \A i, j \in DOMAIN q : q[i] = q[j] => i = j
  PROVE  Len(q) <= Cardinality(Thread) /\ Cardinality(Thread) \in Nat
<1>0. IsFiniteSet(Thread)
  BY LevelDBAssumption
<1>1. Len(q) \in Nat /\ DOMAIN q = 1..Len(q) /\ q \in [1..Len(q) -> Thread]
  BY SequenceIs
<1>2. q \in Injection(1..Len(q), Thread)
  BY <1>1 DEF Injection, IsInjective
<1>3. Cardinality(1..Len(q)) <= Cardinality(Thread)
  BY <1>0, <1>2, FS_Injection
<1>4. Cardinality(1..Len(q)) = Len(q)
  BY <1>1, FS_Interval
<1> QED
  BY <1>0, <1>3, <1>4, FS_CardinalityType

LEMMA CallMoves ==
  ASSUME NEW r \in Call, NEW p \in WriterPcs
  PROVE  /\ [r EXCEPT !.pc = p] \in Call /\ [r EXCEPT !.pc = p].pc = p
         /\ [r EXCEPT !.pc = p].key = r.key /\ [r EXCEPT !.pc = p].val = r.val
         /\ [r EXCEPT !.pc = p].group = r.group /\ [r EXCEPT !.pc = p].sent = r.sent
BY DEF Call

LEMMA CallSlept ==
  ASSUME NEW r \in Call, NEW p \in WriterPcs
  PROVE  /\ [r EXCEPT !.pc = p, !.slept = TRUE] \in Call
         /\ [r EXCEPT !.pc = p, !.slept = TRUE].pc = p
         /\ [r EXCEPT !.pc = p, !.slept = TRUE].sent = r.sent
BY DEF Call

LEMMA CallGrouped ==
  ASSUME NEW r \in Call, NEW p \in WriterPcs, NEW n \in 0..Cardinality(Thread)
  PROVE  /\ [r EXCEPT !.pc = p, !.group = n] \in Call
         /\ [r EXCEPT !.pc = p, !.group = n].pc = p
         /\ [r EXCEPT !.pc = p, !.group = n].group = n
         /\ [r EXCEPT !.pc = p, !.group = n].sent = r.sent
BY DEF Call

LEMMA CallSent ==
  ASSUME NEW r \in Call, NEW p \in WriterPcs, NEW n \in 0..Cardinality(Thread)
  PROVE  /\ [r EXCEPT !.sent = n, !.pc = p] \in Call
         /\ [r EXCEPT !.sent = n, !.pc = p].pc = p
         /\ [r EXCEPT !.sent = n, !.pc = p].group = r.group
         /\ [r EXCEPT !.sent = n, !.pc = p].sent = n
BY DEF Call

LEMMA CallIsCall ==
  ASSUME NEW r, NEW n, CallOK(r, n), r.pc \in WriterPcs
  PROVE  r \in Call
BY DEF CallOK, WriterPcs, Idle

LEMMA IdleOK ==
  ASSUME NEW n
  PROVE  CallOK(Idle, n) /\ Idle.pc = "idle" /\ Idle.pc \notin InQueue
BY DEF CallOK, Idle, InQueue, WriterPcs

(* Who is in the queue and not asleep is its head. *)
LEMMA QueueHead ==
  ASSUME NEW T, NEW q, QueueOf(T, q), NEW t \in Thread, T[t].pc \in InQueue \ {"queued"}
  PROVE  q # <<>> /\ 1 \in DOMAIN q /\ q[1] = t /\ Head(q) = t /\ Behind(q, t)
<1>1. PICK i \in DOMAIN q : q[i] = t
  BY DEF QueueOf
<1>2. i = 1
  BY <1>1 DEF QueueOf
<1>3. q \in Seq(Thread) /\ q # <<>>
  BY <1>1 DEF QueueOf
<1>4. Head(q) = q[1]
  BY <1>3, SequenceIs
<1>5. Behind(q, t)
  BY <1>1, <1>2 DEF QueueOf, Behind
<1> QED
  BY <1>1, <1>2, <1>3, <1>4, <1>5

LEMMA QueueExcept ==
  ASSUME NEW T, NEW q, QueueOf(T, q), NEW t \in Thread, NEW r, CallOK(r, Len(q)),
         r.pc \in InQueue <=> T[t].pc \in InQueue, Behind(q, t) \/ r.pc = "queued"
  PROVE  QueueOf([T EXCEPT ![t] = r], q)
<1> DEFINE S == [T EXCEPT ![t] = r]
<1>1. DOMAIN S = Thread /\ \A u \in Thread : S[u] = IF u = t THEN r ELSE T[u]
  BY DEF QueueOf
<1>2. q \in Seq(Thread)
  BY DEF QueueOf
<1> HIDE DEF S
<1>3. ASSUME NEW i \in DOMAIN q, i # 1 PROVE S[q[i]].pc = "queued"
  <2>1. q[i] \in Thread
    BY <1>2
  <2>2. T[q[i]].pc = "queued"
    BY <1>3 DEF QueueOf
  <2> QED
    BY <1>1, <1>3, <2>1, <2>2 DEF Behind
<1>4. ASSUME NEW u \in Thread PROVE CallOK(S[u], Len(q))
  BY <1>1 DEF QueueOf
<1>5. ASSUME NEW u \in Thread PROVE (\E i \in DOMAIN q : q[i] = u) <=> S[u].pc \in InQueue
  BY <1>1 DEF QueueOf
<1> QED
  BY <1>1, <1>2, <1>3, <1>4, <1>5 DEF QueueOf, S

LEMMA HeadSignalledQueue ==
  ASSUME NEW T, NEW q, QueueOf(T, q)
  PROVE  QueueOf(HeadSignalled(T, q), q)
<1>1. CASE q # <<>> /\ T[Head(q)].pc = "queued"
  <2> DEFINE h == Head(q)
             r == [T[h] EXCEPT !.pc = "woken"]
  <2>1. HeadSignalled(T, q) = [T EXCEPT ![h] = r]
    BY <1>1 DEF HeadSignalled
  <2>2. 1 \in DOMAIN q /\ h = q[1] /\ h \in Thread
    BY <1>1, SequenceIs DEF QueueOf
  <2>3. T[h] \in Call
    BY <1>1, <2>2, CallIsCall DEF QueueOf, WriterPcs
  <2>4. r \in Call /\ r.pc = "woken" /\ r.sent = 0
    <3>1. T[h].sent = 0
      BY <1>1, <2>2 DEF QueueOf, CallOK, InQueue, WriterPcs
    <3> QED
      BY <2>3, <3>1, CallMoves DEF WriterPcs
  <2>5. CallOK(r, Len(q))
    BY <2>4 DEF CallOK
  <2>6. Behind(q, h)
    BY <2>2 DEF QueueOf, Behind
  <2>7. r.pc \in InQueue <=> T[h].pc \in InQueue
    BY <1>1, <2>4 DEF InQueue, WriterPcs
  <2> HIDE DEF h, r
  <2>8. h \in Thread /\ QueueOf(T, q)
    BY <2>2
  <2>9. QueueOf([T EXCEPT ![h] = r], q)
    BY ONLY <2>5, <2>6, <2>7, <2>8, QueueExcept
  <2> QED
    BY ONLY <2>1, <2>9
<1>2. CASE ~(q # <<>> /\ T[Head(q)].pc = "queued")
  BY <1>2 DEF HeadSignalled
<1> QED
  BY <1>1, <1>2

(* The first n writers leave, and nobody but the head was at work. *)
LEMMA QueueLeave ==
  ASSUME NEW T, NEW q, QueueOf(T, q), q # <<>>, NEW n \in 1..Len(q), NEW S,
         DOMAIN S = Thread,
         \A i \in 1..n : CallOK(S[q[i]], 0) /\ S[q[i]].pc \notin InQueue,
         \A u \in Thread : (\A i \in 1..n : u # q[i]) => S[u] = T[u]
  PROVE  QueueOf(S, SubSeq(q, n + 1, Len(q)))
<1> DEFINE p == SubSeq(q, n + 1, Len(q))
<1>1. q \in Seq(Thread) /\ Len(q) \in Nat /\ DOMAIN q = 1..Len(q) /\ \A i \in DOMAIN q : q[i] \in Thread
  BY SequenceIs DEF QueueOf
<1>2. p \in Seq(Thread) /\ Len(p) = Len(q) - n /\ \A i \in 1..Len(p) : p[i] = q[i + n]
  <2> DEFINE k == n + 1
             e == Len(q)
  <2>1. k \in Int /\ e \in Int /\ \A i \in k..e : q[i] \in Thread
    BY <1>1
  <2>2. /\ SubSeq(q, k, e) \in Seq(Thread)
        /\ Len(SubSeq(q, k, e)) = IF k <= e THEN e - k + 1 ELSE 0
        /\ \A i \in 1 .. e - k + 1 : SubSeq(q, k, e)[i] = q[k + i - 1]
    <3> HIDE DEF k, e
    <3> QED
      BY ONLY <2>1, SubSeqProperties
  <2>3. p = SubSeq(q, k, e) /\ k = n + 1 /\ e = Len(q) /\ n \in Nat /\ n <= Len(q)
    BY <1>1
  <2> HIDE DEF k, e, p
  <2>4. p \in Seq(Thread) /\ Len(p) = (IF k <= e THEN e - k + 1 ELSE 0)
        /\ \A i \in 1 .. e - k + 1 : p[i] = q[k + i - 1]
    BY ONLY <2>2, <2>3
  <2>a. k = n + 1 /\ n \in Nat /\ e \in Nat /\ n <= e
    BY ONLY <1>1, <2>3
  <2>b. e - k + 1 = e - n /\ (k <= e \/ e - n = 0)
    BY ONLY <2>a
  <2>5. Len(p) = Len(q) - n /\ e - k + 1 = Len(q) - n
    <3>1. Len(p) = e - n
      BY ONLY <2>a, <2>b, <2>4
    <3> QED
      BY ONLY <2>3, <2>b, <3>1
  <2>6. ASSUME NEW i \in 1..Len(p) PROVE p[i] = q[i + n]
    <3>1. i \in 1 .. e - k + 1 /\ k + i - 1 = i + n
      <4>1. i \in Nat /\ i \in 1..(e - k + 1)
        BY <2>5, <2>6
      <4> QED
        BY ONLY <2>a, <4>1
    <3> QED
      BY <2>4, <3>1
  <2> QED
    BY <2>4, <2>5, <2>6
<1>3. Len(p) \in Nat /\ DOMAIN p = 1..Len(p)
  BY <1>2, SequenceIs
<1> HIDE DEF p
<1>4. ASSUME NEW i \in DOMAIN p
      PROVE  i + n \in DOMAIN q /\ i + n # 1 /\ p[i] = q[i + n] /\ p[i] \in Thread
             /\ S[p[i]] = T[p[i]]
  <2>1. i + n \in DOMAIN q /\ i + n # 1 /\ p[i] = q[i + n]
    BY <1>1, <1>2, <1>3
  <2>2. ASSUME NEW j \in 1..n PROVE p[i] # q[j]
    <3>1. j \in DOMAIN q /\ j # i + n
      BY <1>1, <1>3
    <3> QED
      BY <2>1, <3>1 DEF QueueOf
  <2> QED
    BY <1>1, <2>1, <2>2
<1>5. ASSUME NEW i \in DOMAIN p, NEW j \in DOMAIN p, p[i] = p[j] PROVE i = j
  <2>1. i + n = j + n
    BY <1>4, <1>5 DEF QueueOf
  <2> QED
    BY <1>3, <2>1
<1>6. ASSUME NEW u \in Thread
      PROVE  /\ CallOK(S[u], Len(p))
             /\ (\E i \in DOMAIN p : p[i] = u) <=> S[u].pc \in InQueue
  <2>1. CASE \E j \in 1..n : u = q[j]
    <3>1. PICK j \in 1..n : u = q[j]
      BY <2>1
    <3>2. S[u].pc \notin InQueue /\ CallOK(S[u], 0)
      BY <3>1
    <3>3. S[u].pc \notin {"logging", "logged"}
      BY <3>2 DEF InQueue, WriterPcs
    <3>4. CallOK(S[u], Len(p))
      BY <3>2, <3>3 DEF CallOK
    <3>5. ASSUME NEW i \in DOMAIN p PROVE p[i] # u
      <4>1. j \in DOMAIN q /\ j # i + n
        BY <1>1, <1>3, <3>1
      <4> QED
        BY <1>4, <3>1, <4>1 DEF QueueOf
    <3> QED
      BY <3>2, <3>4, <3>5
  <2>2. CASE \A j \in 1..n : u # q[j]
    <3>1. S[u] = T[u]
      BY <2>2
    <3>2. T[u].pc \notin {"logging", "logged"}
      <4> SUFFICES ASSUME T[u].pc \in {"logging", "logged"} PROVE FALSE
        OBVIOUS
      <4>1. T[u].pc \in InQueue \ {"queued"}
        BY DEF InQueue, WriterPcs
      <4>2. q[1] = u
        BY <4>1, QueueHead
      <4> QED
        BY <2>2, <4>2
    <3>3. CallOK(S[u], Len(p))
      BY <3>1, <3>2 DEF QueueOf, CallOK
    <3>4. (\E i \in DOMAIN p : p[i] = u) => \E i \in DOMAIN q : q[i] = u
      BY <1>4
    <3>5. ASSUME NEW i \in DOMAIN q, q[i] = u PROVE \E j \in DOMAIN p : p[j] = u
      <4>1. i \notin 1..n
        BY <2>2, <3>5
      <4>2. i - n \in DOMAIN p /\ (i - n) + n = i
        BY <1>1, <1>2, <1>3, <4>1
      <4> QED
        BY <1>4, <3>5, <4>2
    <3> QED
      BY <3>1, <3>3, <3>4, <3>5 DEF QueueOf
  <2> QED
    BY <2>1, <2>2
<1>7. ASSUME NEW i \in DOMAIN p, i # 1 PROVE S[p[i]].pc = "queued"
  BY <1>4 DEF QueueOf
<1> QED
  BY <1>2, <1>5, <1>6, <1>7 DEF QueueOf, p

LEMMA QueueInit == LevelDBInit => QueueInv
<1> SUFFICES ASSUME LevelDBInit PROVE QueueInv
  OBVIOUS
<1>1. th = [t \in Thread |-> Idle] /\ writers = <<>>
  BY DEF LevelDBInit
<1>2. QueueOf(th, writers)
  BY <1>1, IdleOK DEF QueueOf
<1>3. bounds \in [puts : 0 .. MaxPuts, crashes : Nat, faults : Nat]
  BY LevelDBAssumption DEF LevelDBInit, NothingYet
<1> QED
  BY <1>2, <1>3 DEF QueueInv

(* A call of the head that changes while it stays the head. *)
LEMMA HeadMoves ==
  ASSUME NEW T, NEW q, QueueOf(T, q), NEW t \in Thread, Behind(q, t), T[t].pc \in InQueue,
         NEW r \in Call, CallOK(r, Len(q)), r.pc \in InQueue
  PROVE  QueueOf([T EXCEPT ![t] = r], q)
<1>1. r.pc \in InQueue <=> T[t].pc \in InQueue
  OBVIOUS
<1> QED
  BY ONLY QueueOf(T, q), t \in Thread, Behind(q, t), CallOK(r, Len(q)), <1>1, QueueExcept

LEMMA MakeRoomQueue ==
  ASSUME NEW t \in Thread, NEW q, NEW T, NEW b, QueueOf(T, q), q # <<>>, q[1] = t,
         T[t].pc \in InQueue \ {"logging", "logged"}, MakeRoomForWrite(t, q, T, b)
  PROVE  QueueOf(th', writers')
<1>1. /\ q \in Seq(Thread) /\ Len(q) \in Nat /\ Len(q) > 0 /\ 1 \in DOMAIN q /\ DOMAIN q = 1..Len(q)
      /\ \A i \in DOMAIN q : q[i] \in Thread
  BY SequenceIs DEF QueueOf
<1>2. Behind(q, t)
  BY <1>1 DEF QueueOf, Behind
<1>3. T[t] \in Call /\ DOMAIN T = Thread
  <2>1. T[t].pc \in WriterPcs /\ CallOK(T[t], Len(q))
    BY DEF QueueOf, InQueue
  <2> QED
    BY <2>1, CallIsCall DEF QueueOf
<1>s. T[t].sent = 0
  BY DEF QueueOf, CallOK
<1>4. Refused(t, q, T) => QueueOf(th', writers')
  <2> DEFINE S == [T EXCEPT ![t] = Idle]
  <2> SUFFICES ASSUME Refused(t, q, T) PROVE QueueOf(th', writers')
    OBVIOUS
  <2>1. writers' = Tail(q) /\ th' = HeadSignalled(S, Tail(q))
    BY DEF Refused
  <2>2. Tail(q) = SubSeq(q, 2, Len(q))
    BY <1>1, TailIsSubSeq
  <2>3. DOMAIN S = Thread /\ S[t] = Idle /\ \A u \in Thread \ {t} : S[u] = T[u]
    BY <1>3
  <2> HIDE DEF S
  <2>4. QueueOf(S, SubSeq(q, 1 + 1, Len(q)))
    <3>1. \A i \in 1..1 : CallOK(S[q[i]], 0) /\ S[q[i]].pc \notin InQueue
      BY <2>3, IdleOK
    <3>2. \A u \in Thread : (\A i \in 1..1 : u # q[i]) => S[u] = T[u]
      BY <2>3
    <3>3. 1 \in 1..Len(q)
      BY <1>1
    <3> QED
      BY <2>3, <3>1, <3>2, <3>3, QueueLeave
  <2>5. QueueOf(S, Tail(q))
    <3>1. 1 + 1 = 2
      OBVIOUS
    <3> QED
      BY ONLY <2>2, <2>4, <3>1, Zenon
  <2> QED
    BY <2>1, <2>5, HeadSignalledQueue
<1>5. QueueOf(BuildBatchGroup(T, t, q), q)
  <2> DEFINE r == [T[t] EXCEPT !.pc = "logging", !.group = Len(q)]
  <2>1. BuildBatchGroup(T, t, q) = [T EXCEPT ![t] = r]
    BY <1>3 DEF BuildBatchGroup
  <2>2. Len(q) \in 0..Cardinality(Thread)
    <3>1. q \in Seq(Thread) /\ \A i, j \in DOMAIN q : q[i] = q[j] => i = j
      BY DEF QueueOf
    <3>2. Len(q) <= Cardinality(Thread) /\ Cardinality(Thread) \in Nat
      BY ONLY <3>1, QueueFits
    <3> QED
      BY <1>1, <3>2
  <2>3. "logging" \in WriterPcs /\ "logging" \in InQueue
    BY DEF WriterPcs, InQueue
  <2>4. r \in Call /\ r.pc = "logging" /\ r.group = Len(q) /\ r.sent = 0
    <3> DEFINE x == T[t]
               n == Len(q)
    <3>1. x \in Call /\ x.sent = 0 /\ n \in 0..Cardinality(Thread)
      BY <1>3, <1>s, <2>2
    <3> HIDE DEF x, n
    <3>2. /\ [x EXCEPT !.pc = "logging", !.group = n] \in Call
          /\ [x EXCEPT !.pc = "logging", !.group = n].pc = "logging"
          /\ [x EXCEPT !.pc = "logging", !.group = n].group = n
          /\ [x EXCEPT !.pc = "logging", !.group = n].sent = 0
      BY ONLY <2>3, <3>1 DEF Call
    <3> QED
      BY ONLY <3>2 DEF x, n
  <2> HIDE DEF r
  <2>5. CallOK(r, Len(q))
    BY <1>1, <2>4 DEF CallOK
  <2>6. T[t].pc \in InQueue /\ r.pc \in InQueue
    BY <2>3, <2>4
  <2>7. QueueOf([T EXCEPT ![t] = r], q)
    BY ONLY QueueOf(T, q), t \in Thread, <1>2, <2>4, <2>5, <2>6, HeadMoves
  <2> QED
    BY ONLY <2>1, <2>7
<1>6. QueueOf([T EXCEPT ![t].pc = "delayed", ![t].slept = TRUE], q)
  <2> DEFINE r == [T[t] EXCEPT !.pc = "delayed", !.slept = TRUE]
  <2>1. [T EXCEPT ![t].pc = "delayed", ![t].slept = TRUE] = [T EXCEPT ![t] = r]
    BY <1>3
  <2>3. "delayed" \in WriterPcs /\ "delayed" \in InQueue
    BY DEF WriterPcs, InQueue
  <2>4. r \in Call /\ r.pc = "delayed" /\ r.sent = 0
    BY <1>3, <1>s, <2>3, CallSlept
  <2> HIDE DEF r
  <2>5. CallOK(r, Len(q))
    BY <2>4 DEF CallOK
  <2>6. T[t].pc \in InQueue /\ r.pc \in InQueue
    BY <2>3, <2>4
  <2>7. QueueOf([T EXCEPT ![t] = r], q)
    BY ONLY QueueOf(T, q), t \in Thread, <1>2, <2>4, <2>5, <2>6, HeadMoves
  <2> QED
    BY ONLY <2>1, <2>7
<1>7. QueueOf([T EXCEPT ![t].pc = "bgwait"], q)
  <2> DEFINE r == [T[t] EXCEPT !.pc = "bgwait"]
  <2>1. [T EXCEPT ![t].pc = "bgwait"] = [T EXCEPT ![t] = r]
    BY <1>3
  <2>3. "bgwait" \in WriterPcs /\ "bgwait" \in InQueue
    BY DEF WriterPcs, InQueue
  <2>4. r \in Call /\ r.pc = "bgwait" /\ r.sent = 0
    BY <1>3, <1>s, <2>3, CallMoves
  <2> HIDE DEF r
  <2>5. CallOK(r, Len(q))
    BY <2>4 DEF CallOK
  <2>6. T[t].pc \in InQueue /\ r.pc \in InQueue
    BY <2>3, <2>4
  <2>7. QueueOf([T EXCEPT ![t] = r], q)
    BY ONLY QueueOf(T, q), t \in Thread, <1>2, <2>4, <2>5, <2>6, HeadMoves
  <2> QED
    BY ONLY <2>1, <2>7
<1> QED
  BY <1>4, <1>5, <1>6, <1>7 DEF MakeRoomForWrite

Bounds == [puts : 0 .. MaxPuts, crashes : Nat, faults : Nat]

LEMMA BoundsCount ==
  ASSUME NEW b \in Bounds
  PROVE  /\ [b EXCEPT !.faults = @ + 1] \in Bounds
         /\ [b EXCEPT !["crashes"] = @ + 1] \in Bounds
         /\ [b EXCEPT !["faults"] = @ + 1] \in Bounds
         /\ b.puts < MaxPuts => [b EXCEPT !.puts = @ + 1] \in Bounds
BY LevelDBAssumption DEF Bounds

LEMMA MakeRoomBounds ==
  ASSUME NEW t, NEW q, NEW T, NEW b \in Bounds, MakeRoomForWrite(t, q, T, b)
  PROVE  bounds' \in Bounds
BY BoundsCount DEF MakeRoomForWrite

LEMMA WriteQueue ==
  ASSUME QueueInv, NEW t \in Thread, NEW k \in Key, Write(t, k)
  PROVE  QueueInv'
<1> DEFINE call == [pc |-> "queued", key |-> k, val |-> bounds.puts + 1,
                    slept |-> FALSE, group |-> 0, sent |-> 0]
           T == [th EXCEPT ![t] = call]
           b == [bounds EXCEPT !.puts = @ + 1]
<1>1. QueueOf(th, writers) /\ bounds \in Bounds
  BY DEF QueueInv, Bounds
<1>2. th[t].pc = "idle" /\ bounds.puts < MaxPuts
  BY DEF Write
<1>3. \/ writers = <<>> /\ MakeRoomForWrite(t, <<t>>, T, b)
      \/ writers # <<>> /\ writers' = Append(writers, t) /\ th' = T /\ bounds' = b
  BY DEF Write
<1>4. b \in Bounds
  BY <1>1, <1>2, BoundsCount
<1>5. bounds.puts + 1 \in 1 .. MaxPuts
  BY <1>1, <1>2, LevelDBAssumption DEF Bounds
<1>6. 0 \in 0 .. Cardinality(Thread)
  BY LevelDBAssumption, FS_CardinalityType
<1>7. call \in Call /\ call.pc = "queued" /\ call.sent = 0
  BY <1>5, <1>6 DEF Call, WriterPcs
<1>8. "queued" \in InQueue /\ "idle" \notin InQueue /\ "reading" \notin InQueue
  BY DEF InQueue, WriterPcs
<1> HIDE DEF call, b
<1>9. \A n : CallOK(call, n)
  BY <1>7 DEF CallOK
<1>10. DOMAIN T = Thread /\ T[t] = call /\ \A u \in Thread \ {t} : T[u] = th[u]
  BY <1>1 DEF QueueOf
<1> HIDE DEF T
<1>11. CASE writers = <<>> /\ MakeRoomForWrite(t, <<t>>, T, b)
  <2>1. \A u \in Thread : th[u].pc \notin InQueue
    BY <1>1, <1>11 DEF QueueOf
  <2>2. \A u \in Thread : th[u].pc \notin {"logging", "logged"}
    BY <2>1 DEF InQueue, WriterPcs
  <2>3. <<t>> \in Seq(Thread) /\ Len(<<t>>) = 1 /\ DOMAIN <<t>> = {1} /\ <<t>>[1] = t /\ <<t>> # <<>>
    OBVIOUS
  <2> DEFINE q == <<t>>
  <2> HIDE DEF q
  <2>4. q \in Seq(Thread) /\ Len(q) = 1 /\ DOMAIN q = {1} /\ q[1] = t /\ q # <<>>
    BY <2>3 DEF q
  <2>5. ASSUME NEW u \in Thread PROVE CallOK(T[u], Len(q))
    <3>1. CASE u = t
      BY <1>9, <1>10, <3>1
    <3>2. CASE u # t
      BY <1>1, <1>10, <2>1, <2>2, <3>2 DEF QueueOf, CallOK
    <3> QED
      BY <3>1, <3>2
  <2>6. ASSUME NEW u \in Thread PROVE (\E i \in DOMAIN q : q[i] = u) <=> T[u].pc \in InQueue
    BY <1>7, <1>8, <1>10, <2>1, <2>4
  <2>7. QueueOf(T, q)
    BY <1>10, <2>4, <2>5, <2>6 DEF QueueOf
  <2>8. T[t].pc \in InQueue \ {"logging", "logged"}
    BY <1>7, <1>8, <1>10
  <2>9. MakeRoomForWrite(t, q, T, b)
    BY <1>11 DEF q
  <2>10. QueueOf(th', writers')
    BY ONLY t \in Thread, <2>4, <2>7, <2>8, <2>9, MakeRoomQueue
  <2> QED
    BY <1>4, <2>9, <2>10, MakeRoomBounds DEF QueueInv, Bounds
<1>12. CASE writers # <<>> /\ writers' = Append(writers, t) /\ th' = T /\ bounds' = b
  <2> DEFINE q == writers
             p == Append(q, t)
             n == Len(q)
  <2>1. q \in Seq(Thread) /\ n \in Nat /\ n > 0 /\ DOMAIN q = 1..n /\ \A i \in DOMAIN q : q[i] \in Thread
    BY <1>1, <1>12, SequenceIs DEF QueueOf
  <2>2. p \in Seq(Thread) /\ Len(p) = n + 1 /\ (\A i \in 1..n : p[i] = q[i]) /\ p[n + 1] = t
    BY <2>1, AppendProperties
  <2>3. DOMAIN p = 1..(n + 1)
    BY <2>2, SequenceIs
  <2>4. \A i \in DOMAIN q : q[i] # t
    BY <1>1, <1>2, <1>8 DEF QueueOf
  <2>f. QueueOf(th, q)
    BY <1>1
  <2> HIDE DEF q, p, n
  <2>5. ASSUME NEW i \in DOMAIN p, NEW j \in DOMAIN p, p[i] = p[j] PROVE i = j
    <3>1. (i \in DOMAIN q \/ i = n + 1) /\ (j \in DOMAIN q \/ j = n + 1)
      BY <2>1, <2>3
    <3> QED
      BY <2>1, <2>2, <2>4, <2>5, <2>f, <3>1 DEF QueueOf
  <2>6. ASSUME NEW u \in Thread PROVE CallOK(T[u], Len(p))
    <3>1. CASE u = t
      BY <1>9, <1>10, <3>1
    <3>2. CASE u # t
      <4>1. T[u] = th[u] /\ CallOK(th[u], Len(q))
        BY <1>10, <3>2, <2>f DEF QueueOf
      <4>2. 1..Len(q) \subseteq 1..Len(p)
        BY <2>1, <2>2 DEF n
      <4> QED
        BY <4>1, <4>2 DEF CallOK
    <3> QED
      BY <3>1, <3>2
  <2>7. ASSUME NEW u \in Thread PROVE (\E i \in DOMAIN p : p[i] = u) <=> T[u].pc \in InQueue
    <3>1. CASE u = t
      <4>1. n + 1 \in DOMAIN p
        BY <2>1, <2>3
      <4> QED
        BY <1>7, <1>8, <1>10, <2>2, <3>1, <4>1
    <3>2. CASE u # t
      <4>1. (\E i \in DOMAIN p : p[i] = u) <=> (\E i \in DOMAIN q : q[i] = u)
        <5>1. \A i \in DOMAIN q : i \in DOMAIN p /\ p[i] = q[i]
          BY <2>1, <2>2, <2>3
        <5>2. \A i \in DOMAIN p : i \in DOMAIN q \/ i = n + 1
          BY <2>1, <2>3
        <5> QED
          BY <2>2, <3>2, <5>1, <5>2
      <4> QED
        BY <1>10, <2>f, <3>2, <4>1 DEF QueueOf
    <3> QED
      BY <3>1, <3>2
  <2>8. ASSUME NEW i \in DOMAIN p, i # 1 PROVE T[p[i]].pc = "queued"
    <3>1. CASE i \in DOMAIN q
      <4>1. p[i] = q[i] /\ q[i] \in Thread /\ q[i] # t
        BY <2>1, <2>2, <2>4, <3>1
      <4> QED
        BY <1>10, <2>8, <2>f, <3>1, <4>1 DEF QueueOf
    <3>2. CASE i = n + 1
      BY <1>7, <1>10, <2>2, <3>2
    <3> QED
      BY <2>1, <2>3, <3>1, <3>2
  <2>9. QueueOf(T, p)
    BY <1>10, <2>2, <2>5, <2>6, <2>7, <2>8 DEF QueueOf
  <2> QED
    BY <1>4, <1>12, <2>9 DEF QueueInv, Bounds, p, q
<1> QED
  BY <1>3, <1>11, <1>12

LEMMA ResumeQueue ==
  ASSUME QueueInv, NEW t \in Thread, Resume(t)
  PROVE  QueueInv'
<1>1. QueueOf(th, writers) /\ bounds \in Bounds
  BY DEF QueueInv, Bounds
<1>2. th[t].pc \in InQueue \ {"queued"} /\ th[t].pc \in InQueue \ {"logging", "logged"}
  BY DEF Resume, InQueue, WriterPcs
<1>3. writers # <<>> /\ writers[1] = t
  BY <1>1, <1>2, QueueHead
<1>4. MakeRoomForWrite(t, writers, th, bounds)
  BY DEF Resume
<1>5. QueueOf(th', writers')
  BY ONLY t \in Thread, <1>1, <1>2, <1>3, <1>4, MakeRoomQueue
<1> QED
  BY <1>1, <1>4, <1>5, MakeRoomBounds DEF QueueInv, Bounds

LEMMA AddRecordQueue ==
  ASSUME QueueInv, NEW t \in Thread, AddRecord(t)
  PROVE  QueueInv'
<1> DEFINE i == th[t].sent + 1
           p == IF i = th[t].group THEN "logged" ELSE "logging"
           x == th[t]
           r == [x EXCEPT !.sent = i, !.pc = p]
<1>1. QueueOf(th, writers) /\ DOMAIN th = Thread
  BY DEF QueueInv, QueueOf
<1>2. th[t].pc = "logging" /\ UNCHANGED <<writers, bounds>>
      /\ th' = [th EXCEPT ![t].sent = i, ![t].pc = p]
  BY DEF AddRecord
<1>3. th' = [th EXCEPT ![t] = r]
  BY <1>1, <1>2
<1>4. th[t].pc \in InQueue \ {"queued"} /\ th[t].pc \in WriterPcs
  BY <1>2 DEF InQueue, WriterPcs
<1>5. Behind(writers, t)
  BY <1>1, <1>4, QueueHead
<1>6. CallOK(x, Len(writers)) /\ x \in Call
  BY <1>1, <1>4, CallIsCall DEF QueueOf
<1>7. x.group \in 1..Len(writers) /\ x.sent < x.group /\ x.sent \in Nat /\ x.group \in Nat
      /\ x.group \in 0..Cardinality(Thread)
  BY <1>2, <1>6 DEF CallOK, Call
<1>8. Cardinality(Thread) \in Nat
  BY LevelDBAssumption, FS_CardinalityType
<1>9. i \in 0..Cardinality(Thread) /\ i \in Nat /\ i <= x.group
  BY <1>7, <1>8
<1>10. p \in WriterPcs /\ p \in InQueue /\ p \in {"logging", "logged"}
  BY DEF WriterPcs, InQueue
<1>11. p = "logging" => i < x.group
  BY <1>7, <1>9
<1> HIDE DEF i, p, x
<1>12. r \in Call /\ r.pc = p /\ r.group = x.group /\ r.sent = i
  BY <1>6, <1>9, <1>10 DEF Call
<1> HIDE DEF r
<1>13. CallOK(r, Len(writers))
  BY <1>7, <1>10, <1>11, <1>12 DEF CallOK
<1>14. th[t].pc \in InQueue /\ r.pc \in InQueue
  BY <1>4, <1>10, <1>12
<1>15. QueueOf([th EXCEPT ![t] = r], writers)
  BY ONLY t \in Thread, <1>1, <1>5, <1>12, <1>13, <1>14, HeadMoves
<1> QED
  BY <1>2, <1>3, <1>15 DEF QueueInv

LEMMA FinishWriteQueue ==
  ASSUME QueueInv, NEW t \in Thread, FinishWrite(t)
  PROVE  QueueInv'
<1> DEFINE q == writers
           n == th[t].group
           group == {q[i] : i \in 1 .. n}
           rest == SubSeq(q, n + 1, Len(q))
           T == [u \in Thread |-> IF u = t THEN Idle
                                  ELSE IF u \in group THEN [th[u] EXCEPT !.pc = "done"]
                                  ELSE th[u]]
<1>1. QueueOf(th, q) /\ DOMAIN th = Thread
  BY DEF QueueInv, QueueOf
<1>2. th[t].pc = "logged" /\ writers' = rest /\ th' = HeadSignalled(T, rest) /\ bounds' = bounds
  BY DEF FinishWrite
<1>3. th[t].pc \in InQueue \ {"queued"}
  BY <1>2 DEF InQueue, WriterPcs
<1>4. q # <<>> /\ q[1] = t
  BY <1>1, <1>3, QueueHead
<1>5. n \in 1..Len(q)
  BY <1>1, <1>2 DEF QueueOf, CallOK
<1>6. q \in Seq(Thread) /\ Len(q) \in Nat /\ DOMAIN q = 1..Len(q) /\ \A i \in DOMAIN q : q[i] \in Thread
  BY <1>1, SequenceIs DEF QueueOf
<1>7. ASSUME NEW i \in 1..n PROVE CallOK(T[q[i]], 0) /\ T[q[i]].pc \notin InQueue
  <2>0. i \in DOMAIN q /\ q[i] \in Thread /\ q[i] \in group
    BY <1>5, <1>6
  <2>1. CASE q[i] = t
    BY <2>0, <2>1, IdleOK
  <2>2. CASE q[i] # t
    <3> DEFINE x == th[q[i]]
               r == [x EXCEPT !.pc = "done"]
    <3>1. T[q[i]] = r
      BY <2>0, <2>2
    <3>2. x.pc \in InQueue /\ CallOK(x, Len(q))
      BY <1>1, <2>0 DEF QueueOf
    <3>3. x \in Call
      BY <3>2, CallIsCall DEF InQueue
    <3> HIDE DEF x
    <3>4. r \in Call /\ r.pc = "done"
      BY <3>3 DEF Call, WriterPcs
    <3> HIDE DEF r
    <3>5. CallOK(r, 0) /\ r.pc \notin InQueue
      BY <3>4 DEF CallOK, InQueue
    <3> QED
      BY <3>1, <3>5
  <2> QED
    BY <2>1, <2>2
<1>8. ASSUME NEW u \in Thread, \A i \in 1..n : u # q[i] PROVE T[u] = th[u]
  <2>1. u # t
    BY <1>4, <1>5, <1>8
  <2>2. u \notin group
    BY <1>8
  <2> QED
    BY <2>1, <2>2
<1>9. DOMAIN T = Thread
  OBVIOUS
<1> HIDE DEF T, n, q
<1>10. QueueOf(T, SubSeq(q, n + 1, Len(q)))
  BY ONLY <1>1, <1>4, <1>5, <1>7, <1>8, <1>9, QueueLeave
<1>11. QueueOf(th', writers')
  BY <1>2, <1>10, HeadSignalledQueue
<1> QED
  BY <1>2, <1>11 DEF QueueInv

(* A call that is not in the queue, before and after. *)
LEMMA QueueBeside ==
  ASSUME NEW T, NEW q, QueueOf(T, q), NEW t \in Thread, T[t].pc \notin InQueue, NEW r,
         r = Idle \/ r.pc = "reading"
  PROVE  QueueOf([T EXCEPT ![t] = r], q)
<1>2. CallOK(r, Len(q))
  BY IdleOK DEF CallOK, InQueue, WriterPcs
<1>3. r.pc \in InQueue <=> T[t].pc \in InQueue
  BY IdleOK DEF InQueue, WriterPcs
<1>4. Behind(q, t)
  BY DEF QueueOf, Behind
<1> QED
  BY ONLY t \in Thread, QueueOf(T, q), <1>2, <1>3, <1>4, QueueExcept

LEMMA AwakenedQueue ==
  ASSUME NEW T, NEW q, QueueOf(T, q)
  PROVE  QueueOf(Awakened(T), q)
<1> DEFINE S == Awakened(T)
<1>1. ASSUME NEW u \in Thread
      PROVE  /\ CallOK(S[u], Len(q)) /\ (S[u].pc \in InQueue <=> T[u].pc \in InQueue)
             /\ T[u].pc = "queued" => S[u].pc = "queued"
  <2> DEFINE x == T[u]
             r == [x EXCEPT !.pc = "bgwoken"]
  <2>1. S[u] = IF x.pc = "bgwait" THEN r ELSE x
    BY DEF Awakened
  <2>2. CallOK(x, Len(q))
    BY DEF QueueOf
  <2>3. CASE x.pc = "bgwait"
    <3>1. x \in Call /\ x.pc \in InQueue /\ x.sent = 0
      BY <2>2, <2>3, CallIsCall DEF WriterPcs, InQueue, CallOK
    <3>2. S[u] = r
      BY <2>1, <2>3
    <3> HIDE DEF x, S
    <3>3. r \in Call /\ r.pc = "bgwoken" /\ r.sent = 0
      BY <3>1 DEF Call, WriterPcs
    <3> HIDE DEF r
    <3>4. CallOK(r, Len(q)) /\ r.pc \in InQueue
      BY <3>3 DEF CallOK, InQueue, WriterPcs
    <3> QED
      BY <2>3, <3>1, <3>2, <3>4 DEF x
  <2>4. CASE x.pc # "bgwait"
    BY <2>1, <2>2, <2>4
  <2> QED
    BY <2>3, <2>4
<1>2. DOMAIN S = Thread
  BY DEF Awakened
<1> HIDE DEF S
<1>3. q \in Seq(Thread) /\ \A i \in DOMAIN q : q[i] \in Thread
  BY SequenceIs DEF QueueOf
<1> QED
  BY <1>1, <1>2, <1>3 DEF QueueOf, S

LEMMA QueueNext ==
  ASSUME QueueInv, [LevelDBNext]_ldbVars
  PROVE  QueueInv'
<1>0. QueueOf(th, writers) /\ bounds \in Bounds
  BY DEF QueueInv, Bounds
<1>1. ASSUME NEW t \in Thread, NEW k \in Key, Get(t, k)
      PROVE  QueueInv'
  <2> DEFINE g == [pc |-> "reading", key |-> k, snapshot |-> vset.last_sequence,
                   mem |-> db.mem, imm |-> db.imm, files |-> vset.files,
                   seen |-> Lookup(k, vset.last_sequence, db.mem, db.imm, vset.files)]
  <2>1. th[t].pc \notin InQueue /\ th' = [th EXCEPT ![t] = g] /\ UNCHANGED <<writers, bounds>>
    BY <1>1 DEF Get, InQueue, WriterPcs
  <2>2. g.pc = "reading"
    OBVIOUS
  <2> HIDE DEF g
  <2>3. g = Idle \/ g.pc = "reading"
    BY <2>2
  <2> QED
    <3>1. QueueOf([th EXCEPT ![t] = g], writers)
      BY ONLY <1>0, t \in Thread, <2>1, <2>3, QueueBeside
    <3> QED
      BY <1>0, <2>1, <3>1 DEF QueueInv, Bounds
<1>2. ASSUME NEW t \in Thread, Return(t) \/ GetReturns(t)
      PROVE  QueueInv'
  <2>1. th[t].pc \notin InQueue /\ th' = [th EXCEPT ![t] = Idle] /\ UNCHANGED <<writers, bounds>>
    BY <1>2 DEF Return, GetReturns, InQueue, WriterPcs
  <2> QED
    <3>1. QueueOf([th EXCEPT ![t] = Idle], writers)
      BY ONLY <1>0, t \in Thread, <2>1, QueueBeside
    <3> QED
      BY <1>0, <2>1, <3>1 DEF QueueInv, Bounds
<1>3. CASE UNCHANGED writers /\ th' \in {th, Awakened(th)} /\ bounds' \in Bounds
  BY <1>0, <1>3, AwakenedQueue DEF QueueInv, Bounds
<1>4. CASE Crash
  <2>1. th' = [t \in Thread |-> Idle] /\ writers' = <<>> /\ bounds' = [bounds EXCEPT !["crashes"] = @ + 1]
    BY <1>4 DEF Crash, Count
  <2>2. QueueOf(th', writers')
    BY <2>1, IdleOK DEF QueueOf
  <2> QED
    BY <1>0, <2>1, <2>2, BoundsCount DEF QueueInv, Bounds
<1>5. CASE OpenStep
  <2>1. UNCHANGED <<writers, th, bounds>>
    BY <1>5 DEF OpenStep, Recover, RecoverLogFile, NewManifest, SetCurrentFile, OpenReturns
  <2> QED
    BY <1>0, <1>3, <2>1
<1>6. CASE BackgroundStep
  <2>1. UNCHANGED <<writers, bounds>>
    BY <1>6 DEF BackgroundStep, BackgroundCall, BuildTable, LogMemTable, CompactMemTableFirst,
       CompactEntry, InstallCompactionResults, WriteManifest, Install, RemoveObsoleteFiles,
       ObsoleteFilesRemoved
  <2>2. th' \in {th, Awakened(th)}
    <3>1. \A err, imm, files : MemTableDone(err, imm, files) => th' = Awakened(th)
      BY DEF MemTableDone, FinishCall
    <3>2. BackgroundCall => th' \in {th, Awakened(th)}
      BY DEF BackgroundCall, FinishCall
    <3>3. Install \/ ObsoleteFilesRemoved => th' \in {th, Awakened(th)}
      BY <3>1 DEF Install, ObsoleteFilesRemoved, FinishCall
    <3>4. BuildTable \/ LogMemTable \/ CompactMemTableFirst \/ CompactEntry
            \/ InstallCompactionResults \/ WriteManifest \/ RemoveObsoleteFiles => th' = th
      BY DEF BuildTable, LogMemTable, CompactMemTableFirst,
         CompactEntry, InstallCompactionResults, WriteManifest, RemoveObsoleteFiles
    <3> QED
      BY <1>6, <3>2, <3>3, <3>4 DEF BackgroundStep
  <2> QED
    BY <1>0, <1>3, <2>1, <2>2
<1>7. CASE BuildTableFails \/ CompactionFails \/ ManifestFails
  <2>1. writers' = writers /\ bounds' = [bounds EXCEPT !["faults"] = @ + 1]
    BY <1>7 DEF BuildTableFails, CompactionFails, ManifestFails, Count
  <2>2. th' = Awakened(th)
    BY <1>7 DEF BuildTableFails, CompactionFails, ManifestFails, MemTableDone, FinishCall
  <2> QED
    BY <1>0, <1>3, <2>1, <2>2, BoundsCount
<1>8. CASE UNCHANGED ldbVars
  BY <1>0, <1>3, <1>8 DEF ldbVars
<1> QED
  BY <1>1, <1>2, <1>4, <1>5, <1>6, <1>7, <1>8, WriteQueue, ResumeQueue, AddRecordQueue,
     FinishWriteQueue DEF LevelDBNext, ThreadStep

-----------------------------------------------------------------------------
(***************************************************************************)
(* What is stored: finite sets of entries of Puts, in tables and records   *)
(* that are not empty.                                                     *)
(***************************************************************************)

Entry == [seq : Nat, key : Key, val : 0 .. MaxPuts]
EntrySets == {x \in SUBSET Entry : IsFiniteSet(x)}
TableSets == {x \in EntrySets : x # {}}

EntriesOfLog(log) == \A i \in DOMAIN log : log[i].entry \in Entry

TablesStored == \A n \in DOMAIN disk.tables : disk.tables[n] \in TableSets
LogsStored == \A n \in DOMAIN disk.logs : EntriesOfLog(disk.logs[n])

MemsStored ==
  /\ DOMAIN mems = Referenced(th, db)
  /\ \A m \in DOMAIN mems : mems[m] \in EntrySets
  /\ db.state \in {"closed", "recovering"} => db.mem = 0 /\ db.imm = 0
  /\ db.state \in {"opening", "open"} => db.mem # 0
  /\ db.imm # 0 => db.imm < db.mem /\ mems[db.imm] # {}

(* The memtables that are referred to. *)
LEMMA ReferencedIs ==
  ASSUME NEW T, NEW d, NEW m
  PROVE  m \in Referenced(T, d) <=>
           /\ m # 0
           /\ \/ m \in {d.mem, d.imm}
              \/ \E u \in Thread : T[u].pc = "reading" /\ m \in {T[u].mem, T[u].imm}
BY DEF Referenced

SequencesKnown ==
  /\ vset.last_sequence \in Nat
  /\ disk.current # 0 => UnderCurrent.last_sequence \in Nat
  /\ db.state = "recovering" => bg.max_sequence \in Nat
  /\ db.state = "opening" => disk.manifests[vset.manifest].last_sequence = vset.last_sequence
  /\ db.state = "open" /\ bg.pc = "manifest" => bg.last_sequence \in Nat

CompactionStored == compaction # NoCompaction => compaction.todo \in EntrySets

RecordsInv ==
  TablesStored /\ LogsStored /\ MemsStored /\ SequencesKnown /\ CompactionStored

LEMMA EntrySetsUnion ==
  ASSUME NEW x \in EntrySets, NEW y \in EntrySets
  PROVE  x \cup y \in EntrySets /\ (x # {} => x \cup y \in TableSets)
<1>1. IsFiniteSet(x \cup y)
  BY FS_Union DEF EntrySets
<1> QED
  BY <1>1 DEF EntrySets, TableSets

LEMMA EntrySetsOne ==
  ASSUME NEW e \in Entry
  PROVE  {e} \in TableSets /\ {e} \in EntrySets
<1>1. IsFiniteSet({e})
  BY FS_Singleton
<1> QED
  BY <1>1 DEF EntrySets, TableSets

LEMMA EntrySetsNone == {} \in EntrySets
BY FS_EmptySet DEF EntrySets

LEMMA FiniteMapped ==
  ASSUME NEW S, IsFiniteSet(S), NEW T, NEW f \in [S -> T], \A y \in T : \E x \in S : f[x] = y
  PROVE  IsFiniteSet(T)
<1>1. f \in Surjection(S, T)
  BY DEF Surjection
<1> QED
  BY <1>1, FS_Surjection

(* What log::Reader returns. *)
LEMMA ReadRecordsStored ==
  ASSUME NEW log, IsLog(log), EntriesOfLog(log)
  PROVE  ReadRecords(log) \in Seq(TableSets)
<1> DEFINE n == Len(log)
           g == CHOOSE f : ReadAll(log, f)
           Read == [records : Seq(TableSets), scratch : EntrySets]
           Bad == {k \in Nat : k <= n /\ g[1..k] \notin Read}
<1>1. n \in Nat /\ DOMAIN log = 1..n
  BY SequencePositions DEF IsLog
<1>2. ReadAll(log, g)
  BY <1>1, ReadAllExists
<1> HIDE DEF g, n
<1>3. Bad = {}
  <2> SUFFICES ASSUME Bad # {} PROVE FALSE
    OBVIOUS
  <2>1. PICK m \in Bad : \A y \in Bad : m <= y
    BY LeastNumber
  <2>2. m \in Nat /\ m <= n /\ g[1..m] \notin Read
    BY <2>1
  <2>3. (1..m) \in SUBSET DOMAIN log
    BY <1>1, <2>2
  <2>4. CASE m = 0
    <3>1. 1..m = {}
      BY <2>4
    <3>2. g[1..m] = [records |-> <<>>, scratch |-> {}]
      BY <1>2, <2>3, <3>1 DEF ReadAll
    <3>3. <<>> \in Seq(TableSets)
      OBVIOUS
    <3> QED
      BY <2>2, <3>2, <3>3, EntrySetsNone
  <2>5. CASE m # 0
    <3> DEFINE a == g[1..(m - 1)]
               f == log[m]
    <3>1. /\ Max(1..m) = m /\ (1..m) \ {m} = 1..(m - 1) /\ 1..m # {} /\ m - 1 \in Nat
      BY <2>2, <2>5, LastPosition
    <3>2. g[1..m] = ReadFragment(a, f)
      BY <1>2, <2>3, <3>1 DEF ReadAll
    <3>3. m - 1 \notin Bad /\ m - 1 <= n
      <4>1. ~(m <= m - 1) /\ m - 1 <= n
        BY <1>1, <2>2, <3>1
      <4> HIDE DEF Bad
      <4> QED
        BY <2>1, <4>1
    <3>4. a \in Read
      BY <3>1, <3>3
    <3>5. f.type \in FragmentType /\ f.entry \in Entry
      BY <1>1, <2>2, <2>5 DEF IsLog, EntriesOfLog
    <3> HIDE DEF a, f
    <3>6. a.records \in Seq(TableSets) /\ a.scratch \in EntrySets
          /\ a = [records |-> a.records, scratch |-> a.scratch]
      BY <3>4
    <3> DEFINE e == f.entry
               s == a.scratch \cup {e}
    <3>e. {e} \in TableSets /\ {e} \in EntrySets
      BY <3>5, EntrySetsOne
    <3>s. s \in EntrySets /\ s \in TableSets
      <4>1. s \in EntrySets
        BY <3>6, <3>e, EntrySetsUnion
      <4> QED
        BY <4>1 DEF TableSets
    <3> HIDE DEF e, s
    <3>7. Append(a.records, {e}) \in Seq(TableSets) /\ Append(a.records, s) \in Seq(TableSets)
      BY <3>6, <3>e, <3>s, AppendProperties
    <3>8. CASE f.type = "full"
      <4>1. ReadFragment(a, f) = [records |-> Append(a.records, {e}), scratch |-> {}]
        BY <3>8 DEF ReadFragment, e
      <4> QED
        BY <2>2, <3>2, <3>7, <4>1, EntrySetsNone
    <3>9. CASE f.type = "first"
      <4>1. ReadFragment(a, f) = [a EXCEPT !.scratch = {e}]
        BY <3>9 DEF ReadFragment, e
      <4> QED
        BY <2>2, <3>2, <3>4, <3>e, <4>1
    <3>10. CASE f.type = "middle"
      <4>1. ReadFragment(a, f) = [a EXCEPT !.scratch = s]
        BY <3>10 DEF ReadFragment, s, e
      <4> QED
        BY <2>2, <3>2, <3>4, <3>s, <4>1
    <3>11. CASE f.type = "last"
      <4>1. ReadFragment(a, f) = [records |-> Append(a.records, s), scratch |-> {}]
        BY <3>11 DEF ReadFragment, s, e
      <4> QED
        BY <2>2, <3>2, <3>7, <4>1, EntrySetsNone
    <3> QED
      BY <3>5, <3>8, <3>9, <3>10, <3>11 DEF FragmentType
  <2> QED
    BY <2>4, <2>5
<1>4. g[1..n] \in Read
  BY <1>1, <1>3
<1> QED
  BY <1>1, <1>4, ReadRecordsIs DEF g

LEMMA LastOf ==
  ASSUME NEW A, NEW s \in Seq(A), s # <<>>
  PROVE  Last(s) \in A /\ Front(s) \in Seq(A)
<1>1. Len(s) \in Nat /\ Len(s) # 0 /\ Len(s) \in DOMAIN s
  BY SequenceIs
<1>2. Last(s) \in A
  BY <1>1, SequenceIs DEF Last
<1>3. Front(s) \in Seq(A)
  BY <1>1 DEF Front
<1> QED
  BY <1>2, <1>3

(* The tables RecoverLogFile makes of a log. *)
LEMMA TablesOfLogStored ==
  ASSUME NEW log, IsLog(log), EntriesOfLog(log)
  PROVE  TablesOfLog(log) \in Seq(TableSets)
<1> DEFINE records == ReadRecords(log)
           n == Len(records)
           g == CHOOSE f : InsertAll(records, f)
           Bad == {k \in Nat : k <= n /\ g[1..k] \notin Seq(TableSets)}
<1>0. records \in Seq(TableSets)
  BY ReadRecordsStored
<1> HIDE DEF records
<1>1. n \in Nat /\ DOMAIN records = 1..n /\ \A i \in 1..n : records[i] \in TableSets
  BY <1>0, SequenceIs
<1>2. InsertAll(records, g)
  BY <1>1, InsertAllExists
<1> HIDE DEF g, n
<1>3. Bad = {}
  <2> SUFFICES ASSUME Bad # {} PROVE FALSE
    OBVIOUS
  <2>1. PICK m \in Bad : \A y \in Bad : m <= y
    BY LeastNumber
  <2>2. m \in Nat /\ m <= n /\ g[1..m] \notin Seq(TableSets)
    BY <2>1
  <2>3. (1..m) \in SUBSET DOMAIN records
    BY <1>1, <2>2
  <2>4. CASE m = 0
    <3>1. 1..m = {}
      BY <2>4
    <3>2. g[1..m] = <<>>
      BY <1>2, <2>3, <3>1 DEF InsertAll
    <3>3. <<>> \in Seq(TableSets)
      OBVIOUS
    <3> QED
      BY <2>2, <3>2, <3>3
  <2>5. CASE m # 0
    <3> DEFINE a == g[1..(m - 1)]
               r == records[m]
    <3>1. /\ Max(1..m) = m /\ (1..m) \ {m} = 1..(m - 1) /\ 1..m # {} /\ m - 1 \in Nat
      BY <2>2, <2>5, LastPosition
    <3>2. g[1..m] = InsertRecord(a, r)
      BY <1>2, <2>3, <3>1 DEF InsertAll
    <3>3. m - 1 \notin Bad /\ m - 1 <= n
      <4>1. ~(m <= m - 1) /\ m - 1 <= n
        BY <1>1, <2>2, <3>1
      <4> HIDE DEF Bad
      <4> QED
        BY <2>1, <4>1
    <3>4. a \in Seq(TableSets) /\ r \in TableSets
      BY <1>1, <2>2, <2>5, <3>1, <3>3
    <3> HIDE DEF a, r
    <3>5. Append(a, r) \in Seq(TableSets)
      BY <3>4, AppendProperties
    <3>6. ASSUME a # <<>> PROVE Front(a) \o <<Last(a) \cup r>> \in Seq(TableSets)
      <4>1. Last(a) \in TableSets /\ Front(a) \in Seq(TableSets)
        BY <3>4, <3>6, LastOf
      <4>2. Last(a) \cup r \in TableSets
        BY <3>4, <4>1, EntrySetsUnion DEF TableSets
      <4> DEFINE x == Last(a) \cup r
                 f == Front(a)
      <4> HIDE DEF x, f
      <4>3. f \o <<x>> \in Seq(TableSets)
        BY <4>1, <4>2 DEF x, f
      <4> QED
        BY <4>3 DEF x, f
    <3>7. InsertRecord(a, r) \in Seq(TableSets)
      BY <3>5, <3>6 DEF InsertRecord
    <3> QED
      BY <2>2, <3>2, <3>7
  <2> QED
    BY <2>4, <2>5
<1>4. g[1..n] \in Seq(TableSets)
  BY <1>1, <1>3
<1> QED
  BY <1>1, <1>4, TablesOfLogIs DEF g, records

(* A finite set of numbers has a greatest. *)
LEMMA GreatestOf ==
  ASSUME NEW S, IsFiniteSet(S), S \in SUBSET Nat, S # {}
  PROVE  Max(S) \in S /\ \A y \in S : y <= Max(S)
<1>1. PICK n \in Nat : ExistsBijection(1..n, S)
  BY FS_NatBijection
<1>2. PICK f \in Bijection(1..n, S) : TRUE
  BY <1>1 DEF ExistsBijection
<1>3. f \in [1..n -> S] /\ \A y \in S : \E i \in 1..n : f[i] = y
  BY <1>2 DEF Bijection, Surjection, Injection
<1> DEFINE Top(k) == \E i \in 1..k : \A j \in 1..k : f[j] <= f[i]
           Bad == {k \in Nat : k \in 1..n /\ ~Top(k)}
<1>4. Bad = {}
  <2> SUFFICES ASSUME Bad # {} PROVE FALSE
    OBVIOUS
  <2>1. PICK m \in Bad : \A y \in Bad : m <= y
    BY LeastNumber
  <2>2. m \in Nat /\ m \in 1..n /\ ~Top(m)
    BY <2>1
  <2>3. m # 1
    <3> SUFFICES ASSUME m = 1 PROVE FALSE
      OBVIOUS
    <3>1. 1 \in 1..n /\ f[1] \in Nat
      BY <1>3, <2>2
    <3>2. \A j \in 1..1 : j = 1
      OBVIOUS
    <3>3. \A j \in 1..1 : f[j] <= f[1]
      BY <3>1, <3>2
    <3>4. Top(1)
      BY <3>3
    <3> QED
      BY <2>2, <3>4
  <2>4. m - 1 \in 1..n /\ m - 1 \in Nat /\ ~(m <= m - 1)
    BY <2>2, <2>3
  <2>5. Top(m - 1)
    <3> HIDE DEF Top
    <3> QED
      BY <2>1, <2>4
  <2>6. PICK i \in 1..(m - 1) : \A j \in 1..(m - 1) : f[j] <= f[i]
    BY <2>5
  <2>7. \A j \in 1..m : j \in 1..n /\ f[j] \in Nat /\ (j = m \/ j \in 1..(m - 1))
    <3>1. \A j \in 1..m : j \in 1..n /\ (j = m \/ j \in 1..(m - 1))
      BY <2>2
    <3>2. \A j \in 1..n : f[j] \in Nat
      BY <1>3
    <3> QED
      BY <3>1, <3>2
  <2>8. i \in 1..m /\ m \in 1..m
    BY <2>2, <2>4
  <2>9. CASE f[m] <= f[i]
    <3>1. \A j \in 1..m : f[j] <= f[i]
      BY <2>6, <2>7, <2>9
    <3> QED
      BY <2>2, <2>8, <3>1
  <2>10. CASE ~(f[m] <= f[i])
    <3>1. \A j \in 1..m : f[j] <= f[m]
      <4> SUFFICES ASSUME NEW j \in 1..m PROVE f[j] <= f[m]
        OBVIOUS
      <4>1. f[j] \in Nat /\ f[m] \in Nat /\ f[i] \in Nat /\ (j = m \/ j \in 1..(m - 1))
        BY <2>7, <2>8
      <4>2. j = m \/ f[j] <= f[i]
        BY <2>6, <4>1
      <4> HIDE DEF Bad
      <4> QED
        BY <2>10, <4>1, <4>2
    <3> QED
      BY <2>2, <2>8, <3>1
  <2> QED
    BY <2>9, <2>10
<1>5. n \in 1..n
  <2>1. PICK y \in S : TRUE
    OBVIOUS
  <2>2. PICK i \in 1..n : f[i] = y
    BY <1>3, <2>1
  <2> QED
    BY <1>1, <2>2
<1>6. PICK i \in 1..n : \A j \in 1..n : f[j] <= f[i]
  BY <1>4, <1>5
<1>7. f[i] \in S /\ \A y \in S : y <= f[i]
  BY <1>3, <1>6
<1> DEFINE top == f[i]
<1> HIDE DEF top
<1>8. top \in S /\ \A y \in S : y <= top
  BY <1>7 DEF top
<1>9. S \in SUBSET Int
  OBVIOUS
<1>10. Max(S) = top
  BY <1>8, <1>9, MaxIs
<1> QED
  BY <1>8, <1>10

(* The sequence numbers of finitely many tables have a greatest. *)
LEMMA GreatestSequence ==
  ASSUME NEW full \in Seq(TableSets), NEW q \in Nat
  PROVE  LET seqs == {e.seq : e \in UNION Range(full)}
         IN  /\ Max({q} \cup seqs) \in Nat
             /\ \A x \in {q} \cup seqs : x <= Max({q} \cup seqs)
<1> DEFINE n == Len(full)
           all == UNION Range(full)
           seqs == {e.seq : e \in all}
           S == {q} \cup seqs
<1>1. n \in Nat /\ DOMAIN full = 1..n /\ \A i \in 1..n : full[i] \in TableSets
  BY SequenceIs
<1>2. IsFiniteSet(Range(full))
  <2>1. IsFiniteSet(1..n)
    BY <1>1, FS_Interval
  <2>2. full \in [1..n -> Range(full)] /\ \A y \in Range(full) : \E x \in 1..n : full[x] = y
    BY <1>1 DEF Range
  <2> QED
    BY <2>1, <2>2, FiniteMapped
<1>3. \A x \in Range(full) : IsFiniteSet(x) /\ x \subseteq Entry
  BY <1>1 DEF Range, TableSets, EntrySets
<1>4. IsFiniteSet(all) /\ all \subseteq Entry
  BY <1>2, <1>3, FS_UNION
<1>5. seqs \subseteq Nat
  BY <1>4 DEF Entry
<1>6. IsFiniteSet(seqs)
  <2> DEFINE f == [e \in all |-> e.seq]
  <2>1. f \in [all -> seqs] /\ \A y \in seqs : \E x \in all : f[x] = y
    OBVIOUS
  <2> HIDE DEF f, seqs, all
  <2> QED
    BY <1>4, <2>1, FiniteMapped
<1>7. IsFiniteSet(S) /\ S \subseteq Nat /\ S # {}
  <2>1. S = seqs \cup {q}
    OBVIOUS
  <2> QED
    BY <1>5, <1>6, <2>1, FS_AddElement
<1> HIDE DEF S
<1>8. Max(S) \in S /\ \A y \in S : y <= Max(S)
  BY <1>7, GreatestOf
<1> QED
  BY <1>7, <1>8 DEF S, seqs

-----------------------------------------------------------------------------
(* How the stored records change. *)

LEMMA TablesSame ==
  ASSUME TablesStored, disk'.tables = disk.tables
  PROVE  TablesStored'
BY DEF TablesStored

LEMMA TablesRemoved ==
  ASSUME TablesStored, DiskShape, NEW S, disk' = Removed(S)
  PROVE  TablesStored'
<1>1. disk'.tables = [n \in {m \in DOMAIN disk.tables : <<"table", m>> \notin S} |-> disk.tables[n]]
  BY RemovedIs
<1> QED
  BY <1>1 DEF TablesStored

LEMMA TableAdded ==
  ASSUME TablesStored, NEW n, NEW x \in TableSets, disk'.tables = WithFile(disk.tables, n, x)
  PROVE  TablesStored'
<1>1. ASSUME NEW m \in DOMAIN disk'.tables PROVE disk'.tables[m] \in TableSets
  <2>1. m = n \/ m \in DOMAIN disk.tables
    BY DEF WithFile
  <2>2. disk'.tables[m] = IF m = n THEN x ELSE disk.tables[m]
    BY DEF WithFile
  <2> QED
    BY <2>1, <2>2 DEF TablesStored
<1> QED
  BY <1>1 DEF TablesStored

(* The first entry in the order of the internal comparator: the least key, *)
(* its newest entry first.                                                 *)
Foremost(S, x) == \A y \in S : x.key < y.key \/ (x.key = y.key /\ x.seq >= y.seq)

LEMMA ForemostExists ==
  ASSUME NEW S \in TableSets
  PROVE  \E x \in S : Foremost(S, x)
<1>1. S \subseteq Entry /\ S # {} /\ IsFiniteSet(S)
  BY DEF TableSets, EntrySets
<1>2. \A e \in S : e.key \in Nat /\ e.seq \in Nat
  BY <1>1, LevelDBAssumption DEF Entry
<1> DEFINE keys == {e.key : e \in S}
<1>3. keys \in SUBSET Nat /\ keys # {}
  BY <1>1, <1>2
<1>4. PICK k \in keys : \A y \in keys : k <= y
  <2> HIDE DEF keys
  <2> QED
    BY <1>3, LeastNumber
<1> DEFINE same == {e \in S : e.key = k}
           seqs == {e.seq : e \in same}
           f == [e \in same |-> e.seq]
<1>5. IsFiniteSet(same)
  BY <1>1, FS_Subset
<1>6. f \in [same -> seqs] /\ \A y \in seqs : \E x \in same : f[x] = y
  OBVIOUS
<1>7. seqs \in SUBSET Nat /\ seqs # {}
  BY <1>2, <1>4
<1>8. IsFiniteSet(seqs)
  <2> HIDE DEF f, seqs, same
  <2> QED
    BY <1>5, <1>6, FiniteMapped
<1>9. Max(seqs) \in seqs /\ \A y \in seqs : y <= Max(seqs)
  <2> HIDE DEF seqs
  <2> QED
    BY <1>7, <1>8, GreatestOf
<1>10. PICK x \in same : x.seq = Max(seqs)
  BY <1>9
<1>11. x \in S /\ x.key = k /\ \A y \in S : y.key = k => y.seq <= x.seq
  BY <1>9, <1>10
<1>12. ASSUME NEW y \in S PROVE x.key < y.key \/ (x.key = y.key /\ x.seq >= y.seq)
  <2>1. k <= y.key
    BY <1>4
  <2>2. x.key \in Nat /\ y.key \in Nat /\ x.seq \in Nat /\ y.seq \in Nat
    BY <1>2, <1>11
  <2>3. y.key = k => y.seq <= x.seq
    BY <1>11
  <2> QED
    BY ONLY <1>11, <2>1, <2>2, <2>3
<1> QED
  BY <1>11, <1>12 DEF Foremost

(* The entry CompactEntry works on. *)
NextEntry(c) ==
  CHOOSE x \in c.todo : \A y \in c.todo : x.key < y.key \/ (x.key = y.key /\ x.seq >= y.seq)

LEMMA NextEntryIs ==
  ASSUME NEW c, c.todo \in TableSets
  PROVE  NextEntry(c) \in c.todo /\ Foremost(c.todo, NextEntry(c)) /\ NextEntry(c) \in Entry
<1>1. \E x \in c.todo : Foremost(c.todo, x)
  BY ForemostExists
<1>2. NextEntry(c) \in c.todo /\ Foremost(c.todo, NextEntry(c))
  BY <1>1 DEF NextEntry, Foremost
<1> QED
  BY <1>2 DEF TableSets, EntrySets

(* What CompactEntry changes. *)
Dropped(c) == c.prev.key = NextEntry(c).key /\ c.prev.seq <= c.smallest_snapshot
OutputOf(c) == IF c.builder = 0 THEN vset.next_file ELSE c.builder
ContentOf(c) == {NextEntry(c)} \cup IF c.builder = 0 THEN {} ELSE disk.tables[OutputOf(c)]
AfterEntry(c) == [c EXCEPT !.todo = @ \ {NextEntry(c)},
                           !.prev = [key |-> NextEntry(c).key, seq |-> NextEntry(c).seq]]

EntryDropped ==
  /\ Dropped(compaction) /\ compaction' = AfterEntry(compaction)
  /\ UNCHANGED <<disk, db, vset>>

EntryWritten ==
  /\ ~Dropped(compaction)
  /\ disk' = [disk EXCEPT !.tables = WithFile(@, OutputOf(compaction), ContentOf(compaction))]
  /\ compaction' = [AfterEntry(compaction) EXCEPT
       !.outputs = @ \cup {OutputOf(compaction)},
       !.builder = IF Cardinality(ContentOf(compaction)) >= MaxOutputEntries THEN 0
                   ELSE OutputOf(compaction)]
  /\ db' = [db EXCEPT !.pending = @ \cup {OutputOf(compaction)}]
  /\ vset' = [vset EXCEPT !.next_file = IF compaction.builder = 0 THEN @ + 1 ELSE @]

LEMMA CompactEntryIs ==
  ASSUME CompactEntry
  PROVE  /\ bg.pc \in {"work", "entry"} /\ compaction.todo # {} /\ bg' = [pc |-> "work"]
         /\ UNCHANGED <<mems, writers, th, doomed, bounds>>
         /\ EntryDropped \/ EntryWritten
<1>1. /\ bg.pc \in {"work", "entry"} /\ compaction.todo # {} /\ bg' = [pc |-> "work"]
      /\ UNCHANGED <<mems, writers, th, doomed, bounds>>
  BY DEF CompactEntry
<1>2. EntryDropped \/ EntryWritten
  BY Zenon DEF CompactEntry, EntryDropped, EntryWritten, Dropped, OutputOf, ContentOf, AfterEntry, NextEntry
<1> QED
  BY <1>1, <1>2

LEMMA CompactEntryStored ==
  ASSUME FilesInv, TablesStored, CompactionStored, CompactEntry
  PROVE  TablesStored' /\ CompactionStored'
<1> DEFINE c == compaction
           e == NextEntry(c)
<1>1. bg.pc \in {"work", "entry"} /\ c.todo # {} /\ (EntryDropped \/ EntryWritten)
  BY CompactEntryIs
<1>2. DiskShape /\ BackgroundInv /\ CompactionInv
  <2>1. bg.pc \notin {"idle", "open"}
    BY <1>1
  <2> QED
    BY <2>1, AtWork DEF Shapes
<1>3. c # NoCompaction
  BY <1>1, <1>2 DEF BackgroundInv
<1>4. c.todo \in TableSets
  BY <1>1, <1>3 DEF CompactionStored, TableSets
<1>5. e \in Entry /\ c.todo \ {e} \in EntrySets
  <2>1. e \in Entry
    BY <1>4, NextEntryIs
  <2>2. IsFiniteSet(c.todo \ {e})
    BY <1>4, FS_Subset DEF TableSets, EntrySets
  <2> QED
    BY <1>4, <2>1, <2>2 DEF TableSets, EntrySets
<1>6. {"todo", "prev", "outputs", "builder"} \subseteq DOMAIN c
      /\ (c.builder # 0 => c.builder \in DOMAIN disk.tables)
  BY <1>2, <1>3 DEF CompactionInv, Tables
<1>7. CASE EntryDropped
  <2>1. compaction' = AfterEntry(c) /\ disk' = disk
    BY <1>7 DEF EntryDropped
  <2>2. compaction'.todo = c.todo \ {e}
    BY <1>6, <2>1 DEF AfterEntry
  <2>3. TablesStored'
    BY <2>1, TablesSame
  <2> QED
    BY <1>5, <2>2, <2>3 DEF CompactionStored
<1>8. CASE EntryWritten
  <2> DEFINE next == AfterEntry(c)
  <2>1. next.todo = c.todo \ {e} /\ DOMAIN next = DOMAIN c
    BY <1>6 DEF AfterEntry
  <2> HIDE DEF next
  <2>2. compaction'.todo = next.todo
    BY <1>6, <1>8, <2>1 DEF EntryWritten, next
  <2>3. disk'.tables = WithFile(disk.tables, OutputOf(c), ContentOf(c))
    BY <1>2, <1>8 DEF EntryWritten, DiskShape
  <2>4. ContentOf(c) \in TableSets
    <3>1. {e} \in TableSets /\ {e} \in EntrySets
      BY <1>5, EntrySetsOne
    <3>2. c.builder # 0 => disk.tables[c.builder] \in EntrySets
      BY <1>6 DEF TablesStored, TableSets
    <3> DEFINE x == IF c.builder = 0 THEN {} ELSE disk.tables[OutputOf(c)]
    <3>3. x \in EntrySets
      BY <3>2, EntrySetsNone DEF OutputOf
    <3>4. {e} \cup x \in TableSets
      <4> HIDE DEF x, e
      <4>1. {e} # {}
        OBVIOUS
      <4> QED
        BY <3>1, <3>3, <4>1, EntrySetsUnion
    <3> QED
      BY <3>4 DEF ContentOf
  <2>5. TablesStored'
    BY <2>3, <2>4, TableAdded
  <2> QED
    BY <1>5, <2>1, <2>2, <2>5 DEF CompactionStored
<1> QED
  BY <1>1, <1>7, <1>8

LEMMA RecoverLogFileIs ==
  ASSUME FilesInv, LogsReadable, LogsStored, RecoverLogFile
  PROVE  \E full \in Seq(TableSets) :
           /\ db.state = "recovering" /\ DiskShape /\ vset.next_file \in Nat
           /\ disk' = [disk EXCEPT !.tables =
                [i \in (vset.next_file .. vset.next_file + Len(full) - 1) \cup DOMAIN disk.tables |->
                   IF i \in vset.next_file .. vset.next_file + Len(full) - 1
                     THEN full[i - vset.next_file + 1] ELSE disk.tables[i]]]
           /\ bg' = [bg EXCEPT !.logs = @ \ {Min(bg.logs)},
                !.edit.add[0] = @ \cup (vset.next_file .. vset.next_file + Len(full) - 1),
                !.max_sequence = Max({@} \cup {e.seq : e \in UNION Range(full)})]
           /\ UNCHANGED <<db, mems, writers, th, compaction, doomed, bounds>>
           /\ vset'.last_sequence = vset.last_sequence /\ vset'.files = vset.files
           /\ vset'.manifest = vset.manifest
<1> DEFINE n == Min(bg.logs)
           full == TablesOfLog(disk.logs[n])
<1>1. db.state = "recovering" /\ bg.logs # {}
  BY DEF RecoverLogFile
<1>2. /\ DiskShape /\ VersionSetShape /\ vset.next_file \in Nat
      /\ bg.logs \subseteq DOMAIN disk.logs /\ bg.logs \subseteq Nat
  BY <1>1 DEF FilesInv, Shapes, RecoveringInv
<1>3. n \in DOMAIN disk.logs
  BY <1>1, <1>2, MinOfNumbers
<1>4. full \in Seq(TableSets)
  BY <1>3, TablesOfLogStored DEF LogsReadable, LogsStored
<1> DEFINE top == Max({vset.next_file + Len(full), n + 1})
<1>5. /\ disk' = [disk EXCEPT !.tables =
                [i \in (vset.next_file .. vset.next_file + Len(full) - 1) \cup DOMAIN disk.tables |->
                   IF i \in vset.next_file .. vset.next_file + Len(full) - 1
                     THEN full[i - vset.next_file + 1] ELSE disk.tables[i]]]
      /\ bg' = [bg EXCEPT !.logs = @ \ {Min(bg.logs)},
           !.edit.add[0] = @ \cup (vset.next_file .. vset.next_file + Len(full) - 1),
           !.max_sequence = Max({@} \cup {e.seq : e \in UNION Range(full)})]
      /\ UNCHANGED <<db, mems, writers, th, compaction, doomed, bounds>>
      /\ vset' = [vset EXCEPT !.next_file = top]
  BY DEF RecoverLogFile
<1> HIDE DEF full, top
<1>6. /\ vset'.last_sequence = vset.last_sequence /\ vset'.files = vset.files
      /\ vset'.manifest = vset.manifest
  BY <1>2, <1>5 DEF VersionSetShape
<1> QED
  BY <1>1, <1>2, <1>4, <1>5, <1>6

LEMMA RecoverLogFileStored ==
  ASSUME FilesInv, LogsReadable, LogsStored, TablesStored, RecoverLogFile
  PROVE  TablesStored'
<1>1. PICK full \in Seq(TableSets) :
         /\ DiskShape /\ vset.next_file \in Nat
         /\ disk' = [disk EXCEPT !.tables =
              [i \in (vset.next_file .. vset.next_file + Len(full) - 1) \cup DOMAIN disk.tables |->
                 IF i \in vset.next_file .. vset.next_file + Len(full) - 1
                   THEN full[i - vset.next_file + 1] ELSE disk.tables[i]]]
  BY RecoverLogFileIs
<1> DEFINE first == vset.next_file
           numbers == first .. first + Len(full) - 1
<1>2. disk'.tables = [i \in numbers \cup DOMAIN disk.tables |->
                       IF i \in numbers THEN full[i - first + 1] ELSE disk.tables[i]]
  BY <1>1 DEF DiskShape
<1>3. Len(full) \in Nat /\ \A i \in 1..Len(full) : full[i] \in TableSets
  BY SequenceIs
<1> SUFFICES ASSUME NEW m \in DOMAIN disk'.tables PROVE disk'.tables[m] \in TableSets
  BY DEF TablesStored
<1>4. CASE m \in numbers
  <2>1. m - first + 1 \in 1..Len(full)
    BY <1>1, <1>3, <1>4
  <2>2. disk'.tables[m] = full[m - first + 1]
    BY <1>2, <1>4
  <2> QED
    BY <1>3, <2>1, <2>2
<1>5. CASE m \notin numbers
  BY <1>2, <1>5 DEF TablesStored
<1> QED
  BY <1>4, <1>5

LEMMA TablesStoredNext ==
  ASSUME FilesInv, LogsReadable, RecordsInv, [LevelDBNext]_ldbVars
  PROVE  TablesStored'
<1>1. DiskShape /\ TablesStored /\ LogsStored /\ MemsStored /\ CompactionStored
  BY DEF FilesInv, Shapes, RecordsInv
<1>2. CASE disk'.tables = disk.tables
  BY <1>1, <1>2, TablesSame
<1>3. ASSUME NEW t, NEW q, NEW T, NEW b, MakeRoomForWrite(t, q, T, b)
      PROVE  disk'.tables = disk.tables
  BY <1>1, <1>3 DEF MakeRoomForWrite, SwitchMemTable, DiskShape
<1>4. ASSUME NEW t \in Thread, NEW k, Write(t, k) \/ Get(t, k) \/ ThreadStep(t)
      PROVE  TablesStored'
  <2>1. disk'.tables = disk.tables
    BY <1>1, <1>3, <1>4 DEF Write, Get, ThreadStep, Resume, AddRecord, FinishWrite, Return, GetReturns, DiskShape
  <2> QED
    BY <1>2, <2>1
<1>5. CASE BackgroundStep
  <2>1. CASE BackgroundCall \/ LogMemTable \/ CompactMemTableFirst \/ InstallCompactionResults
             \/ WriteManifest \/ Install \/ ObsoleteFilesRemoved
    BY <1>1, <1>2, <2>1 DEF BackgroundCall, LogMemTable, CompactMemTableFirst, InstallCompactionResults,
                      WriteManifest, Install, ObsoleteFilesRemoved, DiskShape
  <2>2. CASE BuildTable
    <3>1. bg.pc = "build"
      BY <2>2 DEF BuildTable
    <3>2. db.imm # 0
      BY <3>1, AtWork DEF BackgroundInv, BuildInv
    <3>3. mems[db.imm] \in TableSets
      BY <1>1, <3>2, ReferencedIs DEF MemsStored, TableSets
    <3>4. disk'.tables = WithFile(disk.tables, bg.file, mems[db.imm])
      BY <1>1, <2>2 DEF BuildTable, DiskShape
    <3> QED
      BY <1>1, <3>3, <3>4, TableAdded
  <2>3. CASE CompactEntry
    BY <1>1, <2>3, CompactEntryStored
  <2>4. CASE RemoveObsoleteFiles
    BY <1>1, <2>4, TablesRemoved DEF RemoveObsoleteFiles
  <2> QED
    BY <1>5, <2>1, <2>2, <2>3, <2>4 DEF BackgroundStep
<1>6. CASE OpenStep
  <2>1. CASE Recover \/ NewManifest \/ SetCurrentFile \/ OpenReturns
    BY <1>1, <1>2, <2>1 DEF Recover, NewDB, NewManifest, SetCurrentFile, OpenReturns, DiskShape
  <2>2. CASE RecoverLogFile
    BY <1>1, <2>2, RecoverLogFileStored
  <2> QED
    BY <1>6, <2>1, <2>2 DEF OpenStep
<1>7. CASE BuildTableFails \/ CompactionFails \/ ManifestFails
  BY <1>1, <1>2, <1>7 DEF BuildTableFails, CompactionFails, ManifestFails, DiskShape
<1>8. CASE Crash
  BY <1>1, <1>8, TablesRemoved DEF Crash
<1>9. CASE UNCHANGED ldbVars
  BY <1>2, <1>9 DEF ldbVars
<1> QED
  BY <1>4, <1>5, <1>6, <1>7, <1>8, <1>9 DEF LevelDBNext

LEMMA LogsStoredSame ==
  ASSUME LogsStored, disk'.logs = disk.logs
  PROVE  LogsStored'
BY DEF LogsStored

LEMMA LogsStoredStarted ==
  ASSUME LogsStored, NEW n, disk'.logs = WithFile(disk.logs, n, <<>>)
  PROVE  LogsStored'
<1>1. EntriesOfLog(<<>>)
  BY DEF EntriesOfLog
<1>2. ASSUME NEW m \in DOMAIN disk'.logs PROVE EntriesOfLog(disk'.logs[m])
  <2>1. m = n \/ m \in DOMAIN disk.logs
    BY DEF WithFile
  <2>2. disk'.logs[m] = IF m = n THEN <<>> ELSE disk.logs[m]
    BY DEF WithFile
  <2> QED
    BY <1>1, <2>1, <2>2 DEF LogsStored
<1> QED
  BY <1>2 DEF LogsStored

LEMMA LogsStoredRemoved ==
  ASSUME LogsStored, DiskShape, NEW S, disk' = Removed(S)
  PROVE  LogsStored'
<1>1. disk'.logs = [n \in {m \in DOMAIN disk.logs : <<"log", m>> \notin S} |-> disk.logs[n]]
  BY RemovedIs
<1> QED
  BY <1>1 DEF LogsStored

(* The entries of a group. *)
LEMMA GroupEntryStored ==
  ASSUME QueueInv, vset.last_sequence \in Nat, NEW i \in 1 .. Len(writers)
  PROVE  GroupEntry(writers, i) \in Entry
<1>1. writers \in Seq(Thread) /\ i \in DOMAIN writers
  BY DEF QueueInv, QueueOf
<1> DEFINE t == writers[i]
<1>2. t \in Thread
  BY <1>1, SequenceIs
<1>3. th[t].pc \in InQueue
  BY <1>1, <1>2 DEF QueueInv, QueueOf
<1>4. th[t] \in Call
  <2>1. CallOK(th[t], Len(writers))
    BY <1>2 DEF QueueInv, QueueOf
  <2>2. Idle.pc = "idle"
    BY IdleShape
  <2> QED
    BY <1>3, <2>1, <2>2 DEF CallOK, InQueue, WriterPcs
<1>5. th[t].key \in Key /\ th[t].val \in 1..MaxPuts
  BY <1>4 DEF Call
<1>6. th[t].val \in 0..MaxPuts
  BY <1>5
<1>7. vset.last_sequence + i \in Nat
  OBVIOUS
<1> QED
  BY <1>5, <1>6, <1>7 DEF GroupEntry, Entry

LEMMA AddRecordStored ==
  ASSUME FilesInv, LogsReadable, QueueInv, LogsStored, vset.last_sequence \in Nat,
         NEW t \in Thread, AddRecord(t)
  PROVE  LogsStored'
<1> DEFINE n == th[t].group
           i == th[t].sent + 1
           type == CASE n = 1 -> "full" [] n > 1 /\ i = 1 -> "first"
                     [] n > 1 /\ i = n -> "last" [] OTHER -> "middle"
           f == [type |-> type, entry |-> GroupEntry(writers, i)]
           longer == Append(disk.logs[db.mem], f)
<1>1. disk' = [disk EXCEPT !.logs[db.mem] = longer] /\ th[t].pc = "logging"
  BY DEF AddRecord
<1>2. i \in 1 .. Len(writers)
  <2>1. CallOK(th[t], Len(writers)) /\ Len(writers) \in Nat
    BY DEF QueueInv, QueueOf
  <2>2. th[t] \in Call
    <3>1. Idle.pc = "idle"
      BY IdleShape
    <3> QED
      BY <1>1, <2>1, <3>1 DEF CallOK
  <2>3. th[t].sent \in 0 .. Cardinality(Thread) /\ th[t].group \in 1 .. Len(writers)
        /\ th[t].sent < th[t].group
    BY <1>1, <2>1, <2>2 DEF CallOK, Call
  <2>4. Cardinality(Thread) \in Nat
    BY LevelDBAssumption, FS_CardinalityType
  <2> QED
    BY <2>1, <2>3, <2>4
<1>3. f.entry \in Entry
  BY <1>2, GroupEntryStored
<1> HIDE DEF f
<1>4. db.mem \in DOMAIN disk.logs => EntriesOfLog(longer)
  <2> SUFFICES ASSUME db.mem \in DOMAIN disk.logs PROVE EntriesOfLog(longer)
    OBVIOUS
  <2> DEFINE log == disk.logs[db.mem]
  <2>1. EntriesOfLog(log) /\ IsLog(log)
    BY DEF LogsStored, LogsReadable
  <2> HIDE DEF log
  <2>2. PICK A : log \in Seq(A)
    BY <2>1 DEF IsLog, IsSequence
  <2>3. log \in Seq(A \cup {f})
    BY <2>2
  <2>4. ASSUME NEW j \in DOMAIN Append(log, f)
        PROVE  (j \in DOMAIN log /\ Append(log, f)[j] = log[j]) \/ Append(log, f)[j] = f
    BY <2>3
  <2>5. EntriesOfLog(Append(log, f))
    BY <1>3, <2>1, <2>4 DEF EntriesOfLog
  <2> QED
    BY <2>5 DEF log
<1> HIDE DEF longer
<1>5. disk'.logs = [disk.logs EXCEPT ![db.mem] = longer]
  BY <1>1 DEF FilesInv, Shapes, DiskShape
<1> QED
  BY <1>4, <1>5 DEF LogsStored

LEMMA LogsStoredNext ==
  ASSUME FilesInv, LogsReadable, QueueInv, RecordsInv, [LevelDBNext]_ldbVars
  PROVE  LogsStored'
<1>1. DiskShape /\ LogsStored /\ vset.last_sequence \in Nat
  BY DEF FilesInv, Shapes, RecordsInv, SequencesKnown
<1>2. CASE disk'.logs = disk.logs
  BY <1>1, <1>2, LogsStoredSame
<1>3. ASSUME NEW t, NEW q, NEW T, NEW b, MakeRoomForWrite(t, q, T, b)
      PROVE  LogsStored'
  <2>1. disk' = disk \/ SwitchMemTable(FALSE) \/ SwitchMemTable(TRUE)
    BY <1>3 DEF MakeRoomForWrite
  <2>2. disk' = disk \/ disk'.logs = WithFile(disk.logs, vset.next_file, <<>>)
    BY <1>1, <2>1 DEF SwitchMemTable, DiskShape
  <2> QED
    BY <1>1, <1>2, <2>2, LogsStoredStarted
<1>4. ASSUME NEW t \in Thread, NEW k, Write(t, k) \/ Get(t, k) \/ ThreadStep(t)
      PROVE  LogsStored'
  <2>1. CASE AddRecord(t)
    BY <1>1, <2>1, AddRecordStored
  <2>2. CASE Write(t, k) \/ Get(t, k) \/ Resume(t) \/ FinishWrite(t) \/ Return(t) \/ GetReturns(t)
    BY <1>2, <1>3, <2>2 DEF Write, Get, Resume, FinishWrite, Return, GetReturns
  <2> QED
    BY <1>4, <2>1, <2>2 DEF ThreadStep
<1>5. CASE BackgroundStep
  <2>1. CASE BackgroundCall \/ LogMemTable \/ CompactMemTableFirst \/ InstallCompactionResults
             \/ WriteManifest \/ Install \/ ObsoleteFilesRemoved \/ BuildTable \/ CompactEntry
    BY <1>1, <1>2, <2>1 DEF BackgroundCall, LogMemTable, CompactMemTableFirst, InstallCompactionResults,
                      WriteManifest, Install, ObsoleteFilesRemoved, BuildTable, CompactEntry, DiskShape
  <2>2. CASE RemoveObsoleteFiles
    BY <1>1, <2>2, LogsStoredRemoved DEF RemoveObsoleteFiles
  <2> QED
    BY <1>5, <2>1, <2>2 DEF BackgroundStep
<1>6. CASE OpenStep
  <2>1. CASE Recover \/ RecoverLogFile \/ SetCurrentFile \/ OpenReturns
    BY <1>1, <1>2, <2>1 DEF Recover, NewDB, RecoverLogFile, SetCurrentFile, OpenReturns, DiskShape
  <2>2. CASE NewManifest
    <3>1. disk'.logs = WithFile(disk.logs, vset.next_file, <<>>)
      BY <1>1, <2>2 DEF NewManifest, DiskShape
    <3> QED
      BY <1>1, <3>1, LogsStoredStarted
  <2> QED
    BY <1>6, <2>1, <2>2 DEF OpenStep
<1>7. CASE BuildTableFails \/ CompactionFails \/ ManifestFails
  BY <1>1, <1>2, <1>7 DEF BuildTableFails, CompactionFails, ManifestFails, DiskShape
<1>8. CASE Crash
  BY <1>1, <1>8, LogsStoredRemoved DEF Crash
<1>9. CASE UNCHANGED ldbVars
  BY <1>2, <1>9 DEF ldbVars
<1> QED
  BY <1>4, <1>5, <1>6, <1>7, <1>8, <1>9 DEF LevelDBNext

-----------------------------------------------------------------------------
(* The same calls read. *)
SameReaders ==
  \A u \in Thread : th[u].pc = "reading" \/ th'[u].pc = "reading" => th'[u] = th[u]

LEMMA ReferencedSame ==
  ASSUME SameReaders, NEW d
  PROVE  Referenced(th', d) = Referenced(th, d)
<1> DEFINE R == {u \in Thread : th[u].pc = "reading"}
           Q == {u \in Thread : th'[u].pc = "reading"}
<1>1. Q = R /\ \A u \in R : th'[u] = th[u]
  BY DEF SameReaders
<1> HIDE DEF R, Q
<1>2. {{th'[u].mem, th'[u].imm} : u \in Q} = {{th[u].mem, th[u].imm} : u \in R}
  BY <1>1
<1> QED
  BY <1>2 DEF Referenced, Q, R

LEMMA MemsSame ==
  ASSUME MemsStored, SameReaders, DOMAIN mems' = DOMAIN mems,
         \A m \in DOMAIN mems : mems'[m] = mems[m],
         db'.mem = db.mem, db'.imm = db.imm, db'.state = db.state
  PROVE  MemsStored'
<1>1. Referenced(th', db') = Referenced(th, db')
  BY ReferencedSame
<1>2. Referenced(th, db') = Referenced(th, db)
  BY DEF Referenced
<1>3. db.imm # 0 => db.imm \in DOMAIN mems
  BY ReferencedIs DEF MemsStored
<1> QED
  BY <1>1, <1>2, <1>3 DEF MemsStored

(* SwitchMemTable runs when the memtable is full. *)
LEMMA SwitchStored ==
  ASSUME FilesInv, MemsStored, SameReaders, db.state = "open", db.imm = 0, NEW err, SwitchMemTable(err),
         Cardinality(mems[db.mem]) > WriteBufferSize
  PROVE  MemsStored'
<1> DEFINE log == vset.next_file
<1>1. DBShape /\ log \in Nat /\ db.mem \in Nat /\ db.mem < log
  BY DEF FilesInv, Shapes, ServingInv, LogsHeld
<1>2. db'.mem = log /\ db'.imm = db.mem /\ db'.state = "open" /\ mems' = WithFile(mems, log, {})
  BY <1>1 DEF SwitchMemTable, DBShape
<1>3. db.mem # 0 /\ db.mem \in DOMAIN mems
  BY ReferencedIs DEF MemsStored
<1>4. mems[db.mem] # {}
  BY LevelDBAssumption, FS_EmptySet
<1>5. /\ DOMAIN mems' = DOMAIN mems \cup {log} /\ mems'[log] = {}
      /\ \A m \in DOMAIN mems : m # log => mems'[m] = mems[m]
  BY <1>2 DEF WithFile
<1>6. log # 0 /\ db.mem # log
  BY <1>1, <1>3
<1>7. \A m \in DOMAIN mems' : mems'[m] \in EntrySets
  BY <1>5, EntrySetsNone DEF MemsStored
<1>8. DOMAIN mems' = Referenced(th', db')
  <2>1. Referenced(th', db') = Referenced(th, db')
    BY ReferencedSame
  <2>2. ASSUME NEW m PROVE m \in Referenced(th, db') <=> m \in Referenced(th, db) \cup {log}
    <3>1. m \in Referenced(th, db) <=>
            /\ m # 0
            /\ \/ m \in {db.mem, db.imm}
               \/ \E u \in Thread : th[u].pc = "reading" /\ m \in {th[u].mem, th[u].imm}
      BY ReferencedIs
    <3>2. m \in Referenced(th, db') <=>
            /\ m # 0
            /\ \/ m \in {db'.mem, db'.imm}
               \/ \E u \in Thread : th[u].pc = "reading" /\ m \in {th[u].mem, th[u].imm}
      BY ReferencedIs
    <3> QED
      BY <1>2, <1>6, <3>1, <3>2
  <2> QED
    BY <1>5, <2>1, <2>2 DEF MemsStored
<1> QED
  BY <1>1, <1>2, <1>3, <1>4, <1>5, <1>6, <1>7, <1>8 DEF MemsStored

(* A thread other than a reader becomes one that does not read. *)
LEMMA SameReadersIf ==
  ASSUME FilesInv, ReadersStay(th'), \A u \in Thread : th[u].pc = "reading" => th'[u] = th[u]
  PROVE  SameReaders
BY DEF SameReaders, ReadersStay

LEMMA HeadSignalledSame ==
  ASSUME NEW T, NEW q, NEW u \in Thread, DOMAIN T = Thread, T[u].pc = "reading"
  PROVE  HeadSignalled(T, q)[u] = T[u]
<1>1. CASE q # <<>> /\ T[Head(q)].pc = "queued"
  <2>1. HeadSignalled(T, q) = [T EXCEPT ![Head(q)] = [T[Head(q)] EXCEPT !.pc = "woken"]]
    BY <1>1 DEF HeadSignalled
  <2>2. u # Head(q)
    BY <1>1
  <2> QED
    BY <2>1, <2>2
<1>2. CASE ~(q # <<>> /\ T[Head(q)].pc = "queued")
  BY <1>2 DEF HeadSignalled
<1> QED
  BY <1>1, <1>2

(* The calls of writers leave those that read alone. *)
LEMMA MakeRoomReaders ==
  ASSUME NEW t \in Thread, NEW q, NEW T, NEW b, DOMAIN T = Thread, T[t].pc # "reading",
         MakeRoomForWrite(t, q, T, b), NEW u \in Thread, T[u].pc = "reading"
  PROVE  th'[u] = T[u]
<1>1. u # t
  OBVIOUS
<1>2. Refused(t, q, T) => th'[u] = T[u]
  <2> SUFFICES ASSUME Refused(t, q, T) PROVE th'[u] = T[u]
    OBVIOUS
  <2> DEFINE S == [T EXCEPT ![t] = Idle]
  <2>1. th' = HeadSignalled(S, Tail(q)) /\ DOMAIN S = Thread /\ S[u] = T[u]
    BY <1>1 DEF Refused
  <2> HIDE DEF S
  <2> QED
    BY <2>1, HeadSignalledSame
<1>3. BuildBatchGroup(T, t, q)[u] = T[u]
  BY <1>1 DEF BuildBatchGroup
<1> QED
  BY <1>1, <1>2, <1>3 DEF MakeRoomForWrite

LEMMA CallsSameReaders ==
  ASSUME FilesInv, QueueInv, NEW t \in Thread, NEW k,
         Write(t, k) \/ Resume(t) \/ AddRecord(t) \/ FinishWrite(t) \/ Return(t)
  PROVE  SameReaders
<1>1. ReadersStay(th')
  BY WriteMoves, ResumeMoves, AddRecordMoves, FinishWriteMoves, ReturnMoves
<1>2. DOMAIN th = Thread
  BY DEF FilesInv, Shapes
<1> SUFFICES ASSUME NEW u \in Thread, th[u].pc = "reading" PROVE th'[u] = th[u]
  BY <1>1, SameReadersIf
<1>3. CASE Write(t, k)
  <2> DEFINE call == [pc |-> "queued", key |-> k, val |-> bounds.puts + 1,
                      slept |-> FALSE, group |-> 0, sent |-> 0]
             T == [th EXCEPT ![t] = call]
             b == [bounds EXCEPT !.puts = @ + 1]
  <2>1. /\ th[t].pc = "idle" /\ (MakeRoomForWrite(t, <<t>>, T, b) \/ th' = T)
    BY <1>3 DEF Write
  <2>2. call.pc # "reading"
    OBVIOUS
  <2> HIDE DEF call, b
  <2>3. DOMAIN T = Thread /\ T[u] = th[u] /\ T[t].pc # "reading"
    BY <1>2, <2>1, <2>2
  <2> HIDE DEF T
  <2> QED
    BY <2>1, <2>3, MakeRoomReaders
<1>4. CASE Resume(t)
  BY <1>2, <1>4, MakeRoomReaders DEF Resume
<1>5. CASE AddRecord(t)
  <2>1. th[t].pc = "logging" /\ \E i, p : th' = [th EXCEPT ![t].sent = i, ![t].pc = p]
    BY <1>5 DEF AddRecord
  <2>2. u # t
    BY <2>1
  <2>3. PICK i, p : th' = [th EXCEPT ![t].sent = i, ![t].pc = p]
    BY <2>1
  <2> QED
    BY <1>2, <2>2, <2>3
<1>6. CASE FinishWrite(t)
  <2> DEFINE group == {writers[i] : i \in 1 .. th[t].group}
             rest == SubSeq(writers, th[t].group + 1, Len(writers))
             T == [v \in Thread |-> IF v = t THEN Idle
                                    ELSE IF v \in group THEN [th[v] EXCEPT !.pc = "done"]
                                    ELSE th[v]]
  <2>1. th[t].pc = "logged" /\ th' = HeadSignalled(T, rest)
    BY <1>6 DEF FinishWrite
  <2>2. u \notin group
    <3> SUFFICES ASSUME NEW i \in 1 .. th[t].group, writers[i] = u PROVE FALSE
      OBVIOUS
    <3>1. th[t].group \in 1 .. Len(writers) /\ Len(writers) \in Nat
      BY <2>1 DEF QueueInv, QueueOf, CallOK
    <3>2. i \in DOMAIN writers
      <4>1. DOMAIN writers = 1 .. Len(writers)
        BY DEF QueueInv, QueueOf
      <4> QED
        BY <3>1, <4>1
    <3>3. th[u].pc \in InQueue
      BY <3>2 DEF QueueInv, QueueOf
    <3> QED
      BY <3>3 DEF InQueue, WriterPcs
  <2>3. DOMAIN T = Thread /\ T[u] = th[u]
    BY <2>1, <2>2
  <2> HIDE DEF T
  <2> QED
    BY <2>1, <2>3, HeadSignalledSame
<1>7. CASE Return(t)
  BY <1>2, <1>7 DEF Return
<1> QED
  BY <1>3, <1>4, <1>5, <1>6, <1>7

LEMMA AwakenedSameReaders ==
  ASSUME FilesInv, th' = th \/ th' = Awakened(th)
  PROVE  SameReaders
<1>1. ThreadsKept
  BY AwakenedKept DEF FilesInv
<1>2. ASSUME NEW u \in Thread, th[u].pc = "reading" PROVE th'[u] = th[u]
  BY <1>2 DEF Awakened
<1> QED
  BY <1>1, <1>2 DEF SameReaders, ThreadsKept

(* Only writers are woken by a step of the background thread or DB::Open. *)
LEMMA OthersAwaken ==
  ASSUME \/ BackgroundStep \/ OpenStep \/ BuildTableFails \/ CompactionFails \/ ManifestFails
         \/ UNCHANGED ldbVars
  PROVE  th' = th \/ th' = Awakened(th)
<1>1. \A err, imm, v : FinishCall(th, err, imm, v) => th' = Awakened(th)
  BY DEF FinishCall
<1>2. \A err, imm, v : MemTableDone(err, imm, v) => th' = Awakened(th)
  BY <1>1 DEF MemTableDone
<1>3. BackgroundCall \/ Install \/ ObsoleteFilesRemoved => th' = th \/ th' = Awakened(th)
  BY <1>1, <1>2 DEF BackgroundCall, Install, ObsoleteFilesRemoved
<1>4. BuildTable \/ LogMemTable \/ CompactMemTableFirst \/ CompactEntry \/ InstallCompactionResults
        \/ WriteManifest \/ RemoveObsoleteFiles => th' = th
  BY DEF BuildTable, LogMemTable, CompactMemTableFirst, CompactEntry, InstallCompactionResults,
         WriteManifest, RemoveObsoleteFiles
<1>5. OpenStep => th' = th
  BY DEF OpenStep, Recover, RecoverLogFile, NewManifest, SetCurrentFile, OpenReturns
<1>6. BuildTableFails \/ CompactionFails \/ ManifestFails => th' = Awakened(th)
  BY <1>1, <1>2 DEF BuildTableFails, CompactionFails, ManifestFails
<1> QED
  BY <1>3, <1>4, <1>5, <1>6 DEF BackgroundStep, ldbVars

LEMMA MakeRoomMems ==
  ASSUME FilesInv, MemsStored, SameReaders, db.state = "open",
         NEW t, NEW q, NEW T, NEW b, MakeRoomForWrite(t, q, T, b)
  PROVE  MemsStored'
<1> DEFINE l0 == Cardinality(vset.files[0])
           full == /\ ~db.bg_error /\ ~(~T[t].slept /\ l0 >= L0_SlowdownWritesTrigger)
                   /\ Cardinality(mems[db.mem]) > WriteBufferSize
           wait == db.imm # 0 \/ l0 >= L0_StopWritesTrigger
<1>1. \/ mems' = mems /\ db' = db
      \/ full /\ ~wait /\ (SwitchMemTable(FALSE) \/ SwitchMemTable(TRUE))
  BY DEF MakeRoomForWrite
<1>2. CASE mems' = mems /\ db' = db
  BY <1>2, MemsSame
<1>3. CASE full /\ ~wait /\ (SwitchMemTable(FALSE) \/ SwitchMemTable(TRUE))
  BY <1>3, SwitchStored
<1> QED
  BY <1>1, <1>2, <1>3

LEMMA FinishWriteStored ==
  ASSUME FilesInv, QueueInv, MemsStored, vset.last_sequence \in Nat, NEW t \in Thread, FinishWrite(t)
  PROVE  /\ MemsStored' /\ (db.imm # 0 => mems'[db.imm] = mems[db.imm])
         /\ DOMAIN mems' = DOMAIN mems
<1> DEFINE n == th[t].group
           new == {GroupEntry(writers, i) : i \in 1 .. n}
<1>1. /\ th[t].pc = "logged" /\ db' = db
      /\ mems' = [mems EXCEPT ![db.mem] = @ \cup new]
  BY DEF FinishWrite
<1>2. n \in 1 .. Len(writers) /\ Len(writers) \in Nat
  BY <1>1 DEF QueueInv, QueueOf, CallOK
<1>3. new \subseteq Entry
  <2>1. \A i \in 1 .. n : i \in 1 .. Len(writers)
    BY <1>2
  <2> QED
    BY <2>1, GroupEntryStored
<1>4. IsFiniteSet(new)
  <2> DEFINE f == [i \in 1 .. n |-> GroupEntry(writers, i)]
  <2>1. f \in [1 .. n -> new] /\ \A y \in new : \E x \in 1 .. n : f[x] = y
    OBVIOUS
  <2>2. IsFiniteSet(1 .. n)
    <3>1. 1 \in Int /\ n \in Int
      BY <1>2
    <3> QED
      BY <3>1, FS_Interval
  <2> HIDE DEF f, new
  <2> QED
    BY <2>1, <2>2, FiniteMapped
<1>5. new \in EntrySets
  BY <1>3, <1>4 DEF EntrySets
<1> HIDE DEF new
<1>6. db.state = "open"
  BY <1>1 DEF FilesInv, NobodyYet
<1>7. db.mem \in DOMAIN mems /\ mems[db.mem] \in EntrySets
  BY <1>6, ReferencedIs DEF MemsStored
<1>8. mems[db.mem] \cup new \in EntrySets
  BY <1>5, <1>7, EntrySetsUnion
<1>9. DOMAIN mems' = DOMAIN mems /\ \A m \in DOMAIN mems : mems'[m] \in EntrySets
  BY <1>1, <1>7, <1>8 DEF MemsStored
<1>10. db.imm # 0 => mems'[db.imm] = mems[db.imm]
  <2> SUFFICES ASSUME db.imm # 0 PROVE mems'[db.imm] = mems[db.imm]
    OBVIOUS
  <2>1. db.imm < db.mem /\ db.imm \in DOMAIN mems
    BY ReferencedIs DEF MemsStored
  <2>2. db.imm \in Nat /\ db.mem \in Nat
    BY <1>6 DEF FilesInv, ServingInv, LogsHeld
  <2>3. db.imm # db.mem
    BY <2>1, <2>2
  <2> QED
    BY <1>1, <2>1, <2>3
<1>11. Referenced(th', db') = Referenced(th, db)
  BY <1>1, CallsSameReaders, ReferencedSame
<1> QED
  BY <1>1, <1>9, <1>10, <1>11 DEF MemsStored

LEMMA GetReturnsMems ==
  ASSUME FilesInv, MemsStored, NEW t \in Thread, GetReturns(t)
  PROVE  /\ MemsStored' /\ db' = db
         /\ \A m \in DOMAIN mems' : m \in DOMAIN mems /\ mems'[m] = mems[m]
         /\ \A m \in {db.mem, db.imm} \ {0} : m \in DOMAIN mems'
<1>1. /\ th[t].pc = "reading" /\ th' = [th EXCEPT ![t] = Idle] /\ db' = db
      /\ mems' = Restrict(mems, Referenced(th', db))
  BY DEF GetReturns
<1>2. DOMAIN th = Thread /\ Idle.pc = "idle"
  BY IdleShape DEF FilesInv, Shapes
<1>3. \A u \in Thread : th'[u].pc = "reading" => th'[u] = th[u]
  BY <1>1, <1>2
<1>4. ASSUME NEW m \in Referenced(th', db) PROVE m \in Referenced(th, db)
  <2>1. /\ m # 0
        /\ \/ m \in {db.mem, db.imm}
           \/ \E u \in Thread : th'[u].pc = "reading" /\ m \in {th'[u].mem, th'[u].imm}
    BY ReferencedIs
  <2>2. \/ m \in {db.mem, db.imm}
        \/ \E u \in Thread : th[u].pc = "reading" /\ m \in {th[u].mem, th[u].imm}
    BY <1>3, <2>1
  <2> QED
    BY <2>1, <2>2, ReferencedIs
<1>5. /\ DOMAIN mems' = Referenced(th', db')
      /\ \A m \in DOMAIN mems' : m \in DOMAIN mems /\ mems'[m] = mems[m]
  BY <1>1, <1>4 DEF Restrict, MemsStored
<1>6. \A m \in {db.mem, db.imm} \ {0} : m \in DOMAIN mems'
  BY <1>1, <1>5, ReferencedIs
<1> QED
  BY <1>1, <1>5, <1>6 DEF MemsStored

LEMMA GetMems ==
  ASSUME FilesInv, MemsStored, NEW t \in Thread, NEW k, Get(t, k)
  PROVE  MemsStored' /\ mems' = mems /\ db' = db
<1> DEFINE g == [pc |-> "reading", key |-> k, snapshot |-> vset.last_sequence,
                 mem |-> db.mem, imm |-> db.imm, files |-> vset.files,
                 seen |-> Lookup(k, vset.last_sequence, db.mem, db.imm, vset.files)]
<1>1. th[t].pc = "idle" /\ th' = [th EXCEPT ![t] = g] /\ db' = db /\ mems' = mems /\ DOMAIN th = Thread
  BY DEF Get, FilesInv, Shapes
<1>2. g.pc = "reading" /\ g.mem = db.mem /\ g.imm = db.imm
  OBVIOUS
<1> HIDE DEF g
<1>3. th'[t] = g /\ \A u \in Thread \ {t} : th'[u] = th[u]
  BY <1>1
<1>4. ASSUME NEW m PROVE m \in Referenced(th', db) <=> m \in Referenced(th, db)
  <2>1. m \in Referenced(th, db) <=>
          /\ m # 0
          /\ \/ m \in {db.mem, db.imm}
             \/ \E u \in Thread : th[u].pc = "reading" /\ m \in {th[u].mem, th[u].imm}
    BY ReferencedIs
  <2>2. m \in Referenced(th', db) <=>
          /\ m # 0
          /\ \/ m \in {db.mem, db.imm}
             \/ \E u \in Thread : th'[u].pc = "reading" /\ m \in {th'[u].mem, th'[u].imm}
    BY ReferencedIs
  <2>3. ASSUME NEW u \in Thread, th'[u].pc = "reading", m \in {th'[u].mem, th'[u].imm}
        PROVE  \/ m \in {db.mem, db.imm}
               \/ th[u].pc = "reading" /\ m \in {th[u].mem, th[u].imm}
    BY <1>2, <1>3, <2>3
  <2>4. ASSUME NEW u \in Thread, th[u].pc = "reading" PROVE th'[u] = th[u]
    BY <1>1, <1>3, <2>4
  <2> QED
    BY <2>1, <2>2, <2>3, <2>4
<1>5. Referenced(th', db') = Referenced(th, db)
  BY <1>1, <1>4 DEF Referenced
<1> QED
  BY <1>1, <1>5 DEF MemsStored

LEMMA MemsStoredNext ==
  ASSUME FilesInv, QueueInv, RecordsInv, [LevelDBNext]_ldbVars
  PROVE  MemsStored'
<1>1. DBShape /\ MemsStored /\ vset.last_sequence \in Nat
  BY DEF FilesInv, Shapes, RecordsInv, SequencesKnown
<1>a. (\/ BackgroundStep \/ OpenStep \/ BuildTableFails \/ CompactionFails \/ ManifestFails
       \/ UNCHANGED ldbVars) => SameReaders
  BY OthersAwaken, AwakenedSameReaders
<1>2. ASSUME mems' = mems, db'.mem = db.mem, db'.imm = db.imm, db'.state = db.state, SameReaders
      PROVE  MemsStored'
  BY <1>1, <1>2, MemsSame
<1>3. ASSUME NEW t \in Thread, NEW k, Write(t, k) \/ Get(t, k) \/ ThreadStep(t)
      PROVE  MemsStored'
  <2>a. Write(t, k) \/ Resume(t) \/ AddRecord(t) \/ FinishWrite(t) \/ Return(t) => SameReaders
    BY CallsSameReaders
  <2>1. CASE Write(t, k)
    <3>1. db.state = "open" /\ ((db' = db /\ mems' = mems) \/ \E q, T, b : MakeRoomForWrite(t, q, T, b))
      BY <2>1 DEF Write
    <3> QED
      BY <1>1, <1>2, <2>1, <2>a, <3>1, MakeRoomMems
  <2>2. CASE Resume(t)
    <3>1. db.state = "open"
      BY <2>2, ResumeMoves DEF ThreadsMove
    <3> QED
      BY <1>1, <2>2, <2>a, <3>1, MakeRoomMems DEF Resume
  <2>3. CASE FinishWrite(t)
    BY <1>1, <2>3, FinishWriteStored
  <2>4. CASE GetReturns(t)
    BY <1>1, <2>4, GetReturnsMems
  <2>5. CASE AddRecord(t) \/ Return(t)
    BY <1>2, <2>5, <2>a DEF AddRecord, Return
  <2>6. CASE Get(t, k)
    BY <1>1, <2>6, GetMems
  <2> QED
    BY <1>3, <2>1, <2>2, <2>3, <2>4, <2>5, <2>6 DEF ThreadStep
<1>4. CASE BackgroundStep
  <2>a. SameReaders
    BY <1>4, <1>a
  <2>1. CASE BackgroundCall \/ LogMemTable \/ CompactMemTableFirst
    BY <1>1, <1>2, <2>1, <2>a DEF BackgroundCall, LogMemTable, CompactMemTableFirst, CompactMemTable, DBShape
  <2>2. CASE InstallCompactionResults \/ WriteManifest \/ ObsoleteFilesRemoved \/ BuildTable
             \/ CompactEntry \/ RemoveObsoleteFiles
    BY <1>1, <1>2, <2>2, <2>a DEF InstallCompactionResults, WriteManifest, ObsoleteFilesRemoved, BuildTable,
                            CompactEntry, RemoveObsoleteFiles, DBShape
  <2>3. CASE Install
    <3>1. CASE bg.kind = "memtable"
      <4>1. bg.pc = "install" /\ db' = [db EXCEPT !.imm = 0] /\ mems' = Restrict(mems, Referenced(th, db'))
        BY <2>3, <3>1 DEF Install
      <4>2. db.imm # 0 /\ db.state = "open"
        BY <3>1, <4>1, AtWork DEF BackgroundInv, EditInv
      <4>4. db'.mem = db.mem /\ db'.imm = 0 /\ db'.state = "open"
        BY <1>1, <4>1, <4>2 DEF DBShape
      <4>5. th' = th
        BY <2>3, <3>1 DEF Install
      <4>6. ASSUME NEW m \in Referenced(th, db') PROVE m \in DOMAIN mems
        <5>1. m \in Referenced(th, db)
          BY <4>4, ReferencedIs
        <5> QED
          BY <1>1, <5>1 DEF MemsStored
      <4>7. /\ DOMAIN mems' = Referenced(th', db')
            /\ \A m \in DOMAIN mems' : m \in DOMAIN mems /\ mems'[m] = mems[m]
        BY <4>1, <4>5, <4>6 DEF Restrict
      <4> QED
        BY <1>1, <4>2, <4>4, <4>7 DEF MemsStored
    <3>2. CASE bg.kind # "memtable"
      BY <1>1, <1>2, <2>3, <2>a, <3>2 DEF Install, DBShape
    <3> QED
      BY <3>1, <3>2
  <2> QED
    BY <1>4, <2>1, <2>2, <2>3 DEF BackgroundStep
<1>5. CASE OpenStep
  <2>1. CASE Recover
    <3>1. /\ db.state = "closed" /\ mems' = mems /\ th' = th
          /\ \E s \in {"recovering", "corrupt", "aborted"} : db' = [Closed EXCEPT !.state = s]
      BY <2>1 DEF Recover
    <3>2. db.mem = 0 /\ db.imm = 0
      BY <1>1, <3>1 DEF MemsStored
    <3>3. db'.mem = 0 /\ db'.imm = 0 /\ db'.state \in {"recovering", "corrupt", "aborted"}
      BY <3>1 DEF Closed
    <3>4. Referenced(th', db') = Referenced(th, db)
      BY <3>1, <3>2, <3>3 DEF Referenced
    <3> QED
      BY <1>1, <3>1, <3>2, <3>3, <3>4 DEF MemsStored
  <2>2. CASE NewManifest
    <3> DEFINE log == vset.next_file
    <3>1. db.state = "recovering" /\ db' = [db EXCEPT !.state = "opening", !.mem = log] /\ mems' = [i \in {log} |-> {}]
      BY <2>2 DEF NewManifest
    <3>2. db.imm = 0 /\ log # 0
      <4>1. db.imm = 0 /\ vset.manifest = UnderCurrent.next_file /\ log \in Nat /\ vset.manifest < log
        BY <3>1 DEF FilesInv, RecoveringInv
      <4>2. UnderCurrent.next_file \in Nat
        BY <3>1 DEF FilesInv, CurrentHeld
      <4> QED
        BY <4>1, <4>2
    <3>3. db'.mem = log /\ db'.imm = 0 /\ db'.state = "opening"
      BY <1>1, <3>1, <3>2 DEF DBShape
    <3>4. DOMAIN mems' = {log} /\ mems'[log] = {}
      BY <3>1
    <3>5. Referenced(th', db') = {log}
      <4>1. th' = th /\ \A u \in Thread : th[u].pc # "reading"
        BY <2>2, <3>1 DEF NewManifest, FilesInv, NobodyYet
      <4> QED
        BY <3>2, <3>3, <4>1 DEF Referenced
    <3> QED
      BY <3>2, <3>3, <3>4, <3>5, EntrySetsNone DEF MemsStored
  <2>3. CASE RecoverLogFile \/ SetCurrentFile
    BY <1>2, <1>5, <1>a, <2>3 DEF RecoverLogFile, SetCurrentFile
  <2>4. CASE OpenReturns
    <3>1. /\ db.state = "opening" /\ db' = [db EXCEPT !.state = "open"] /\ mems' = mems
          /\ th' = th
      BY <2>4 DEF OpenReturns
    <3>2. db'.mem = db.mem /\ db'.imm = db.imm /\ db'.state = "open"
      BY <1>1, <3>1 DEF DBShape
    <3>3. Referenced(th', db') = Referenced(th, db)
      BY <3>1, <3>2 DEF Referenced
    <3> QED
      BY <1>1, <3>1, <3>2, <3>3 DEF MemsStored
  <2> QED
    BY <1>5, <2>1, <2>2, <2>3, <2>4 DEF OpenStep
<1>6. CASE BuildTableFails \/ CompactionFails \/ ManifestFails
  BY <1>1, <1>2, <1>6, <1>a DEF BuildTableFails, CompactionFails, ManifestFails, DBShape
<1>7. CASE Crash
  <2>1. db' = Closed /\ mems' = <<>> /\ th' = [t \in Thread |-> Idle]
    BY <1>7 DEF Crash
  <2>2. db'.mem = 0 /\ db'.imm = 0 /\ db'.state = "closed" /\ DOMAIN mems' = {}
    BY <2>1 DEF Closed
  <2>3. Referenced(th', db') = {}
    <3>1. \A u \in Thread : th'[u].pc # "reading"
      BY <2>1, IdleShape
    <3> QED
      BY <2>2, <3>1 DEF Referenced
  <2> QED
    BY <2>2, <2>3 DEF MemsStored
<1>8. CASE UNCHANGED ldbVars
  BY <1>2, <1>8, <1>a DEF ldbVars
<1> QED
  BY <1>3, <1>4, <1>5, <1>6, <1>7, <1>8 DEF LevelDBNext

-----------------------------------------------------------------------------
(* What the steps of DB::Open, of a crash and of a removal change. *)

LEMMA RecoveredIs ==
  ASSUME FilesInv, FilesInv', Recovered
  PROVE  /\ disk'.tables = disk.tables /\ db'.state = "recovering"
         /\ UnderCurrent'.files = vset'.files
         /\ UnderCurrent'.last_sequence = vset'.last_sequence
         /\ bg'.edit = NoEdit /\ bg'.max_sequence = 0
         /\ \/ disk.current # 0 /\ UnderCurrent' = UnderCurrent
            \/ vset'.files = NoFiles /\ vset'.last_sequence = 0
<1> DEFINE m == disk'.manifests[disk'.current]
<1>1. /\ disk' = (IF disk.current = 0 THEN NewDB ELSE disk)
      /\ vset' = [files |-> m.files, log_number |-> m.log_number, next_file |-> m.next_file + 1,
                  manifest |-> m.next_file, last_sequence |-> m.last_sequence]
      /\ \E s \in {"recovering", "corrupt"} : db' = [Closed EXCEPT !.state = s]
      /\ \E logs : bg' = [pc |-> "open", edit |-> NoEdit, max_sequence |-> 0, logs |-> logs]
  BY DEF Recovered, Recover, Closed
<1>2. DiskShape
  BY DEF FilesInv, Shapes
<1>3. db'.state = "recovering"
  <2>1. db'.state \in {"recovering", "corrupt"}
    BY <1>1 DEF Closed
  <2> QED
    BY <2>1 DEF FilesInv, Shapes
<1>4. vset'.files = m.files /\ vset'.last_sequence = m.last_sequence
  BY <1>1
<1>5. bg'.edit = NoEdit /\ bg'.max_sequence = 0
  BY <1>1
<1>6. CASE disk.current = 0
  <2>1. /\ disk'.tables = disk.tables /\ disk'.current = 1
        /\ disk'.manifests = WithFile(disk.manifests, 1,
              [files |-> NoFiles, log_number |-> 0, next_file |-> 2, last_sequence |-> 0])
    BY <1>1, <1>2, <1>6 DEF NewDB, DiskShape
  <2>2. m = [files |-> NoFiles, log_number |-> 0, next_file |-> 2, last_sequence |-> 0]
    BY <2>1 DEF WithFile
  <2>3. m.files = NoFiles /\ m.last_sequence = 0
    BY <2>2
  <2> QED
    BY <1>3, <1>4, <1>5, <2>1, <2>3 DEF UnderCurrent
<1>7. CASE disk.current # 0
  BY <1>1, <1>3, <1>4, <1>5, <1>7 DEF UnderCurrent
<1> QED
  BY <1>6, <1>7

LEMMA NewManifestIs ==
  ASSUME FilesInv, NewManifest
  PROVE  /\ disk'.tables = disk.tables /\ db.state = "recovering" /\ db'.state = "opening"
         /\ disk.current # 0 /\ disk'.current = disk.current /\ UnderCurrent' = UnderCurrent
         /\ vset'.files = Edited(vset.files, bg.edit)
         /\ vset'.last_sequence = Max({vset.last_sequence, bg.max_sequence})
         /\ disk'.manifests[vset'.manifest].last_sequence = vset'.last_sequence
<1> DEFINE log == vset.next_file
           last == Max({vset.last_sequence, bg.max_sequence})
           record == [files |-> Edited(vset.files, bg.edit), log_number |-> log,
                      next_file |-> log + 1, last_sequence |-> last]
<1>1. /\ db.state = "recovering"
      /\ vset' = [vset EXCEPT !.next_file = log + 1, !.last_sequence = last,
                              !.files = Edited(@, bg.edit), !.log_number = log]
      /\ disk' = [disk EXCEPT !.logs = WithFile(@, log, <<>>),
                              !.manifests = WithFile(@, vset.manifest, record)]
      /\ db' = [db EXCEPT !.state = "opening", !.mem = log]
  BY DEF NewManifest
<1> HIDE DEF last
<1>2. DiskShape /\ DBShape /\ VersionSetShape /\ CurrentHeld /\ RecoveringInv /\ disk.current # 0
  BY <1>1 DEF FilesInv, Shapes, CurrentHeld
<1>3. record.last_sequence = last
  OBVIOUS
<1> HIDE DEF record
<1>4. /\ disk'.tables = disk.tables /\ disk'.current = disk.current
      /\ disk'.manifests = WithFile(disk.manifests, vset.manifest, record)
  BY <1>1, <1>2 DEF DiskShape
<1>5. disk.current # vset.manifest
  <2>1. disk.current < UnderCurrent.next_file /\ disk.current \in Nat /\ UnderCurrent.next_file \in Nat
        /\ vset.manifest = UnderCurrent.next_file
    BY <1>1, <1>2 DEF CurrentHeld, RecoveringInv
  <2> QED
    BY <2>1
<1>6. UnderCurrent' = UnderCurrent
  BY <1>2, <1>4, <1>5 DEF UnderCurrent, WithFile, CurrentHeld
<1>7. /\ vset'.files = Edited(vset.files, bg.edit) /\ vset'.manifest = vset.manifest
      /\ vset'.last_sequence = last
  BY <1>1, <1>2 DEF VersionSetShape
<1>8. disk'.manifests[vset.manifest] = record
  BY <1>4 DEF WithFile
<1>9. db'.state = "opening"
  BY <1>1, <1>2 DEF DBShape
<1> QED
  BY <1>1, <1>2, <1>3, <1>4, <1>6, <1>7, <1>8, <1>9 DEF last

LEMMA SetCurrentFileIs ==
  ASSUME FilesInv, SetCurrentFile
  PROVE  /\ disk'.tables = disk.tables /\ disk'.manifests = disk.manifests /\ db.state = "opening"
         /\ UnderCurrent' = disk.manifests[vset.manifest]
         /\ UNCHANGED <<db, vset, mems, th, bg, compaction>>
         /\ disk.manifests[vset.manifest].files = vset.files
<1>1. /\ db.state = "opening" /\ disk' = [disk EXCEPT !.current = vset.manifest]
      /\ UNCHANGED <<db, vset, mems, th, bg, compaction>>
  BY DEF SetCurrentFile
<1>2. DiskShape /\ disk.manifests[vset.manifest].files = vset.files
  BY <1>1 DEF FilesInv, Shapes, OpeningInv
<1>3. disk'.current = vset.manifest /\ disk'.manifests = disk.manifests /\ disk'.tables = disk.tables
  BY <1>1, <1>2 DEF DiskShape
<1> QED
  BY <1>1, <1>2, <1>3 DEF UnderCurrent

(* WriteManifest, and a ManifestFails whose record was written. *)
LEMMA ManifestIs ==
  ASSUME FilesInv, bg.pc = "manifest",
         disk' = [disk EXCEPT !.manifests[vset.manifest] = WithRecord(@, bg)]
  PROVE  /\ disk'.tables = disk.tables /\ disk'.current = disk.current
         /\ UnderCurrent'.files = Edited(UnderCurrent.files, bg.edit)
         /\ UnderCurrent'.last_sequence = bg.last_sequence
<1>1. db.state = "open" /\ Shapes /\ OpenInv /\ CurrentHeld
  BY DEF FilesInv, NobodyYet
<1>2. /\ DiskShape /\ disk.current = vset.manifest
      /\ (disk.current # 0 => disk.current \in DOMAIN disk.manifests) /\ disk.current # 0
  BY <1>1 DEF Shapes, OpenInv, CurrentHeld
<1>3. disk'.manifests = [disk.manifests EXCEPT ![vset.manifest] = WithRecord(@, bg)]
      /\ disk'.current = disk.current
  BY <1>2 DEF DiskShape
<1>4. UnderCurrent' = WithRecord(UnderCurrent, bg)
  BY <1>2, <1>3 DEF UnderCurrent
<1>5. WithRecord(UnderCurrent, bg).last_sequence = bg.last_sequence
  BY DEF WithRecord
<1> QED
  BY <1>4, <1>5, ManifestWritten

-----------------------------------------------------------------------------
LEMMA SequencesThreads ==
  ASSUME SequencesKnown, FilesInv, ThreadsMove, vset'.last_sequence \in Nat
  PROVE  SequencesKnown'
<1>1. /\ db'.state = "open" /\ disk'.current = disk.current /\ disk'.manifests = disk.manifests
      /\ bg' = bg \/ bg' = [pc |-> "scheduled"]
      /\ db.state = "open"
  BY DEF ThreadsMove
<1>2. UnderCurrent' = UnderCurrent
  BY <1>1 DEF UnderCurrent
<1>3. [pc |-> "scheduled"].pc # "manifest"
  OBVIOUS
<1> QED
  BY <1>1, <1>2, <1>3 DEF SequencesKnown

LEMMA SequencesBackground ==
  ASSUME SequencesKnown, FilesInv, db.state = "open", db'.state = "open",
         vset'.last_sequence = vset.last_sequence,
         disk'.current = disk.current,
         UnderCurrent'.last_sequence \in {UnderCurrent.last_sequence, bg.last_sequence},
         bg.pc = "manifest" \/ UnderCurrent' = UnderCurrent,
         bg'.pc # "manifest" \/ bg'.last_sequence = vset.last_sequence
  PROVE  SequencesKnown'
BY DEF SequencesKnown

LEMMA LoggedIs ==
  ASSUME NEW kind, NEW edit, NEW log_number
  PROVE  /\ Logged(kind, edit, log_number).pc = "manifest"
         /\ Logged(kind, edit, log_number).kind = kind
         /\ Logged(kind, edit, log_number).edit = edit
         /\ Logged(kind, edit, log_number).last_sequence = vset.last_sequence
BY DEF Logged

LEMMA MakeRoomSequence ==
  ASSUME FilesInv, NEW t, NEW q, NEW T, NEW b, MakeRoomForWrite(t, q, T, b)
  PROVE  vset'.last_sequence = vset.last_sequence
<1>1. VersionSetShape
  BY DEF FilesInv, Shapes
<1> QED
  BY <1>1 DEF MakeRoomForWrite, SwitchMemTable, VersionSetShape

LEMMA ThreadSequence ==
  ASSUME FilesInv, QueueInv, vset.last_sequence \in Nat, NEW t \in Thread, NEW k,
         Write(t, k) \/ Get(t, k) \/ ThreadStep(t)
  PROVE  vset'.last_sequence \in Nat /\ vset.last_sequence <= vset'.last_sequence
<1>1. VersionSetShape
  BY DEF FilesInv, Shapes
<1>2. CASE FinishWrite(t)
  <2>1. vset' = [vset EXCEPT !.last_sequence = @ + th[t].group] /\ th[t].pc = "logged"
    BY <1>2 DEF FinishWrite
  <2>2. th[t].group \in 1 .. Len(writers)
    BY <2>1 DEF QueueInv, QueueOf, CallOK
  <2>3. vset'.last_sequence = vset.last_sequence + th[t].group
    BY <1>1, <2>1 DEF VersionSetShape
  <2> QED
    BY <2>2, <2>3
<1>3. CASE ~FinishWrite(t)
  <2>1. vset'.last_sequence = vset.last_sequence
    BY <1>3, MakeRoomSequence DEF Write, Get, ThreadStep, Resume, AddRecord, Return, GetReturns
  <2> QED
    BY <2>1
<1> QED
  BY <1>2, <1>3

LEMMA ThreadsMoveAll ==
  ASSUME FilesInv, NEW t \in Thread, NEW k, Write(t, k) \/ Get(t, k) \/ ThreadStep(t)
  PROVE  ThreadsMove
BY WriteMoves, GetMoves, ResumeMoves, AddRecordMoves, FinishWriteMoves, ReturnMoves, GetReturnsMoves
   DEF ThreadStep

LEMMA FinishCallPc ==
  ASSUME NEW T, NEW err, NEW imm, NEW v, FinishCall(T, err, imm, v)
  PROVE  bg'.pc \in {"idle", "scheduled"}
<1>1. bg' = Idle \/ bg' = [pc |-> "scheduled"]
  BY MaybeScheduledIs DEF FinishCall
<1> QED
  BY <1>1 DEF Idle

LEMMA MemTableDonePc ==
  ASSUME NEW err, NEW imm, NEW v, MemTableDone(err, imm, v)
  PROVE  bg'.pc \in {"entry", "idle", "scheduled"}
<1>1. CASE compaction # NoCompaction
  BY <1>1 DEF MemTableDone
<1>2. CASE compaction = NoCompaction
  BY <1>2, FinishCallPc DEF MemTableDone
<1> QED
  BY <1>1, <1>2

(* The version set and the state of the store in a background step. *)
LEMMA BackgroundSame ==
  ASSUME FilesInv,
         BackgroundStep \/ BuildTableFails \/ CompactionFails \/ ManifestFails
  PROVE  vset'.last_sequence = vset.last_sequence /\ db'.state = db.state
<1>1. VersionSetShape /\ DBShape
  BY DEF FilesInv, Shapes
<1>2. CASE BackgroundCall
  BY <1>1, <1>2 DEF BackgroundCall, CompactMemTable, VersionSetShape, DBShape
<1>3. CASE CompactEntry
  BY <1>1, <1>3 DEF CompactEntry, VersionSetShape, DBShape
<1>4. CASE Install
  BY <1>1, <1>4 DEF Install, Installed, VersionSetShape, DBShape
<1>5. CASE BuildTable \/ LogMemTable \/ InstallCompactionResults
           \/ WriteManifest \/ RemoveObsoleteFiles \/ ObsoleteFilesRemoved
  BY <1>1, <1>5 DEF BuildTable, LogMemTable, InstallCompactionResults, WriteManifest,
                    RemoveObsoleteFiles, ObsoleteFilesRemoved, VersionSetShape, DBShape
<1>6. CASE CompactMemTableFirst
  BY <1>1, <1>6 DEF CompactMemTableFirst, CompactMemTable, VersionSetShape, DBShape
<1>7. CASE BuildTableFails \/ CompactionFails \/ ManifestFails
  BY <1>1, <1>7 DEF BuildTableFails, CompactionFails, ManifestFails, VersionSetShape, DBShape
<1> QED
  BY <1>2, <1>3, <1>4, <1>5, <1>6, <1>7 DEF BackgroundStep

(* The record under way. *)
LEMMA BackgroundRecord ==
  ASSUME FilesInv,
         (BackgroundStep /\ ~RemoveObsoleteFiles) \/ BuildTableFails \/ CompactionFails \/ ManifestFails,
         bg'.pc = "manifest"
  PROVE  bg'.last_sequence = vset.last_sequence
<1>1. CASE BackgroundCall
  <2>1. \/ FinishCall(th, TRUE, db.imm, vset.files) \/ CompactMemTable
        \/ bg' = [pc |-> "work"] \/ \E edit, n : bg' = Logged("move", edit, n)
    BY <1>1 DEF BackgroundCall
  <2>2. CASE FinishCall(th, TRUE, db.imm, vset.files)
    BY <2>2, FinishCallPc
  <2>3. CASE CompactMemTable
    BY <2>3 DEF CompactMemTable
  <2>4. ASSUME NEW edit, NEW n, bg' = Logged("move", edit, n)
        PROVE  bg'.last_sequence = vset.last_sequence
    BY <2>4, LoggedIs
  <2>5. bg' # [pc |-> "work"]
    OBVIOUS
  <2> QED
    BY <2>1, <2>2, <2>3, <2>4, <2>5
<1>2. CASE LogMemTable \/ InstallCompactionResults
  BY <1>2, LoggedIs DEF LogMemTable, InstallCompactionResults
<1>3. CASE CompactEntry \/ CompactMemTableFirst
  BY <1>3 DEF CompactEntry, CompactMemTableFirst, CompactMemTable
<1>4. CASE Install
  <2>1. bg'.pc = "delete" \/ \E e, i, v : FinishCall(th, e, i, v)
    BY <1>4 DEF Install
  <2> QED
    BY <2>1, FinishCallPc
<1>5. CASE ObsoleteFilesRemoved \/ BuildTableFails \/ CompactionFails \/ ManifestFails
  <2>1. (\E e, i, v : FinishCall(th, e, i, v)) \/ \E e, i, v : MemTableDone(e, i, v)
    BY <1>5 DEF ObsoleteFilesRemoved, BuildTableFails, CompactionFails, ManifestFails
  <2> QED
    BY <2>1, FinishCallPc, MemTableDonePc
<1>6. CASE BuildTable
  <2>1. bg.pc = "build" /\ bg' = [bg EXCEPT !.pc = "built"]
    BY <1>6 DEF BuildTable
  <2>2. bg = [pc |-> bg.pc, file |-> bg.file]
    BY <2>1, AtWork DEF BackgroundInv, BuildInv
  <2> QED
    BY <2>1, <2>2
<1>7. CASE WriteManifest
  <2>1. bg.pc = "manifest" /\ bg' = [bg EXCEPT !.pc = "install"]
    BY <1>7 DEF WriteManifest
  <2>2. "pc" \in DOMAIN bg
    BY <2>1, AtWork DEF BackgroundInv, EditInv
  <2> QED
    BY <2>1, <2>2
<1> QED
  BY <1>1, <1>2, <1>3, <1>4, <1>5, <1>6, <1>7 DEF BackgroundStep

LEMMA SequencesKnownNext ==
  ASSUME FilesInv, FilesInv', LogsReadable, QueueInv, RecordsInv, [LevelDBNext]_ldbVars
  PROVE  SequencesKnown'
<1>1. /\ DiskShape /\ DBShape /\ VersionSetShape /\ SequencesKnown /\ LogsStored
      /\ vset.last_sequence \in Nat
  BY DEF FilesInv, Shapes, RecordsInv, SequencesKnown
<1>2. ASSUME NEW t \in Thread, NEW k, Write(t, k) \/ Get(t, k) \/ ThreadStep(t)
      PROVE  SequencesKnown'
  BY <1>1, <1>2, ThreadsMoveAll, ThreadSequence, SequencesThreads
<1>3. CASE RemoveObsoleteFiles
  <2>1. /\ doomed # {} /\ disk' = Removed(doomed) /\ UNCHANGED <<db, vset, bg>>
    BY <1>3 DEF RemoveObsoleteFiles
  <2>2. disk'.current = disk.current /\ (disk.current # 0 => UnderCurrent' = UnderCurrent)
    BY <2>1, RemovedUnneeded
  <2>3. db.state = "opening" => disk.current = vset.manifest /\ disk.current # 0
    BY <2>1 DEF FilesInv, OpeningInv
  <2> QED
    BY <1>1, <2>1, <2>2, <2>3 DEF SequencesKnown, UnderCurrent
<1>4. CASE (BackgroundStep /\ ~RemoveObsoleteFiles) \/ BuildTableFails \/ CompactionFails \/ ManifestFails
  <2>1. bg.pc \notin {"idle", "open"}
    BY <1>4 DEF BackgroundStep, BackgroundCall, BuildTable, LogMemTable, CompactMemTableFirst, CompactEntry,
      InstallCompactionResults, WriteManifest, Install, ObsoleteFilesRemoved, BuildTableFails, CompactionFails,
      ManifestFails
  <2>2. db.state = "open"
    BY <2>1, AtWork
  <2>3. vset'.last_sequence = vset.last_sequence /\ db'.state = "open"
    BY <1>4, <2>2, BackgroundSame
  <2>4. bg'.pc # "manifest" \/ bg'.last_sequence = vset.last_sequence
    BY <1>4, BackgroundRecord
  <2>5. CASE WriteManifest \/ (ManifestFails /\ disk' # disk)
    <3>1. bg.pc = "manifest" /\ disk' = [disk EXCEPT !.manifests[vset.manifest] = WithRecord(@, bg)]
      BY <2>5 DEF WriteManifest, ManifestFails
    <3> QED
      BY <1>1, <2>2, <2>3, <2>4, <3>1, ManifestIs, SequencesBackground
  <2>6. CASE ~WriteManifest /\ ~(ManifestFails /\ disk' # disk)
    <3>1. disk'.current = disk.current /\ disk'.manifests = disk.manifests
      BY <1>1, <1>4, <2>6 DEF BackgroundStep, BackgroundCall, BuildTable, LogMemTable, CompactMemTableFirst, CompactEntry,
        InstallCompactionResults, Install, ObsoleteFilesRemoved, BuildTableFails, CompactionFails, DiskShape
    <3>2. UnderCurrent' = UnderCurrent
      BY <3>1 DEF UnderCurrent
    <3> QED
      BY <1>1, <2>2, <2>3, <2>4, <3>1, <3>2, SequencesBackground
  <2> QED
    BY <2>5, <2>6
<1>5. CASE Recovered
  <2>1. /\ db'.state = "recovering" /\ UnderCurrent'.last_sequence = vset'.last_sequence
        /\ bg'.max_sequence = 0
        /\ \/ disk.current # 0 /\ UnderCurrent' = UnderCurrent
           \/ vset'.last_sequence = 0
    BY <1>5, RecoveredIs
  <2>2. vset'.last_sequence \in Nat
    BY <1>1, <2>1 DEF SequencesKnown
  <2> QED
    BY <2>1, <2>2 DEF SequencesKnown
<1>a. CASE Aborted
  <2>1. /\ db.state = "closed" /\ db' = [Closed EXCEPT !.state = "aborted"]
        /\ disk' = disk /\ vset' = vset
    BY <1>1, <1>a, AbortedIs
  <2>2. db'.state = "aborted"
    BY <2>1 DEF Closed
  <2> QED
    BY <1>1, <2>1, <2>2 DEF SequencesKnown, UnderCurrent
<1>6. CASE RecoverLogFile
  <2>1. PICK full \in Seq(TableSets) :
           /\ db.state = "recovering"
           /\ \E x : disk' = [disk EXCEPT !.tables = x]
           /\ \E y, z : bg' = [bg EXCEPT !.logs = y, !.edit.add[0] = z,
                !.max_sequence = Max({@} \cup {e.seq : e \in UNION Range(full)})]
           /\ db' = db /\ vset'.last_sequence = vset.last_sequence
    BY <1>1, <1>6, RecoverLogFileIs
  <2>2. UnderCurrent' = UnderCurrent /\ disk'.current = disk.current
    BY <1>1, <2>1 DEF DiskShape, UnderCurrent
  <2>3. "max_sequence" \in DOMAIN bg /\ bg.max_sequence \in Nat
    BY <1>1, <2>1 DEF FilesInv, RecoveringInv, SequencesKnown
  <2> DEFINE q == Max({bg.max_sequence} \cup {e.seq : e \in UNION Range(full)})
  <2>4. q \in Nat
    BY <2>3, GreatestSequence
  <2>5. bg'.max_sequence = q
    <3> HIDE DEF q
    <3> QED
      BY <2>1, <2>3 DEF q
  <2> HIDE DEF q
  <2> QED
    BY <1>1, <2>1, <2>2, <2>4, <2>5 DEF SequencesKnown
<1>7. CASE NewManifest
  <2>1. /\ db.state = "recovering" /\ db'.state = "opening"
        /\ disk'.current = disk.current /\ UnderCurrent' = UnderCurrent
        /\ vset'.last_sequence = Max({vset.last_sequence, bg.max_sequence})
        /\ disk'.manifests[vset'.manifest].last_sequence = vset'.last_sequence
    BY <1>7, NewManifestIs
  <2>2. vset'.last_sequence \in Nat
    BY <1>1, <2>1, MaxOfTwo DEF SequencesKnown
  <2> QED
    BY <1>1, <2>1, <2>2 DEF SequencesKnown
<1>8. CASE SetCurrentFile
  <2>1. /\ disk'.manifests = disk.manifests /\ db.state = "opening"
        /\ UnderCurrent' = disk.manifests[vset.manifest] /\ UNCHANGED <<db, vset>>
    BY <1>8, SetCurrentFileIs
  <2> QED
    BY <1>1, <2>1 DEF SequencesKnown
<1>9. CASE OpenReturns
  <2>1. /\ db' = [db EXCEPT !.state = "open"] /\ disk' = disk /\ vset' = vset
        /\ bg' = MaybeScheduled(Idle, FALSE, 0, vset.files)
    BY <1>9 DEF OpenReturns
  <2>2. bg'.pc # "manifest"
    <3>1. bg' = Idle \/ bg' = [pc |-> "scheduled"]
      BY <2>1, MaybeScheduledIs
    <3> QED
      BY <3>1 DEF Idle
  <2>3. db'.state = "open" /\ UnderCurrent' = UnderCurrent
    BY <1>1, <2>1 DEF DBShape, UnderCurrent
  <2> QED
    BY <1>1, <2>1, <2>2, <2>3 DEF SequencesKnown
<1>10. CASE Crash
  <2>1. db' = Closed /\ vset' = NewVersionSet /\ \E S \in SUBSET doomed : disk' = Removed(S)
    BY <1>10 DEF Crash
  <2>2. disk'.current = disk.current /\ (disk.current # 0 => UnderCurrent' = UnderCurrent)
    BY <2>1, RemovedUnneeded
  <2>3. db'.state = "closed" /\ vset'.last_sequence = 0
    BY <2>1 DEF Closed, NewVersionSet
  <2> QED
    BY <1>1, <2>2, <2>3 DEF SequencesKnown
<1>11. CASE UNCHANGED ldbVars
  <2>1. UNCHANGED <<disk, db, vset, bg>>
    BY <1>11 DEF ldbVars
  <2>2. UnderCurrent' = UnderCurrent
    BY <2>1 DEF UnderCurrent
  <2> QED
    BY <1>1, <2>1, <2>2 DEF SequencesKnown
<1> QED
  BY RecoverCases, <1>2, <1>3, <1>4, <1>5, <1>a, <1>6, <1>7, <1>8, <1>9, <1>10, <1>11
     DEF LevelDBNext, BackgroundStep, OpenStep

-----------------------------------------------------------------------------
(* The entries of finitely many tables. *)
LEMMA EntriesOfTables ==
  ASSUME TablesStored, NEW S \in SUBSET DOMAIN disk.tables, IsFiniteSet(S)
  PROVE  UNION {disk.tables[n] : n \in S} \in EntrySets
<1> DEFINE X == {disk.tables[n] : n \in S}
           f == [n \in S |-> disk.tables[n]]
<1>1. f \in [S -> X] /\ \A y \in X : \E x \in S : f[x] = y
  OBVIOUS
<1>2. IsFiniteSet(X)
  <2> HIDE DEF f, X
  <2> QED
    BY <1>1, FiniteMapped
<1>3. \A x \in X : IsFiniteSet(x) /\ x \subseteq Entry
  BY DEF TablesStored, TableSets, EntrySets
<1>4. IsFiniteSet(UNION X)
  <2> HIDE DEF X
  <2> QED
    BY <1>2, <1>3, FS_UNION
<1> QED
  BY <1>3, <1>4 DEF EntrySets

(* The inputs of a compaction are files of the two levels. *)
LEMMA InputsChosen ==
  ASSUME NEW v, NEW l, IsFiniteSet(v[l]), IsFiniteSet(v[l + 1]), NEW f \in v[l]
  PROVE  LET in0 == PickedInputs(v, l, f)
             inputs == SetupOtherInputs(v, l, in0, NextLevelInputs(v, l, in0))
         IN  inputs[1] \subseteq v[l] /\ inputs[2] \subseteq v[l + 1]
<1> DEFINE in0 == PickedInputs(v, l, f)
           in1 == NextLevelInputs(v, l, in0)
           all == Hull(in0 \cup in1)
           grown == GetOverlappingInputs(v, l, all[1], all[2])
           inputs == SetupOtherInputs(v, l, in0, in1)
<1>1. inputs[1] \subseteq v[l]
  BY InputsOfLevel
<1>2. \A x : NextLevelInputs(v, l, x) \subseteq v[l + 1]
  BY OverlappingInputsOfLevel DEF NextLevelInputs
<1>3. inputs \in {<<grown, NextLevelInputs(v, l, grown)>>, <<in0, in1>>}
  BY DEF SetupOtherInputs
<1> HIDE DEF in0, grown, inputs
<1>4. inputs[2] \in {NextLevelInputs(v, l, grown), NextLevelInputs(v, l, in0)}
  BY <1>3
<1>5. inputs[2] \subseteq v[l + 1]
  BY <1>2, <1>4
<1> QED
  BY <1>1, <1>5 DEF inputs, in1, in0

LEMMA StartCompactionIs ==
  ASSUME NEW l, NEW inputs
  PROVE  /\ StartCompaction(l, inputs).todo =
              UNION {disk.tables[n] : n \in inputs[1] \cup inputs[2]}
         /\ StartCompaction(l, inputs).level = l
         /\ StartCompaction(l, inputs).inputs = inputs
         /\ StartCompaction(l, inputs).outputs = {}
         /\ StartCompaction(l, inputs).builder = 0
         /\ StartCompaction(l, inputs).prev = [key |-> -1, seq |-> 0]
         /\ StartCompaction(l, inputs).smallest_snapshot = vset.last_sequence
BY DEF StartCompaction

(* The inputs of the compaction when file f of level l is picked. *)
Chosen(v, l, f) ==
  SetupOtherInputs(v, l, PickedInputs(v, l, f), NextLevelInputs(v, l, PickedInputs(v, l, f)))

MoveEdit(l, S) == [del |-> [NoFiles EXCEPT ![l] = S], add |-> [NoFiles EXCEPT ![l + 1] = S]]

(* A level compaction starts: a move, or a merge. *)
CompactionStarts(l, f) ==
  \/ /\ IsTrivialMove(Chosen(vset.files, l, f))
     /\ bg' = Logged("move", MoveEdit(l, Chosen(vset.files, l, f)[1]), vset.log_number)
     /\ compaction' = compaction
  \/ /\ bg' = [pc |-> "work"]
     /\ compaction' = StartCompaction(l, Chosen(vset.files, l, f))

LEMMA BackgroundCallIs ==
  ASSUME BackgroundCall
  PROVE  /\ bg.pc = "scheduled" /\ UNCHANGED <<disk, mems, writers, doomed, bounds>>
         /\ \/ /\ db.bg_error /\ FinishCall(th, TRUE, db.imm, vset.files)
               /\ UNCHANGED <<db, vset, compaction>>
            \/ ~db.bg_error /\ db.imm # 0 /\ CompactMemTable /\ UNCHANGED <<th, compaction>>
            \/ /\ ~db.bg_error /\ db.imm = 0 /\ UNCHANGED <<db, vset, th>>
               /\ \E l \in Level : l + 1 \in Level /\ \E f \in vset.files[l] : CompactionStarts(l, f)
<1>1. bg.pc = "scheduled" /\ UNCHANGED <<disk, mems, writers, doomed, bounds>>
  BY DEF BackgroundCall
<1>2. CASE db.bg_error /\ FinishCall(th, TRUE, db.imm, vset.files) /\ UNCHANGED <<db, vset, compaction>>
  BY <1>1, <1>2
<1>3. CASE ~db.bg_error /\ db.imm # 0 /\ CompactMemTable /\ UNCHANGED <<th, compaction>>
  BY <1>1, <1>3
<1>4. ASSUME ~db.bg_error, db.imm = 0, UNCHANGED <<db, vset, th>>,
             NEW l \in Level, CompactionLevel(vset.files, l), NEW f \in vset.files[l],
             IF IsTrivialMove(Chosen(vset.files, l, f))
               THEN /\ bg' = Logged("move", [del |-> [NoFiles EXCEPT ![l] = Chosen(vset.files, l, f)[1]],
                                             add |-> [NoFiles EXCEPT ![l + 1] = Chosen(vset.files, l, f)[1]]],
                                    vset.log_number)
                    /\ UNCHANGED compaction
               ELSE /\ bg' = [pc |-> "work"]
                    /\ compaction' = StartCompaction(l, Chosen(vset.files, l, f))
      PROVE  \E m \in Level : m + 1 \in Level /\ \E g \in vset.files[m] : CompactionStarts(m, g)
  <2>1. l + 1 \in Level
    BY <1>4, LevelDBAssumption DEF Level, CompactionLevel
  <2>2. CompactionStarts(l, f)
    BY <1>4 DEF CompactionStarts, MoveEdit
  <2> QED
    BY <2>1, <2>2
<1>5. \/ db.bg_error /\ FinishCall(th, TRUE, db.imm, vset.files) /\ UNCHANGED <<db, vset, compaction>>
      \/ ~db.bg_error /\ db.imm # 0 /\ CompactMemTable /\ UNCHANGED <<th, compaction>>
      \/ /\ ~db.bg_error /\ db.imm = 0 /\ UNCHANGED <<db, vset, th>>
         /\ \E l \in Level : CompactionLevel(vset.files, l) /\
              \E f \in vset.files[l] :
             IF IsTrivialMove(Chosen(vset.files, l, f))
               THEN /\ bg' = Logged("move", [del |-> [NoFiles EXCEPT ![l] = Chosen(vset.files, l, f)[1]],
                                             add |-> [NoFiles EXCEPT ![l + 1] = Chosen(vset.files, l, f)[1]]],
                                    vset.log_number)
                    /\ UNCHANGED compaction
               ELSE /\ bg' = [pc |-> "work"]
                    /\ compaction' = StartCompaction(l, Chosen(vset.files, l, f))
  BY Zenon DEF BackgroundCall, Chosen
<1> QED
  BY <1>1, <1>2, <1>3, <1>4, <1>5

LEMMA ChosenStored ==
  ASSUME FilesInv, TablesStored, db.state = "open", NEW l \in Level, l + 1 \in Level,
         NEW f \in vset.files[l]
  PROVE  /\ Chosen(vset.files, l, f)[1] \subseteq vset.files[l]
         /\ Chosen(vset.files, l, f)[2] \subseteq vset.files[l + 1]
         /\ UNION {disk.tables[n] : n \in Chosen(vset.files, l, f)[1] \cup Chosen(vset.files, l, f)[2]}
              \in EntrySets
<1> DEFINE v == vset.files
           c == Chosen(v, l, f)
<1>1. Held(Tables, v, vset.next_file) /\ vset.next_file \in Nat
  BY DEF FilesInv, ServingInv
<1>2. IsFiniteSet(v[l]) /\ IsFiniteSet(v[l + 1])
  BY <1>1, HeldFinite
<1>3. c[1] \subseteq v[l] /\ c[2] \subseteq v[l + 1]
  BY <1>2, InputsChosen DEF Chosen
<1> HIDE DEF c
<1>4. IsFiniteSet(c[1] \cup c[2])
  BY <1>2, <1>3, FS_Subset, FS_Union
<1>5. c[1] \cup c[2] \subseteq DOMAIN disk.tables
  <2>1. \A n \in v[l] \cup v[l + 1] : n \in FilesOf(v)
    BY FilesOfIs
  <2> QED
    BY <1>1, <1>3, <2>1 DEF Held, Tables
<1>6. UNION {disk.tables[n] : n \in c[1] \cup c[2]} \in EntrySets
  BY <1>4, <1>5, EntriesOfTables
<1> QED
  BY <1>3, <1>6 DEF c

LEMMA CompactionStoredNext ==
  ASSUME FilesInv, RecordsInv, [LevelDBNext]_ldbVars
  PROVE  CompactionStored'
<1>1. TablesStored /\ CompactionStored
  BY DEF RecordsInv
<1>2. CASE compaction' = compaction \/ compaction' = NoCompaction
  BY <1>1, <1>2 DEF CompactionStored
<1>3. ASSUME NEW t \in Thread, NEW k, Write(t, k) \/ Get(t, k) \/ ThreadStep(t)
      PROVE  CompactionStored'
  BY <1>2, <1>3, ThreadsMoveAll DEF ThreadsMove
<1>4. CASE BackgroundCall
  <2>1. CASE compaction' # compaction
    <3>1. PICK l \in Level : l + 1 \in Level /\ \E f \in vset.files[l] : CompactionStarts(l, f)
      BY <1>4, <2>1, BackgroundCallIs
    <3>2. PICK f \in vset.files[l] : compaction' = StartCompaction(l, Chosen(vset.files, l, f))
      BY <2>1, <3>1 DEF CompactionStarts
    <3>3. db.state = "open"
      <4>1. bg.pc = "scheduled"
        BY <1>4 DEF BackgroundCall
      <4> QED
        BY <4>1, AtWork
    <3> DEFINE inputs == Chosen(vset.files, l, f)
    <3>4. UNION {disk.tables[n] : n \in inputs[1] \cup inputs[2]} \in EntrySets
      BY <1>1, <3>1, <3>3, ChosenStored
    <3> HIDE DEF inputs
    <3>5. compaction'.todo = UNION {disk.tables[n] : n \in inputs[1] \cup inputs[2]}
      BY <3>2, StartCompactionIs DEF inputs
    <3>6. compaction'.todo \in EntrySets
      BY <3>4, <3>5
    <3> QED
      BY <3>6 DEF CompactionStored
  <2> QED
    BY <1>2, <2>1
<1>5. CASE CompactEntry
  BY <1>1, <1>5, CompactEntryStored
<1>6. CASE BackgroundStep
  BY <1>2, <1>4, <1>5, <1>6 DEF BackgroundStep, BuildTable, LogMemTable, CompactMemTableFirst,
     InstallCompactionResults, WriteManifest, Install, RemoveObsoleteFiles, ObsoleteFilesRemoved
<1>7. CASE OpenStep
  BY <1>2, <1>7 DEF OpenStep, Recover, RecoverLogFile, NewManifest, SetCurrentFile, OpenReturns
<1>8. CASE BuildTableFails \/ CompactionFails \/ ManifestFails \/ Crash
  BY <1>2, <1>8 DEF BuildTableFails, CompactionFails, ManifestFails, Crash
<1>9. CASE UNCHANGED ldbVars
  BY <1>2, <1>9 DEF ldbVars
<1> QED
  BY <1>3, <1>6, <1>7, <1>8, <1>9 DEF LevelDBNext

LEMMA OldDatabaseIs ==
  ASSUME disk = OldDatabase
  PROVE  /\ disk.current = 5 /\ UnderCurrent.last_sequence = 1
         /\ UnderCurrent.files = [NoFiles EXCEPT ![1] = {6}]
         /\ DOMAIN disk.tables = {6} /\ disk.tables[6] = {[seq |-> 1, key |-> Min(Key), val |-> 0]}
         /\ disk.logs = [i \in {7} |->
              <<[type |-> "full", entry |-> [seq |-> 2, key |-> Min(Key), val |-> 1]]>>]
BY DEF OldDatabase, UnderCurrent

LEMMA RecordsInit == LevelDBInit => RecordsInv
<1> SUFFICES ASSUME LevelDBInit PROVE RecordsInv
  OBVIOUS
<1>1. /\ db.state = "closed" /\ db.mem = 0 /\ db.imm = 0 /\ vset.last_sequence = 0 /\ mems = <<>>
      /\ compaction = NoCompaction /\ (disk = NoDatabase \/ disk = OldDatabase)
  BY DEF LevelDBInit, Closed, NewVersionSet
<1>2. MemsStored
  <2>1. DOMAIN mems = {}
    BY <1>1
  <2>2. \A u \in Thread : th[u].pc # "reading"
    BY DEF LevelDBInit, Idle
  <2>3. Referenced(th, db) = {}
    BY <1>1, <2>2, ReferencedIs
  <2> QED
    BY <1>1, <2>1, <2>3 DEF MemsStored
<1>3. CompactionStored
  BY <1>1 DEF CompactionStored
<1>4. CASE disk = NoDatabase
  <2>1. disk.current = 0 /\ DOMAIN disk.tables = {} /\ DOMAIN disk.logs = {}
    BY <1>4 DEF NoDatabase
  <2>2. TablesStored /\ LogsStored /\ SequencesKnown
    BY <1>1, <2>1 DEF TablesStored, LogsStored, SequencesKnown
  <2> QED
    BY <1>2, <1>3, <2>2 DEF RecordsInv
<1>5. CASE disk = OldDatabase
  <2> DEFINE k == Min(Key)
             d == [seq |-> 1, key |-> k, val |-> 0]
             e == [seq |-> 2, key |-> k, val |-> 1]
             f == [type |-> "full", entry |-> e]
  <2>1. k \in Key
    BY LevelDBAssumption, MinOfNumbers
  <2> HIDE DEF k
  <2>2. d \in Entry /\ e \in Entry
    <3>1. 0 \in 0..MaxPuts /\ 1 \in 0..MaxPuts
      BY LevelDBAssumption
    <3> QED
      BY <2>1, <3>1 DEF Entry
  <2>3. f.entry = e
    OBVIOUS
  <2> HIDE DEF d, e, f
  <2>4. /\ disk.current = 5 /\ UnderCurrent.last_sequence = 1
        /\ DOMAIN disk.tables = {6} /\ disk.tables[6] = {d} /\ disk.logs = [i \in {7} |-> <<f>>]
    BY <1>5, OldDatabaseIs DEF d, e, f, k
  <2>5. TablesStored
    BY <2>2, <2>4, EntrySetsOne DEF TablesStored
  <2>6. LogsStored
    <3>1. EntriesOfLog(<<f>>)
      <4>1. DOMAIN <<f>> = {1} /\ <<f>>[1] = f
        OBVIOUS
      <4> QED
        BY <2>2, <2>3, <4>1 DEF EntriesOfLog
    <3> QED
      BY <2>4, <3>1 DEF LogsStored
  <2>7. SequencesKnown
    BY <1>1, <2>4 DEF SequencesKnown
  <2> QED
    BY <1>2, <1>3, <2>5, <2>6, <2>7 DEF RecordsInv
<1> QED
  BY <1>1, <1>4, <1>5

LEMMA RecordsNext ==
  ASSUME FilesInv, FilesInv', LogsReadable, QueueInv, RecordsInv, [LevelDBNext]_ldbVars
  PROVE  RecordsInv'
BY TablesStoredNext, LogsStoredNext, MemsStoredNext, SequencesKnownNext, CompactionStoredNext
   DEF RecordsInv
=============================================================================
