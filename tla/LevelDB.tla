------------------------------ MODULE LevelDB ------------------------------
(***************************************************************************)
(* One LevelDB database (db/db_impl.cc, the rest of db/version_set.cc): a  *)
(* writer, a reader, the background thread, the files, failures of the     *)
(* machine and of the process, and recovery.                               *)
(*                                                                         *)
(* A file of records is [recs, synced]; a machine failure may cut it off   *)
(* anywhere behind the first `synced' records.  Tables are synchronised    *)
(* before an edit names them; a table is the set of its entries.           *)
(***************************************************************************)
EXTENDS VersionSet

CONSTANTS
  Keys, Writes,      \* user keys; writes [ops, sync], ops a sequence of [key, put]
  WriteBufferSize,   \* Options::write_buffer_size, in entries
  StopTrigger,       \* config::kL0_StopWritesTrigger
  ManualRanges,      \* ranges [level, begin, end] compacted on request
  MaxSeq,            \* bound on the operations written
  MaxEvents,         \* bound on failures, errors, requests and reads together
  MaxWork            \* bound on the sum of both

\* The operations of a WriteBatch are puts and deletions of keys.
ASSUME WritesAssumption ==
  \A w \in Writes : w.sync \in BOOLEAN /\ w.ops \in Seq([key : Keys, put : BOOLEAN])

\* There is a level below the one a request names (asserted in TEST_CompactRange);
\* its bounds are user keys or null.
ASSUME RangesAssumption ==
  \A r \in ManualRanges :
    r.level \in 0..(NumLevels - 2) /\ r.begin \in Nat /\ r.end \in Nat

\* A null bound is no key.
ASSUME BoundsAssumption ==
  /\ Keys \subseteq Nat \ {NoKey} /\ WriteBufferSize \in Nat
  /\ MaxSeq \in Nat /\ MaxSeq < MaxSequence
  /\ StopTrigger \in Nat \ {0}
  /\ MaxEvents \in Nat /\ MaxWork \in Nat

VARIABLES
  (* the directory *)
  logs, tables, manifests,  \* file number -> contents
  current,                  \* the manifest CURRENT names
  (* the process *)
  phase,       \* "closed", "opening" (recovered, edit being saved) or "open"
  mem, imm,    \* mem_: set of entries; imm_: [entries], or None
  logfile,     \* logfile_number_
  vset,        \* VersionSet: [v, pointers, last, next, log, manifest]
  seek,        \* file_to_compact_ of the current version
  edit,        \* the edit inside LogAndApply, or None
  comp,        \* the compaction under way, or None
  writer,      \* the batch in the log and not yet in mem_, or None
  snapshots,   \* sequence numbers of GetSnapshot
  reader,      \* what a Get or an iterator holds on to, or None
  bgError,     \* bg_error_ is set
  (* the past *)
  history,     \* the acknowledged batches, each with its log
  doubt,       \* batches that ended with an error
  tangled,     \* what a compaction did not foresee was written in the middle of it
  events       \* failures, errors, requests and reads so far

vars == <<logs, tables, manifests, current, phase, mem, imm, logfile, vset, seek, edit,
          comp, writer, snapshots, reader, bgError, history, doubt, tangled, events>>

Put(f, x, y) == [n \in DOMAIN f \cup {x} |-> IF n = x THEN y ELSE f[n]]
Keep(f, S) == [n \in DOMAIN f \cap S |-> f[n]]
EmptyFile == [recs |-> <<>>, synced |-> 0]
SyncFile(f) == [f EXCEPT !.synced = Len(f.recs)]
\* What a machine failure leaves of a file: n records.
CutFile(f, n) == SyncFile([f EXCEPT !.recs = SubSeq(@, 1, n)])
\* Mutant: appending replaces what was there.
AddRecordTruncates(f, r) == [f EXCEPT !.recs = <<r>>, !.synced = 0]
AddRecord(f, r) == [f EXCEPT !.recs = Append(@, r)]
Event == /\ events < MaxEvents /\ vset.last + events < MaxWork
         /\ events' = events + 1

\* The entries a batch inserts (WriteBatch::Iterate, MemTable::Add).
Entries(b) ==
  {<<b.ops[i].key, b.seq + i - 1, IF b.ops[i].put THEN Value ELSE Deletion>> :
     i \in DOMAIN b.ops}

\* A record of a log is lost when recovery cannot read it: one that AddRecord
\* failed to write, or one that was written behind it, for the writer goes on
\* where that one should have ended.
Torn(log) == \E r \in Range(log.recs) : r.lost
Replayed(r) == IF r.lost THEN {} ELSE Entries(r)
ReplayedOf(recs) == UNION {Replayed(recs[i]) : i \in DOMAIN recs}

---------------------------------------------------------------------------
(* Recovery *)

\* VersionSet::Recover: all edits of a manifest applied to an empty version.
VersionOf(recs) == FoldLeft(SaveTo, EmptyVersion, recs)
PointersOf(recs) ==
  FoldLeft(LAMBDA p, e : [l \in Levels |->
             IF l \in DOMAIN e.pointers THEN e.pointers[l] ELSE p[l]],
           [l \in Levels |-> NoEntry], recs)

\* RecoverLogFile: the tables written for one log, a new one each time the
\* memtable is over its size, and one for the rest.
LogTables(recs) ==
  LET step[i \in 0..Len(recs)] ==
        IF i = 0 THEN [done |-> <<>>, mem |-> {}]
        ELSE LET m == step[i - 1].mem \cup Replayed(recs[i])
             IN  IF Cardinality(m) > WriteBufferSize
                 THEN [done |-> Append(step[i - 1].done, m), mem |-> {}]
                 ELSE [step[i - 1] EXCEPT !.mem = m]
      end == step[Len(recs)]
  IN  IF end.mem = {} THEN end.done ELSE Append(end.done, end.mem)

\* Recover: the logs not older than the manifest's, in order; a number is
\* given to each table, and a log's own number counts as used after it.
RecoverLogs(minLog, nextFile) ==
  LET order == InOrder({n \in DOMAIN logs : n >= minLog}, <)
      step[i \in 0..Len(order)] ==
        IF i = 0 THEN [next |-> nextFile, new |-> <<>>]
        ELSE LET s == step[i - 1]
                 made == LogTables(logs[order[i]].recs)
             IN  [next |-> Max({s.next + Len(made), order[i] + 1}),
                  new |-> s.new \o [j \in DOMAIN made |->
                                      [number |-> s.next + j - 1, entries |-> made[j]]]]
  IN  step[Len(order)]

\* Mutant: the logs do not count.
LastSequenceInManifest(minLog, atLeast) == atLeast

LastSequenceIn(minLog, atLeast) ==
  Max({atLeast} \cup
      {Sequence(e) : e \in UNION {ReplayedOf(logs[n].recs) :
                                   n \in {m \in DOMAIN logs : m >= minLog}}})

Closed ==
  [v |-> EmptyVersion, pointers |-> [l \in Levels |-> NoEntry],
   last |-> 0, next |-> 0, log |-> 0, manifest |-> 0]

NewEdit(vs, kind, deleted, added, pointers, log) ==
  [kind |-> kind, deleted |-> deleted, added |-> added, pointers |-> pointers,
   log |-> log, next |-> vs.next, last |-> vs.last]

\* WriteSnapshot: the first record of a new manifest.
Snapshot(vs) ==
  [NewEdit(vs, "snapshot", {},
     UNION {{<<l, f>> : f \in Range(vs.v[l])} : l \in Levels},
     Keep(vs.pointers, {l \in Levels : vs.pointers[l] # NoEntry}), 0)
   EXCEPT !.next = 0, !.last = 0]

\* The directory as NewDB leaves it.
Init ==
  /\ logs = <<>> /\ tables = <<>> /\ current = 1
  /\ manifests = [n \in {1} |->
       SyncFile([EmptyFile EXCEPT !.recs =
         <<NewEdit([next |-> 2, last |-> 0], "new", {}, {}, <<>>, 0)>>])]
  /\ phase = "closed" /\ mem = {} /\ imm = None /\ logfile = 0 /\ vset = Closed
  /\ seek = None /\ edit = None /\ comp = None /\ writer = None
  /\ snapshots = {} /\ reader = None /\ bgError = FALSE
  /\ history = <<>> /\ doubt = <<>> /\ tangled = FALSE
  /\ events = 0

\* DB::Open up to the first record of the new manifest: WriteSnapshot, then
\* the edit that carries the tables made from the logs.
Recover ==
  LET recs == manifests[current].recs
      e == Last(recs)
      r == RecoverLogs(e.log, e.next + 1)
      vs == [v |-> VersionOf(recs), pointers |-> PointersOf(recs),
             last |-> LastSequenceIn(e.log, e.last), next |-> r.next + 1,
             log |-> e.log, manifest |-> e.next]
      save == NewEdit(vs, "open", {},
                {<<0, FileOf(t.number, t.entries)>> : t \in Range(r.new)},
                <<>>, r.next)
  IN  /\ phase = "closed"
      /\ \A f \in FilesOf(vs.v) : f.number \in DOMAIN tables
      /\ tables' = [n \in DOMAIN tables \cup {t.number : t \in Range(r.new)} |->
                      IF \E t \in Range(r.new) : t.number = n
                      THEN (CHOOSE t \in Range(r.new) : t.number = n).entries
                      ELSE tables[n]]
      /\ logs' = Put(logs, r.next, EmptyFile)
      /\ manifests' = Put(manifests, vs.manifest,
                          [recs |-> <<Snapshot(vs), save>>, synced |-> 0])
      /\ phase' = "opening" /\ vset' = vs /\ logfile' = r.next /\ edit' = save
      /\ UNCHANGED <<current, mem, imm, seek, comp, writer, snapshots, reader,
                     bgError, history, doubt, events>>

---------------------------------------------------------------------------
(* Installing an edit *)

Installed == [vset EXCEPT !.v = SaveTo(@, edit), !.log = edit.log]

\* DeleteObsoleteFiles, for the versions and outputs in use.
DeleteObsoleteFiles(vs, versions, pending) ==
  LET live == pending \cup UNION {{f.number : f \in FilesOf(v)} : v \in versions}
  IN  /\ logs' = Keep(logs, {n \in DOMAIN logs : n >= vs.log})
      /\ manifests' = [n \in {m \in DOMAIN manifests : m >= vs.manifest} |->
                         IF n = vs.manifest THEN SyncFile(manifests[n])
                         ELSE manifests[n]]
      /\ tables' = Keep(tables, live)

\* Mutants: versions of readers, outputs being written are not protected.
PinnedNothing == {}
OutputsUnprotected(c) == {}

Pinned == IF reader = None THEN {} ELSE {reader.v}
OutputsOf(c) == IF c = None THEN {} ELSE {f.number : f \in Range(c.done)}

\* DB::Open: manifest synchronised, CURRENT switched, obsolete files deleted.
OpenDone ==
  /\ phase = "opening"
  /\ phase' = "open" /\ current' = vset.manifest
  /\ vset' = Installed /\ edit' = None
  /\ DeleteObsoleteFiles(Installed, {Installed.v}, {})
  /\ UNCHANGED <<mem, imm, logfile, seek, comp, writer, snapshots, reader,
                 bgError, history, doubt, events>>

\* The second half of LogAndApply for the background thread, and what
\* CompactMemTable, or the end of BackgroundCompaction, does next.
Install ==
  LET mine == IF edit.kind = "compaction" THEN None ELSE comp
      inUse == {Installed.v} \cup Pinned \cup IF mine = None THEN {} ELSE {mine.v}
  IN  /\ phase = "open" /\ edit # None
      /\ vset' = Installed /\ edit' = None /\ seek' = None
      /\ imm' = IF edit.kind = "flush" THEN None ELSE imm
      /\ comp' = mine
      /\ IF edit.kind = "move" \/ bgError
         THEN /\ manifests' = [manifests EXCEPT ![vset.manifest] = SyncFile(@)]
              /\ UNCHANGED <<logs, tables>>
         ELSE DeleteObsoleteFiles(Installed, inUse, OutputsOf(mine))
      /\ UNCHANGED <<current, phase, mem, logfile, writer, snapshots, reader,
                     bgError, history, doubt, events>>

\* The manifest cannot be written or synchronised: the record may be there or
\* not, nothing is installed, RecordBackgroundError.  A compaction that stopped
\* for a memtable goes on after that error, and its edit is written behind what
\* is left of that one, which recovery may take for corruption.
InstallFails ==
  /\ phase = "open" /\ edit # None
  /\ \/ UNCHANGED manifests
     \/ manifests' = [manifests EXCEPT ![vset.manifest].recs = Front(@)]
  /\ edit' = None /\ bgError' = TRUE /\ Event
  /\ comp' = IF edit.kind = "flush" THEN comp ELSE None
  /\ tangled' = (tangled \/ comp' # None)
  /\ UNCHANGED <<logs, tables, current, phase, mem, imm, logfile, vset, seek,
                 writer, snapshots, reader, history, doubt>>

---------------------------------------------------------------------------
(* Background work *)

\* BackgroundCall begins nothing after an error; what has begun goes on.
MayWork == phase = "open" /\ edit = None /\ (bgError => comp # None)

LogAndApply(e) ==
  /\ edit' = e
  /\ manifests' = [manifests EXCEPT ![vset.manifest] = AddRecord(@, e)]

\* CompactMemTable with WriteLevel0Table and BuildTable, alone or before a key of
\* a compaction's input, and so here at any moment of it (the code does not look
\* behind the last key); an empty memtable gives no file.  A compaction that was
\* chosen for its size or seeks leaves room for it, one on request does not.
CompactMemTable ==
  LET f == FileOf(vset.next, imm.entries)
      level == PickLevelForMemTableOutput(vset.v, UserKey(f.smallest), UserKey(f.largest))
      vs == [vset EXCEPT !.next = @ + 1]
  IN  /\ MayWork /\ imm # None
      /\ tangled' = (tangled \/ (comp # None /\ comp.manual))
      /\ vset' = vs
      /\ tables' = IF imm.entries = {} THEN tables
                    ELSE Put(tables, vset.next, imm.entries)
      /\ LogAndApply(NewEdit(vs, "flush", {},
           IF imm.entries = {} THEN {} ELSE {<<level, f>>}, <<>>, logfile))
      /\ UNCHANGED <<logs, current, phase, mem, imm, logfile, seek, comp, writer,
                     snapshots, reader, bgError, history, doubt, events>>

\* BackgroundCompaction once the inputs are chosen.
StartCompaction(c, manual) ==
  LET vs == [vset EXCEPT !.pointers[c.level] = c.pointer]
      moved == CHOOSE f \in Range(c.in0) : TRUE
      entries == UNION {tables[i[2].number] : i \in InputFiles(c)}
      oldest == IF snapshots = {} THEN vset.last ELSE Min(snapshots)
  IN  /\ vset' = vs
      /\ IF ~manual /\ IsTrivialMove(c)
         THEN /\ LogAndApply(NewEdit(vs, "move", {<<c.level, moved>>},
                   {<<c.level + 1, moved>>}, [l \in {c.level} |-> c.pointer], vset.log))
              /\ UNCHANGED comp
         ELSE /\ comp' = [c |-> c, manual |-> manual, v |-> vset.v, done |-> <<>>,
                   todo |-> Outputs(c, entries, Kept(vset.v, c, entries, oldest))]
              /\ UNCHANGED <<edit, manifests>>
      /\ UNCHANGED <<logs, tables, current, phase, mem, imm, logfile, seek, writer,
                     snapshots, reader, bgError, history, doubt>>

PickedCompaction ==
  /\ MayWork /\ imm = None /\ comp = None
  /\ SizeCompaction(vset.v) \/ seek # None
  /\ StartCompaction(PickCompaction(vset.v, vset.pointers, seek), FALSE)
  /\ UNCHANGED events

ManualCompaction ==
  /\ MayWork /\ imm = None /\ comp = None
  /\ \E r \in ManualRanges :
       LET c == CompactRange(vset.v, r.level, r.begin, r.end)
       IN  c # None /\ StartCompaction(c, TRUE)
  /\ Event

\* OpenCompactionOutputFile to FinishCompactionOutputFile.
WriteOutput ==
  /\ MayWork /\ comp # None /\ comp.todo # <<>>
  /\ tables' = Put(tables, vset.next, Head(comp.todo))
  /\ comp' = [comp EXCEPT !.todo = Tail(@),
                          !.done = Append(@, FileOf(vset.next, Head(comp.todo)))]
  /\ vset' = [vset EXCEPT !.next = @ + 1]
  /\ UNCHANGED <<logs, manifests, current, phase, mem, imm, logfile, seek, edit,
                 writer, snapshots, reader, bgError, history, doubt, events>>

InstallCompactionResults ==
  /\ MayWork /\ comp # None /\ comp.todo = <<>>
  /\ LogAndApply(NewEdit(vset, "compaction", InputFiles(comp.c),
       {<<comp.c.level + 1, f>> : f \in Range(comp.done)},
       [l \in {comp.c.level} |-> comp.c.pointer], vset.log))
  /\ UNCHANGED <<logs, tables, current, phase, mem, imm, logfile, vset, seek, comp,
                 writer, snapshots, reader, bgError, history, doubt, events>>

\* A table cannot be written.  The outputs of a compaction stay behind.
WorkFails ==
  /\ MayWork
  /\ \/ imm # None /\ UNCHANGED comp
     \/ comp # None /\ comp.todo # <<>> /\ comp' = None
  /\ bgError' = TRUE /\ Event
  /\ UNCHANGED <<logs, tables, manifests, current, phase, mem, imm, logfile, vset,
                 seek, edit, writer, snapshots, reader, history, doubt>>

---------------------------------------------------------------------------
(* Writing *)

\* MakeRoomForWrite: the memtable is full, or the caller forces a new one.
SwitchMemTable ==
  /\ phase = "open" /\ writer = None /\ ~bgError
  /\ imm = None /\ Len(vset.v[0]) < StopTrigger
  /\ \/ Cardinality(mem) > WriteBufferSize /\ UNCHANGED events
     \/ Event
  /\ logs' = Put(logs, vset.next, EmptyFile)
  /\ logfile' = vset.next /\ imm' = [entries |-> mem] /\ mem' = {}
  /\ vset' = [vset EXCEPT !.next = @ + 1]
  /\ UNCHANGED <<tables, manifests, current, phase, seek, edit, comp, writer,
                 snapshots, reader, bgError, history, doubt>>

\* DBImpl::Write up to AddRecord, for the writer at the head of the queue.
AddBatch ==
  /\ phase = "open" /\ writer = None /\ ~bgError
  /\ Cardinality(mem) <= WriteBufferSize
  /\ \E w \in Writes, lost \in BOOLEAN :
       LET b == [seq |-> vset.last + 1, ops |-> w.ops, sync |-> w.sync,
                 log |-> logfile, torn |-> Torn(logs[logfile])]
       IN  /\ vset.last + Len(w.ops) <= MaxSeq
           /\ vset.last + Len(w.ops) + events <= MaxWork
           /\ lost => b.torn
           /\ writer' = b
           /\ logs' = [logs EXCEPT ![logfile] =
                         AddRecord(@, [seq |-> b.seq, ops |-> b.ops, lost |-> lost])]
  /\ UNCHANGED <<tables, manifests, current, phase, mem, imm, logfile, vset, seek,
                 edit, comp, snapshots, reader, bgError, history, doubt, events>>

\* AddRecord fails: a part of the record may be in the file.  The numbers are
\* used up, the caller gets the error, and nothing stops later writes.
AddRecordFails ==
  /\ phase = "open" /\ writer = None /\ ~bgError
  /\ Cardinality(mem) <= WriteBufferSize
  /\ \E w \in Writes :
       /\ vset.last + Len(w.ops) <= MaxSeq
       /\ vset.last + Len(w.ops) + events < MaxWork
       /\ logs' = [logs EXCEPT ![logfile] =
                     AddRecord(@, [seq |-> vset.last + 1, ops |-> <<>>, lost |-> TRUE])]
       /\ vset' = [vset EXCEPT !.last = @ + Len(w.ops)]
  /\ Event
  /\ UNCHANGED <<tables, manifests, current, phase, mem, imm, logfile, seek, edit,
                 comp, writer, snapshots, reader, bgError, history, doubt>>

LastSequence == [vset EXCEPT !.last = @ + Len(writer.ops)]

\* A batch behind a record that could not be written is not promised to survive a
\* failure of the machine, synchronised or not.
Promised(b) == [b EXCEPT !.sync = @ /\ ~b.torn]

\* The rest of it: synchronise, insert, publish the sequence number, return.
WriteDone ==
  /\ writer # None
  /\ logs' = IF writer.sync THEN [logs EXCEPT ![logfile] = SyncFile(@)] ELSE logs
  /\ mem' = mem \cup Entries(writer)
  /\ vset' = LastSequence
  /\ history' = Append(history, Promised(writer)) /\ writer' = None
  /\ UNCHANGED <<tables, manifests, current, phase, imm, logfile, seek, edit, comp,
                 snapshots, reader, bgError, doubt, events>>

\* Sync fails: nothing is inserted, the numbers are used up all the same, and
\* the background error stops all later writes.
SyncFails ==
  /\ writer # None /\ writer.sync
  /\ vset' = LastSequence
  /\ doubt' = Append(doubt, Promised(writer)) /\ writer' = None
  /\ bgError' = TRUE /\ Event
  /\ UNCHANGED <<logs, tables, manifests, current, phase, mem, imm, logfile, seek,
                 edit, comp, snapshots, reader, history>>

---------------------------------------------------------------------------
(* Reading *)

GetSnapshot ==
  /\ phase = "open" /\ Event
  /\ snapshots' = snapshots \cup {vset.last}
  /\ UNCHANGED <<logs, tables, manifests, current, phase, mem, imm, logfile, vset,
                 seek, edit, comp, writer, reader, bgError, history, doubt>>

ReleaseSnapshot ==
  /\ \E s \in snapshots : snapshots' = snapshots \ {s}
  /\ UNCHANGED <<logs, tables, manifests, current, phase, mem, imm, logfile, vset,
                 seek, edit, comp, writer, reader, bgError, history, doubt, events>>

\* Get and NewInternalIterator: what is referenced under the lock.
BeginRead ==
  /\ phase = "open" /\ reader = None /\ Event
  /\ reader' = [seq |-> vset.last, mem |-> mem, imm |-> imm, v |-> vset.v]
  /\ UNCHANGED <<logs, tables, manifests, current, phase, mem, imm, logfile, vset,
                 seek, edit, comp, writer, snapshots, bgError, history, doubt>>

\* The read is over; its version may have been charged a seek too many.
EndRead ==
  /\ reader # None
  /\ \/ UNCHANGED seek
     \/ /\ reader.v = vset.v /\ seek = None
        /\ \E k \in Keys : seek' = SeekCharge(vset.v, LookupKey(k, reader.seq))
  /\ reader' = None
  /\ UNCHANGED <<logs, tables, manifests, current, phase, mem, imm, logfile, vset,
                 edit, comp, writer, snapshots, bgError, history, doubt, events>>

---------------------------------------------------------------------------
(* Failures *)

Unacked == doubt \o (IF writer = None THEN <<>> ELSE <<Promised(writer)>>)

\* The process is gone, with these files left.  A batch that was never
\* acknowledged promises nothing from now on.
Lost ==
  LET minLog == Last(manifests'[current].recs).log
      survives(b) ==
        \/ b.log < minLog
        \/ /\ b.log \in DOMAIN logs'
           /\ \E r \in Range(logs'[b.log].recs) : r.seq = b.seq /\ ~r.lost
      unpromised(bs) == [i \in DOMAIN bs |-> [bs[i] EXCEPT !.sync = FALSE]]
      all == history \o unpromised(Unacked)
  IN  /\ history' = Only(all, {b \in Range(all) : survives(b)})
      /\ doubt' = <<>>
      /\ phase' = "closed" /\ mem' = {} /\ imm' = None /\ logfile' = 0
      /\ vset' = Closed /\ seek' = None /\ edit' = None /\ comp' = None
      /\ writer' = None /\ snapshots' = {} /\ reader' = None /\ bgError' = FALSE

\* The machine fails: each file keeps what was synchronised and some of the rest.
MachineFails ==
  /\ Event
  /\ phase # "closed"
  /\ \E cut \in [DOMAIN logs -> 0..MaxSeq], end \in 1..Len(manifests[current].recs) :
       /\ \A n \in DOMAIN logs : cut[n] \in logs[n].synced..Len(logs[n].recs)
       /\ end >= manifests[current].synced
       /\ logs' = [n \in DOMAIN logs |-> CutFile(logs[n], cut[n])]
       /\ manifests' = [manifests EXCEPT ![current] = CutFile(@, end)]
  /\ Lost
  /\ UNCHANGED <<tables, current>>

\* The process ends, by ~DBImpl or without it; the machine goes on.
ProcessEnds ==
  /\ Event
  /\ phase # "closed"
  /\ UNCHANGED <<logs, tables, manifests, current>>
  /\ Lost

Next ==
  \/ CompactMemTable \/ InstallFails
  \/ /\ \/ Recover \/ OpenDone \/ Install
        \/ PickedCompaction \/ ManualCompaction
        \/ WriteOutput \/ InstallCompactionResults \/ WorkFails
        \/ SwitchMemTable \/ AddBatch \/ AddRecordFails \/ WriteDone \/ SyncFails
        \/ GetSnapshot \/ ReleaseSnapshot \/ BeginRead \/ EndRead
        \/ MachineFails \/ ProcessEnds
     /\ UNCHANGED tangled

Spec == Init /\ [][Next]_vars

---------------------------------------------------------------------------
(* Reading paths *)

\* DBImpl::Get: memtable, immutable memtable, then the version.
GetFrom(m, i, v, ikey) ==
  LET inMem == Seek(m, ikey)
      inImm == IF i = None THEN {} ELSE Seek(i.entries, ikey)
  IN  Answer(IF inMem # {} THEN inMem
             ELSE IF inImm # {} THEN inImm
             ELSE GetFromVersion(v, tables, ikey))

TablesOf(v) == UNION {tables[f.number] : f \in FilesOf(v)}

\* What an iterator over everything shows of a key.
IterateFrom(m, i, v, ikey) ==
  Answer(Seek(m \cup (IF i = None THEN {} ELSE i.entries) \cup TablesOf(v), ikey))

\* The same, from the batches.
Reference(k, s) ==
  Answer(Seek(UNION {Entries(history[n]) : n \in DOMAIN history}, LookupKey(k, s)))

---------------------------------------------------------------------------
(* Properties *)

\* tangled: a memtable was written in the middle of a compaction on request, or a
\* compaction went on after the manifest could not be written for one.  Its
\* table may then lie among the outputs of that compaction or be missing above
\* them (db_impl.cc 896-907), and nothing is said of the order of files from
\* then on.

\* Get and iterators, at every live snapshot and now, show exactly the last
\* write of each key: through flushes, moves and compactions that drop entries
\* (db_impl.cc 929-963), and whichever file the search stops at
\* (version_set.cc 338-420), unless a compaction was tangled.
ReadsAnswer ==
  phase = "open" /\ ~tangled =>
    \A k \in Keys, s \in snapshots \cup {vset.last} :
      LET ikey == LookupKey(k, s)
          last == Reference(k, s)
      IN  /\ GetFrom(mem, imm, vset.v, ikey) = last
          /\ IterateFrom(mem, imm, vset.v, ikey) = last

\* What a reader pinned under the lock stays there and, unless a compaction was
\* tangled, answers for the moment it was pinned, however many versions come and
\* whatever is deleted meanwhile (db_impl.cc 232-278, 1121-1149).
PinnedReadsAnswer ==
  reader # None =>
    /\ \A f \in FilesOf(reader.v) : f.number \in DOMAIN tables
    /\ ~tangled => \A k \in Keys :
         GetFrom(reader.mem, reader.imm, reader.v, LookupKey(k, reader.seq))
           = Reference(k, reader.seq)

\* Files that follow each other without overlap.
InLine(files) ==
  \A i \in 1..(Len(files) - 1) : Before(files[i].largest, files[i + 1].smallest)

\* At every moment, whatever part of the unsynchronised records survives, the
\* manifest that CURRENT names gives a version whose files all exist (Corruption
\* at db_impl.cc 342-347) and, unless a compaction was tangled, with its levels
\* above 0 in order: the database can be opened again.
Openable ==
  \A n \in manifests[current].synced..Len(manifests[current].recs) :
    LET v == VersionOf(SubSeq(manifests[current].recs, 1, n))
    IN  /\ n > 0
        /\ \A f \in FilesOf(v) : f.number \in DOMAIN tables
        /\ ~tangled => \A l \in Levels \ {0} : InLine(v[l])

\* Files of a level above 0 follow each other without overlap, as binary
\* search needs (asserted at version_set.cc 723-737 and 746-749), unless a
\* compaction was tangled.
LevelsDisjoint == ~tangled => \A l \in Levels \ {0} : InLine(vset.v[l])

\* "entries never hop across levels" (version_set.cc 338-340): of one user
\* key, whatever is nearer to the memtable is newer, unless a compaction was
\* tangled.
NewerAbove ==
  LET place(i) == CASE i = 0 -> mem
                    [] i = 1 -> IF imm = None THEN {} ELSE imm.entries
                    [] i >= 2 -> UNION {tables[f.number] : f \in Range(vset.v[i - 2])}
  IN  phase = "open" /\ ~tangled =>
        \A i \in 0..NumLevels : \A x \in place(i) :
          \A j \in (i + 1)..(NumLevels + 1) : \A y \in place(j) :
            UserKey(x) = UserKey(y) => Sequence(x) > Sequence(y)

\* The process ending loses nothing acknowledged, synchronised or not, since the
\* logs are replayed (db_impl.cc 349-366), other than batches written to a log
\* behind a record that could not be, as long as that log is still needed
\* (db_impl.cc 1215; log_writer.cc 98-108).
ProcessKeepsAll ==
  [][ProcessEnds =>
       \A i \in DOMAIN history :
         \/ history[i] \in Range(history')
         \/ history[i].torn /\ history[i].log >= Last(manifests[current].recs).log]_vars

\* The database is a key-value store: it shows the acknowledged batches, a
\* failure keeps what was synchronised and promised, and recovery brings it back.
\* Of what is read once a compaction was tangled nothing is said.
Store == INSTANCE KeyValueStore WITH
  Batches <- {w.ops : w \in Writes},
  unacked <- Unacked,
  contents <- IF phase # "open" THEN <<>>
              ELSE [k \in Keys |-> IF tangled THEN Reference(k, vset.last)
                                   ELSE GetFrom(mem, imm, vset.v, LookupKey(k, vset.last))]
IsKeyValueStore == Store!Spec
===========================================================================
