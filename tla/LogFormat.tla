----------------------------- MODULE LogFormat -----------------------------
(***************************************************************************)
(* The log files of LevelDB (db/log_writer.cc, db/log_reader.cc): records  *)
(* are cut into fragments that fit into blocks, each behind a header with  *)
(* a checksum; a reader has to make sense of whatever a failure left.      *)
(*                                                                         *)
(* A file is a sequence of cells, one for a byte.  The first cell of a     *)
(* header is <<"h", type, length, checksum>> and stands for all it says;   *)
(* the others are Filler.  The checksum of a fragment is taken to be the   *)
(* fragment itself: no two fragments share one.                            *)
(***************************************************************************)
EXTENDS Naturals, Sequences, FiniteSets, SequencesExt, FiniteSetsExt

CONSTANTS
  BlockSize,      \* kBlockSize
  HeaderSize,     \* kHeaderSize
  RecordSizes,    \* sizes of the records written
  MaxRecords,     \* bound on the records of a file
  MaxErrors       \* bound on the writes that fail

\* RecordType, and the two the reader adds (kEof, kBadRecord).
Zero == 0
Full == 1
First == 2
Middle == 3
Final == 4
Eof == 5
BadRecord == 6

Filler == <<"f">>
ZeroByte == <<"z">>
Byte(n) == <<"b", n>>
Fill(c, n) == [i \in 1..n |-> c]
Physical(type, fragment) ==
  <<<<"h", type, Len(fragment), <<type, fragment>>>>>>
    \o Fill(Filler, HeaderSize - 1) \o fragment

\* The n-th record written.  One just large enough to hold a whole physical
\* record holds one, which a reader must not take for a record.
Payload(n, size) ==
  IF size = HeaderSize + 1 THEN Physical(Full, <<Byte(0)>>) ELSE Fill(Byte(n), size)

VARIABLES
  file,      \* the cells of the file
  offset,    \* block_offset_ of the writer
  written,   \* the records added, each [data, at, end, errors]: its bytes, their
             \* place, and the failures before it
  synced,    \* how many bytes are synchronised
  safe,      \* how many records were added without error when they were
  errors,    \* writes that failed
  damage     \* "none", "cut", or "torn" once something else was lost

vars == <<file, offset, written, synced, safe, errors, damage>>

---------------------------------------------------------------------------
(* Writing *)

\* The bytes left in a block too small for a header.
Trailer(o) == IF BlockSize - o < HeaderSize THEN BlockSize - o ELSE 0

TrailerCells(o) == Fill(ZeroByte, Trailer(o))

FragmentType(begin, end) ==
  IF begin THEN IF end THEN Full ELSE First
  ELSE IF end THEN Final ELSE Middle

\* What AddRecord appends from block offset o and the offset it leaves; ends
\* has both for each fragment.
AddRecord(data, o) ==
  LET from[n \in 0..Len(data)] ==   \* n: bytes done, where a fragment begins
        [start \in 0..BlockSize |->
           LET at == (start + Trailer(start)) % BlockSize
               avail == BlockSize - at - HeaderSize
               length == Min({Len(data) - n, avail})
               fragment == SubSeq(data, n + 1, n + length)
               begin == n = 0 /\ start = o
               cells == TrailerCells(start)
                          \o Physical(FragmentType(begin, n + length = Len(data)), fragment)
               rest == from[n + length][at + HeaderSize + length]
               here == [cells |-> Len(cells), offset |-> at + HeaderSize + length]
           IN  IF n + length = Len(data)
               THEN [cells |-> cells, offset |-> here.offset, ends |-> {here}]
               ELSE [cells |-> cells \o rest.cells, offset |-> rest.offset,
                     ends |-> {here} \cup {[e EXCEPT !.cells = @ + here.cells] :
                                             e \in rest.ends}]]
  IN  from[0][o]

Init ==
  /\ file = <<>> /\ offset = 0 /\ written = <<>> /\ synced = 0 /\ safe = 0
  /\ errors = 0 /\ damage = "none"

Write ==
  /\ damage = "none" /\ Len(written) + errors < MaxRecords
  /\ \E size \in RecordSizes :
       LET data == Payload(Len(written) + 1, size)
           r == AddRecord(data, offset)
       IN  /\ file' = file \o r.cells
           /\ offset' = r.offset
           /\ written' = Append(written,
                [data |-> data, at |-> Len(file) + Trailer(offset), end |-> Len(file'),
                 errors |-> errors])
  /\ UNCHANGED <<synced, safe, errors, damage>>

\* Append or Flush fails in a fragment: no other follows, and the offset moves
\* past this one all the same.
WriteFails ==
  /\ damage = "none" /\ Len(written) + errors < MaxRecords /\ errors < MaxErrors
  /\ \E size \in RecordSizes :
       LET r == AddRecord(Payload(Len(written) + 1, size), offset)
       IN  \E n \in 0..(Len(r.cells) - 1) :
             /\ file' = file \o SubSeq(r.cells, 1, n)
             /\ \E e \in r.ends :
                  /\ n < e.cells /\ \A d \in r.ends : n < d.cells => e.cells <= d.cells
                  /\ offset' = e.offset
  /\ errors' = errors + 1
  /\ UNCHANGED <<written, synced, safe, damage>>

Sync ==
  /\ damage = "none"
  /\ synced' = Len(file) /\ safe' = Len(written)
  /\ UNCHANGED <<file, offset, written, errors, damage>>

\* The machine fails: bytes not synchronised are cut off, ...
Cut ==
  /\ damage = "none"
  /\ \E n \in synced..Len(file) : file' = SubSeq(file, 1, n)
  /\ damage' = "cut"
  /\ UNCHANGED <<offset, written, synced, safe, errors>>

\* ... or read as zeros, or one of them is wrong.
Hole ==
  /\ damage = "none"
  /\ \E a, b \in (synced + 1)..Len(file) :
       /\ a <= b
       /\ file' = [i \in DOMAIN file |-> IF i \in a..b THEN ZeroByte ELSE file[i]]
  /\ damage' = "torn"
  /\ UNCHANGED <<offset, written, synced, safe, errors>>

Wrong(cell) ==
  IF cell[1] = "h"
  THEN {<<"h", cell[2], length, cell[4]>> : length \in {0, cell[3] + 1}}
       \cup {<<"h", type, cell[3], cell[4]>> : type \in Zero..Final \ {cell[2]}}
  ELSE {<<"x">>}

Flip ==
  /\ damage = "none"
  /\ \E i \in (synced + 1)..Len(file) :
       \E c \in Wrong(file[i]) : file' = [file EXCEPT ![i] = c]
  /\ damage' = "torn"
  /\ UNCHANGED <<offset, written, synced, safe, errors>>

Next == Write \/ WriteFails \/ Sync \/ Cut \/ Hole \/ Flip
Spec == Init /\ [][Next]_vars

---------------------------------------------------------------------------
(* Reading *)

Loaded == 7   \* the next block was read

\* Mutant: past a bad checksum by the length it covers.
PastRecord(s, length) == s.pos + HeaderSize + length

\* Nothing behind a bad checksum in its block is looked at.
PastMismatch(s, length) == s.end

\* A record that would reach beyond the block: torn if the file ends there.
Overlong(eof) == IF eof THEN Eof ELSE BadRecord

\* SkipToInitialBlock: where reading begins.
InitialBlock(initial) ==
  LET inBlock == initial % BlockSize
  IN  initial - inBlock
        + IF inBlock > BlockSize - (HeaderSize - 1) THEN BlockSize ELSE 0

\* The reader: pos to end is buffer_, end is end_of_buffer_offset_; part,
\* scratch and at belong to the record being put together; out is what
\* ReadRecord has returned.
Reader(initial) ==
  [pos |-> InitialBlock(initial), end |-> InitialBlock(initial), eof |-> FALSE,
   resync |-> initial > 0, part |-> FALSE, scratch |-> <<>>, at |-> 0,
   out |-> <<>>, reports |-> 0, done |-> FALSE]

ReadPhysicalRecord(f, initial, s) ==
  LET left == s.end - s.pos
      head == f[s.pos + 1]
      length == head[3]
      data == SubSeq(f, s.pos + HeaderSize + 1, s.pos + HeaderSize + length)
      sound == /\ head[4] = <<head[2], data>>
               /\ \A i \in 2..HeaderSize : f[s.pos + i] = Filler
      loaded == Max({s.end, Min({s.end + BlockSize, Len(f)})})
      result(kind, bytes, pos, reports) ==
        [kind |-> kind, data |-> bytes,
         s |-> [s EXCEPT !.pos = pos, !.reports = @ + reports]]
  IN  CASE left < HeaderSize /\ s.eof -> result(Eof, <<>>, s.end, 0)
        [] left < HeaderSize /\ ~s.eof ->
             [kind |-> Loaded, data |-> <<>>,
              s |-> [s EXCEPT !.pos = s.end, !.end = loaded,
                              !.eof = loaded - s.end < BlockSize]]
        [] left >= HeaderSize /\ head[1] # "h" ->
             result(BadRecord, <<>>, s.end, IF head = ZeroByte THEN 0 ELSE 1)
        [] OTHER ->
             IF HeaderSize + length > left
             THEN result(Overlong(s.eof), <<>>, s.end,
                         IF Overlong(s.eof) = Eof THEN 0 ELSE 1)
             ELSE IF head[2] = Zero /\ length = 0
             THEN result(BadRecord, <<>>, s.end, 0)
             ELSE IF ~sound
             THEN result(BadRecord, <<>>, PastMismatch(s, length), 1)
             ELSE IF s.pos < initial
             THEN result(BadRecord, <<>>, s.pos + HeaderSize + length, 0)
             ELSE result(head[2], data, s.pos + HeaderSize + length, 0)

\* What ReadRecord does with a physical record that began at `at'.
Take(s, kind, data, at) ==
  LET partial == IF s.part /\ s.scratch # <<>> THEN 1 ELSE 0
      bad(n) == [s EXCEPT !.part = FALSE, !.scratch = <<>>, !.reports = @ + n]
  IN  CASE kind = Full ->
             [bad(partial) EXCEPT !.out = Append(@, [data |-> data, at |-> at])]
        [] kind = First ->
             [bad(partial) EXCEPT !.part = TRUE, !.scratch = data, !.at = at]
        [] kind = Middle /\ s.part -> [s EXCEPT !.scratch = @ \o data]
        [] kind = Final /\ s.part ->
             [bad(0) EXCEPT !.out = Append(@, [data |-> s.scratch \o data, at |-> s.at])]
        [] kind \in {Middle, Final} /\ ~s.part -> [s EXCEPT !.reports = @ + 1]
        [] kind = BadRecord -> IF s.part THEN bad(1) ELSE s
        [] kind = Eof -> [s EXCEPT !.done = TRUE]

Step(f, initial, s) ==
  LET r == ReadPhysicalRecord(f, initial, s)
  IN  IF s.done THEN s
      ELSE IF r.kind = Loaded \/ (s.resync /\ r.kind = Middle) THEN r.s
      ELSE IF s.resync /\ r.kind = Final THEN [r.s EXCEPT !.resync = FALSE]
      ELSE Take([r.s EXCEPT !.resync = FALSE], r.kind, r.data, s.pos)

\* Every record from an offset on; a step takes a byte at least or a block.
ReadFrom(f, initial) ==
  LET steps == 2 * Len(f) + 4
      read[n \in 0..steps] ==
        IF n = 0 THEN Reader(initial) ELSE Step(f, initial, read[n - 1])
  IN  read[steps]

---------------------------------------------------------------------------
(* Properties *)

Returned == ReadFrom(file, 0).out
Records(w) == [i \in DOMAIN w |-> [data |-> w[i].data, at |-> w[i].at]]
IsSubsequence(s, t) ==
  \E keep \in SUBSET DOMAIN t :
    s = [i \in 1..Cardinality(keep) |->
           t[CHOOSE k \in keep : Cardinality({x \in keep : x < k}) = i - 1]]

\* Whatever is lost behind the last synchronised byte, and whatever writes
\* fail later, the reader returns the records synchronised before
\* (log_reader.cc 144-156, 189-271).
SyncedSurvive ==
  LET sound(r) == r.errors = 0
  IN  IsPrefix(Records(SelectSeq(SubSeq(written, 1, safe), sound)), Returned)

\* Nothing is returned that was not written, in that order: no piece of a
\* record, no two spliced, nothing inside one that looks like a record
\* (log_reader.cc 243-257).
OnlyWritten == errors = 0 => IsSubsequence(Returned, Records(written))

\* A file cut short gives the records that are whole in it and no report of
\* corruption (log_reader.cc 144-151, 206-213, 229-233).
CutIsClean ==
  damage # "torn" /\ errors = 0 =>
    /\ Returned = Records(SelectSeq(written, LAMBDA r : r.end <= Len(file)))
    /\ ReadFrom(file, 0).reports = 0

\* All that a reader who starts at the beginning can rely on.
Recovered == SyncedSurvive /\ OnlyWritten /\ CutIsClean

\* A reader given an offset returns the records that begin there or later
\* (log_reader.h: "the first record located at physical position >=
\* initial_offset").
OffsetsHonoured ==
  damage = "none" /\ errors = 0 =>
    \A initial \in 1..Len(file) :
      ReadFrom(file, initial).out = Records(SelectSeq(written, LAMBDA r : r.at >= initial))
=============================================================================
