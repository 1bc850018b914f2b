---------------------------- MODULE VersionSet ----------------------------
(***************************************************************************)
(* The levels of table files of LevelDB (db/version_set.cc): how a version *)
(* is searched, how the files of a compaction are chosen, which entries a  *)
(* compaction keeps, and how an edit makes the next version.               *)
(*                                                                         *)
(* An internal key is <<user key, sequence number, type>>; the value stored *)
(* with it is left out, since the sequence number identifies it.  A file   *)
(* is [number, smallest, largest, size], its size the number of entries.   *)
(* A version is a function from levels to sequences of files.              *)
(***************************************************************************)
EXTENDS Naturals, Sequences, FiniteSets, SequencesExt, FiniteSetsExt, Orders

CONSTANTS
  NumLevels,          \* config::kNumLevels
  L0Trigger,          \* config::kL0_CompactionTrigger
  MaxMemLevel,        \* config::kMaxMemCompactLevel
  MaxFileSize,        \* Options::max_file_size, in entries
  BytesForLevel,      \* MaxBytesForLevel, a function of the level
  GrandParentLimit,   \* MaxGrandParentOverlapBytes
  ExpandLimit         \* ExpandedCompactionByteSizeLimit

ASSUME LevelsAssumption ==
  /\ NumLevels \in Nat \ {0, 1} /\ L0Trigger \in Nat \ {0}
  /\ MaxMemLevel \in 0..(NumLevels - 1) /\ MaxFileSize \in Nat \ {0}

\* MaxBytesForLevel is ten megabytes, ten times as much for each level above 1.
ASSUME BytesAssumption == \A l \in 1..(NumLevels - 2) : BytesForLevel[l] \in Nat \ {0}

Levels == 0..(NumLevels - 1)
Deletion == 0
Value == 1
MaxSequence == 1000     \* kMaxSequenceNumber, above every number in use
None == [none |-> TRUE] \* a null pointer
NoEntry == <<>>         \* no internal key
NoKey == 0              \* no user key, below all of them

UserKey(ikey) == ikey[1]
Sequence(ikey) == ikey[2]
Type(ikey) == ikey[3]

\* InternalKeyComparator::Compare: user keys ascending, then sequence and
\* type descending.
Before(a, b) ==
  \/ UserKey(a) < UserKey(b)
  \/ UserKey(a) = UserKey(b)
     /\ \/ Sequence(a) > Sequence(b)
        \/ Sequence(a) = Sequence(b) /\ Type(a) > Type(b)

LookupKey(k, s) == <<k, s, Value>>

Sorted(S) == InOrder(S, Before)

FileOf(number, entries) ==
  [number |-> number, size |-> Cardinality(entries),
   smallest |-> CHOOSE x \in entries : \A y \in entries : ~Before(y, x),
   largest |-> CHOOSE x \in entries : \A y \in entries : ~Before(x, y)]

TotalFileSize(files) == MapThenSumSet(LAMBDA f : f.size, Range(files))

FilesOf(v) == UNION {Range(v[l]) : l \in DOMAIN v}
EmptyVersion == [l \in Levels |-> <<>>]

---------------------------------------------------------------------------
(* Searching a version *)

\* Index of the first file whose largest key is not before ikey, by binary
\* search; one past the end when there is none.
FindFile(files, ikey) ==
  LET ends == 1..(Len(files) + 1)
      search[p \in ends \X ends] ==      \* between p[1] and p[2]
        LET mid == (p[1] + p[2]) \div 2
        IN  IF p[1] >= p[2] THEN p[2]
            ELSE IF Before(files[mid].largest, ikey) THEN search[<<mid + 1, p[2]>>]
            ELSE search[<<p[1], mid>>]
  IN  search[<<1, Len(files) + 1>>]

CoversUserKey(f, k) == UserKey(f.smallest) <= k /\ k <= UserKey(f.largest)

\* The files of one level that a look-up of user key k opens, in order.
FilesToSearch(v, level, ikey) ==
  LET k == UserKey(ikey)
      files == v[level]
  IN  IF level = 0
      THEN InOrder({f \in Range(files) : CoversUserKey(f, k)},
                   LAMBDA f, g : f.number > g.number)
      ELSE LET i == FindFile(files, ikey)
           IN  IF i > Len(files) \/ k < UserKey(files[i].smallest) THEN <<>>
               ELSE <<files[i]>>

\* All files a look-up may open, in the order Version::Get opens them.
SearchOrder(v, ikey) ==
  LET above[l \in 0..NumLevels] ==
        IF l = 0 THEN <<>> ELSE above[l - 1] \o FilesToSearch(v, l - 1, ikey)
  IN  above[NumLevels]

\* What a search for ikey finds of its user key, as a set of at most one: the
\* first entry not before it.
Seek(entries, ikey) ==
  LET S == {e \in entries : UserKey(e) = UserKey(ikey) /\ ~Before(e, ikey)}
  IN  {e \in S : \A x \in S : Sequence(x) <= Sequence(e)}

\* What a reader is told of what was found: the sequence number stands for the
\* value, and there is none of a deletion.
Answer(found) == {Sequence(e) : e \in {x \in found : Type(x) = Value}}

\* Version::Get over the tables: the first of these files that has the key decides.
GetFromVersion(v, tables, ikey) ==
  LET has(f) == Seek(tables[f.number], ikey) # {}
      found == SelectSeq(SearchOrder(v, ikey), has)
  IN  IF found = <<>> THEN {} ELSE Seek(tables[Head(found).number], ikey)

\* The file charged by a look-up or a sampled read that concerns several
\* (UpdateStats, RecordReadSample): the first of them, with the level that was
\* searched when it was met.
SeekCharge(v, ikey) ==
  LET order == SearchOrder(v, ikey)
      searched == {l \in Levels : FilesToSearch(v, l, ikey) # <<>>}
  IN  IF Len(order) < 2 THEN None ELSE [file |-> order[1], level |-> Min(searched)]

---------------------------------------------------------------------------
(* Overlap; a bound NoKey is open *)

AfterFile(k, f) == k # NoKey /\ k > UserKey(f.largest)
BeforeFile(k, f) == k # NoKey /\ k < UserKey(f.smallest)
Overlaps(f, begin, end) == ~AfterFile(begin, f) /\ ~BeforeFile(end, f)

SomeFileOverlapsRange(files, disjoint, begin, end) ==
  IF ~disjoint THEN \E f \in Range(files) : Overlaps(f, begin, end)
  ELSE LET i == IF begin = NoKey THEN 1
                ELSE FindFile(files, LookupKey(begin, MaxSequence))
       IN  i <= Len(files) /\ ~BeforeFile(end, files[i])

OverlapInLevel(v, level, begin, end) ==
  SomeFileOverlapsRange(v[level], level > 0, begin, end)

\* Level 0 restarts with the wider range each time a file reaches beyond it.
GetOverlappingInputs(v, level, begin, end) ==
  LET hit(b, e) == Only(v[level], {f \in Range(v[level]) : Overlaps(f, b, e)})
      lower(b, S) == IF b = NoKey THEN NoKey
                     ELSE Min({b} \cup {UserKey(f.smallest) : f \in S})
      upper(e, S) == IF e = NoKey THEN NoKey
                     ELSE Max({e} \cup {UserKey(f.largest) : f \in S})
      range[n \in 0..Len(v[level])] ==
        IF n = 0 THEN <<begin, end>>
        ELSE LET r == range[n - 1]
                 S == Range(hit(r[1], r[2]))
             IN  <<lower(r[1], S), upper(r[2], S)>>
      final == IF level = 0 THEN range[Len(v[0])] ELSE <<begin, end>>
  IN  hit(final[1], final[2])

\* Mutant: only the grandparents are looked at.
PickLevelByGrandParents(v, smallest, largest) ==
  LET free(l) == l + 1 < NumLevels =>
        TotalFileSize(GetOverlappingInputs(v, l + 1, smallest, largest)) <= GrandParentLimit
  IN  IF OverlapInLevel(v, 0, smallest, largest) THEN 0
      ELSE Max({l \in 0..MaxMemLevel : \A m \in 1..l : free(m)})

PickLevelForMemTableOutput(v, smallest, largest) ==
  LET free(l) == /\ ~OverlapInLevel(v, l, smallest, largest)
                 /\ \/ l + 1 >= NumLevels
                    \/ TotalFileSize(GetOverlappingInputs(v, l + 1, smallest, largest))
                         <= GrandParentLimit
  IN  IF OverlapInLevel(v, 0, smallest, largest) THEN 0
      ELSE Max({l \in 0..MaxMemLevel : \A m \in 1..l : free(m)})

---------------------------------------------------------------------------
(* Edits *)

\* deleted and added are sets of <<level, file>>; the other fields are
\* those of VersionEdit.
DeletedAt(edit, l) == {d[2].number : d \in {x \in edit.deleted : x[1] = l}}
AddedAt(edit, l) == {a[2] : a \in {x \in edit.added : x[1] = l}}

BySmallestKey(f, g) ==
  Before(f.smallest, g.smallest) \/ (f.smallest = g.smallest /\ f.number < g.number)

\* VersionSet::Builder: Apply then SaveTo.  A file that an edit adds again
\* is not deleted by it.
SaveTo(v, edit) ==
  [l \in Levels |->
     LET added == AddedAt(edit, l)
         gone == DeletedAt(edit, l) \ {f.number : f \in added}
         kept == {f \in Range(v[l]) : f.number \notin gone} \cup added
     IN  InOrder(kept, BySmallestKey)]

\* Finalize: the level most in need of a compaction, the lowest on a tie.
\* Scores are compared as fractions.
ScoreOver(v, l) == IF l = 0 THEN Len(v[0]) ELSE TotalFileSize(v[l])
ScoreUnder(l) == IF l = 0 THEN L0Trigger ELSE BytesForLevel[l]
CompactionLevel(v) ==
  CHOOSE l \in 0..(NumLevels - 2) : \A m \in 0..(NumLevels - 2) :
    LET x == ScoreOver(v, l) * ScoreUnder(m)
        y == ScoreOver(v, m) * ScoreUnder(l)
    IN  x > y \/ (x = y /\ l <= m)
SizeCompaction(v) ==
  ScoreOver(v, CompactionLevel(v)) >= ScoreUnder(CompactionLevel(v))

---------------------------------------------------------------------------
(* Choosing a compaction *)

GetRange(files) ==
  [smallest |-> CHOOSE x \in {f.smallest : f \in files} :
                  \A f \in files : ~Before(f.smallest, x),
   largest |-> CHOOSE x \in {f.largest : f \in files} :
                 \A f \in files : ~Before(x, f.largest)]

\* The next file of the level that begins with the user key the largest ends with.
FindSmallestBoundaryFile(files, largest) ==
  LET S == {f \in Range(files) : /\ Before(largest, f.smallest)
                                 /\ UserKey(f.smallest) = UserKey(largest)}
  IN  IF S = {} THEN None
      ELSE CHOOSE f \in S : \A g \in S : ~Before(g.smallest, f.smallest)

\* Mutant: no boundary files.
AddNoInputs(files, inputs) == inputs

AddBoundaryInputs(files, inputs) ==
  LET grown[n \in 0..Len(files)] ==
        IF n = 0 THEN [in |-> inputs, key |-> GetRange(Range(inputs)).largest]
        ELSE LET f == FindSmallestBoundaryFile(files, grown[n - 1].key)
             IN  IF f = None THEN grown[n - 1]
                 ELSE [in |-> Append(grown[n - 1].in, f), key |-> f.largest]
  IN  IF inputs = <<>> THEN inputs ELSE grown[Len(files)].in

Over(v, level, r) ==
  GetOverlappingInputs(v, level, UserKey(r.smallest), UserKey(r.largest))

\* More files of the level, when they come at no cost in the next.
Widened(v, level, in0, in1, wide0) ==
  LET wide1 == Over(v, level + 1, GetRange(Range(wide0)))
  IN  IF /\ in1 # <<>>
         /\ Len(wide0) > Len(in0)
         /\ TotalFileSize(in1) + TotalFileSize(wide0) < ExpandLimit
         /\ Len(wide1) = Len(in1)
      THEN <<wide0, wide1>> ELSE <<in0, in1>>

Compaction(v, level, in0, in1) ==
  LET range == GetRange(Range(in0) \cup Range(in1))
  IN  [level |-> level, in0 |-> in0, in1 |-> in1,
       pointer |-> GetRange(Range(in0)).largest,
       grandparents |-> IF level + 2 < NumLevels THEN Over(v, level + 2, range)
                        ELSE <<>>]

\* SetupOtherInputs: the files of the next level, perhaps more of this one,
\* and the grandparents.
SetupOtherInputs(v, level, inputs) ==
  LET in0 == AddBoundaryInputs(v[level], inputs)
      in1 == Over(v, level + 1, GetRange(Range(in0)))
      all == GetRange(Range(in0) \cup Range(in1))
      use == Widened(v, level, in0, in1, AddBoundaryInputs(v[level], Over(v, level, all)))
  IN  Compaction(v, level, use[1], use[2])


\* PickCompaction: by size from the first file past the pointer, wrapping
\* around, or else the file that look-ups were charged for.
PickCompaction(v, pointers, seek) ==
  LET level == IF SizeCompaction(v) THEN CompactionLevel(v) ELSE seek.level
      past == {i \in DOMAIN v[level] :
                 \/ pointers[level] = NoEntry
                 \/ Before(pointers[level], v[level][i].largest)}
      first == IF ~SizeCompaction(v) THEN seek.file
               ELSE IF past = {} THEN v[level][1] ELSE v[level][Min(past)]
  IN  SetupOtherInputs(v, level,
        IF level = 0 THEN Over(v, 0, GetRange({first})) ELSE <<first>>)

\* CompactRange: above level 0 the inputs stop once they are large enough.
CompactRange(v, level, begin, end) ==
  LET files == GetOverlappingInputs(v, level, begin, end)
      large == {i \in DOMAIN files :
                  TotalFileSize(SubSeq(files, 1, i)) >= MaxFileSize}
      inputs == IF level = 0 \/ large = {} THEN files
                ELSE SubSeq(files, 1, Min(large))
  IN  IF files = <<>> THEN None ELSE SetupOtherInputs(v, level, inputs)

IsTrivialMove(c) ==
  Len(c.in0) = 1 /\ c.in1 = <<>> /\ TotalFileSize(c.grandparents) <= GrandParentLimit

InputFiles(c) == {<<c.level, f>> : f \in Range(c.in0)}
                 \cup {<<c.level + 1, f>> : f \in Range(c.in1)}

---------------------------------------------------------------------------
(* What a compaction writes *)

IsBaseLevelForKey(v, c, k) ==
  \A l \in (c.level + 2)..(NumLevels - 1) :
    \A f \in Range(v[l]) : ~CoversUserKey(f, k)

\* Mutant: an entry under a newer one is dropped whatever snapshots need.
DroppedUnderSnapshot(v, c, entries, oldest, e) ==
  \/ \E x \in entries : UserKey(x) = UserKey(e) /\ Before(x, e)
  \/ /\ Type(e) = Deletion /\ Sequence(e) <= oldest
     /\ IsBaseLevelForKey(v, c, UserKey(e))

\* DoCompactionWork drops an entry hidden from every snapshot by a newer one
\* of the same user key, and a deletion nothing below it needs.
Dropped(v, c, entries, oldest, e) ==
  \/ \E x \in entries : /\ UserKey(x) = UserKey(e)
                        /\ Before(x, e)
                        /\ Sequence(x) <= oldest
  \/ /\ Type(e) = Deletion
     /\ Sequence(e) <= oldest
     /\ IsBaseLevelForKey(v, c, UserKey(e))

Kept(v, c, entries, oldest) == {e \in entries : ~Dropped(v, c, entries, oldest, e)}

\* The sets of entries of the output files, in order.  A file is finished at
\* MaxFileSize, or by ShouldStopBefore: grandparents wholly before a key are
\* counted once the first key has been seen, and too many end the output.
Outputs(c, entries, kept) ==
  LET keys == Sorted(entries)
      passed(i, from) ==
        {f \in Range(c.grandparents) : /\ Before(f.largest, keys[i])
                                       /\ ~Before(f.largest, keys[from])}
      add(s, e) ==
        IF e \notin kept THEN s
        ELSE LET files == IF s.open
                          THEN ReplaceAt(s.files, Len(s.files), Last(s.files) \cup {e})
                          ELSE Append(s.files, {e})
             IN  [s EXCEPT !.files = files,
                           !.open = Cardinality(Last(files)) < MaxFileSize]
      step[i \in 0..Len(keys)] ==
        IF i = 0 THEN [files |-> <<>>, open |-> FALSE, from |-> 1]
        ELSE LET s == step[i - 1]
                 stop == MapThenSumSet(LAMBDA f : f.size, passed(i, s.from))
                           > GrandParentLimit
             IN  add(IF stop THEN [s EXCEPT !.open = FALSE, !.from = i] ELSE s,
                     keys[i])
  IN  step[Len(keys)].files

===========================================================================
