------------------------------ MODULE VersionEdit ------------------------------
(* An edit as a record of the manifest: fields with a tag each, read back in  *)
(* any order (db/version_edit.cc). An edit is                                 *)
(*   [comparator, log_number, prev_log_number, next_file_number,              *)
(*    last_sequence, compact_pointers, deleted_files, new_files].             *)
EXTENDS Coding

CONSTANTS kNumLevels, Absent

Tag == [comparator |-> 1, log_number |-> 2, next_file_number |-> 3, last_sequence |-> 4,
        compact_pointer |-> 5, deleted_file |-> 6, new_file |-> 7, prev_log_number |-> 9]

Clear == [comparator |-> Absent, log_number |-> Absent, prev_log_number |-> Absent,
          next_file_number |-> Absent, last_sequence |-> Absent,
          compact_pointers |-> <<>>, deleted_files |-> {}, new_files |-> <<>>]

(******************************************************************************)
(* Writing                                                                    *)
(******************************************************************************)
Flat(n, F(_)) == LET all[i \in 0 .. n] == IF i = 0 THEN <<>> ELSE all[i - 1] \o F(i) IN all[n]

NumberField(edit, field) ==
  IF edit[field] = Absent THEN <<>> ELSE EncodeVarint32(Tag[field]) \o EncodeVarint64(edit[field])

\* std::set keeps the deleted files in the order of level and number.
InOrder(deleted) ==
  CHOOSE s \in [1 .. Cardinality(deleted) -> deleted] :
    \A i, j \in DOMAIN s : i < j => s[i][1] < s[j][1] \/ (s[i][1] = s[j][1] /\ s[i][2] < s[j][2])

EncodeTo(edit) ==
  LET Pointer(i) == LET p == edit.compact_pointers[i]
                    IN  EncodeVarint32(Tag.compact_pointer) \o EncodeVarint32(p[1])
                          \o PutLengthPrefixedSlice(p[2])
      gone == InOrder(edit.deleted_files)
      Deleted(i) == EncodeVarint32(Tag.deleted_file) \o EncodeVarint32(gone[i][1])
                      \o EncodeVarint64(gone[i][2])
      New(i) == LET f == edit.new_files[i]
                IN  EncodeVarint32(Tag.new_file) \o EncodeVarint32(f.level)
                      \o EncodeVarint64(f.number) \o EncodeVarint64(f.size)
                      \o PutLengthPrefixedSlice(f.smallest) \o PutLengthPrefixedSlice(f.largest)
  IN  (IF edit.comparator = Absent THEN <<>>
       ELSE EncodeVarint32(Tag.comparator) \o PutLengthPrefixedSlice(edit.comparator))
        \o NumberField(edit, "log_number") \o NumberField(edit, "prev_log_number")
        \o NumberField(edit, "next_file_number") \o NumberField(edit, "last_sequence")
        \o Flat(Len(edit.compact_pointers), Pointer) \o Flat(Len(gone), Deleted)
        \o Flat(Len(edit.new_files), New)

(******************************************************************************)
(* Reading: [msg, edit, rest], msg "" as long as nothing is wrong             *)
(******************************************************************************)
GetLevel(input) ==
  LET v == GetVarint32(input) IN IF v.ok /\ v.value < kNumLevels THEN v ELSE Failed(input)

\* The readers one after the other, and the values of all of them.
GetOne(reader, input) ==
  CASE reader = "level" -> GetLevel(input)
    [] reader = "number" -> GetVarint64(input)
    [] OTHER -> GetLengthPrefixedSlice(input)
ReadOne(before, got) ==
  IF before.ok /\ got.ok
  THEN [ok |-> TRUE, values |-> Append(before.values, got.value), rest |-> got.rest]
  ELSE [before EXCEPT !.ok = FALSE]
Read(input, readers) ==
  LET state[i \in 0 .. Len(readers)] ==
        IF i = 0 THEN [ok |-> TRUE, values |-> <<>>, rest |-> input]
        ELSE ReadOne(state[i - 1], GetOne(readers[i], state[i - 1].rest))
  IN  state[Len(readers)]

\* What follows a tag, what it is called when it is wrong, and what it changes.
FieldOf(tag) ==
  CASE tag = 1 -> [readers |-> <<"slice">>, msg |-> "comparator name"]
    [] tag = 2 -> [readers |-> <<"number">>, msg |-> "log number"]
    [] tag = 9 -> [readers |-> <<"number">>, msg |-> "previous log number"]
    [] tag = 3 -> [readers |-> <<"number">>, msg |-> "next file number"]
    [] tag = 4 -> [readers |-> <<"number">>, msg |-> "last sequence number"]
    [] tag = 5 -> [readers |-> <<"level", "slice">>, msg |-> "compaction pointer"]
    [] tag = 6 -> [readers |-> <<"level", "number">>, msg |-> "deleted file"]
    [] tag = 7 -> [readers |-> <<"level", "number", "number", "slice", "slice">>,
                   msg |-> "new-file entry"]
    [] OTHER -> [readers |-> <<>>, msg |-> "unknown tag"]

With(edit, tag, v) ==
  CASE tag = 1 -> [edit EXCEPT !.comparator = v[1]]
    [] tag = 2 -> [edit EXCEPT !.log_number = v[1]]
    [] tag = 9 -> [edit EXCEPT !.prev_log_number = v[1]]
    [] tag = 3 -> [edit EXCEPT !.next_file_number = v[1]]
    [] tag = 4 -> [edit EXCEPT !.last_sequence = v[1]]
    [] tag = 5 -> [edit EXCEPT !.compact_pointers = Append(@, v)]
    [] tag = 6 -> [edit EXCEPT !.deleted_files = @ \cup {v}]
    [] tag = 7 -> [edit EXCEPT !.new_files = Append(@,
                     [level |-> v[1], number |-> v[2], size |-> v[3], smallest |-> v[4],
                      largest |-> v[5]])]

\* One turn of the loop of DecodeFrom.
WithField(s, field, tag, read) ==
  IF ~read.ok THEN [s EXCEPT !.msg = field.msg, !.rest = read.rest]
  ELSE [s EXCEPT !.edit = With(@, tag, read.values), !.rest = read.rest]
StepWith(s, field, tag) ==
  IF field.readers = <<>> THEN [s EXCEPT !.msg = field.msg, !.rest = tag.rest]
  ELSE WithField(s, field, tag.value, Read(tag.rest, field.readers))
StepAt(s, tag) == IF ~tag.ok THEN s ELSE StepWith(s, FieldOf(tag.value), tag)
Step(s) == IF s.msg # "" THEN s ELSE StepAt(s, GetVarint32(s.rest))

AtEnd(last) ==
  IF last.msg = "" /\ last.rest # <<>> THEN [last EXCEPT !.msg = "invalid tag"] ELSE last
DecodeFrom(src) ==
  LET turns[i \in 0 .. Len(src)] ==
        IF i = 0 THEN [msg |-> "", edit |-> Clear, rest |-> src] ELSE Step(turns[i - 1])
  IN  AtEnd(turns[Len(src)])

(******************************************************************************)
(* Properties                                                                 *)
(******************************************************************************)
\* An edit is read back as it was written, and a record cut short is refused or
\* is an edit of the first fields: no field is taken for another.
EditReadsBack(edit) ==
  LET Refused(s, d) == d.msg = "" => EncodeTo(d.edit) = s
      Back(s, d) == d.msg = "" /\ d.edit = edit
  IN  \E s \in {EncodeTo(edit)} :
        \A n \in 0 .. Len(s) :
          \E d \in {DecodeFrom(SubSeq(s, 1, n))} :
            Refused(SubSeq(s, 1, n), d) /\ (n = Len(s) => Back(s, d))
===============================================================================
