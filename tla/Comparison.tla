----------------------------- MODULE Comparison -----------------------------
(***************************************************************************)
(* Semantic comparison of two transcripts (crates/match-log/src/compare.rs)*)
(* as a pure function.  A parsed transcript keeps every record, so it is   *)
(* given here as its lines beside the open metadata of its header.         *)
(***************************************************************************)
EXTENDS Transcript
LOCAL INSTANCE FiniteSetsExt

Equal == [equal |-> TRUE]

\* Where a record stands: the step and the event it belongs to, and its path.
StepRecords == {"action", "event", "step_completed", "step_rejected"}

StepOf(line) == IF line.record \in StepRecords THEN {line.step} ELSE {}
EventIndexOf(line) == IF line.record = "event" THEN {line.index} ELSE {}

PathOf(line) ==
  CASE line.record = "action" -> <<"steps", line.step - 1, "action">>
    [] line.record = "event" -> <<"steps", line.step - 1, "events", line.index>>
    [] line.record = "step_completed" -> <<"steps", line.step - 1, "completion">>
    [] line.record = "step_rejected" -> <<"steps", line.step - 1, "rejection">>
    [] OTHER -> <<line.record>>

\* The value compared: the metadata of a header counts only on request.
Value(transcript, i, with_metadata) ==
  LET line == transcript.lines[i] IN
  IF line.record = "header" /\ with_metadata
  THEN [record |-> line.record, sequence |-> line.sequence, metadata |-> transcript.metadata]
  ELSE line

-----------------------------------------------------------------------------
\* The fields of the records, each record's in the order it declares them.
FieldOrder ==
  <<"sequence", "record", "metadata", "step", "action", "index", "event", "step_count",
    "event_count", "error", "initial_state", "final_state", "state_digest", "outcome">>

\* The first field in which two records differ, those of the expected one
\* first; "none" if they are equal.
FirstFieldDifference(expected, actual) ==
  LET differs(i) ==
        /\ FieldOrder[i] \in DOMAIN expected
        /\ FieldOrder[i] \in DOMAIN actual => expected[FieldOrder[i]] # actual[FieldOrder[i]]
      differing == {i \in DOMAIN FieldOrder : differs(i)}
      extra == {i \in DOMAIN FieldOrder :
                  FieldOrder[i] \in DOMAIN actual \ DOMAIN expected}
  IN IF differing # {} THEN FieldOrder[Min(differing)]
     ELSE IF extra # {} THEN FieldOrder[Min(extra)] ELSE "none"

\* record_difference: placed by the expected record, else by the actual one.
Difference(expected, actual, path) ==
  [equal |-> FALSE,
   sequence |-> Min({expected.sequence, actual.sequence}),
   step |-> IF StepOf(expected) # {} THEN StepOf(expected) ELSE StepOf(actual),
   event_index |-> IF EventIndexOf(expected) # {} THEN EventIndexOf(expected)
                   ELSE EventIndexOf(actual),
   path |-> path]

(***************************************************************************)
(* compare_parsed_transcripts: the first record in which two transcripts   *)
(* differ, or the first one that only the longer has.  Two whole           *)
(* transcripts always differ in a record both have: nothing can follow the *)
(* completion record, and no other record can stand in its place.          *)
(***************************************************************************)
Compare(expected, actual, with_metadata) ==
  LET e == expected.lines
      a == actual.lines
      common == Min({Len(e), Len(a)})
      field(i) == FirstFieldDifference(Value(expected, i, with_metadata),
                                       Value(actual, i, with_metadata))
      parted == {i \in 1 .. common : field(i) # "none"}
      context == IF Len(e) > common THEN e[common + 1] ELSE a[common + 1]
  IN IF parted # {}
     THEN LET i == Min(parted) IN Difference(e[i], a[i], Append(PathOf(e[i]), field(i)))
     ELSE IF Len(e) = Len(a) THEN Equal
     ELSE Difference(context, context, PathOf(context))
=============================================================================
