------------------------------ MODULE MatchLog ------------------------------
(***************************************************************************)
(* RecordedMatch (crates/match-log/src/record.rs): the authoritative state *)
(* of a match and the transcript it appends to, over a writer any write or *)
(* flush of which may fail.  One write is one step, so the process can     *)
(* stop between any two; the file is created fresh and never resumed, so   *)
(* what a stop leaves behind is a question about Survivors, not an action. *)
(***************************************************************************)
EXTENDS Transcript

CONSTANTS
  Engine,    \* the transition function apply
  MaxSteps   \* bound: actions submitted to an active recording

ASSUME EngineAssumption == Engine \in Engines
ASSUME MaxStepsAssumption == MaxSteps \in Nat

VARIABLES
  state, next_sequence, next_step, total_events, lifecycle,  \* RecordedMatch
  pc,        \* the call in progress, or "idle"
  action,    \* the action being submitted
  result,    \* what the engine made of it
  batch,     \* the records prepared for the writer
  written,   \* how many of them it has taken
  lines,     \* every line the writer has taken
  flushed,   \* how many of those the last successful flush covers
  answers,   \* the results submit has returned
  reader     \* a reader of every line the writer has taken

match == <<state, next_sequence, next_step, total_events, lifecycle>>
call == <<pc, action, result, batch, written>>
file == <<lines, reader>>
vars == <<match, call, file, flushed, answers>>

Stopped == {"MatchCompleted", "GameBroken", "InvalidTerminalEvents", "RecordingFailed",
            "GameAlreadyEnded"}
Lifecycle == {"Unstarted", "Active"} \cup Stopped

StartBatch == <<HeaderRecord, MatchCreatedRecord(state)>>

\* Faulty variants: the events are written last first; the completion is
\* numbered as if an event were missing.
AcceptedBatchReversed(seq, step, events, digest) ==
  [i \in 1 .. Len(events) + 1 |->
     IF i <= Len(events)
       THEN EventRecord(seq + i - 1, step, i - 1, events[Len(events) + 1 - i])
       ELSE StepCompletedRecord(seq + Len(events), step, Len(events), digest)]
AcceptedBatchMisnumbered(seq, step, events, digest) ==
  [i \in 1 .. Len(events) + 1 |->
     IF i <= Len(events)
       THEN EventRecord(seq + i - 1, step, i - 1, events[i])
       ELSE StepCompletedRecord(seq + Len(events) - 1, step, Len(events), digest)]

AcceptedBatch(seq, step, events, digest) ==
  [i \in 1 .. Len(events) + 1 |->
     IF i <= Len(events)
       THEN EventRecord(seq + i - 1, step, i - 1, events[i])
       ELSE StepCompletedRecord(seq + Len(events), step, Len(events), digest)]

CompletionBatch(seq, steps, events, s) ==
  <<FinalStateRecord(seq, s),
    MatchCompletedRecord(seq + 1, steps, events, DigestOf[s], StatusOf[s])>>

-----------------------------------------------------------------------------
\* ensure_active.
MaySubmit == lifecycle = "Active"

\* The writer's flush covers all it took.  Faulty variant: it is not called.
Unflushed == flushed' = flushed
Flushed == flushed' = Len(lines)

\* The events a completion reports.  Faulty variant: those of the last step.
LastEventsOnly(total, events) == Len(events)
Counted(total, events) == total + Len(events)

Init ==
  /\ state \in GameState
  /\ next_sequence = 0 /\ next_step = 1 /\ total_events = 0
  /\ lifecycle = "Unstarted"
  /\ pc = "new" /\ action = NoAction /\ result = [accepted |-> TRUE]
  /\ batch = <<>> /\ written = 0
  /\ lines = <<>> /\ flushed = 0 /\ answers = <<>>
  /\ reader = NewReader

\* RecordedMatch::start refuses a match that is over before it writes.
RefuseStart ==
  /\ pc = "new" /\ StatusOf[state] # Playing
  /\ lifecycle' = IF StatusOf[state] = Broken THEN "GameBroken" ELSE "GameAlreadyEnded"
  /\ pc' = "over"
  /\ UNCHANGED <<state, next_sequence, next_step, total_events, action, result, batch, written,
                 file, flushed, answers>>

Start ==
  /\ pc = "new" /\ StatusOf[state] = Playing
  /\ pc' = "starting" /\ batch' = StartBatch /\ written' = 0
  /\ UNCHANGED <<match, action, result, file, flushed, answers>>

Submit(a) ==
  /\ pc = "idle" /\ MaySubmit /\ next_step <= MaxSteps
  /\ pc' = "acting" /\ action' = a
  /\ batch' = <<ActionRecord(next_sequence, next_step, a)>> /\ written' = 0
  /\ UNCHANGED <<match, result, file, flushed, answers>>

Writing == pc \in {"starting", "acting", "accepting", "rejecting", "completing"}
InBatch == Writing /\ written < Len(batch)

Write ==
  /\ InBatch
  /\ lines' = Append(lines, batch[written + 1])
  /\ reader' = Advance(reader, batch[written + 1])
  /\ written' = written + 1
  /\ next_sequence' = next_sequence + 1
  /\ UNCHANGED <<state, next_step, total_events, lifecycle, pc, action, result, batch,
                 flushed, answers>>

\* A call that ends without an answer: its caller gets the error.  A start
\* that fails hands out no recording at all.
Fail(reason) ==
  /\ lifecycle' = IF pc = "starting" THEN lifecycle ELSE reason
  /\ pc' = IF pc = "starting" THEN "over" ELSE "idle"

\* A write that fails has left nothing, a torn line or all but the newline.
WriteFails ==
  /\ InBatch
  /\ \/ UNCHANGED file
     \/ \E left \in {TornLine, batch[written + 1]} :
          lines' = Append(lines, left) /\ reader' = Advance(reader, left)
  /\ Fail("RecordingFailed")
  /\ UNCHANGED <<state, next_sequence, next_step, total_events, action, result, batch, written,
                 flushed, answers>>

\* The record of the action is out: the engine runs.
Apply ==
  /\ pc = "acting" /\ ~InBatch
  /\ next_step' = next_step + 1
  /\ written' = 0
  /\ LET r == Engine[state, action] IN
       /\ result' = r
       /\ IF r.accepted
            THEN /\ state' = r.state
                 /\ batch' = AcceptedBatch(next_sequence, next_step, r.events, DigestOf[r.state])
                 /\ pc' = "accepting"
            ELSE /\ UNCHANGED state
                 /\ batch' = <<StepRejectedRecord(next_sequence, next_step, r.error,
                                                  DigestOf[state])>>
                 /\ pc' = "rejecting"
  /\ UNCHANGED <<next_sequence, total_events, lifecycle, action, file, flushed, answers>>

AtCheckpoint == Writing /\ pc # "acting" /\ ~InBatch

FlushFails ==
  /\ AtCheckpoint
  /\ Fail("RecordingFailed")
  /\ UNCHANGED <<state, next_sequence, next_step, total_events, action, result, batch, written,
                 file, flushed, answers>>

StartFlushed ==
  /\ AtCheckpoint /\ pc = "starting"
  /\ Flushed
  /\ lifecycle' = "Active" /\ pc' = "idle"
  /\ UNCHANGED <<state, next_sequence, next_step, total_events, action, result, batch, written,
                 file, answers>>

Answer(step) == answers' = Append(answers, step)

\* check_terminal_events: may the match go on, is it over, or do its status
\* and its GameEnded events disagree?
TerminalEventsAgree(s, events) ==
  \/ StatusOf[s] = Broken
  \/ StatusOf[s] = Playing /\ NoGameEnded(events)
  \/ StatusOf[s] \in Outcome /\ OneGameEnded(events, StatusOf[s])

\* A step is flushed, counted and checked; a match it ended is completed
\* before the call is answered.
AcceptedFlushed ==
  /\ AtCheckpoint /\ pc = "accepting"
  /\ Flushed
  /\ total_events' = Counted(total_events, result.events)
  /\ LET status == StatusOf[state]
         agree == TerminalEventsAgree(state, result.events) IN
       /\ IF agree /\ status \in Outcome
            THEN /\ pc' = "completing" /\ written' = 0
                 /\ batch' = CompletionBatch(next_sequence, next_step - 1, total_events', state)
                 /\ UNCHANGED lifecycle
            ELSE /\ pc' = "idle"
                 /\ lifecycle' = IF ~agree THEN "InvalidTerminalEvents"
                                 ELSE IF status = Broken THEN "GameBroken" ELSE "Active"
                 /\ UNCHANGED <<batch, written>>
       /\ IF agree /\ status = Playing
            THEN Answer(AcceptedStep(action, result.events, DigestOf[state]))
            ELSE UNCHANGED answers
  /\ UNCHANGED <<state, next_sequence, next_step, action, result, file>>

RejectedFlushed ==
  /\ AtCheckpoint /\ pc = "rejecting"
  /\ Flushed /\ pc' = "idle"
  /\ Answer(RejectedStep(action, result.error, DigestOf[state]))
  /\ UNCHANGED <<match, action, result, batch, written, file>>

CompletionFlushed ==
  /\ AtCheckpoint /\ pc = "completing"
  /\ Flushed /\ pc' = "idle" /\ lifecycle' = "MatchCompleted"
  /\ Answer(AcceptedStep(action, result.events, DigestOf[state]))
  /\ UNCHANGED <<state, next_sequence, next_step, total_events, action, result, batch, written,
                 file>>

Next ==
  \/ RefuseStart \/ Start \/ StartFlushed
  \/ \E a \in GameAction : Submit(a)
  \/ Write \/ WriteFails \/ FlushFails
  \/ Apply
  \/ AcceptedFlushed \/ RejectedFlushed \/ CompletionFlushed

Spec == Init /\ [][Next]_vars

-----------------------------------------------------------------------------
(* What is promised of the recording and of what it leaves behind.         *)

\* The variables hold what their names say.
TypeOK ==
  /\ state \in GameState /\ lifecycle \in Lifecycle
  /\ next_sequence \in Nat /\ next_step \in Nat /\ total_events \in Nat
  /\ pc \in {"new", "starting", "idle", "acting", "accepting", "rejecting", "completing", "over"}
  /\ action \in GameAction \cup {NoAction}
  /\ written \in 0 .. Len(batch) /\ flushed \in 0 .. Len(lines)
  /\ reader.phase \in Phase

\* The strict parser never takes offence at a line the recorder wrote: at any
\* moment, whatever failed before, it has read them all or has met a torn
\* last one.  (record.rs:291 numbers a step's records ahead of writing them;
\* parse.rs:305.)  A step with two GameEnded events, which record.rs:252
\* refuses only after it is written, is the one exception.
NeverMisread ==
  reader.phase = "Refused" => result.accepted /\ MultipleGameEnded(result.events)

\* Between calls an active recording and its transcript agree: the state, the
\* numbers of the next line and step, the count of events, and all of it is
\* flushed (record.rs:113, 151).
StateMatchesLog ==
  pc = "idle" /\ lifecycle = "Active" =>
    /\ reader.phase = "Ready" /\ reader.digest = DigestOf[state]
    /\ reader.next_step = next_step /\ reader.event_count = total_events
    /\ reader.position = next_sequence
    /\ flushed = Len(lines) /\ Len(lines) = next_sequence

\* What a reader may find after the process stopped: every line a flush
\* covered, then any number of the later ones, the next perhaps cut off.
Survivors ==
  {SubSeq(lines, 1, k) : k \in flushed .. Len(lines)}
    \cup {Append(SubSeq(lines, 1, k), TornLine) : k \in flushed .. Len(lines) - 1}

\* A completed recording leaves a transcript that verifies, and nothing short
\* of the whole recording of a match that ended is ever a transcript: no
\* failed write, flush, inconsistent ending or stop leaves a false completion
\* (record.rs:165, 236).
OnlyCompletedVerifies ==
  /\ \A f \in Survivors : IsTranscript(f) =>
       f = lines /\ StatusOf[state] \in Outcome /\ Verifies(Engine, f)
  /\ lifecycle = "MatchCompleted" => \A f \in Survivors : IsTranscript(f)

\* A list of steps begins with these.
BeginsWith(steps, first) ==
  Len(first) <= Len(steps) /\ \A i \in 1 .. Len(first) : steps[i] = first[i]

\* Every result submit answered with is in the transcript for good, in order
\* and complete, wherever the process stops (record.rs:125, 160; CONTEXT.md:443,
\* "Each result is flushed as one durable checkpoint").
AnswersSurvive ==
  \A f \in Survivors : BeginsWith(Parse(f).steps, answers)

\* The steps of any surviving prefix replay through the same engine to the
\* state its last digest names (replay.rs:417).
SurvivorsReplay ==
  \A f \in Survivors : LET r == Parse(f) IN
    r.initial # {} => \E s \in GameState :
      Replay(Engine, r).reached = {s} /\ DigestOf[s] = r.digest

\* Together: whatever the process leaves behind when it stops says what happened
\* and no more.
SurvivorsAreHonest == OnlyCompletedVerifies /\ AnswersSurvive /\ SurvivorsReplay

\* The transitions the answered steps of a match take, in order, from s.
Transitions(s, steps) ==
  LET visited[k \in 0 .. Len(steps)] ==
        IF k = 0 THEN s
        ELSE IF steps[k].accepted THEN Engine[visited[k - 1], steps[k].action].state
        ELSE visited[k - 1]
  IN [k \in 1 .. Len(steps) |-> <<visited[k - 1], steps[k].action>>]

\* Replaying a completed transcript through another engine succeeds exactly
\* when that engine makes every transition the match took, event for event
\* (replay.rs:483, verify_accepted_step and verify_rejected_step).
VerifiesOnlyThisMatch(other) ==
  lifecycle = "MatchCompleted" =>
    \E s \in reader.initial :
      LET taken == Transitions(s, reader.steps) IN
      Verifies(other, lines) <=> \A k \in DOMAIN taken : other[taken[k]] = Engine[taken[k]]

\* A recording that has stopped neither writes nor plays again (record.rs:187, 222).
FailClosed == [][(lifecycle \in Stopped) => UNCHANGED <<match, lines>>]_vars

\* What the written lines say is a journal of whole engine steps, sealed only
\* for a match that ended: the recorder implements it line by line.
J == INSTANCE Journal WITH steps <- reader.steps, digest <- reader.digest,
                           sealed <- (reader.phase = "Complete")
KeepsAJournal == J!JournalSpec
=============================================================================
