--------------------------- MODULE MatchLogProofs ---------------------------
(***************************************************************************)
(* Proofs about the recorded match, for every engine, every set of states, *)
(* actions and events, and every length of match: the strict parser reads  *)
(* what the recorder writes, recording and transcript agree between calls, *)
(* the lines written amount to a journal of whole engine steps, what a     *)
(* stop leaves of them replays, holds every answer and is no false         *)
(* completion, and a whole transcript verifies under no engine that plays  *)
(* the match otherwise.                                                    *)
(***************************************************************************)
EXTENDS MatchLog, Recursion

Digest == StateDigest \cup {NoDigest}
Action == GameAction \cup {NoAction}

Step ==
  [action : Action, accepted : {TRUE}, events : Seq(GameEvent), digest : Digest]
    \cup [action : Action, accepted : {FALSE}, error : ActionError, digest : Digest]

Reader ==
  [phase : Phase, position : Nat, initial : SUBSET GameState, digest : Digest,
   next_step : Nat, event_count : Nat, steps : Seq(Step),
   action : Action, events : Seq(GameEvent), ended : SUBSET Outcome,
   final : SUBSET GameState]

IsSequence(s) == \E S : s \in Seq(S)

Types ==
  /\ state \in GameState /\ lifecycle \in Lifecycle
  /\ next_sequence \in Nat /\ next_step \in Nat /\ total_events \in Nat
  /\ pc \in {"new", "starting", "idle", "acting", "accepting", "rejecting", "completing", "over"}
  /\ action \in Action
  /\ written \in Nat /\ flushed \in Nat
  /\ IsSequence(lines) /\ Len(lines) \in Nat
  /\ reader \in Reader
  /\ pc \in {"acting", "accepting", "rejecting", "completing"} => action \in GameAction

-----------------------------------------------------------------------------
(* The call in progress, reader left out; base is the sequence number the  *)
(* first record of its batch was prepared with.                            *)

base == next_sequence - written

StartShape ==
  /\ lifecycle = "Unstarted" /\ StatusOf[state] = Playing
  /\ base = 0 /\ next_step = 1 /\ total_events = 0 /\ batch = StartBatch

ActShape ==
  /\ lifecycle = "Active" /\ StatusOf[state] = Playing
  /\ batch = <<ActionRecord(base, next_step, action)>>

AcceptShape ==
  /\ lifecycle = "Active"
  /\ result \in Result /\ result.accepted /\ state = result.state
  /\ batch = AcceptedBatch(base, next_step - 1, result.events, DigestOf[state])

RejectShape ==
  /\ lifecycle = "Active" /\ StatusOf[state] = Playing
  /\ result \in Result /\ ~result.accepted /\ Engine[state, action] = result
  /\ batch = <<StepRejectedRecord(base, next_step - 1, result.error, DigestOf[state])>>

CompleteShape ==
  /\ lifecycle = "Active" /\ StatusOf[state] \in Outcome
  /\ result \in Result /\ result.accepted /\ OneGameEnded(result.events, StatusOf[state])
  /\ batch = CompletionBatch(base, next_step - 1, total_events, state)

Shape ==
  /\ pc = "new" =>
       /\ lifecycle = "Unstarted" /\ next_sequence = 0 /\ next_step = 1 /\ total_events = 0
       /\ lines = <<>> /\ flushed = 0 /\ reader = NewReader
  /\ pc = "starting" => StartShape
  /\ pc = "acting" => ActShape
  /\ pc = "accepting" => AcceptShape
  /\ pc = "rejecting" => RejectShape
  /\ pc = "completing" => CompleteShape
  /\ Writing => Len(lines) = next_sequence /\ written <= Len(batch)
  /\ pc = "over" => lifecycle # "Active"
  /\ pc = "idle" => lifecycle # "Unstarted"
  /\ pc = "idle" /\ lifecycle = "Active" =>
       StatusOf[state] = Playing /\ Len(lines) = next_sequence /\ flushed = next_sequence

-----------------------------------------------------------------------------
(* How a reader r stands once it has read the first w records of the batch.*)

\* The reader has its place: it expects the line the recorder writes next.
Placed(r, seq) == r.position = seq /\ Len(r.steps) = r.next_step - 1

\* The engine was at a state with this digest when it gave the result.
TakenFrom(digest) ==
  \E s \in GameState : /\ DigestOf[s] = digest /\ StatusOf[s] = Playing
                       /\ Engine[s, action] = result

LastStepIsTheResult(r) ==
  r.steps # <<>> /\ r.steps[Len(r.steps)] = AcceptedStep(action, result.events, DigestOf[state])

Even(r) ==
  r.digest = DigestOf[state] /\ r.next_step = next_step /\ r.event_count = total_events

StartRead(r, w) ==
  /\ r.next_step = 1 /\ r.event_count = 0 /\ r.steps = <<>>
  /\ w = 0 => r.phase = "Header" /\ r.digest = NoDigest
  /\ w = 1 => r.phase = "MatchCreated" /\ r.digest = NoDigest
  /\ w = 2 => r.phase = "Ready" /\ r.digest = DigestOf[state]

ActionRead(r, w) ==
  /\ Even(r)
  /\ w = 0 => r.phase = "Ready"
  /\ w = 1 => r.phase = "Pending" /\ r.action = action /\ r.events = <<>> /\ r.ended = {}

EventsRead(r, w) ==
  /\ r.phase = "Pending" /\ r.action = action
  /\ r.next_step = next_step - 1 /\ r.event_count = total_events
  /\ r.events = [i \in 1 .. w |-> result.events[i]]
  /\ r.ended = {result.events[i] : i \in 1 .. w} \cap Outcome
  /\ TakenFrom(r.digest)

StepRead(r) ==
  /\ r.phase = IF r.ended = {} THEN "Ready" ELSE "Terminal"
  /\ r.next_step = next_step /\ r.event_count = total_events + Len(result.events)
  /\ r.digest = DigestOf[state]
  /\ r.ended = {result.events[i] : i \in 1 .. Len(result.events)} \cap Outcome
  /\ LastStepIsTheResult(r)

AcceptedRead(r, w) ==
  IF w <= Len(result.events) THEN EventsRead(r, w) ELSE StepRead(r)

RejectedRead(r, w) ==
  /\ r.digest = DigestOf[state] /\ r.event_count = total_events
  /\ w = 0 => /\ r.phase = "Pending" /\ r.action = action /\ r.events = <<>>
              /\ r.next_step = next_step - 1
  /\ w = 1 => r.phase = "Ready" /\ r.next_step = next_step

CompletionRead(r, w) ==
  /\ Even(r) /\ r.ended = {StatusOf[state]} /\ LastStepIsTheResult(r)
  /\ w = 0 => r.phase = "Terminal"
  /\ w = 1 => r.phase = "Final"
  /\ w = 2 => r.phase = "Complete"

Follows(r, w, seq) ==
  /\ Placed(r, seq)
  /\ pc = "starting" => StartRead(r, w)
  /\ pc = "acting" => ActionRead(r, w)
  /\ pc = "accepting" => AcceptedRead(r, w)
  /\ pc = "rejecting" => RejectedRead(r, w)
  /\ pc = "completing" => CompletionRead(r, w)

\* The step being written ends the match twice, and the reader has noticed.
Offended(r) ==
  /\ r.phase = "Refused"
  /\ result \in Result /\ result.accepted /\ MultipleGameEnded(result.events)

Reading ==
  /\ reader.phase = "Refused" => Offended(reader)
  /\ Writing => Follows(reader, written, next_sequence) \/ (pc = "accepting" /\ Offended(reader))
  /\ pc = "idle" /\ lifecycle = "Active" =>
       Placed(reader, next_sequence) /\ Even(reader) /\ reader.phase = "Ready"

IInv == Types /\ Shape /\ Reading

-----------------------------------------------------------------------------
(* What the reader does with each record, when it is where it should be.   *)

\* The line the recorder writes next, and the reader once it has read it.
NextLine == batch[written + 1]
ReaderAfter == Advance(reader, NextLine)

LEMMA StartLine ==
  ASSUME Types, Shape, Reading, InBatch, pc = "starting"
  PROVE  \/ /\ written = 0
            /\ ReaderAfter = [reader EXCEPT !.phase = "MatchCreated", !.position = @ + 1]
         \/ /\ written = 1
            /\ ReaderAfter = [reader EXCEPT !.phase = "Ready", !.initial = {state},
                                            !.digest = DigestOf[state], !.position = @ + 1]
<1>1. /\ batch = StartBatch /\ base = 0 /\ StatusOf[state] = Playing
      /\ written \in Nat /\ next_sequence \in Nat /\ reader \in Reader
  BY DEF Shape, StartShape, Types
<1>2. written \in 0 .. 1 /\ next_sequence = written
  BY <1>1 DEF StartBatch, InBatch, base
<1>3. reader.position = written /\ StartRead(reader, written)
  BY <1>2 DEF Reading, Writing, Follows, Placed
<1>4. CASE written = 0
  <2>1. NextLine = HeaderRecord /\ reader.phase = "Header"
    BY <1>1, <1>3, <1>4 DEF NextLine, StartBatch, StartRead
  <2> QED
    BY <1>1, <1>3, <1>4, <2>1 DEF ReaderAfter, Advance, Take, HeaderRecord, Reader
<1>5. CASE written = 1
  <2>1. NextLine = MatchCreatedRecord(state) /\ reader.phase = "MatchCreated"
    BY <1>1, <1>3, <1>5 DEF NextLine, StartBatch, StartRead
  <2> QED
    BY <1>1, <1>3, <1>5, <2>1
       DEF ReaderAfter, Advance, Take, MatchCreatedRecord, ReadMatchCreated, Reader
<1> QED
  BY <1>2, <1>4, <1>5

LEMMA ActionLine ==
  ASSUME Types, Shape, Reading, InBatch, pc = "acting"
  PROVE  /\ written = 0
         /\ ReaderAfter = [reader EXCEPT !.phase = "Pending", !.action = action, !.events = <<>>,
                                         !.ended = {}, !.position = @ + 1]
<1>1. batch = <<ActionRecord(base, next_step, action)>>
  BY DEF Shape, ActShape
<1>2. written = 0 /\ base = next_sequence
  BY <1>1 DEF Types, InBatch, base
<1>3. NextLine = ActionRecord(next_sequence, next_step, action)
  BY <1>1, <1>2 DEF NextLine
<1>4. reader.position = next_sequence /\ reader.phase = "Ready" /\ reader.next_step = next_step
  BY <1>2 DEF Reading, Writing, Follows, Placed, ActionRead, Even
<1> QED
  BY <1>2, <1>3, <1>4 DEF Types, ReaderAfter, Advance, Take, ActionRecord, ReadAction, Reader

LEMMA RejectionLine ==
  ASSUME Types, Shape, Reading, InBatch, pc = "rejecting"
  PROVE  /\ written = 0
         /\ ReaderAfter = [reader EXCEPT !.phase = "Ready", !.next_step = @ + 1,
                             !.steps = Append(@, RejectedStep(action, result.error,
                                                              DigestOf[state])),
                             !.position = @ + 1]
<1>1. batch = <<StepRejectedRecord(base, next_step - 1, result.error, DigestOf[state])>>
  BY DEF Shape, RejectShape
<1>2. written = 0 /\ base = next_sequence
  BY <1>1 DEF Types, InBatch, base
<1>3. NextLine = StepRejectedRecord(next_sequence, next_step - 1, result.error, DigestOf[state])
  BY <1>1, <1>2 DEF NextLine
<1>4. /\ reader.position = next_sequence /\ reader.phase = "Pending" /\ reader.action = action
      /\ reader.next_step = next_step - 1 /\ reader.events = <<>>
      /\ reader.digest = DigestOf[state]
  BY <1>2 DEF Reading, Writing, Follows, Placed, RejectedRead
<1> QED
  BY <1>2, <1>3, <1>4 DEF Types, ReaderAfter, Advance, Take, StepRejectedRecord, ReadStepRejected, Reader

NextEvent == result.events[written + 1]

LEMMA AcceptedLines ==
  ASSUME Types, Shape, InBatch, pc = "accepting"
  PROVE  /\ result.events \in Seq(GameEvent) /\ Len(result.events) \in Nat
         /\ written \in 0 .. Len(result.events)
         /\ written < Len(result.events) =>
              /\ NextLine = EventRecord(next_sequence, next_step - 1, written, NextEvent)
              /\ NextEvent \in GameEvent
         /\ written = Len(result.events) =>
              NextLine = StepCompletedRecord(next_sequence, next_step - 1, Len(result.events),
                                             DigestOf[state])
<1>1. /\ result \in Result /\ result.accepted
      /\ batch = AcceptedBatch(base, next_step - 1, result.events, DigestOf[state])
  BY DEF Shape, AcceptShape
<1>2. result.events \in Seq(GameEvent)
  BY <1>1 DEF Result
<1>3. Len(result.events) \in Nat /\ Len(batch) = Len(result.events) + 1
  BY <1>1, <1>2 DEF AcceptedBatch
<1>4. written \in 0 .. Len(result.events)
  BY <1>3 DEF Types, InBatch
<1>5. next_sequence \in Nat /\ next_sequence = base + written /\ base + (written + 1) - 1 = next_sequence
  BY <1>4 DEF Types, base
<1>6. ASSUME written < Len(result.events)
      PROVE  /\ NextLine = EventRecord(next_sequence, next_step - 1, written, NextEvent)
             /\ NextEvent \in GameEvent
  <2>1. written + 1 \in 1 .. Len(result.events) /\ (written + 1) - 1 = written
    BY <1>3, <1>4, <1>6
  <2>2. NextLine = EventRecord(base + (written + 1) - 1, next_step - 1, (written + 1) - 1, NextEvent)
    BY <1>1, <1>3, <2>1 DEF NextLine, NextEvent, AcceptedBatch
  <2> QED
    BY <1>2, <1>5, <2>1, <2>2 DEF NextEvent
<1>7. ASSUME written = Len(result.events)
      PROVE  NextLine = StepCompletedRecord(next_sequence, next_step - 1, Len(result.events),
                                            DigestOf[state])
  <2>1. written + 1 \in 1 .. Len(result.events) + 1 /\ ~(written + 1 <= Len(result.events))
    BY <1>3, <1>7
  <2>2. NextLine = StepCompletedRecord(base + Len(result.events), next_step - 1,
                                       Len(result.events), DigestOf[state])
    BY <1>1, <1>3, <2>1 DEF NextLine, AcceptedBatch
  <2> QED
    BY <1>5, <1>7, <2>2
<1> QED
  BY <1>2, <1>3, <1>4, <1>6, <1>7

LEMMA EventLine ==
  ASSUME Types, Shape, Reading, InBatch, pc = "accepting", reader.phase # "Refused",
         written < Len(result.events)
  PROVE  ReaderAfter =
           IF NextEvent \in Outcome /\ reader.ended # {}
             THEN [reader EXCEPT !.phase = "Refused", !.position = @ + 1]
             ELSE [reader EXCEPT !.events = Append(@, NextEvent),
                                 !.ended = @ \cup ({NextEvent} \cap Outcome),
                                 !.position = @ + 1]
<1>1. NextLine = EventRecord(next_sequence, next_step - 1, written, NextEvent)
  BY AcceptedLines
<1>2. written \in Nat /\ written <= Len(result.events) /\ reader \in Reader
  BY AcceptedLines DEF Types
<1>3. Follows(reader, written, next_sequence)
  BY DEF Reading, Writing, Offended
<1>4. EventsRead(reader, written) /\ reader.position = next_sequence
  BY <1>2, <1>3 DEF Follows, Placed, AcceptedRead
<1>5. /\ reader.phase = "Pending" /\ reader.next_step = next_step - 1
      /\ Len(reader.events) = written
  BY <1>2, <1>4 DEF EventsRead
<1>6. ReaderAfter = [ReadEvent(reader, NextLine) EXCEPT !.position = @ + 1]
  BY <1>1, <1>4, <1>5 DEF ReaderAfter, Advance, Take, EventRecord
<1>7. {NextEvent} \cap Outcome # {} <=> NextEvent \in Outcome
  OBVIOUS
<1>8. ReadEvent(reader, NextLine) =
        IF NextEvent \in Outcome /\ reader.ended # {} THEN [reader EXCEPT !.phase = "Refused"]
        ELSE [reader EXCEPT !.events = Append(@, NextEvent),
                            !.ended = @ \cup ({NextEvent} \cap Outcome)]
  BY <1>1, <1>5, <1>7 DEF ReadEvent, EventRecord, Refused
<1> QED
  BY <1>2, <1>6, <1>8 DEF Reader

LEMMA CompletedLine ==
  ASSUME Types, Shape, Reading, InBatch, pc = "accepting", reader.phase # "Refused",
         written = Len(result.events)
  PROVE  /\ reader.events = result.events
         /\ ReaderAfter =
              [reader EXCEPT !.phase = IF reader.ended = {} THEN "Ready" ELSE "Terminal",
                 !.event_count = @ + Len(result.events), !.digest = DigestOf[state],
                 !.next_step = @ + 1,
                 !.steps = Append(@, AcceptedStep(action, result.events, DigestOf[state])),
                 !.position = @ + 1]
<1>1. NextLine = StepCompletedRecord(next_sequence, next_step - 1, Len(result.events),
                                     DigestOf[state])
  BY AcceptedLines
<1>2. /\ written \in Nat /\ written <= Len(result.events) /\ reader \in Reader
      /\ result.events \in Seq(GameEvent)
  BY AcceptedLines DEF Types
<1>3. Follows(reader, written, next_sequence)
  BY DEF Reading, Writing, Offended
<1>4. EventsRead(reader, written) /\ reader.position = next_sequence
  BY <1>2, <1>3 DEF Follows, Placed, AcceptedRead
<1>5. /\ reader.phase = "Pending" /\ reader.next_step = next_step - 1 /\ reader.action = action
      /\ reader.events = [i \in 1 .. Len(result.events) |-> result.events[i]]
  BY <1>4 DEF EventsRead
<1>6. reader.events = result.events
  BY <1>2, <1>5
<1>7. ReaderAfter = [ReadStepCompleted(reader, NextLine) EXCEPT !.position = @ + 1]
  BY <1>1, <1>4, <1>5 DEF ReaderAfter, Advance, Take, StepCompletedRecord
<1>8. ReadStepCompleted(reader, NextLine) =
        [reader EXCEPT !.phase = IF reader.ended = {} THEN "Ready" ELSE "Terminal",
           !.event_count = @ + Len(result.events), !.digest = DigestOf[state],
           !.next_step = @ + 1,
           !.steps = Append(@, AcceptedStep(action, result.events, DigestOf[state]))]
  BY <1>1, <1>5, <1>6 DEF ReadStepCompleted, StepCompletedRecord
<1> QED
  BY <1>2, <1>6, <1>7, <1>8 DEF Reader

LEMMA CompletionLine ==
  ASSUME Types, Shape, Reading, InBatch, pc = "completing"
  PROVE  \/ /\ written = 0
            /\ ReaderAfter = [reader EXCEPT !.phase = "Final", !.final = {state},
                                            !.position = @ + 1]
         \/ /\ written = 1
            /\ ReaderAfter = [reader EXCEPT !.phase = "Complete", !.position = @ + 1]
<1>1. batch = CompletionBatch(base, next_step - 1, total_events, state)
  BY DEF Shape, CompleteShape
<1>2. Len(batch) = 2 /\ written \in 0 .. 1
  BY <1>1 DEF CompletionBatch, Types, InBatch
<1>3. Follows(reader, written, next_sequence)
  BY DEF Reading, Writing
<1>4. /\ CompletionRead(reader, written) /\ reader.position = next_sequence
      /\ Len(reader.steps) = reader.next_step - 1
  BY <1>3 DEF Follows, Placed
<1>5. /\ reader.digest = DigestOf[state] /\ reader.next_step = next_step
      /\ reader.event_count = total_events /\ reader.ended = {StatusOf[state]}
  BY <1>4 DEF CompletionRead, Even
<1>6. CASE written = 0
  <2>1. NextLine = FinalStateRecord(next_sequence, state) /\ reader.phase = "Terminal"
    BY <1>1, <1>4, <1>6 DEF NextLine, CompletionBatch, CompletionRead, Types, base
  <2> QED
    BY <1>4, <1>5, <1>6, <2>1
       DEF ReaderAfter, Advance, Take, FinalStateRecord, ReadFinalState, Reader, Types
<1>7. CASE written = 1
  <2>1. base + 1 = next_sequence
    BY <1>7 DEF base, Types
  <2>2. /\ NextLine = MatchCompletedRecord(next_sequence, next_step - 1, total_events,
                                           DigestOf[state], StatusOf[state])
        /\ reader.phase = "Final"
    BY <1>1, <1>4, <1>7, <2>1 DEF NextLine, CompletionBatch, CompletionRead
  <2> QED
    BY <1>4, <1>5, <1>7, <2>2
       DEF ReaderAfter, Advance, Take, MatchCompletedRecord, ReadMatchCompleted, Reader, Types
<1> QED
  BY <1>2, <1>6, <1>7

-----------------------------------------------------------------------------
(* Reading the line the recorder writes next keeps the reader in its place.*)

GoodReader(r, w, seq) ==
  /\ r \in Reader
  /\ Follows(r, w, seq) \/ (pc = "accepting" /\ Offended(r))
  /\ r.phase = "Refused" => Offended(r)

LEMMA StartLineRead ==
  ASSUME Types, Shape, Reading, InBatch, pc = "starting"
  PROVE  GoodReader(ReaderAfter, written + 1, next_sequence + 1)
<1>1. /\ reader \in Reader /\ state \in GameState /\ written \in Nat
      /\ DigestOf[state] \in StateDigest
  BY DigestAssumption DEF Types
<1>2. Follows(reader, written, next_sequence)
  BY DEF Reading, Writing
<1>3. CASE /\ written = 0
           /\ ReaderAfter = [reader EXCEPT !.phase = "MatchCreated", !.position = @ + 1]
  <2>1. ReaderAfter =
          [phase |-> "MatchCreated", position |-> reader.position + 1,
           initial |-> reader.initial, digest |-> reader.digest,
           next_step |-> reader.next_step, event_count |-> reader.event_count,
           steps |-> reader.steps, action |-> reader.action,
           events |-> reader.events, ended |-> reader.ended, final |-> reader.final]
    BY <1>1, <1>3 DEF Reader
  <2> QED
    BY <1>1, <1>2, <1>3, <2>1 DEF GoodReader, Follows, Placed, StartRead, Reader, Phase
<1>4. CASE /\ written = 1
           /\ ReaderAfter = [reader EXCEPT !.phase = "Ready", !.initial = {state},
                                           !.digest = DigestOf[state], !.position = @ + 1]
  <2>1. ReaderAfter =
          [phase |-> "Ready", position |-> reader.position + 1, initial |-> {state},
           digest |-> DigestOf[state], next_step |-> reader.next_step,
           event_count |-> reader.event_count, steps |-> reader.steps,
           action |-> reader.action, events |-> reader.events,
           ended |-> reader.ended, final |-> reader.final]
    BY <1>1, <1>4 DEF Reader
  <2> QED
    <3>1. {state} \in SUBSET GameState /\ reader.position + 1 \in Nat
      BY <1>1 DEF Reader
    <3>2. ReaderAfter \in Reader
      BY <1>1, <2>1, <3>1 DEF Reader, Phase, Digest
    <3>3. Placed(ReaderAfter, next_sequence + 1) /\ StartRead(ReaderAfter, written + 1)
      BY <1>1, <1>2, <1>4, <2>1 DEF Follows, Placed, StartRead
    <3> QED
      BY <2>1, <3>2, <3>3 DEF GoodReader, Follows
<1> QED
  BY <1>3, <1>4, StartLine

LEMMA ActionLineRead ==
  ASSUME Types, Shape, Reading, InBatch, pc = "acting"
  PROVE  GoodReader(ReaderAfter, written + 1, next_sequence + 1)
<1>1. reader \in Reader /\ action \in Action
  BY DEF Types
<1>2. Follows(reader, written, next_sequence)
  BY DEF Reading, Writing
<1>3. /\ written = 0
      /\ ReaderAfter = [reader EXCEPT !.phase = "Pending", !.action = action, !.events = <<>>,
                                      !.ended = {}, !.position = @ + 1]
  BY ActionLine
<1>4. ReaderAfter =
        [phase |-> "Pending", position |-> reader.position + 1,
         initial |-> reader.initial, digest |-> reader.digest,
         next_step |-> reader.next_step, event_count |-> reader.event_count,
         steps |-> reader.steps, action |-> action, events |-> <<>>, ended |-> {},
         final |-> reader.final]
  BY <1>1, <1>3 DEF Reader
<1>5. ReaderAfter \in Reader
  <2>1. <<>> \in Seq(GameEvent) /\ {} \in SUBSET Outcome /\ reader.position + 1 \in Nat
    BY <1>1 DEF Reader
  <2> QED
    BY <1>1, <1>4, <2>1 DEF Reader, Phase
<1>6. Placed(ReaderAfter, next_sequence + 1) /\ ActionRead(ReaderAfter, written + 1)
  BY <1>1, <1>2, <1>3, <1>4 DEF Follows, Placed, ActionRead, Even
<1> QED
  BY <1>4, <1>5, <1>6 DEF GoodReader, Follows

LEMMA RejectionLineRead ==
  ASSUME Types, Shape, Reading, InBatch, pc = "rejecting"
  PROVE  GoodReader(ReaderAfter, written + 1, next_sequence + 1)
<1> DEFINE step == RejectedStep(action, result.error, DigestOf[state])
<1>1. /\ reader \in Reader /\ action \in Action /\ next_step \in Nat
      /\ result.error \in ActionError /\ DigestOf[state] \in StateDigest
  BY DigestAssumption DEF Types, Shape, RejectShape, Result
<1>2. Follows(reader, written, next_sequence)
  BY DEF Reading, Writing
<1>3. /\ written = 0
      /\ ReaderAfter = [reader EXCEPT !.phase = "Ready", !.next_step = @ + 1,
                          !.steps = Append(@, step), !.position = @ + 1]
  BY RejectionLine
<1>4. step \in Step
  BY <1>1 DEF RejectedStep, Step, Digest
<1>5. /\ Append(reader.steps, step) \in Seq(Step)
      /\ Len(Append(reader.steps, step)) = Len(reader.steps) + 1
  BY <1>1, <1>4 DEF Reader
<1>6. /\ reader.digest = DigestOf[state] /\ reader.event_count = total_events
      /\ reader.next_step = next_step - 1 /\ reader.position = next_sequence
      /\ Len(reader.steps) = reader.next_step - 1
  BY <1>2, <1>3 DEF Follows, Placed, RejectedRead
<1> HIDE DEF step
<1>7. ReaderAfter =
        [phase |-> "Ready", position |-> reader.position + 1,
         initial |-> reader.initial, digest |-> reader.digest,
         next_step |-> reader.next_step + 1, event_count |-> reader.event_count,
         steps |-> Append(reader.steps, step), action |-> reader.action,
         events |-> reader.events, ended |-> reader.ended, final |-> reader.final]
  BY <1>1, <1>3 DEF Reader
<1>8. ReaderAfter \in Reader
  BY <1>1, <1>5, <1>7 DEF Reader, Phase
<1>9. Placed(ReaderAfter, next_sequence + 1) /\ RejectedRead(ReaderAfter, written + 1)
  BY <1>1, <1>3, <1>5, <1>6, <1>7 DEF Placed, RejectedRead, Reader
<1>10. ReaderAfter.phase = "Ready"
  BY <1>7
<1> QED
  BY <1>8, <1>9, <1>10 DEF GoodReader, Follows

LEMMA EventLineRead ==
  ASSUME Types, Shape, Reading, InBatch, pc = "accepting", reader.phase # "Refused",
         written < Len(result.events)
  PROVE  GoodReader(ReaderAfter, written + 1, next_sequence + 1)
<1>1. /\ reader \in Reader /\ written \in 0 .. Len(result.events) /\ Len(result.events) \in Nat
      /\ result.events \in Seq(GameEvent) /\ NextEvent \in GameEvent
  BY AcceptedLines DEF Types
<1>2. Follows(reader, written, next_sequence)
  BY DEF Reading, Writing, Offended
<1>3. EventsRead(reader, written) /\ Placed(reader, next_sequence)
  BY <1>1, <1>2 DEF Follows, AcceptedRead
<1>4. result \in Result /\ result.accepted
  BY DEF Shape, AcceptShape
<1>5. CASE NextEvent \in Outcome /\ reader.ended # {}
  <2>1. ReaderAfter = [reader EXCEPT !.phase = "Refused", !.position = @ + 1]
    BY <1>5, EventLine
  <2>2. ReaderAfter \in Reader /\ ReaderAfter.phase = "Refused"
    <3>1. ReaderAfter =
            [phase |-> "Refused", position |-> reader.position + 1,
             initial |-> reader.initial, digest |-> reader.digest,
             next_step |-> reader.next_step, event_count |-> reader.event_count,
             steps |-> reader.steps, action |-> reader.action,
             events |-> reader.events, ended |-> reader.ended,
             final |-> reader.final]
      BY <1>1, <2>1 DEF Reader
    <3> QED
      BY <1>1, <3>1 DEF Reader, Phase
  <2>3. PICK i \in 1 .. written : result.events[i] \in Outcome
    BY <1>3, <1>5 DEF EventsRead
  <2>4. MultipleGameEnded(result.events)
    <3>1. i \in DOMAIN result.events /\ written + 1 \in DOMAIN result.events /\ i # written + 1
      BY <1>1, <2>3
    <3> QED
      BY <1>5, <2>3, <3>1 DEF MultipleGameEnded, NextEvent
  <2> QED
    BY <1>4, <2>2, <2>4 DEF GoodReader, Offended
<1>6. CASE ~(NextEvent \in Outcome /\ reader.ended # {})
  <2>1. ReaderAfter = [reader EXCEPT !.events = Append(@, NextEvent),
                                     !.ended = @ \cup ({NextEvent} \cap Outcome),
                                     !.position = @ + 1]
    BY <1>6, EventLine
  <2>2. ReaderAfter \in Reader
    <3>1. ReaderAfter =
            [phase |-> reader.phase, position |-> reader.position + 1,
             initial |-> reader.initial, digest |-> reader.digest,
             next_step |-> reader.next_step, event_count |-> reader.event_count,
             steps |-> reader.steps, action |-> reader.action,
             events |-> Append(reader.events, NextEvent),
             ended |-> reader.ended \cup ({NextEvent} \cap Outcome),
             final |-> reader.final]
      BY <1>1, <2>1 DEF Reader
    <3>2. reader.ended \cup ({NextEvent} \cap Outcome) \in SUBSET Outcome
      BY <1>1 DEF Reader
    <3>3. Append(reader.events, NextEvent) \in Seq(GameEvent)
      BY <1>1 DEF Reader
    <3> QED
      BY <1>1, <3>1, <3>2, <3>3 DEF Reader
  <2>3. Append(reader.events, NextEvent) = [i \in 1 .. written + 1 |-> result.events[i]]
    BY <1>1, <1>3 DEF EventsRead, NextEvent
  <2>4. reader.ended \cup ({NextEvent} \cap Outcome)
          = {result.events[i] : i \in 1 .. written + 1} \cap Outcome
    <3>1. {result.events[i] : i \in 1 .. written + 1}
            = {result.events[i] : i \in 1 .. written} \cup {NextEvent}
      BY <1>1 DEF NextEvent
    <3> QED
      BY <1>3, <3>1 DEF EventsRead
  <2>5. EventsRead(ReaderAfter, written + 1)
    BY <1>1, <1>3, <2>1, <2>3, <2>4 DEF EventsRead, Reader
  <2>6. Placed(ReaderAfter, next_sequence + 1)
    BY <1>1, <1>3, <2>1 DEF Placed, Reader
  <2>7. written + 1 <= Len(result.events)
    BY <1>1
  <2> QED
    BY <2>2, <2>5, <2>6, <2>7 DEF GoodReader, Follows, AcceptedRead, EventsRead
<1> QED
  BY <1>5, <1>6

LEMMA CompletedLineRead ==
  ASSUME Types, Shape, Reading, InBatch, pc = "accepting", reader.phase # "Refused",
         written = Len(result.events)
  PROVE  GoodReader(ReaderAfter, written + 1, next_sequence + 1)
<1> DEFINE step == AcceptedStep(action, result.events, DigestOf[state])
<1>1. /\ reader \in Reader /\ written \in Nat /\ Len(result.events) \in Nat
      /\ result.events \in Seq(GameEvent) /\ action \in Action /\ next_step \in Nat
      /\ DigestOf[state] \in StateDigest
  BY AcceptedLines, DigestAssumption DEF Types
<1>2. Follows(reader, written, next_sequence)
  BY DEF Reading, Writing, Offended
<1>3. EventsRead(reader, written) /\ Placed(reader, next_sequence)
  BY <1>1, <1>2 DEF Follows, AcceptedRead
<1>4. ReaderAfter =
        [reader EXCEPT !.phase = IF reader.ended = {} THEN "Ready" ELSE "Terminal",
           !.event_count = @ + Len(result.events), !.digest = DigestOf[state],
           !.next_step = @ + 1, !.steps = Append(@, step), !.position = @ + 1]
  BY CompletedLine
<1>5. step \in Step
  BY <1>1 DEF AcceptedStep, Step, Digest
<1>6. /\ Append(reader.steps, step) \in Seq(Step)
      /\ Len(Append(reader.steps, step)) = Len(reader.steps) + 1
      /\ Append(reader.steps, step)[Len(reader.steps) + 1] = step
      /\ Append(reader.steps, step) # <<>>
  BY <1>1, <1>5 DEF Reader
<1> HIDE DEF step
<1>7. ReaderAfter \in Reader
  <2>1. ReaderAfter =
          [phase |-> IF reader.ended = {} THEN "Ready" ELSE "Terminal",
           position |-> reader.position + 1, initial |-> reader.initial,
           digest |-> DigestOf[state], next_step |-> reader.next_step + 1,
           event_count |-> reader.event_count + Len(result.events),
           steps |-> Append(reader.steps, step), action |-> reader.action,
           events |-> reader.events, ended |-> reader.ended, final |-> reader.final]
    BY <1>1, <1>4 DEF Reader
  <2> QED
    BY <1>1, <1>6, <2>1, SMTT(30) DEF Reader, Phase, Digest
<1>8. Placed(ReaderAfter, next_sequence + 1)
  BY <1>1, <1>3, <1>4, <1>6 DEF Placed, Reader
<1>9. LastStepIsTheResult(ReaderAfter)
  BY <1>1, <1>4, <1>6 DEF LastStepIsTheResult, Reader, step
<1>10. StepRead(ReaderAfter)
  <2>1. /\ ReaderAfter.phase = IF reader.ended = {} THEN "Ready" ELSE "Terminal"
        /\ ReaderAfter.ended = reader.ended /\ ReaderAfter.digest = DigestOf[state]
        /\ ReaderAfter.next_step = reader.next_step + 1
        /\ ReaderAfter.event_count = reader.event_count + Len(result.events)
    BY <1>1, <1>4 DEF Reader
  <2>2. /\ reader.next_step + 1 = next_step /\ reader.event_count = total_events
        /\ reader.ended = {result.events[i] : i \in 1 .. Len(result.events)} \cap Outcome
    BY <1>1, <1>3 DEF EventsRead
  <2> QED
    BY <1>9, <2>1, <2>2 DEF StepRead
<1>11. ~(written + 1 <= Len(result.events)) /\ ReaderAfter.phase # "Refused"
  BY <1>1, <1>10 DEF StepRead
<1> QED
  BY <1>7, <1>8, <1>10, <1>11 DEF GoodReader, Follows, AcceptedRead

LEMMA CompletionLineRead ==
  ASSUME Types, Shape, Reading, InBatch, pc = "completing"
  PROVE  GoodReader(ReaderAfter, written + 1, next_sequence + 1)
<1>1. reader \in Reader /\ state \in GameState /\ written \in Nat
  BY DEF Types
<1>2. Follows(reader, written, next_sequence)
  BY DEF Reading, Writing
<1>3. CASE /\ written = 0
           /\ ReaderAfter = [reader EXCEPT !.phase = "Final", !.final = {state},
                                           !.position = @ + 1]
  <2>1. ReaderAfter =
          [phase |-> "Final", position |-> reader.position + 1,
           initial |-> reader.initial, digest |-> reader.digest,
           next_step |-> reader.next_step, event_count |-> reader.event_count,
           steps |-> reader.steps, action |-> reader.action,
           events |-> reader.events, ended |-> reader.ended, final |-> {state}]
    BY <1>1, <1>3 DEF Reader
  <2> QED
    BY <1>1, <1>2, <1>3, <2>1
       DEF GoodReader, Follows, Placed, CompletionRead, LastStepIsTheResult, Even, Reader, Phase
<1>4. CASE /\ written = 1
           /\ ReaderAfter = [reader EXCEPT !.phase = "Complete", !.position = @ + 1]
  <2>1. ReaderAfter =
          [phase |-> "Complete", position |-> reader.position + 1,
           initial |-> reader.initial, digest |-> reader.digest,
           next_step |-> reader.next_step, event_count |-> reader.event_count,
           steps |-> reader.steps, action |-> reader.action,
           events |-> reader.events, ended |-> reader.ended, final |-> reader.final]
    BY <1>1, <1>4 DEF Reader
  <2> QED
    BY <1>1, <1>2, <1>4, <2>1
       DEF GoodReader, Follows, Placed, CompletionRead, LastStepIsTheResult, Even, Reader, Phase
<1> QED
  BY <1>3, <1>4, CompletionLine

\* An offended reader reads on without looking.
LEMMA OffendedReadsOn ==
  ASSUME Types, reader.phase = "Refused", NEW line
  PROVE  Advance(reader, line) = reader
BY DEF Advance

LEMMA LineRead ==
  ASSUME Types, Shape, Reading, InBatch
  PROVE  GoodReader(ReaderAfter, written + 1, next_sequence + 1)
<1>1. CASE pc = "accepting" /\ reader.phase = "Refused"
  <2>1. Offended(reader) /\ reader \in Reader
    BY <1>1 DEF Reading, Types
  <2>2. ReaderAfter = reader
    BY <1>1, OffendedReadsOn DEF ReaderAfter
  <2> QED
    BY <1>1, <2>1, <2>2 DEF GoodReader
<1>2. CASE pc = "accepting" /\ reader.phase # "Refused"
  BY <1>2, AcceptedLines, EventLineRead, CompletedLineRead
<1> QED
  BY <1>1, <1>2, StartLineRead, ActionLineRead, RejectionLineRead, CompletionLineRead
     DEF InBatch, Writing

LEMMA TornLineRead ==
  ASSUME Types, Reading
  PROVE  /\ Advance(reader, TornLine) \in Reader
         /\ Advance(reader, TornLine) = reader
              \/ Advance(reader, TornLine) = [reader EXCEPT !.phase = "Malformed"]
BY DEF Types, Advance, TornLine, Reader, Phase

-----------------------------------------------------------------------------
(* IInv holds at first and every step keeps it: one lemma per action.      *)

LEMMA Appended ==
  ASSUME NEW s, NEW x, IsSequence(s)
  PROVE  IsSequence(Append(s, x)) /\ Len(Append(s, x)) = Len(s) + 1 /\ Len(s) \in Nat
<1>1. PICK S : s \in Seq(S)
  BY DEF IsSequence
<1>2. s \in Seq(S \cup {x}) /\ x \in S \cup {x}
  BY <1>1
<1>3. Append(s, x) \in Seq(S \cup {x}) /\ Len(Append(s, x)) = Len(s) + 1 /\ Len(s) \in Nat
  BY <1>2
<1> QED
  BY <1>3 DEF IsSequence

LEMMA InitInv == Init => IInv
<1> SUFFICES ASSUME Init PROVE IInv
  OBVIOUS
<1>1. NewReader \in Reader
  <2>1. <<>> \in Seq(Step) /\ <<>> \in Seq(GameEvent) /\ {} \in SUBSET GameState
        /\ {} \in SUBSET Outcome
    OBVIOUS
  <2> QED
    BY <2>1 DEF NewReader, Reader, Phase, Digest, Action
<1>2. IsSequence(lines) /\ Len(lines) = 0
  <2>1. <<>> \in Seq({})
    OBVIOUS
  <2> QED
    BY <2>1 DEF Init, IsSequence
<1>3. Types
  BY <1>1, <1>2 DEF Init, Types, Lifecycle, Action
<1>4. Shape
  BY DEF Init, Shape, Writing
<1>5. Reading
  BY DEF Init, Reading, Writing, NewReader
<1> QED
  BY <1>3, <1>4, <1>5 DEF IInv

LEMMA RefuseStartInv == IInv /\ RefuseStart => IInv'
<1> SUFFICES ASSUME IInv, RefuseStart PROVE IInv'
  OBVIOUS
<1> USE DEF RefuseStart, file
<1>1. Types'
  BY DEF IInv, Types, Lifecycle, Stopped
<1>2. Shape'
  BY DEF IInv, Shape, Writing
<1>3. Reading'
  BY DEF IInv, Reading, Writing, Offended, Shape, NewReader
<1> QED
  BY <1>1, <1>2, <1>3 DEF IInv

LEMMA StartInv == IInv /\ Start => IInv'
<1> SUFFICES ASSUME IInv, Start PROVE IInv'
  OBVIOUS
<1> USE DEF Start, match, file
<1>1. Types'
  BY DEF IInv, Types
<1>2. /\ lifecycle = "Unstarted" /\ next_sequence = 0 /\ next_step = 1 /\ total_events = 0
      /\ lines = <<>> /\ reader = NewReader
  BY DEF IInv, Shape
<1>3. StartShape'
  BY <1>2 DEF StartShape, base, StartBatch
<1>4. Len(lines') = next_sequence' /\ written' <= Len(batch')
  BY <1>2 DEF StartBatch
<1>5. Shape'
  BY <1>3, <1>4 DEF Shape
<1>6. Placed(reader, 0) /\ StartRead(reader, 0)
  BY <1>2 DEF Placed, StartRead, NewReader
<1>7. Follows(reader, written, next_sequence)'
  BY <1>2, <1>6 DEF Follows, Placed, StartRead
<1>8. Reading'
  BY <1>2, <1>7 DEF Reading, NewReader
<1> QED
  BY <1>1, <1>5, <1>8 DEF IInv

LEMMA SubmitInv == ASSUME NEW a \in GameAction PROVE IInv /\ Submit(a) => IInv'
<1> SUFFICES ASSUME IInv, Submit(a) PROVE IInv'
  OBVIOUS
<1> USE DEF Submit, match, file, MaySubmit
<1>1. Types'
  BY DEF IInv, Types, Action
<1>2. /\ StatusOf[state] = Playing /\ Len(lines) = next_sequence
      /\ Placed(reader, next_sequence) /\ Even(reader) /\ reader.phase = "Ready"
      /\ next_sequence \in Nat
  BY DEF IInv, Shape, Reading, Types
<1>3. ActShape' /\ written' <= Len(batch')
  BY <1>2 DEF ActShape, base
<1>4. Shape'
  BY <1>2, <1>3 DEF Shape
<1>5. ActionRead(reader, written)'
  BY <1>2 DEF ActionRead, Even
<1>6. Follows(reader, written, next_sequence)'
  BY <1>2, <1>5 DEF Follows, Placed
<1>7. Reading'
  BY <1>2, <1>6 DEF Reading
<1> QED
  BY <1>1, <1>4, <1>7 DEF IInv

LEMMA WriteInv == IInv /\ Write => IInv'
<1> SUFFICES ASSUME IInv, Write PROVE IInv'
  OBVIOUS
<1> USE DEF Write
<1>1. Types /\ Shape /\ Reading /\ InBatch
  BY DEF IInv
<1>2. GoodReader(ReaderAfter, written + 1, next_sequence + 1) /\ reader' = ReaderAfter
  BY <1>1, LineRead DEF ReaderAfter, NextLine
<1>3. IsSequence(lines') /\ Len(lines') = Len(lines) + 1 /\ Len(lines) \in Nat
  BY <1>1, Appended DEF Types
<1>4. Types'
  BY <1>1, <1>2, <1>3 DEF Types, GoodReader
<1>5. base' = base /\ next_sequence \in Nat /\ written \in Nat
  BY <1>1 DEF base, Types
<1>6. Len(lines') = next_sequence' /\ written' <= Len(batch')
  BY <1>1, <1>3, <1>5 DEF Shape, InBatch
<1>7. Shape'
  <2>1. /\ pc = "starting" => StartShape'
        /\ pc = "acting" => ActShape'
        /\ pc = "accepting" => AcceptShape'
        /\ pc = "rejecting" => RejectShape'
        /\ pc = "completing" => CompleteShape'
    BY <1>1, <1>5
       DEF Shape, StartShape, ActShape, AcceptShape, RejectShape, CompleteShape, StartBatch
  <2>2. pc \in {"starting", "acting", "accepting", "rejecting", "completing"}
    BY <1>1 DEF InBatch, Writing
  <2> QED
    BY <1>6, <2>1, <2>2 DEF Shape
<1>8. Reading'
  <2>1. (reader.phase = "Refused" => Offended(reader))'
    BY <1>2 DEF GoodReader, Offended
  <2>2. Follows(reader, written, next_sequence)' <=>
        Follows(ReaderAfter, written + 1, next_sequence + 1)
    BY <1>2 DEF Follows, Placed, StartRead, ActionRead, AcceptedRead, RejectedRead,
                CompletionRead, EventsRead, StepRead, TakenFrom, Even, LastStepIsTheResult
  <2>3. (Follows(reader, written, next_sequence) \/ (pc = "accepting" /\ Offended(reader)))'
    BY <1>2, <2>2 DEF GoodReader, Offended
  <2>4. pc' # "idle"
    BY <1>1 DEF InBatch, Writing
  <2> QED
    BY <2>1, <2>3, <2>4 DEF Reading
<1> QED
  BY <1>4, <1>7, <1>8 DEF IInv

LEMMA WriteFailsInv == IInv /\ WriteFails => IInv'
<1> SUFFICES ASSUME IInv, WriteFails PROVE IInv'
  OBVIOUS
<1> USE DEF WriteFails, Fail, file
<1>1. Types /\ Shape /\ Reading /\ InBatch
  BY DEF IInv
<1>2. /\ reader' \in Reader /\ IsSequence(lines') /\ Len(lines') \in Nat
      /\ reader'.phase = "Refused" => Offended(reader')
  <2>1. CASE UNCHANGED file
    BY <1>1, <2>1 DEF Types, Reading
  <2>2. CASE lines' = Append(lines, TornLine) /\ reader' = Advance(reader, TornLine)
    <3>1. IsSequence(lines') /\ Len(lines') \in Nat
      BY <1>1, <2>2, Appended DEF Types
    <3>2. reader' = reader \/ reader' = [reader EXCEPT !.phase = "Malformed"]
      BY <1>1, <2>2, TornLineRead
    <3> QED
      BY <1>1, <2>2, <3>1, <3>2, TornLineRead DEF Types, Reading, Reader
  <2>3. CASE lines' = Append(lines, NextLine) /\ reader' = ReaderAfter
    <3>1. IsSequence(lines') /\ Len(lines') \in Nat
      BY <1>1, <2>3, Appended DEF Types
    <3> QED
      BY <1>1, <2>3, <3>1, LineRead DEF GoodReader
  <2> QED
    BY <2>1, <2>2, <2>3 DEF NextLine, ReaderAfter
<1>3. lifecycle' # "Active" /\ pc' \in {"idle", "over"} /\ (pc' = "idle" => lifecycle' # "Unstarted")
      /\ lifecycle' \in Lifecycle
  BY <1>1 DEF Shape, StartShape, Types, Lifecycle, Stopped
<1>4. Types'
  BY <1>1, <1>2, <1>3 DEF Types
<1>5. Shape'
  BY <1>3 DEF Shape, Writing
<1>6. Reading'
  BY <1>2, <1>3 DEF Reading, Writing, Offended
<1> QED
  BY <1>4, <1>5, <1>6 DEF IInv

LEMMA FlushFailsInv == IInv /\ FlushFails => IInv'
<1> SUFFICES ASSUME IInv, FlushFails PROVE IInv'
  OBVIOUS
<1> USE DEF FlushFails, Fail, file
<1>1. Types /\ Shape /\ Reading /\ Writing
  BY DEF IInv, AtCheckpoint
<1>2. lifecycle' # "Active" /\ pc' \in {"idle", "over"} /\ (pc' = "idle" => lifecycle' # "Unstarted")
      /\ lifecycle' \in Lifecycle
  BY <1>1 DEF Shape, StartShape, Types, Lifecycle, Stopped
<1>3. Types'
  BY <1>1, <1>2 DEF Types
<1>4. Shape'
  BY <1>2 DEF Shape, Writing
<1>5. Reading'
  BY <1>1, <1>2 DEF Reading, Writing, Offended
<1> QED
  BY <1>3, <1>4, <1>5 DEF IInv

LEMMA StartFlushedInv == IInv /\ StartFlushed => IInv'
<1> SUFFICES ASSUME IInv, StartFlushed PROVE IInv'
  OBVIOUS
<1> USE DEF StartFlushed, file, Flushed
<1>1. Types /\ Shape /\ Reading /\ Writing /\ ~InBatch /\ pc = "starting"
  BY DEF IInv, AtCheckpoint
<1>2. /\ StartShape /\ Len(lines) = next_sequence /\ written <= Len(batch)
      /\ written \in Nat /\ next_sequence \in Nat
  BY <1>1 DEF Shape, Types
<1>3. written = 2 /\ next_sequence = 2
  BY <1>1, <1>2 DEF StartShape, StartBatch, InBatch, base
<1>4. Placed(reader, next_sequence) /\ StartRead(reader, 2)
  BY <1>1, <1>3 DEF Reading, Follows
<1>5. Types'
  BY <1>1 DEF Types, Lifecycle
<1>6. Shape'
  BY <1>2, <1>3 DEF Shape, Writing, StartShape
<1>7. Reading'
  BY <1>2, <1>4 DEF Reading, Writing, Placed, Even, StartRead, StartShape
<1> QED
  BY <1>5, <1>6, <1>7 DEF IInv

LEMMA ApplyInv == IInv /\ Apply => IInv'
<1> SUFFICES ASSUME IInv, Apply PROVE IInv'
  OBVIOUS
<1>0. PICK r : r = Engine[state, action]
  OBVIOUS
<1>1. /\ Types /\ Shape /\ Reading /\ pc = "acting" /\ ~InBatch
      /\ next_step' = next_step + 1 /\ written' = 0 /\ result' = r
      /\ UNCHANGED <<next_sequence, total_events, lifecycle, action, lines, reader, flushed, answers>>
  BY <1>0 DEF IInv, Apply, file
<1>2. /\ ActShape /\ Len(lines) = next_sequence /\ written <= Len(batch)
      /\ written \in Nat /\ next_sequence \in Nat /\ next_step \in Nat
      /\ state \in GameState /\ action \in GameAction
  BY <1>1 DEF Shape, Types, Writing
<1>3. written = 1
  BY <1>1, <1>2 DEF ActShape, InBatch, Writing
<1>4. /\ Placed(reader, next_sequence) /\ Even(reader) /\ reader.phase = "Pending"
      /\ reader.action = action /\ reader.events = <<>> /\ reader.ended = {}
  BY <1>1, <1>3 DEF Reading, Follows, ActionRead, Writing
<1>5. r \in Result
  BY <1>0, <1>2, EngineAssumption DEF Engines
<1>6. base' = next_sequence' /\ next_step' - 1 = next_step
  BY <1>1, <1>2 DEF base
<1>7. CASE r.accepted
  <2>1. /\ state' = r.state /\ pc' = "accepting"
        /\ batch' = AcceptedBatch(next_sequence, next_step, r.events, DigestOf[r.state])
    BY <1>0, <1>7 DEF Apply
  <2>2. r.state \in GameState /\ r.events \in Seq(GameEvent)
    BY <1>5, <1>7 DEF Result
  <2>3. Types'
    BY <1>1, <1>2, <2>1, <2>2 DEF Types
  <2>4. Len(batch') = Len(r.events) + 1 /\ Len(r.events) \in Nat
    BY <2>1, <2>2 DEF AcceptedBatch
  <2>5. AcceptShape'
    BY <1>1, <1>2, <1>5, <1>6, <1>7, <2>1 DEF AcceptShape, ActShape
  <2>6. Shape'
    BY <1>1, <1>2, <2>1, <2>4, <2>5 DEF Shape
  <2>7. TakenFrom(reader.digest)'
    BY <1>0, <1>1, <1>2, <1>4 DEF TakenFrom, Even, ActShape
  <2>8. EventsRead(reader, 0)'
    <3>1. reader.events = [i \in 1 .. 0 |-> r.events[i]]
          /\ {r.events[i] : i \in 1 .. 0} = {}
      BY <1>4
    <3> QED
      BY <1>1, <1>4, <1>6, <2>7, <3>1 DEF EventsRead, Even
  <2>9. Follows(reader, written, next_sequence)'
    BY <1>1, <1>4, <2>1, <2>4, <2>8 DEF Follows, Placed, AcceptedRead
  <2>10. Reading'
    BY <1>1, <1>4, <2>1, <2>9 DEF Reading
  <2> QED
    BY <2>3, <2>6, <2>10 DEF IInv
<1>8. CASE ~r.accepted
  <2>1. /\ state' = state /\ pc' = "rejecting"
        /\ batch' = <<StepRejectedRecord(next_sequence, next_step, r.error, DigestOf[state])>>
    BY <1>0, <1>8 DEF Apply
  <2>2. Types'
    BY <1>1, <1>2, <2>1 DEF Types
  <2>3. RejectShape'
    BY <1>1, <1>2, <1>5, <1>6, <1>8, <1>0, <2>1 DEF RejectShape, ActShape
  <2>4. Shape'
    BY <1>1, <1>2, <2>1, <2>3 DEF Shape
  <2>5. RejectedRead(reader, 0)'
    BY <1>1, <1>4, <1>6, <2>1 DEF RejectedRead, Even
  <2>6. Follows(reader, written, next_sequence)'
    BY <1>1, <1>4, <2>1, <2>5 DEF Follows, Placed
  <2>7. Reading'
    BY <1>1, <1>4, <2>1, <2>6 DEF Reading
  <2> QED
    BY <2>2, <2>4, <2>7 DEF IInv
<1> QED
  BY <1>7, <1>8

\* How often the events of a step end the match tells the reader's next phase.
LEMMA EndingsCounted ==
  ASSUME NEW events \in Seq(GameEvent), NEW outcome \in Outcome,
         NEW ended, ended = {events[i] : i \in 1 .. Len(events)} \cap Outcome
  PROVE  /\ NoGameEnded(events) => ended = {} /\ ~MultipleGameEnded(events)
         /\ OneGameEnded(events, outcome) => ended = {outcome} /\ ~MultipleGameEnded(events)
<1>1. DOMAIN events = 1 .. Len(events)
  OBVIOUS
<1>2. ASSUME NoGameEnded(events) PROVE ended = {} /\ ~MultipleGameEnded(events)
  BY <1>1, <1>2 DEF NoGameEnded, MultipleGameEnded
<1>3. ASSUME OneGameEnded(events, outcome) PROVE ended = {outcome} /\ ~MultipleGameEnded(events)
  BY <1>1, <1>3 DEF OneGameEnded, MultipleGameEnded
<1> QED
  BY <1>2, <1>3

LEMMA AcceptedFlushedInv == IInv /\ AcceptedFlushed => IInv'
<1> SUFFICES ASSUME IInv, AcceptedFlushed PROVE IInv'
  OBVIOUS
<1>1. /\ Types /\ Shape /\ Reading /\ pc = "accepting" /\ ~InBatch
      /\ flushed' = Len(lines) /\ total_events' = total_events + Len(result.events)
      /\ UNCHANGED <<state, next_sequence, next_step, action, result, lines, reader>>
  BY DEF IInv, AcceptedFlushed, AtCheckpoint, Flushed, Counted, file
<1>2. /\ AcceptShape /\ Len(lines) = next_sequence /\ written <= Len(batch)
      /\ written \in Nat /\ next_sequence \in Nat /\ next_step \in Nat
      /\ state \in GameState /\ total_events \in Nat /\ reader \in Reader
  BY <1>1 DEF Shape, Types, Writing
<1>3. result \in Result /\ result.accepted /\ result.events \in Seq(GameEvent)
      /\ Len(result.events) \in Nat
  <2>1. result \in Result /\ result.accepted
    BY <1>2 DEF AcceptShape
  <2>2. result.events \in Seq(GameEvent)
    BY <2>1 DEF Result
  <2> QED
    BY <2>1, <2>2
<1>4. written = Len(result.events) + 1
  BY <1>1, <1>2, <1>3 DEF AcceptShape, AcceptedBatch, InBatch, Writing
<1>5. (Placed(reader, next_sequence) /\ StepRead(reader)) \/ Offended(reader)
  BY <1>1, <1>3, <1>4 DEF Reading, Follows, AcceptedRead, Writing
<1>6. total_events' \in Nat
  BY <1>1, <1>2, <1>3
<1>7. StatusOf[state] \in Outcome \cup {Playing, Broken}
  BY <1>2, StatusAssumption
<1>8. CASE TerminalEventsAgree(state, result.events) /\ StatusOf[state] \in Outcome
  <2>1. /\ pc' = "completing" /\ written' = 0 /\ lifecycle' = lifecycle
        /\ batch' = CompletionBatch(next_sequence, next_step - 1, total_events', state)
    BY <1>8 DEF AcceptedFlushed
  <2>2. OneGameEnded(result.events, StatusOf[state])
    BY <1>8, StatusAssumption DEF TerminalEventsAgree
  <2>3. ~Offended(reader)
    BY <1>3, <1>8, <2>2, EndingsCounted DEF Offended
  <2>4. Placed(reader, next_sequence) /\ StepRead(reader)
    BY <1>5, <2>3
  <2>5. reader.ended = {StatusOf[state]}
    BY <1>3, <1>8, <2>2, <2>4, EndingsCounted DEF StepRead
  <2>6. Types'
    BY <1>1, <1>2, <1>6, <2>1 DEF Types
  <2>7. base' = next_sequence
    BY <1>1, <1>2, <2>1 DEF base
  <2>8. Shape'
    <3>1. CompleteShape'
      BY <1>1, <1>2, <1>3, <1>8, <2>1, <2>2, <2>7 DEF CompleteShape, AcceptShape
    <3>2. 0 <= Len(batch')
      BY <2>1 DEF CompletionBatch
    <3> QED
      BY <1>1, <1>2, <2>1, <3>1, <3>2 DEF Shape
  <2>9. Follows(reader, written, next_sequence)'
    <3>1. reader.phase = "Terminal"
      BY <2>4, <2>5 DEF StepRead
    <3>2. CompletionRead(reader, 0)'
      BY <1>1, <2>4, <2>5, <3>1 DEF CompletionRead, StepRead, Even, LastStepIsTheResult
    <3> QED
      BY <1>1, <2>1, <2>4, <3>2 DEF Follows, Placed
  <2>10. Reading'
    BY <1>1, <2>1, <2>9, <2>4, <2>5 DEF Reading, StepRead
  <2> QED
    BY <2>6, <2>8, <2>10 DEF IInv
<1>9. CASE ~(TerminalEventsAgree(state, result.events) /\ StatusOf[state] \in Outcome)
  <2>1. /\ pc' = "idle" /\ UNCHANGED <<batch, written>>
        /\ lifecycle' \in Lifecycle \ {"Unstarted"}
        /\ lifecycle' = "Active" =>
             StatusOf[state] # Broken /\ TerminalEventsAgree(state, result.events)
    BY <1>9 DEF AcceptedFlushed, Lifecycle, Stopped
  <2>2. lifecycle' = "Active" => StatusOf[state] = Playing /\ NoGameEnded(result.events)
    BY <1>7, <1>9, <2>1 DEF TerminalEventsAgree
  <2>3. lifecycle' = "Active" =>
          Placed(reader, next_sequence) /\ reader.phase = "Ready" /\ Even(reader)'
    <3> SUFFICES ASSUME lifecycle' = "Active"
                 PROVE  Placed(reader, next_sequence) /\ reader.phase = "Ready" /\ Even(reader)'
      OBVIOUS
    <3>1. NoGameEnded(result.events)
      BY <2>2
    <3>2. ~MultipleGameEnded(result.events)
      BY <3>1 DEF NoGameEnded, MultipleGameEnded
    <3>3. Placed(reader, next_sequence) /\ StepRead(reader)
      BY <1>5, <3>2 DEF Offended
    <3>4. reader.ended = {}
      BY <1>3, <3>1, <3>3 DEF StepRead, NoGameEnded
    <3> QED
      BY <1>1, <3>3, <3>4 DEF StepRead, Even
  <2>4. Types'
    BY <1>1, <1>2, <1>6, <2>1 DEF Types
  <2>5. Shape'
    BY <1>1, <1>2, <2>1, <2>2 DEF Shape, Writing
  <2>6. Reading'
    BY <1>1, <2>1, <2>3 DEF Reading, Writing, Offended, Placed
  <2> QED
    BY <2>4, <2>5, <2>6 DEF IInv
<1> QED
  BY <1>8, <1>9

LEMMA RejectedFlushedInv == IInv /\ RejectedFlushed => IInv'
<1> SUFFICES ASSUME IInv, RejectedFlushed PROVE IInv'
  OBVIOUS
<1>1. /\ Types /\ Shape /\ Reading /\ pc = "rejecting" /\ ~InBatch
      /\ flushed' = Len(lines) /\ pc' = "idle"
      /\ UNCHANGED <<match, action, result, batch, written, lines, reader>>
  BY DEF IInv, RejectedFlushed, AtCheckpoint, Flushed, file
<1>2. /\ RejectShape /\ Len(lines) = next_sequence /\ written <= Len(batch)
      /\ written \in Nat /\ next_sequence \in Nat
  BY <1>1 DEF Shape, Types, Writing
<1>3. written = 1
  <2>1. Len(batch) = 1
    BY <1>2 DEF RejectShape
  <2> QED
    BY <1>1, <1>2, <2>1 DEF InBatch, Writing
<1>4. Placed(reader, next_sequence) /\ Even(reader) /\ reader.phase = "Ready"
  BY <1>1, <1>3 DEF Reading, Follows, RejectedRead, Writing, Even
<1>5. Types'
  BY <1>1, <1>2 DEF Types, match
<1>6. Shape'
  BY <1>1, <1>2 DEF Shape, Writing, match, RejectShape
<1>7. Reading'
  BY <1>1, <1>4 DEF Reading, Writing, Placed, Even, match
<1> QED
  BY <1>5, <1>6, <1>7 DEF IInv

LEMMA CompletionFlushedInv == IInv /\ CompletionFlushed => IInv'
<1> SUFFICES ASSUME IInv, CompletionFlushed PROVE IInv'
  OBVIOUS
<1>1. /\ Types /\ Shape /\ Reading /\ pc = "completing" /\ ~InBatch
      /\ flushed' = Len(lines) /\ pc' = "idle" /\ lifecycle' = "MatchCompleted"
      /\ UNCHANGED <<state, next_sequence, next_step, total_events, action, result, batch,
                     written, lines, reader>>
  BY DEF IInv, CompletionFlushed, AtCheckpoint, Flushed, file
<1>2. Types'
  BY <1>1 DEF Types, Lifecycle, Stopped
<1>3. Shape'
  BY <1>1 DEF Shape, Writing
<1>4. Reading'
  BY <1>1 DEF Reading, Writing, Offended
<1> QED
  BY <1>2, <1>3, <1>4 DEF IInv

LEMMA NextInv == IInv /\ [Next]_vars => IInv'
<1> SUFFICES ASSUME IInv, [Next]_vars PROVE IInv'
  OBVIOUS
<1>1. CASE UNCHANGED vars
  <2> USE <1>1 DEF vars, match, call, file
  <2>1. Types'
    BY DEF IInv, Types
  <2>2. Shape'
    BY DEF IInv, Shape, StartShape, ActShape, AcceptShape, RejectShape, CompleteShape, StartBatch,
           base, Writing
  <2>3. Reading'
    BY DEF IInv, Reading, Follows, Offended, StartRead, ActionRead, AcceptedRead, EventsRead,
           StepRead, RejectedRead, CompletionRead, Placed, Even, TakenFrom, LastStepIsTheResult,
           Writing
  <2> QED
    BY <2>1, <2>2, <2>3 DEF IInv
<1> QED
  BY <1>1, RefuseStartInv, StartInv, StartFlushedInv, SubmitInv, WriteInv, WriteFailsInv,
     FlushFailsInv, ApplyInv, AcceptedFlushedInv, RejectedFlushedInv, CompletionFlushedInv DEF Next

-----------------------------------------------------------------------------
(* The theorems.                                                           *)

\* Every behaviour of the recorder keeps the inductive invariant.
THEOREM MatchLogInvariant == Spec => []IInv
  BY InitInv, NextInv, PTL DEF Spec

\* Whatever the engine, the match and the failures, the strict parser reads
\* every line the recorder wrote, a torn last one and a step with two
\* GameEnded events excepted (record.rs:291, parse.rs:305).
THEOREM ParserReadsRecorder == Spec => []NeverMisread
<1>1. IInv => NeverMisread
  BY DEF IInv, Reading, Offended, NeverMisread
<1> QED
  BY <1>1, MatchLogInvariant, PTL

\* Between calls an active recording agrees with its flushed transcript
\* (record.rs:113, 151).
THEOREM RecordingMatchesLog == Spec => []StateMatchesLog
<1>1. IInv => StateMatchesLog
  BY DEF IInv, Shape, Reading, Placed, Even, StateMatchesLog
<1> QED
  BY <1>1, MatchLogInvariant, PTL

\* A recording that has stopped neither writes nor plays again: no step
\* starts from a stopped one, however it stopped (record.rs:187, 222).
THEOREM RecordingFailsClosed == Spec => FailClosed
<1>1. IInv /\ [Next]_vars => [(lifecycle \in Stopped) => UNCHANGED <<match, lines>>]_vars
  <2> SUFFICES ASSUME IInv, [Next]_vars, lifecycle \in Stopped
               PROVE  UNCHANGED <<match, lines>>
    OBVIOUS
  <2>1. lifecycle \notin {"Unstarted", "Active"}
    BY DEF Stopped
  <2>2. ~Writing /\ pc # "new"
    BY <2>1 DEF IInv, Shape, Writing, StartShape, ActShape, AcceptShape, RejectShape,
               CompleteShape
  <2>3. CASE UNCHANGED vars
    BY <2>3 DEF vars, file
  <2>4. ~RefuseStart /\ ~Start
    BY <2>2 DEF RefuseStart, Start
  <2>5. \A a \in GameAction : ~Submit(a)
    BY <2>1 DEF Submit, MaySubmit
  <2>6. ~Write /\ ~WriteFails
    BY <2>2 DEF Write, WriteFails, InBatch
  <2>7. ~FlushFails /\ ~StartFlushed /\ ~AcceptedFlushed /\ ~RejectedFlushed /\ ~CompletionFlushed
    BY <2>2 DEF FlushFails, StartFlushed, AcceptedFlushed, RejectedFlushed, CompletionFlushed,
               AtCheckpoint
  <2>8. ~Apply
    BY <2>2 DEF Apply, Writing
  <2> QED
    BY <2>3, <2>4, <2>5, <2>6, <2>7, <2>8 DEF Next
<1> QED
  BY <1>1, MatchLogInvariant, PTL DEF Spec, FailClosed

-----------------------------------------------------------------------------
(* The recorder implements the journal, one written line at a time.        *)

\* A line that adds no whole step and completes nothing leaves the journal.
LEMMA JournalKept ==
  ASSUME reader'.steps = reader.steps, reader'.digest = reader.digest,
         reader.phase # "Complete", reader'.phase # "Complete"
  PROVE  UNCHANGED J!journal
BY DEF J!journal

LEMMA StartLineOpens ==
  ASSUME Types, Shape, Reading, InBatch, pc = "starting", reader' = ReaderAfter
  PROVE  [J!Advances]_(J!journal)
<1>1. /\ reader \in Reader /\ StatusOf[state] = Playing /\ state \in GameState
      /\ StartRead(reader, written) /\ written \in Nat
  BY DEF Types, Shape, StartShape, Reading, Writing, Follows
<1>2. CASE /\ written = 0
           /\ ReaderAfter = [reader EXCEPT !.phase = "MatchCreated", !.position = @ + 1]
  <2>1. /\ reader'.steps = reader.steps /\ reader'.digest = reader.digest
        /\ reader.phase # "Complete" /\ reader'.phase # "Complete"
    BY <1>1, <1>2 DEF StartRead, Reader
  <2> QED
    BY <2>1, JournalKept
<1>3. CASE /\ written = 1
           /\ ReaderAfter = [reader EXCEPT !.phase = "Ready", !.initial = {state},
                                           !.digest = DigestOf[state], !.position = @ + 1]
  <2>1. /\ reader'.steps = reader.steps /\ reader'.digest = DigestOf[state]
        /\ reader.digest = NoDigest
        /\ reader.phase # "Complete" /\ reader'.phase # "Complete"
    BY <1>1, <1>3 DEF StartRead, Reader
  <2>2. J!Open
    BY <1>1, <2>1 DEF J!Open
  <2> QED
    BY <2>2 DEF J!Advances
<1> QED
  BY <1>2, <1>3, StartLine

LEMMA ActionLineKeeps ==
  ASSUME Types, Shape, Reading, InBatch, pc = "acting", reader' = ReaderAfter
  PROVE  [J!Advances]_(J!journal)
<1>1. reader \in Reader /\ written = 0
  BY ActionLine DEF Types
<1>2. reader.phase = "Ready"
  BY <1>1 DEF Reading, Writing, Follows, ActionRead
<1>3. reader' = [reader EXCEPT !.phase = "Pending", !.action = action, !.events = <<>>,
                               !.ended = {}, !.position = @ + 1]
  BY ActionLine
<1>4. /\ reader'.steps = reader.steps /\ reader'.digest = reader.digest
      /\ reader.phase # "Complete" /\ reader'.phase # "Complete"
  BY <1>1, <1>2, <1>3 DEF Reader
<1> QED
  BY <1>4, JournalKept

LEMMA RejectionLinePlays ==
  ASSUME Types, Shape, Reading, InBatch, pc = "rejecting", reader' = ReaderAfter
  PROVE  [J!Advances]_(J!journal)
<1>1. /\ reader \in Reader /\ state \in GameState /\ action \in GameAction
      /\ written = 0 /\ StatusOf[state] = Playing
      /\ ~result.accepted /\ Engine[state, action] = result
  BY RejectionLine DEF Types, Shape, RejectShape
<1>2. reader.phase = "Pending" /\ reader.digest = DigestOf[state]
  BY <1>1 DEF Reading, Writing, Follows, RejectedRead
<1>3. reader' = [reader EXCEPT !.phase = "Ready", !.next_step = @ + 1,
                   !.steps = Append(@, RejectedStep(action, result.error, DigestOf[state])),
                   !.position = @ + 1]
  BY RejectionLine
<1>4. /\ reader'.steps = Append(reader.steps, RejectedStep(action, result.error, reader.digest))
      /\ reader'.digest = reader.digest
      /\ reader.phase # "Complete" /\ reader'.phase # "Complete"
  <2>. DEFINE step == RejectedStep(action, result.error, DigestOf[state])
  <2>. HIDE DEF step
  <2>1. /\ reader'.steps = Append(reader.steps, step)
        /\ reader'.digest = reader.digest /\ reader'.phase = "Ready"
    BY <1>1, <1>3 DEF Reader, step
  <2>. QED  BY <1>2, <2>1 DEF step
<1>5. J!Reject(state, action)
  BY <1>1, <1>4 DEF J!Reject, J!RejectedStep, RejectedStep
<1>6. state \in J!Current
  BY <1>1, <1>2 DEF J!Current
<1>7. J!Play
  BY <1>1, <1>4, <1>5, <1>6 DEF J!Play
<1> QED
  BY <1>7 DEF J!Advances

LEMMA EventLineKeeps ==
  ASSUME Types, Shape, Reading, InBatch, pc = "accepting", reader.phase # "Refused",
         written < Len(result.events), reader' = ReaderAfter
  PROVE  [J!Advances]_(J!journal)
<1>1. reader \in Reader /\ written \in Nat
  BY DEF Types
<1>2. Follows(reader, written, next_sequence)
  BY DEF Reading, Writing, Offended
<1>3. reader.phase = "Pending"
  BY <1>2, AcceptedLines DEF Follows, AcceptedRead, EventsRead
<1>4. \/ reader' = [reader EXCEPT !.phase = "Refused", !.position = @ + 1]
      \/ reader' = [reader EXCEPT !.events = Append(@, NextEvent),
                                  !.ended = @ \cup ({NextEvent} \cap Outcome),
                                  !.position = @ + 1]
  BY EventLine
<1>5. /\ reader'.steps = reader.steps /\ reader'.digest = reader.digest
      /\ reader.phase # "Complete" /\ reader'.phase # "Complete"
  BY <1>1, <1>3, <1>4 DEF Reader
<1> QED
  BY <1>5, JournalKept

LEMMA CompletedLinePlays ==
  ASSUME Types, Shape, Reading, InBatch, pc = "accepting", reader.phase # "Refused",
         written = Len(result.events), reader' = ReaderAfter
  PROVE  [J!Advances]_(J!journal)
<1>1. /\ reader \in Reader /\ action \in GameAction /\ result.accepted
      /\ state = result.state
  BY DEF Types, Shape, AcceptShape
<1>2. Follows(reader, written, next_sequence)
  BY DEF Reading, Writing, Offended
<1>3. reader.phase = "Pending" /\ TakenFrom(reader.digest)
  BY <1>2, AcceptedLines DEF Follows, AcceptedRead, EventsRead
<1>4. reader' =
        [reader EXCEPT !.phase = IF reader.ended = {} THEN "Ready" ELSE "Terminal",
           !.event_count = @ + Len(result.events), !.digest = DigestOf[state],
           !.next_step = @ + 1,
           !.steps = Append(@, AcceptedStep(action, result.events, DigestOf[state])),
           !.position = @ + 1]
  BY CompletedLine
<1>5. /\ reader'.digest = DigestOf[result.state]
      /\ reader'.steps = Append(reader.steps, AcceptedStep(action, result.events, reader'.digest))
      /\ reader.phase # "Complete" /\ reader'.phase # "Complete"
  BY <1>1, <1>3, <1>4 DEF Reader
<1>6. PICK s \in GameState : /\ DigestOf[s] = reader.digest /\ StatusOf[s] = Playing
                             /\ Engine[s, action] = result
  BY <1>3 DEF TakenFrom
<1>7. J!Accept(s, action)
  BY <1>1, <1>5, <1>6 DEF J!Accept, J!AcceptedStep, AcceptedStep
<1>8. s \in J!Current
  BY <1>6 DEF J!Current
<1>9. J!Play
  BY <1>1, <1>5, <1>6, <1>7, <1>8 DEF J!Play
<1> QED
  BY <1>9 DEF J!Advances

LEMMA CompletionLineSeals ==
  ASSUME Types, Shape, Reading, InBatch, pc = "completing", reader' = ReaderAfter
  PROVE  [J!Advances]_(J!journal)
<1>1. reader \in Reader /\ state \in GameState /\ OneGameEnded(result.events, StatusOf[state])
  BY DEF Types, Shape, CompleteShape
<1>2. CompletionRead(reader, written)
  BY DEF Reading, Writing, Follows
<1>3. CASE /\ written = 0
           /\ ReaderAfter = [reader EXCEPT !.phase = "Final", !.final = {state},
                                           !.position = @ + 1]
  <2>1. /\ reader'.steps = reader.steps /\ reader'.digest = reader.digest
        /\ reader.phase # "Complete" /\ reader'.phase # "Complete"
    BY <1>1, <1>2, <1>3 DEF CompletionRead, Reader
  <2> QED
    BY <2>1, JournalKept
<1>4. CASE /\ written = 1
           /\ ReaderAfter = [reader EXCEPT !.phase = "Complete", !.position = @ + 1]
  <2>1. /\ reader'.steps = reader.steps /\ reader'.digest = reader.digest
        /\ reader.phase # "Complete" /\ reader'.phase = "Complete"
    BY <1>1, <1>2, <1>4 DEF CompletionRead, Reader
  <2>2. /\ reader.steps # <<>>
        /\ reader.steps[Len(reader.steps)] = AcceptedStep(action, result.events, DigestOf[state])
    BY <1>2 DEF CompletionRead, LastStepIsTheResult
  <2>3. /\ reader.steps[Len(reader.steps)].accepted
        /\ reader.steps[Len(reader.steps)].events = result.events
    BY <2>2 DEF AcceptedStep
  <2>4. state \in J!Current
    BY <1>1, <1>2 DEF J!Current, CompletionRead, Even
  <2>5. J!Seal
    BY <1>1, <2>1, <2>2, <2>3, <2>4 DEF J!Seal, J!OneGameEnded, OneGameEnded
  <2> QED
    BY <2>5 DEF J!Advances
<1> QED
  BY <1>3, <1>4, CompletionLine

LEMMA LineAdvances ==
  ASSUME Types, Shape, Reading, InBatch, reader' = ReaderAfter
  PROVE  [J!Advances]_(J!journal)
<1>1. CASE pc = "accepting" /\ reader.phase = "Refused"
  BY <1>1, OffendedReadsOn DEF J!journal, ReaderAfter
<1>2. CASE pc = "accepting" /\ reader.phase # "Refused"
  <2>1. written < Len(result.events) \/ written = Len(result.events)
    BY <1>2, AcceptedLines
  <2> QED
    BY <1>2, <2>1, EventLineKeeps, CompletedLinePlays
<1> QED
  BY <1>1, <1>2, StartLineOpens, ActionLineKeeps, RejectionLinePlays, CompletionLineSeals
     DEF InBatch, Writing

\* While records wait to be written, the last of them is not on file.
LEMMA NotYetComplete ==
  ASSUME Types, Shape, Reading, InBatch
  PROVE  reader.phase # "Complete"
<1> SUFFICES ASSUME ~Offended(reader) PROVE reader.phase # "Complete"
  BY DEF Offended
<1>1. Follows(reader, written, next_sequence) /\ written \in Nat
  BY DEF Reading, InBatch, Types
<1>2. CASE pc = "starting"
  <2>1. Len(batch) = 2
    BY <1>2 DEF Shape, StartShape, StartBatch
  <2>2. written \in 0 .. 1
    BY <1>1, <2>1 DEF InBatch
  <2> QED
    BY <1>1, <1>2, <2>2 DEF Follows, StartRead
<1>3. CASE pc = "acting"
  BY <1>1, <1>3, ActionLine DEF Follows, ActionRead
<1>4. CASE pc = "accepting"
  <2>1. EventsRead(reader, written)
    BY <1>1, <1>4, AcceptedLines DEF Follows, AcceptedRead
  <2> QED
    BY <2>1 DEF EventsRead
<1>5. CASE pc = "rejecting"
  BY <1>1, <1>5, RejectionLine DEF Follows, RejectedRead
<1>6. CASE pc = "completing"
  <2>1. written = 0 \/ written = 1
    BY <1>6, CompletionLine
  <2> QED
    BY <1>1, <1>6, <2>1 DEF Follows, CompletionRead
<1> QED
  BY <1>2, <1>3, <1>4, <1>5, <1>6 DEF InBatch, Writing

LEMMA NextAdvances == IInv /\ [Next]_vars => [J!Advances]_(J!journal)
<1> SUFFICES ASSUME IInv, [Next]_vars PROVE [J!Advances]_(J!journal)
  OBVIOUS
<1>1. Types /\ Shape /\ Reading
  BY DEF IInv
<1>2. ASSUME reader' = reader PROVE [J!Advances]_(J!journal)
  BY <1>2 DEF J!journal
<1>3. CASE Write
  BY <1>1, <1>3, LineAdvances DEF Write, ReaderAfter, NextLine
<1>4. CASE WriteFails
  <2>1. InBatch /\ (\/ reader' = reader
                    \/ reader' = Advance(reader, TornLine)
                    \/ reader' = ReaderAfter)
    BY <1>4 DEF WriteFails, file, ReaderAfter, NextLine
  <2>2. CASE reader' = Advance(reader, TornLine)
    <3>1. reader.phase # "Complete"
      BY <1>1, <2>1, NotYetComplete
    <3>2. CASE reader' = [reader EXCEPT !.phase = "Malformed"]
      <4>1. /\ reader'.steps = reader.steps /\ reader'.digest = reader.digest
            /\ reader'.phase = "Malformed"
        BY <1>1, <3>2 DEF Types, Reader
      <4> QED
        BY <3>1, <4>1, JournalKept
    <3> QED
      BY <1>1, <1>2, <2>2, <3>2, TornLineRead
  <2> QED
    BY <1>1, <1>2, <2>1, <2>2, LineAdvances
<1>5. CASE UNCHANGED vars
  BY <1>2, <1>5 DEF vars, file
<1>6. CASE RefuseStart \/ Start \/ StartFlushed \/ FlushFails \/ Apply
  BY <1>2, <1>6 DEF RefuseStart, Start, StartFlushed, FlushFails, Apply, file
<1>7. CASE \E a \in GameAction : Submit(a)
  BY <1>2, <1>7 DEF Submit, file
<1>8. CASE AcceptedFlushed \/ RejectedFlushed \/ CompletionFlushed
  BY <1>2, <1>8 DEF AcceptedFlushed, RejectedFlushed, CompletionFlushed, file
<1> QED
  BY <1>3, <1>4, <1>5, <1>6, <1>7, <1>8 DEF Next

\* The recorder implements the journal: whatever the writer does to it, what
\* is on file amounts to whole engine steps, each taken from the state before
\* it, and is sealed only for a match its last step ended (record.rs:113, 165).
THEOREM RecorderKeepsAJournal == Spec => KeepsAJournal
<1>1. Init => J!Blank
  BY DEF Init, NewReader, J!Blank
<1> QED
  BY <1>1, NextAdvances, MatchLogInvariant, PTL DEF Spec, KeepsAJournal, J!JournalSpec

-----------------------------------------------------------------------------
(* Reading on: what the parser makes of one more line, and replay of one   *)
(* more step.                                                              *)

IsReading(f, l) ==
  f = [k \in 0 .. Len(l) |-> IF k = 0 THEN NewReader ELSE Advance(f[k - 1], l[k])]

\* The reader after each number of lines: the function Parse defines.
LEMMA ReadingExists ==
  ASSUME NEW l, Len(l) \in Nat
  PROVE  \E f : IsReading(f, l)
<1>. DEFINE n == Len(l)
            UpTo(f, m) ==
              f = [k \in 0 .. m |-> IF k = 0 THEN NewReader ELSE Advance(f[k - 1], l[k])]
            T == {m \in 0 .. n : \E f : UpTo(f, m)}
<1>1. 0 \in T
  <2>1. UpTo([k \in 0 .. 0 |-> NewReader], 0)
    OBVIOUS
  <2>. HIDE DEF UpTo
  <2>. QED  BY <2>1
<1>2. ASSUME NEW m \in 1 .. n, m - 1 \in T
      PROVE  m \in T
  <2>1. PICK f : UpTo(f, m - 1)
    BY <1>2
  <2>. DEFINE g == [k \in 0 .. m |-> IF k = m THEN Advance(f[m - 1], l[m]) ELSE f[k]]
  <2>2. \A k \in 0 .. m - 1 :
          f[k] = IF k = 0 THEN NewReader ELSE Advance(f[k - 1], l[k])
    BY <2>1
  <2>3. \A k \in 0 .. m : k # m => k \in 0 .. m - 1
    OBVIOUS
  <2>4. \A k \in 1 .. m : k - 1 \in 0 .. m /\ k - 1 # m
    OBVIOUS
  <2>5. m # 0 /\ 0 \in 0 .. m
    OBVIOUS
  <2>6. ASSUME NEW k \in 0 .. m
        PROVE  g[k] = IF k = 0 THEN NewReader ELSE Advance(g[k - 1], l[k])
    <3>1. CASE k = 0
      BY <2>2, <2>3, <2>5, <3>1
    <3>2. CASE k # 0
      <4>1. k \in 1 .. m
        BY <3>2
      <4>2. g[k - 1] = f[k - 1]
        BY <2>4, <4>1
      <4>. QED  BY <2>2, <2>3, <3>2, <4>2
    <3>. QED  BY <3>1, <3>2
  <2>7. UpTo(g, m)
    <3>. HIDE DEF g
    <3>1. g = [k \in 0 .. m |-> g[k]]
      BY DEF g
    <3>. QED  BY <2>6, <3>1
  <2>. HIDE DEF UpTo, g
  <2>. QED  BY <2>7
<1>3. 0 .. n \subseteq T
  <2>. HIDE DEF T
  <2>. QED  BY <1>1, <1>2, BoundedInduction
<1>4. n \in 0 .. n
  OBVIOUS
<1>. QED  BY <1>3, <1>4 DEF IsReading

LEMMA ParseIsReading ==
  ASSUME NEW l, Len(l) \in Nat
  PROVE  \E f : IsReading(f, l) /\ Parse(l) = f[Len(l)]
<1>. DEFINE f == CHOOSE f : IsReading(f, l)
<1>1. IsReading(f, l)
  BY ReadingExists
<1>2. Parse(l) = f[Len(l)]
  BY DEF Parse, IsReading
<1>. QED  BY <1>1, <1>2

LEMMA ParseOfNothing ==
  Parse(<<>>) = NewReader
<1>1. Len(<<>>) = 0
  OBVIOUS
<1>2. PICK f : IsReading(f, <<>>) /\ Parse(<<>>) = f[0]
  BY <1>1, ParseIsReading
<1>. QED  BY <1>1, <1>2 DEF IsReading

LEMMA ParseReadsOn ==
  ASSUME NEW l, NEW x, IsSequence(l)
  PROVE  Parse(Append(l, x)) = Advance(Parse(l), x)
<1>. DEFINE m == Append(l, x)
            n == Len(l)
<1>1. PICK S : l \in Seq(S) /\ x \in S
  <2>1. PICK S0 : l \in Seq(S0)
    BY DEF IsSequence
  <2>2. l \in Seq(S0 \cup {x}) /\ x \in S0 \cup {x}
    BY <2>1
  <2>. QED  BY <2>2
<1>2. /\ n \in Nat /\ Len(m) = n + 1 /\ m[n + 1] = x
      /\ \A i \in 1 .. n : m[i] = l[i]
  BY <1>1
<1>3. PICK f : IsReading(f, l) /\ Parse(l) = f[n]
  BY <1>2, ParseIsReading
<1>4. PICK g : IsReading(g, m) /\ Parse(m) = g[n + 1]
  <2>1. Len(m) \in Nat
    BY <1>2
  <2>. HIDE DEF m
  <2>2. PICK g : IsReading(g, m) /\ Parse(m) = g[Len(m)]
    BY <2>1, ParseIsReading
  <2>. QED  BY <1>2, <2>2
<1>. DEFINE T == {k \in 0 .. n : g[k] = f[k]}
<1>. HIDE DEF m, n
<1>5. \A k \in 0 .. n + 1 :
        g[k] = IF k = 0 THEN NewReader ELSE Advance(g[k - 1], m[k])
  BY <1>2, <1>4 DEF IsReading
<1>6. \A k \in 0 .. n :
        f[k] = IF k = 0 THEN NewReader ELSE Advance(f[k - 1], l[k])
  BY <1>2, <1>3 DEF IsReading, n
<1>7. 0 \in T
  BY <1>2, <1>5, <1>6
<1>8. ASSUME NEW k \in 1 .. n, k - 1 \in T
      PROVE  k \in T
  <2>1. k \in 0 .. n /\ k \in 0 .. n + 1 /\ k # 0 /\ g[k - 1] = f[k - 1]
    BY <1>2, <1>8
  <2>. QED  BY <1>2, <1>5, <1>6, <2>1
<1>9. g[n] = f[n]
  <2>1. 0 .. n \subseteq T /\ n \in 0 .. n
    <3>. HIDE DEF T
    <3>. QED  BY <1>2, <1>7, <1>8, BoundedInduction
  <2>. QED  BY <2>1
<1>10. g[n + 1] = Advance(g[n], x)
  <2>1. n + 1 \in 0 .. n + 1 /\ n + 1 # 0 /\ (n + 1) - 1 = n
    BY <1>2
  <2>. QED  BY <1>2, <1>5, <2>1
<1>. QED  BY <1>3, <1>4, <1>9, <1>10 DEF m

IsReplay(f, engine, r) ==
  f = [k \in 0 .. Len(r.steps) |->
         IF k = 0 THEN StartReplay(r) ELSE ReplayStep(engine, f[k - 1], r.steps[k])]

\* The replay after each number of steps: the function Replay defines.
LEMMA ReplayExists ==
  ASSUME NEW engine, NEW r, Len(r.steps) \in Nat
  PROVE  \E f : IsReplay(f, engine, r)
<1>. DEFINE n == Len(r.steps)
            UpTo(f, m) ==
              f = [k \in 0 .. m |->
                     IF k = 0 THEN StartReplay(r) ELSE ReplayStep(engine, f[k - 1], r.steps[k])]
            T == {m \in 0 .. n : \E f : UpTo(f, m)}
<1>1. 0 \in T
  <2>1. UpTo([k \in 0 .. 0 |-> StartReplay(r)], 0)
    OBVIOUS
  <2>. HIDE DEF UpTo
  <2>. QED  BY <2>1
<1>2. ASSUME NEW m \in 1 .. n, m - 1 \in T
      PROVE  m \in T
  <2>1. PICK f : UpTo(f, m - 1)
    BY <1>2
  <2>. DEFINE g == [k \in 0 .. m |->
                      IF k = m THEN ReplayStep(engine, f[m - 1], r.steps[m]) ELSE f[k]]
  <2>2. \A k \in 0 .. m - 1 :
          f[k] = IF k = 0 THEN StartReplay(r) ELSE ReplayStep(engine, f[k - 1], r.steps[k])
    BY <2>1
  <2>3. \A k \in 0 .. m : k # m => k \in 0 .. m - 1
    OBVIOUS
  <2>4. \A k \in 1 .. m : k - 1 \in 0 .. m /\ k - 1 # m
    OBVIOUS
  <2>5. m # 0 /\ 0 \in 0 .. m
    OBVIOUS
  <2>6. ASSUME NEW k \in 0 .. m
        PROVE  g[k] = IF k = 0 THEN StartReplay(r) ELSE ReplayStep(engine, g[k - 1], r.steps[k])
    <3>1. CASE k = 0
      BY <2>2, <2>3, <2>5, <3>1
    <3>2. CASE k # 0
      <4>1. k \in 1 .. m
        BY <3>2
      <4>2. g[k - 1] = f[k - 1]
        BY <2>4, <4>1
      <4>. QED  BY <2>2, <2>3, <3>2, <4>2
    <3>. QED  BY <3>1, <3>2
  <2>7. UpTo(g, m)
    <3>. HIDE DEF g
    <3>1. g = [k \in 0 .. m |-> g[k]]
      BY DEF g
    <3>. QED  BY <2>6, <3>1
  <2>. HIDE DEF UpTo, g
  <2>. QED  BY <2>7
<1>3. 0 .. n \subseteq T
  <2>. HIDE DEF T
  <2>. QED  BY <1>1, <1>2, BoundedInduction
<1>4. n \in 0 .. n
  OBVIOUS
<1>. QED  BY <1>3, <1>4 DEF IsReplay

LEMMA ReplayIsReplay ==
  ASSUME NEW engine, NEW r, Len(r.steps) \in Nat
  PROVE  \E f : IsReplay(f, engine, r) /\ Replay(engine, r) = f[Len(r.steps)]
<1>. DEFINE f == CHOOSE f : IsReplay(f, engine, r)
<1>1. IsReplay(f, engine, r)
  BY ReplayExists
<1>2. Replay(engine, r) = f[Len(r.steps)]
  BY DEF Replay, IsReplay
<1>. QED  BY <1>1, <1>2

LEMMA ReplayOfNothing ==
  ASSUME NEW r, r.steps = <<>>
  PROVE  Replay(Engine, r) = StartReplay(r)
<1>1. Len(r.steps) = 0
  OBVIOUS
<1>2. PICK f : IsReplay(f, Engine, r) /\ Replay(Engine, r) = f[0]
  BY <1>1, ReplayIsReplay
<1>. QED  BY <1>1, <1>2 DEF IsReplay

\* Replay looks at nothing but the initial state and the steps.
LEMMA ReplayOfTheSame ==
  ASSUME NEW r, NEW q, q.initial = r.initial, q.steps = r.steps
  PROVE  Replay(Engine, q) = Replay(Engine, r)
<1>1. StartReplay(q) = StartReplay(r)
  BY DEF StartReplay
<1>. QED  BY <1>1 DEF Replay

LEMMA ReplayGoesOn ==
  ASSUME NEW r, NEW q, NEW step, IsSequence(r.steps),
         q.initial = r.initial, q.steps = Append(r.steps, step)
  PROVE  Replay(Engine, q) = ReplayStep(Engine, Replay(Engine, r), step)
<1>. DEFINE n == Len(r.steps)
<1>1. PICK S : r.steps \in Seq(S) /\ step \in S
  <2>1. PICK S0 : r.steps \in Seq(S0)
    BY DEF IsSequence
  <2>2. r.steps \in Seq(S0 \cup {step}) /\ step \in S0 \cup {step}
    BY <2>1
  <2>. QED  BY <2>2
<1>2. /\ n \in Nat /\ Len(q.steps) = n + 1 /\ q.steps[n + 1] = step
      /\ \A i \in 1 .. n : q.steps[i] = r.steps[i]
  BY <1>1
<1>3. PICK f : IsReplay(f, Engine, r) /\ Replay(Engine, r) = f[n]
  BY <1>2, ReplayIsReplay
<1>4. PICK g : IsReplay(g, Engine, q) /\ Replay(Engine, q) = g[n + 1]
  <2>1. Len(q.steps) \in Nat
    BY <1>2
  <2>2. PICK g : IsReplay(g, Engine, q) /\ Replay(Engine, q) = g[Len(q.steps)]
    BY <2>1, ReplayIsReplay
  <2>. QED  BY <1>2, <2>2
<1>. DEFINE T == {k \in 0 .. n : g[k] = f[k]}
<1>. HIDE DEF n
<1>5. \A k \in 0 .. n + 1 :
        g[k] = IF k = 0 THEN StartReplay(q) ELSE ReplayStep(Engine, g[k - 1], q.steps[k])
  BY <1>2, <1>4 DEF IsReplay
<1>6. \A k \in 0 .. n :
        f[k] = IF k = 0 THEN StartReplay(r) ELSE ReplayStep(Engine, f[k - 1], r.steps[k])
  BY <1>2, <1>3 DEF IsReplay, n
<1>7. 0 \in T
  <2>1. StartReplay(q) = StartReplay(r)
    BY DEF StartReplay
  <2>2. 0 \in 0 .. n /\ 0 \in 0 .. n + 1
    BY <1>2
  <2>3. g[0] = StartReplay(q) /\ f[0] = StartReplay(r)
    BY <1>5, <1>6, <2>2
  <2>. QED  BY <2>1, <2>2, <2>3
<1>8. ASSUME NEW k \in 1 .. n, k - 1 \in T
      PROVE  k \in T
  <2>1. k \in 0 .. n /\ k \in 0 .. n + 1 /\ k # 0 /\ g[k - 1] = f[k - 1]
    BY <1>2, <1>8
  <2>. QED  BY <1>2, <1>5, <1>6, <2>1
<1>9. g[n] = f[n]
  <2>1. n \in Nat
    BY <1>2
  <2>2. 0 .. n \subseteq T
    <3>. HIDE DEF T
    <3>. QED  BY <1>7, <1>8, <2>1, BoundedInduction
  <2>3. n \in 0 .. n
    BY <2>1
  <2>. QED  BY <2>2, <2>3
<1>10. g[n + 1] = ReplayStep(Engine, g[n], step)
  <2>1. n + 1 \in 0 .. n + 1 /\ n + 1 # 0 /\ (n + 1) - 1 = n
    BY <1>2
  <2>. QED  BY <1>2, <1>5, <2>1
<1>. QED  BY <1>3, <1>4, <1>9, <1>10

-----------------------------------------------------------------------------
(* History: what the lines written so far say of the match, as replay      *)
(* tells it, at every place a stop may cut them.                           *)

Facts(r) == Replay(Engine, r)

ReplayedTo(r, s) == Facts(r).reached = {s}

Counts(r) == Facts(r).step_count = Len(r.steps) /\ Facts(r).event_count = r.event_count

\* The steps read so far end the match once, this way.
EndsOnce(r, outcome) ==
  \E ended \in Facts(r).game_ended : /\ Facts(r).game_ended = {ended}
                                     /\ ended.outcome = outcome

\* Replay of what r has read reaches a state its last digest names.
Replays(r) ==
  r.initial # {} => \E s \in GameState : ReplayedTo(r, s) /\ DigestOf[s] = r.digest

\* How replay stands once the reader r has read the first w records of the batch.
StartStands(r, w) == r.initial = (IF w = 2 THEN {state} ELSE {}) /\ Facts(r).game_ended = {}

ActionStands(r) == ReplayedTo(r, state) /\ Facts(r).game_ended = {}

EventsStand(r) ==
  /\ Facts(r).game_ended = {}
  /\ \E s \in GameState : /\ ReplayedTo(r, s) /\ DigestOf[s] = r.digest
                          /\ Engine[s, action] = result

StepStands(r) ==
  /\ ReplayedTo(r, state)
  /\ Facts(r).game_ended =
       GameEndedEvents(next_step - 1, AcceptedStep(action, result.events, DigestOf[state]))

RejectedStands(r, w) ==
  /\ ActionStands(r)
  /\ w = 1 => /\ r.steps # <<>>
              /\ r.steps[Len(r.steps)] = RejectedStep(action, result.error, DigestOf[state])

CompletionStands(r, w) ==
  /\ ReplayedTo(r, state) /\ EndsOnce(r, StatusOf[state])
  /\ w # 0 => r.final = {state}

Stands(r, w) ==
  /\ Counts(r)
  /\ pc = "starting" => StartStands(r, w)
  /\ pc = "acting" => ActionStands(r)
  /\ pc = "accepting" => IF w <= Len(result.events) THEN EventsStand(r) ELSE StepStands(r)
  /\ pc = "rejecting" => RejectedStands(r, w)
  /\ pc = "completing" => CompletionStands(r, w)

\* The reader of the first k of some lines.
ReadUpTo(l, k) == Parse(SubSeq(l, 1, k))

\* What holds of every place a stop may cut the lines.
Prefixes ==
  /\ reader = Parse(lines)
  /\ \A k \in 0 .. Len(lines) : ReadUpTo(lines, k) \in Reader /\ Replays(ReadUpTo(lines, k))
  /\ \A k \in 0 .. Len(lines) - 1 : ReadUpTo(lines, k).phase # "Complete"

AnswersKept ==
  /\ flushed <= Len(lines)
  /\ \A k \in flushed .. Len(lines) : BeginsWith(ReadUpTo(lines, k).steps, answers)

\* Every step but the one in progress has been answered.
AnswersCounted ==
  /\ IsSequence(answers)
  /\ pc \in {"new", "starting"} => answers = <<>>
  /\ pc = "acting" \/ (pc = "idle" /\ lifecycle = "Active") => Len(answers) = next_step - 1
  /\ pc \in {"accepting", "rejecting", "completing"} => Len(answers) = next_step - 2

Standing ==
  /\ Writing => reader.phase = "Refused" \/ Stands(reader, written)
  /\ pc = "idle" /\ lifecycle = "Active" => Counts(reader) /\ ActionStands(reader)

Sealed ==
  /\ reader.phase = "Complete" => StatusOf[state] \in Outcome /\ Verifies(Engine, lines)
  /\ lifecycle = "MatchCompleted" => reader.phase = "Complete" /\ flushed = Len(lines)

History == Prefixes /\ AnswersKept /\ AnswersCounted /\ Standing /\ Sealed

-----------------------------------------------------------------------------
(* What each line does to the replay of the lines before it.               *)

\* Replay has gone one step on, to this state.
StepTaken(facts, next, step, events, to) ==
  /\ next.reached = {to}
  /\ next.step_count = facts.step_count + 1
  /\ next.event_count = facts.event_count + Len(events)
  /\ next.game_ended = facts.game_ended \cup GameEndedEvents(facts.step_count + 1, step)

\* A step the engine takes as it is recorded.
LEMMA AcceptedStepReplays ==
  ASSUME NEW facts, NEW s, NEW act, NEW res, NEW to, facts.reached = {s}, Engine[s, act] = res,
         res.accepted, to = res.state
  PROVE  LET step == AcceptedStep(act, res.events, DigestOf[to])
         IN StepTaken(facts, ReplayStep(Engine, facts, step), step, res.events, to)
<1>. DEFINE step == AcceptedStep(act, res.events, DigestOf[to])
<1>1. /\ step.action = act /\ step.accepted /\ step.events = res.events
      /\ step.digest = DigestOf[res.state] /\ to = res.state
  BY DEF AcceptedStep
<1>. HIDE DEF step
<1>2. Agrees(step, s, res)
  BY <1>1 DEF Agrees
<1>3. {t \in facts.reached : Agrees(step, t, Engine[t, step.action])} = {s}
  BY <1>1, <1>2
<1>4. {IF Engine[t, step.action].accepted THEN Engine[t, step.action].state ELSE t : t \in {s}}
        = {res.state}
  BY <1>1
<1>5. ReplayStep(Engine, facts, step).reached = {res.state}
  BY <1>3, <1>4 DEF ReplayStep
<1>6. LET next == ReplayStep(Engine, facts, step)
      IN /\ next.step_count = facts.step_count + 1
         /\ next.event_count = facts.event_count + Len(res.events)
         /\ next.game_ended = facts.game_ended \cup GameEndedEvents(facts.step_count + 1, step)
  BY <1>1 DEF ReplayStep
<1>. QED  BY <1>1, <1>5, <1>6 DEF step, StepTaken

LEMMA PlusNothing == \A n \in Nat : n + 0 = n
OBVIOUS

\* Replay has gone one step on, which changed nothing.
OneStepMore(facts, next, s) ==
  /\ next.reached = {s}
  /\ next.step_count = facts.step_count + 1
  /\ next.event_count = facts.event_count
  /\ next.game_ended = facts.game_ended

\* A step it refuses as it is recorded.
LEMMA RejectedStepReplays ==
  ASSUME NEW facts, NEW s, NEW act, NEW res, facts.reached = {s}, Engine[s, act] = res,
         ~res.accepted, facts.event_count \in Nat
  PROVE  OneStepMore(facts, ReplayStep(Engine, facts, RejectedStep(act, res.error, DigestOf[s])), s)
<1>. DEFINE step == RejectedStep(act, res.error, DigestOf[s])
<1>1. /\ step.action = act /\ ~step.accepted /\ step.error = res.error
      /\ step.digest = DigestOf[s]
  BY DEF RejectedStep
<1>. HIDE DEF step
<1>2. Agrees(step, s, res)
  BY <1>1 DEF Agrees
<1>3. {t \in facts.reached : Agrees(step, t, Engine[t, step.action])} = {s}
  BY <1>1, <1>2
<1>4. {IF Engine[t, step.action].accepted THEN Engine[t, step.action].state ELSE t : t \in {s}}
        = {s}
  BY <1>1
<1>5. ReplayStep(Engine, facts, step).reached = {s}
  BY <1>3, <1>4 DEF ReplayStep
<1>6. GameEndedEvents(facts.step_count + 1, step) = {}
  BY <1>1 DEF GameEndedEvents
<1>7. LET next == ReplayStep(Engine, facts, step)
      IN /\ next.step_count = facts.step_count + 1
         /\ next.event_count = facts.event_count + 0
         /\ next.game_ended = facts.game_ended \cup GameEndedEvents(facts.step_count + 1, step)
  BY <1>1 DEF ReplayStep
<1>8. facts.event_count + 0 = facts.event_count
  BY PlusNothing, Zenon
<1>9. facts.game_ended \cup {} = facts.game_ended
  OBVIOUS
<1>. QED  BY <1>5, <1>6, <1>7, <1>8, <1>9 DEF step, OneStepMore

LEMMA LastOfAppend ==
  ASSUME NEW s, NEW x, IsSequence(s)
  PROVE  /\ Len(s) \in Nat /\ Len(Append(s, x)) = Len(s) + 1 /\ Append(s, x) # <<>>
         /\ Append(s, x)[Len(Append(s, x))] = x
         /\ \A i \in 1 .. Len(s) : Append(s, x)[i] = s[i]
<1>1. PICK S0 : s \in Seq(S0)
  BY DEF IsSequence
<1>2. s \in Seq(S0 \cup {x}) /\ x \in S0 \cup {x}
  BY <1>1
<1>. QED  BY <1>2

\* The line after leaves the replay standing: on to the next place in the
\* batch, in a state the last digest names, with at most one step more.
LineKeeps(q) ==
  /\ q.phase = "Refused" \/ Stands(q, written + 1)
  /\ Replays(q)
  /\ q.steps = reader.steps \/ \E step : q.steps = Append(reader.steps, step)

LEMMA FactsOfTheSame ==
  ASSUME NEW q, q.initial = reader.initial, q.steps = reader.steps
  PROVE  Facts(q) = Facts(reader)
BY ReplayOfTheSame DEF Facts

LEMMA StartLineStands ==
  ASSUME Types, Shape, Reading, InBatch, pc = "starting", Stands(reader, written)
  PROVE  LineKeeps(ReaderAfter)
<1>1. reader \in Reader /\ state \in GameState
  BY DEF Types
<1>2. StartRead(reader, written)
  BY DEF Reading, Writing, Follows
<1>3. Counts(reader) /\ StartStands(reader, written)
  BY DEF Stands
<1>4. CASE /\ written = 0
           /\ ReaderAfter = [reader EXCEPT !.phase = "MatchCreated", !.position = @ + 1]
  <2>1. /\ ReaderAfter.initial = reader.initial /\ ReaderAfter.steps = reader.steps
        /\ ReaderAfter.event_count = reader.event_count
    BY <1>1, <1>4 DEF Reader
  <2>2. Facts(ReaderAfter) = Facts(reader)
    BY <2>1, FactsOfTheSame
  <2>3. reader.initial = {} /\ Facts(reader).game_ended = {}
    BY <1>3, <1>4 DEF StartStands
  <2>4. Counts(ReaderAfter) /\ StartStands(ReaderAfter, 1)
    BY <1>3, <2>1, <2>2, <2>3 DEF Counts, StartStands
  <2>5. Stands(ReaderAfter, written + 1)
    BY <1>4, <2>4 DEF Stands
  <2>6. Replays(ReaderAfter)
    BY <2>1, <2>3 DEF Replays
  <2>. QED  BY <2>1, <2>5, <2>6 DEF LineKeeps
<1>5. CASE /\ written = 1
           /\ ReaderAfter = [reader EXCEPT !.phase = "Ready", !.initial = {state},
                                           !.digest = DigestOf[state], !.position = @ + 1]
  <2>1. /\ ReaderAfter.initial = {state} /\ ReaderAfter.steps = reader.steps
        /\ ReaderAfter.event_count = reader.event_count /\ ReaderAfter.digest = DigestOf[state]
    BY <1>1, <1>5 DEF Reader
  <2>2. ReaderAfter.steps = <<>> /\ ReaderAfter.event_count = 0
    BY <1>2, <2>1 DEF StartRead
  <2>3. Facts(ReaderAfter) = StartReplay(ReaderAfter)
    BY <2>2, ReplayOfNothing DEF Facts
  <2>4. /\ Facts(ReaderAfter).reached = {state} /\ Facts(ReaderAfter).step_count = 0
        /\ Facts(ReaderAfter).event_count = 0 /\ Facts(ReaderAfter).game_ended = {}
    BY <2>1, <2>3 DEF StartReplay
  <2>5. Counts(ReaderAfter) /\ StartStands(ReaderAfter, 2)
    BY <2>1, <2>2, <2>4 DEF Counts, StartStands
  <2>6. Stands(ReaderAfter, written + 1)
    BY <1>5, <2>5 DEF Stands
  <2>7. Replays(ReaderAfter)
    BY <1>1, <2>1, <2>4 DEF Replays, ReplayedTo
  <2>. QED  BY <2>1, <2>6, <2>7 DEF LineKeeps
<1>. QED  BY <1>4, <1>5, StartLine

LEMMA ActionLineStands ==
  ASSUME Types, Shape, Reading, InBatch, pc = "acting", Stands(reader, written)
  PROVE  LineKeeps(ReaderAfter)
<1>1. reader \in Reader /\ state \in GameState
  BY DEF Types
<1>2. /\ written = 0
      /\ ReaderAfter = [reader EXCEPT !.phase = "Pending", !.action = action, !.events = <<>>,
                                      !.ended = {}, !.position = @ + 1]
  BY ActionLine
<1>3. /\ ReaderAfter.initial = reader.initial /\ ReaderAfter.steps = reader.steps
      /\ ReaderAfter.event_count = reader.event_count /\ ReaderAfter.digest = reader.digest
  BY <1>1, <1>2 DEF Reader
<1>4. Facts(ReaderAfter) = Facts(reader)
  BY <1>3, FactsOfTheSame
<1>5. reader.digest = DigestOf[state]
  BY <1>2 DEF Reading, Writing, Follows, ActionRead, Even
<1>6. Counts(ReaderAfter) /\ ActionStands(ReaderAfter)
  BY <1>3, <1>4 DEF Stands, Counts, ActionStands, ReplayedTo
<1>7. Stands(ReaderAfter, written + 1)
  BY <1>6 DEF Stands
<1>8. Replays(ReaderAfter)
  BY <1>1, <1>3, <1>5, <1>6 DEF Replays, ActionStands
<1>. QED  BY <1>3, <1>7, <1>8 DEF LineKeeps

LEMMA RejectionLineStands ==
  ASSUME Types, Shape, Reading, InBatch, pc = "rejecting", Stands(reader, written)
  PROVE  LineKeeps(ReaderAfter)
<1>. DEFINE step == RejectedStep(action, result.error, DigestOf[state])
<1>0. ~result.accepted /\ Engine[state, action] = result
  BY DEF Types, Shape, RejectShape
<1>1. reader \in Reader /\ state \in GameState
  BY DEF Types
<1>2. /\ written = 0
      /\ ReaderAfter = [reader EXCEPT !.phase = "Ready", !.next_step = @ + 1,
                          !.steps = Append(@, step), !.position = @ + 1]
  BY RejectionLine
<1>3. Counts(reader) /\ ActionStands(reader)
  BY DEF Stands, RejectedStands
<1>4. reader.digest = DigestOf[state]
  BY DEF Reading, Writing, Follows, RejectedRead
<1>5. reader.event_count \in Nat /\ IsSequence(reader.steps) /\ Len(reader.steps) \in Nat
  BY <1>1 DEF Reader, IsSequence
<1>6. OneStepMore(Facts(reader), ReplayStep(Engine, Facts(reader), step), state)
  <2>1. Facts(reader).reached = {state} /\ Facts(reader).event_count \in Nat
    BY <1>3, <1>5 DEF Counts, ActionStands, ReplayedTo
  <2>. QED  BY <1>0, <2>1, RejectedStepReplays, Zenon
<1>. HIDE DEF step
<1>7. /\ ReaderAfter.initial = reader.initial /\ ReaderAfter.steps = Append(reader.steps, step)
      /\ ReaderAfter.event_count = reader.event_count /\ ReaderAfter.digest = reader.digest
  BY <1>1, <1>2 DEF Reader
<1>8. Facts(ReaderAfter) = ReplayStep(Engine, Facts(reader), step)
  BY <1>5, <1>7, ReplayGoesOn DEF Facts
<1>9. /\ Len(ReaderAfter.steps) = Len(reader.steps) + 1 /\ ReaderAfter.steps # <<>>
      /\ ReaderAfter.steps[Len(ReaderAfter.steps)] = step
  <2>1. LET after == Append(reader.steps, step)
        IN Len(after) = Len(reader.steps) + 1 /\ after # <<>> /\ after[Len(after)] = step
    BY <1>5, LastOfAppend
  <2>. QED  BY <1>7, <2>1
<1>10. Counts(ReaderAfter) /\ ActionStands(ReaderAfter)
  BY <1>3, <1>6, <1>7, <1>8, <1>9 DEF Counts, ActionStands, ReplayedTo, OneStepMore
<1>11. RejectedStands(ReaderAfter, written + 1)
  BY <1>9, <1>10 DEF RejectedStands, step
<1>12. Stands(ReaderAfter, written + 1)
  BY <1>10, <1>11 DEF Stands
<1>13. Replays(ReaderAfter)
  BY <1>1, <1>4, <1>7, <1>10 DEF Replays, ActionStands
<1>. QED  BY <1>7, <1>12, <1>13 DEF LineKeeps

LEMMA EventLineStands ==
  ASSUME Types, Shape, Reading, InBatch, pc = "accepting", reader.phase # "Refused",
         written < Len(result.events), Stands(reader, written), Replays(reader)
  PROVE  LineKeeps(ReaderAfter)
<1>1. /\ reader \in Reader /\ state \in GameState /\ written \in 0 .. Len(result.events)
      /\ Len(result.events) \in Nat
  BY AcceptedLines DEF Types
<1>2. \/ ReaderAfter = [reader EXCEPT !.phase = "Refused", !.position = @ + 1]
      \/ ReaderAfter = [reader EXCEPT !.events = Append(@, NextEvent),
                                      !.ended = @ \cup ({NextEvent} \cap Outcome),
                                      !.position = @ + 1]
  BY EventLine
<1>3. /\ ReaderAfter.initial = reader.initial /\ ReaderAfter.steps = reader.steps
      /\ ReaderAfter.event_count = reader.event_count /\ ReaderAfter.digest = reader.digest
  BY <1>1, <1>2 DEF Reader
<1>4. Facts(ReaderAfter) = Facts(reader)
  BY <1>3, FactsOfTheSame
<1>5. Counts(reader) /\ EventsStand(reader)
  BY <1>1 DEF Stands
<1>6. Counts(ReaderAfter) /\ EventsStand(ReaderAfter)
  BY <1>3, <1>4, <1>5 DEF Counts, EventsStand, ReplayedTo
<1>7. written + 1 <= Len(result.events)
  BY <1>1
<1>8. Stands(ReaderAfter, written + 1)
  BY <1>6, <1>7 DEF Stands
<1>9. Replays(ReaderAfter)
  BY <1>3, <1>4 DEF Replays, ReplayedTo
<1>. QED  BY <1>3, <1>8, <1>9 DEF LineKeeps

LEMMA CompletedLineStands ==
  ASSUME Types, Shape, Reading, InBatch, pc = "accepting", reader.phase # "Refused",
         written = Len(result.events), Stands(reader, written)
  PROVE  LineKeeps(ReaderAfter)
<1>. DEFINE step == AcceptedStep(action, result.events, DigestOf[state])
<1>0. result.accepted /\ state = result.state
  BY DEF Shape, AcceptShape
<1>1. /\ reader \in Reader /\ state \in GameState /\ Len(result.events) \in Nat
      /\ written \in Nat /\ next_step \in Nat
  BY AcceptedLines DEF Types
<1>2. ReaderAfter =
        [reader EXCEPT !.phase = IF reader.ended = {} THEN "Ready" ELSE "Terminal",
           !.event_count = @ + Len(result.events), !.digest = DigestOf[state],
           !.next_step = @ + 1, !.steps = Append(@, step), !.position = @ + 1]
  BY CompletedLine
<1>3. Counts(reader) /\ EventsStand(reader)
  BY <1>1 DEF Stands
<1>4. reader.event_count \in Nat /\ IsSequence(reader.steps) /\ Len(reader.steps) \in Nat
  BY <1>1 DEF Reader, IsSequence
<1>5. Len(reader.steps) + 1 = next_step - 1
  <2>1. Follows(reader, written, next_sequence)
    BY DEF Reading, Writing, Offended
  <2>2. EventsRead(reader, written) /\ Placed(reader, next_sequence)
    BY <1>1, <2>1 DEF Follows, AcceptedRead
  <2>. QED  BY <1>1, <1>4, <2>2 DEF EventsRead, Placed
<1>6. StepTaken(Facts(reader), ReplayStep(Engine, Facts(reader), step), step, result.events, state)
  <2>1. PICK s \in GameState : Facts(reader).reached = {s} /\ Engine[s, action] = result
    BY <1>3 DEF EventsStand, ReplayedTo
  <2>. QED  BY <1>0, <2>1, AcceptedStepReplays, Zenon
<1>. HIDE DEF step
<1>7. /\ ReaderAfter.initial = reader.initial /\ ReaderAfter.steps = Append(reader.steps, step)
      /\ ReaderAfter.event_count = reader.event_count + Len(result.events)
      /\ ReaderAfter.digest = DigestOf[state]
  BY <1>1, <1>2 DEF Reader
<1>8. Facts(ReaderAfter) = ReplayStep(Engine, Facts(reader), step)
  BY <1>4, <1>7, ReplayGoesOn DEF Facts
<1>9. Len(ReaderAfter.steps) = Len(reader.steps) + 1
  BY <1>4, <1>7, LastOfAppend
<1>10. Counts(ReaderAfter) /\ ReplayedTo(ReaderAfter, state)
  BY <1>3, <1>6, <1>7, <1>8, <1>9 DEF Counts, ReplayedTo, StepTaken
<1>11. Facts(ReaderAfter).game_ended = GameEndedEvents(next_step - 1, step)
  BY <1>3, <1>5, <1>6, <1>8 DEF Counts, EventsStand, StepTaken
<1>12. StepStands(ReaderAfter)
  BY <1>10, <1>11 DEF StepStands, step
<1>13. ~(written + 1 <= Len(result.events))
  BY <1>1
<1>14. Stands(ReaderAfter, written + 1)
  BY <1>10, <1>12, <1>13 DEF Stands
<1>15. Replays(ReaderAfter)
  BY <1>1, <1>7, <1>10 DEF Replays
<1>. QED  BY <1>7, <1>14, <1>15 DEF LineKeeps

LEMMA CompletionLineStands ==
  ASSUME Types, Shape, Reading, InBatch, pc = "completing", Stands(reader, written)
  PROVE  LineKeeps(ReaderAfter)
<1>1. reader \in Reader /\ state \in GameState
  BY DEF Types
<1>2. \/ written = 0 /\ ReaderAfter = [reader EXCEPT !.phase = "Final", !.final = {state},
                                                    !.position = @ + 1]
      \/ written = 1 /\ ReaderAfter = [reader EXCEPT !.phase = "Complete", !.position = @ + 1]
  BY CompletionLine
<1>3. Counts(reader) /\ CompletionStands(reader, written)
  BY DEF Stands
<1>4. /\ ReaderAfter.initial = reader.initial /\ ReaderAfter.steps = reader.steps
      /\ ReaderAfter.event_count = reader.event_count /\ ReaderAfter.digest = reader.digest
      /\ ReaderAfter.final = {state}
  <2>1. CASE written = 0
    <3>1. ReaderAfter = [reader EXCEPT !.phase = "Final", !.final = {state}, !.position = @ + 1]
      BY <1>2, <2>1
    <3>. QED  BY <1>1, <3>1 DEF Reader
  <2>2. CASE written = 1
    <3>1. reader.final = {state}
      BY <1>3, <2>2 DEF CompletionStands
    <3>. QED  BY <1>1, <1>2, <2>2, <3>1 DEF Reader
  <2>. QED  BY <1>2, <2>1, <2>2
<1>5. Facts(ReaderAfter) = Facts(reader)
  BY <1>4, FactsOfTheSame
<1>6. reader.digest = DigestOf[state]
  BY DEF Reading, Writing, Follows, CompletionRead, Even
<1>7. Counts(ReaderAfter) /\ CompletionStands(ReaderAfter, written + 1)
  BY <1>3, <1>4, <1>5 DEF Counts, CompletionStands, ReplayedTo, EndsOnce
<1>8. Stands(ReaderAfter, written + 1)
  BY <1>7 DEF Stands
<1>9. Replays(ReaderAfter)
  BY <1>1, <1>4, <1>6, <1>7 DEF Replays, CompletionStands
<1>. QED  BY <1>4, <1>8, <1>9 DEF LineKeeps

LEMMA LineStands ==
  ASSUME Types, Shape, Reading, InBatch, Replays(reader),
         reader.phase = "Refused" \/ Stands(reader, written)
  PROVE  LineKeeps(ReaderAfter)
<1>1. CASE reader.phase = "Refused"
  <2>1. ReaderAfter = reader
    BY <1>1, OffendedReadsOn DEF ReaderAfter
  <2>. QED  BY <1>1, <2>1 DEF LineKeeps
<1>2. CASE reader.phase # "Refused" /\ pc = "accepting"
  <2>1. written < Len(result.events) \/ written = Len(result.events)
    BY <1>2, AcceptedLines
  <2>. QED  BY <1>2, <2>1, EventLineStands, CompletedLineStands
<1>3. CASE reader.phase # "Refused" /\ pc # "accepting"
  BY <1>3, StartLineStands, ActionLineStands, RejectionLineStands, CompletionLineStands
     DEF InBatch, Writing
<1>. QED  BY <1>1, <1>2, <1>3

-----------------------------------------------------------------------------
(* History holds at first and every step keeps it.                         *)

LEMMA CutsOfAppend ==
  ASSUME NEW l, NEW x, IsSequence(l)
  PROVE  /\ Len(l) \in Nat /\ Len(Append(l, x)) = Len(l) + 1
         /\ \A k \in 0 .. Len(l) : SubSeq(Append(l, x), 1, k) = SubSeq(l, 1, k)
         /\ SubSeq(Append(l, x), 1, Len(l) + 1) = Append(l, x)
         /\ SubSeq(l, 1, Len(l)) = l
<1>1. PICK S0 : l \in Seq(S0)
  BY DEF IsSequence
<1>2. PICK S : l \in Seq(S) /\ x \in S
  <2>1. l \in Seq(S0 \cup {x}) /\ x \in S0 \cup {x}
    BY <1>1
  <2>. QED  BY <2>1
<1>3. Len(l) \in Nat /\ Len(Append(l, x)) = Len(l) + 1 /\ Append(l, x) \in Seq(S)
  BY <1>2
<1>4. ASSUME NEW k \in 0 .. Len(l)
      PROVE  SubSeq(Append(l, x), 1, k) = SubSeq(l, 1, k)
  BY <1>2, <1>3
<1>5. \A s \in Seq(S) : SubSeq(s, 1, Len(s)) = s
  OBVIOUS
<1>. QED  BY <1>2, <1>3, <1>4, <1>5

LEMMA WholeIsRead ==
  ASSUME Types, Prefixes
  PROVE  ReadUpTo(lines, Len(lines)) = reader /\ Replays(reader)
<1>1. SubSeq(lines, 1, Len(lines)) = lines /\ Len(lines) \in Nat
  BY CutsOfAppend DEF Types
<1>2. ReadUpTo(lines, Len(lines)) = reader
  BY <1>1 DEF ReadUpTo, Prefixes
<1>3. Len(lines) \in 0 .. Len(lines)
  BY <1>1
<1>. QED  BY <1>2, <1>3 DEF Prefixes

LEMMA PrefixesGrow ==
  ASSUME Types, Prefixes, NEW line, reader.phase # "Complete",
         lines' = Append(lines, line), reader' = Advance(reader, line), Replays(reader'),
         reader' \in Reader
  PROVE  /\ Prefixes'
         /\ Len(lines) \in Nat /\ Len(lines') = Len(lines) + 1
         /\ \A k \in 0 .. Len(lines) : ReadUpTo(lines', k) = ReadUpTo(lines, k)
         /\ ReadUpTo(lines', Len(lines')) = reader'
<1>. DEFINE n == Len(lines)
<1>1. /\ n \in Nat /\ Len(lines') = n + 1
      /\ \A k \in 0 .. n : SubSeq(lines', 1, k) = SubSeq(lines, 1, k)
      /\ SubSeq(lines', 1, n + 1) = lines'
  BY CutsOfAppend DEF Types
<1>2. \A k \in 0 .. n : ReadUpTo(lines', k) = ReadUpTo(lines, k)
  BY <1>1 DEF ReadUpTo
<1>3. reader' = Parse(lines')
  <2>1. reader = Parse(lines) /\ IsSequence(lines)
    BY DEF Types, Prefixes
  <2>. QED  BY <2>1, ParseReadsOn
<1>4. ReadUpTo(lines', n + 1) = reader'
  BY <1>1, <1>3 DEF ReadUpTo
<1>5. ReadUpTo(lines, n) = reader
  BY WholeIsRead
<1>6. /\ \A k \in 0 .. n : ReadUpTo(lines, k) \in Reader /\ Replays(ReadUpTo(lines, k))
      /\ \A k \in 0 .. n - 1 : ReadUpTo(lines, k).phase # "Complete"
  BY DEF Prefixes
<1>. HIDE DEF n
<1>7. \A k \in 0 .. n + 1 : ReadUpTo(lines', k) \in Reader /\ Replays(ReadUpTo(lines', k))
  <2>1. ASSUME NEW k \in 0 .. n + 1
        PROVE  ReadUpTo(lines', k) \in Reader /\ Replays(ReadUpTo(lines', k))
    <3>1. CASE k = n + 1
      BY <1>4, <3>1
    <3>2. CASE k # n + 1
      <4>1. k \in 0 .. n
        BY <1>1, <3>2
      <4>. QED  BY <1>2, <1>6, <4>1
    <3>. QED  BY <3>1, <3>2
  <2>. QED  BY <2>1
<1>8. \A k \in 0 .. n : ReadUpTo(lines', k).phase # "Complete"
  <2>1. ASSUME NEW k \in 0 .. n PROVE ReadUpTo(lines, k).phase # "Complete"
    <3>1. CASE k = n
      BY <1>5, <3>1
    <3>2. CASE k # n
      <4>1. k \in 0 .. n - 1
        BY <1>1, <3>2
      <4>. QED  BY <1>6, <4>1
    <3>. QED  BY <3>1, <3>2
  <2>. QED  BY <1>2, <2>1
<1>9. Len(lines') = n + 1 /\ (n + 1) - 1 = n
  BY <1>1
<1>10. Prefixes'
  <2>1. (reader = Parse(lines))'
    BY <1>3
  <2>2. (\A k \in 0 .. Len(lines) :
            ReadUpTo(lines, k) \in Reader /\ Replays(ReadUpTo(lines, k)))'
    BY <1>7, <1>9 DEF Replays, ReplayedTo, Facts
  <2>3. (\A k \in 0 .. Len(lines) - 1 : ReadUpTo(lines, k).phase # "Complete")'
    BY <1>8, <1>9
  <2>. QED  BY <2>1, <2>2, <2>3 DEF Prefixes
<1>. QED  BY <1>1, <1>2, <1>4, <1>9, <1>10 DEF n

LEMMA StillBeginsWith ==
  ASSUME NEW steps, NEW first, NEW step, IsSequence(steps), IsSequence(first),
         BeginsWith(steps, first)
  PROVE  BeginsWith(Append(steps, step), first)
<1>1. /\ Len(steps) \in Nat /\ Len(Append(steps, step)) = Len(steps) + 1
      /\ \A i \in 1 .. Len(steps) : Append(steps, step)[i] = steps[i]
  BY LastOfAppend
<1>2. Len(first) \in Nat
  BY LastOfAppend
<1>3. /\ Len(first) <= Len(steps)
      /\ \A i \in 1 .. Len(first) : steps[i] = first[i]
  BY DEF BeginsWith
<1>4. Len(first) <= Len(steps) + 1 /\ \A i \in 1 .. Len(first) : i \in 1 .. Len(steps)
  BY <1>1, <1>2, <1>3
<1>. QED  BY <1>1, <1>3, <1>4 DEF BeginsWith

LEMMA AnswersStayKept ==
  ASSUME Types, Prefixes, AnswersKept, IsSequence(answers), NEW line,
         reader.phase # "Complete", lines' = Append(lines, line),
         reader' = Advance(reader, line), Replays(reader'), reader' \in Reader,
         reader'.steps = reader.steps \/ \E step : reader'.steps = Append(reader.steps, step),
         flushed' = flushed, answers' = answers
  PROVE  AnswersKept'
<1>. DEFINE n == Len(lines)
<1>1. /\ n \in Nat /\ Len(lines') = n + 1
      /\ \A k \in 0 .. n : ReadUpTo(lines', k) = ReadUpTo(lines, k)
      /\ ReadUpTo(lines', Len(lines')) = reader'
  BY PrefixesGrow
<1>2. ReadUpTo(lines, n) = reader /\ flushed \in Nat /\ flushed <= n
  BY WholeIsRead DEF AnswersKept, Types
<1>3. \A k \in flushed .. n : BeginsWith(ReadUpTo(lines, k).steps, answers)
  BY DEF AnswersKept
<1>. HIDE DEF n
<1>4. BeginsWith(reader.steps, answers)
  <2>1. n \in flushed .. n
    BY <1>1, <1>2
  <2>. QED  BY <1>2, <1>3, <2>1
<1>5. BeginsWith(reader'.steps, answers)
  <2>1. IsSequence(reader.steps)
    BY DEF Types, Reader, IsSequence
  <2>. QED  BY <1>4, <2>1, StillBeginsWith
<1>6. ASSUME NEW k \in flushed .. n + 1
      PROVE  BeginsWith(ReadUpTo(lines', k).steps, answers)
  <2>1. CASE k = n + 1
    BY <1>1, <1>5, <2>1
  <2>2. CASE k # n + 1
    <3>1. k \in flushed .. n /\ k \in 0 .. n
      BY <1>1, <1>2, <2>2
    <3>. QED  BY <1>1, <1>3, <3>1
  <2>. QED  BY <2>1, <2>2
<1>7. flushed <= n + 1
  BY <1>1, <1>2
<1>. QED  BY <1>1, <1>6, <1>7 DEF AnswersKept, BeginsWith

\* Only the last record of a completion completes a transcript.
LEMMA CompletedByCompletion ==
  ASSUME Types, Shape, Reading, InBatch, ReaderAfter.phase = "Complete"
  PROVE  pc = "completing" /\ written = 1
<1>1. reader \in Reader
  BY DEF Types
<1>2. CASE pc = "starting"
  BY <1>1, <1>2, StartLine DEF Reader
<1>3. CASE pc = "acting"
  BY <1>1, <1>3, ActionLine DEF Reader
<1>4. CASE pc = "accepting"
  <2>1. GoodReader(ReaderAfter, written + 1, next_sequence + 1)
    BY LineRead
  <2>2. AcceptedRead(ReaderAfter, written + 1)
    BY <1>4, <2>1 DEF GoodReader, Offended, Follows
  <2>. QED  BY <2>2 DEF AcceptedRead, EventsRead, StepRead
<1>5. CASE pc = "rejecting"
  <2>1. ReaderAfter.phase = "Ready"
    BY <1>1, <1>5, RejectionLine DEF Reader
  <2>. QED  BY <2>1
<1>6. CASE pc = "completing"
  <2>1. CASE written = 0
    <3>1. ReaderAfter = [reader EXCEPT !.phase = "Final", !.final = {state}, !.position = @ + 1]
      BY <1>6, <2>1, CompletionLine
    <3>. QED  BY <1>1, <3>1 DEF Reader
  <2>. QED  BY <1>6, <2>1, CompletionLine
<1>. QED  BY <1>2, <1>3, <1>4, <1>5, <1>6 DEF InBatch, Writing

LEMMA CompletionVerifies ==
  ASSUME Types, Shape, Reading, Prefixes, InBatch, ReaderAfter.phase = "Complete",
         Stands(reader, written), LineKeeps(ReaderAfter)
  PROVE  StatusOf[state] \in Outcome /\ Verifies(Engine, Append(lines, NextLine))
<1>. DEFINE all == Append(lines, NextLine)
<1>1. pc = "completing" /\ written = 1
  BY CompletedByCompletion
<1>2. reader \in Reader /\ next_sequence \in Nat /\ IsSequence(lines)
  BY DEF Types
<1>3. /\ StatusOf[state] \in Outcome
      /\ batch = CompletionBatch(base, next_step - 1, total_events, state)
  BY <1>1 DEF Shape, CompleteShape
<1>4. NextLine = MatchCompletedRecord(base + 1, next_step - 1, total_events, DigestOf[state],
                                      StatusOf[state])
  BY <1>1, <1>3 DEF NextLine, CompletionBatch
<1>5. ReaderAfter = [reader EXCEPT !.phase = "Complete", !.position = @ + 1]
  BY <1>1, CompletionLine
<1>6. /\ ReaderAfter.initial = reader.initial /\ ReaderAfter.steps = reader.steps
      /\ ReaderAfter.event_count = reader.event_count /\ ReaderAfter.final = reader.final
      /\ ReaderAfter.next_step = reader.next_step
  BY <1>2, <1>5 DEF Reader
<1>7. Counts(reader) /\ CompletionStands(reader, 1)
  BY <1>1 DEF Stands
<1>8. Facts(ReaderAfter) = Facts(reader)
  BY <1>6, FactsOfTheSame
<1>9. /\ Len(reader.steps) = next_step - 1 /\ reader.event_count = total_events
  BY <1>1 DEF Reading, Writing, Follows, Placed, CompletionRead, Even
<1>10. Parse(all) = ReaderAfter
  <2>1. Parse(lines) = reader
    BY DEF Prefixes
  <2>. QED  BY <1>2, <2>1, ParseReadsOn DEF ReaderAfter
<1>11. all[Len(all)] = NextLine
  BY <1>2, LastOfAppend
<1>. HIDE DEF all
<1>12. PICK ended \in Facts(reader).game_ended :
         Facts(reader).game_ended = {ended} /\ ended.outcome = StatusOf[state]
  BY <1>7 DEF CompletionStands, EndsOnce
<1>13. /\ Facts(reader).reached = {state} /\ reader.final = {state}
       /\ Facts(reader).step_count = next_step - 1 /\ Facts(reader).event_count = total_events
  BY <1>7, <1>9 DEF CompletionStands, ReplayedTo, Counts
<1>14. /\ NextLine.state_digest = DigestOf[state] /\ NextLine.outcome = StatusOf[state]
       /\ NextLine.step_count = next_step - 1 /\ NextLine.event_count = total_events
  BY <1>4 DEF MatchCompletedRecord
<1>15. Replay(Engine, ReaderAfter) = Facts(reader)
  BY <1>8 DEF Facts
<1>16. IsTranscript(all)
  BY <1>10 DEF IsTranscript
<1>17. Verifies(Engine, all)
  BY <1>6, <1>10, <1>11, <1>12, <1>13, <1>14, <1>15, <1>16 DEF Verifies
<1>. QED  BY <1>3, <1>17 DEF all

LEMMA FileStays ==
  ASSUME Prefixes, AnswersKept, AnswersCounted, UNCHANGED <<file, flushed, answers>>
  PROVE  Prefixes' /\ AnswersKept' /\ IsSequence(answers)'
<1>1. lines' = lines /\ reader' = reader /\ flushed' = flushed /\ answers' = answers
  BY DEF file
<1>2. Prefixes'
  BY <1>1 DEF Prefixes
<1>3. AnswersKept'
  BY <1>1 DEF AnswersKept
<1>. QED  BY <1>1, <1>2, <1>3 DEF AnswersCounted

LEMMA InitHistory == Init => History
<1>. SUFFICES ASSUME Init PROVE History
  OBVIOUS
<1>1. /\ lines = <<>> /\ flushed = 0 /\ answers = <<>> /\ reader = NewReader /\ pc = "new"
      /\ lifecycle = "Unstarted"
  BY DEF Init
<1>2. Len(<<>>) = 0 /\ SubSeq(<<>>, 1, 0) = <<>> /\ IsSequence(<<>>)
  <2>1. <<>> \in Seq({})
    OBVIOUS
  <2>. QED  BY <2>1 DEF IsSequence
<1>3. NewReader.initial = {} /\ NewReader.steps = <<>> /\ NewReader.phase = "Header"
  BY DEF NewReader
<1>4. ReadUpTo(lines, 0) = NewReader
  BY <1>1, <1>2, ParseOfNothing DEF ReadUpTo
<1>5. Prefixes
  <2>1. \A k \in 0 .. Len(lines) : k = 0
    BY <1>1, <1>2
  <2>2. 0 .. Len(lines) - 1 = {}
    BY <1>1, <1>2
  <2>3. NewReader \in Reader /\ Replays(NewReader)
    BY <1>1, <1>3, InitInv DEF Replays, IInv, Types
  <2>. QED  BY <1>1, <1>4, <2>1, <2>2, <2>3, ParseOfNothing DEF Prefixes
<1>6. AnswersKept
  <2>1. \A k \in flushed .. Len(lines) : k = 0
    BY <1>1, <1>2
  <2>2. BeginsWith(<<>>, <<>>)
    BY <1>2 DEF BeginsWith
  <2>. QED  BY <1>1, <1>2, <1>3, <1>4, <2>1, <2>2 DEF AnswersKept
<1>7. AnswersCounted
  BY <1>1, <1>2 DEF AnswersCounted
<1>8. Standing /\ Sealed
  BY <1>1, <1>3 DEF Standing, Sealed, Writing
<1>. QED  BY <1>5, <1>6, <1>7, <1>8 DEF History

LEMMA RefuseStartHistory == IInv /\ History /\ RefuseStart => History'
<1>. SUFFICES ASSUME IInv, History, RefuseStart PROVE History'
  OBVIOUS
<1>1. UNCHANGED <<file, flushed, answers, state>> /\ pc' = "over" /\ pc = "new"
      /\ lifecycle' \in {"GameBroken", "GameAlreadyEnded"}
  BY DEF RefuseStart
<1>2. Prefixes' /\ AnswersKept' /\ IsSequence(answers)'
  BY <1>1, FileStays DEF History
<1>3. AnswersCounted'
  BY <1>1, <1>2 DEF AnswersCounted
<1>4. Standing'
  BY <1>1 DEF Standing, Writing
<1>5. Sealed'
  <2>1. reader.phase = "Header"
    BY <1>1 DEF IInv, Shape, NewReader
  <2>2. reader' = reader
    BY <1>1 DEF file
  <2>. QED  BY <1>1, <2>1, <2>2 DEF Sealed
<1>. QED  BY <1>2, <1>3, <1>4, <1>5 DEF History

LEMMA StartHistory == IInv /\ History /\ Start => History'
<1>. SUFFICES ASSUME IInv, History, Start PROVE History'
  OBVIOUS
<1>1. UNCHANGED <<match, file, flushed, answers>> /\ pc' = "starting" /\ pc = "new" /\ written' = 0
  BY DEF Start
<1>2. Prefixes' /\ AnswersKept' /\ IsSequence(answers)'
  BY <1>1, FileStays DEF History
<1>3. AnswersCounted'
  BY <1>1, <1>2 DEF AnswersCounted, History
<1>4. Standing'
  <2>1. reader = NewReader /\ reader' = reader
    BY <1>1 DEF IInv, Shape, file
  <2>2. /\ NewReader.initial = {} /\ NewReader.steps = <<>> /\ NewReader.event_count = 0
        /\ Len(<<>>) = 0
    BY DEF NewReader
  <2>3. Facts(NewReader) = StartReplay(NewReader)
    BY <2>2, ReplayOfNothing DEF Facts
  <2>4. Counts(NewReader) /\ NewReader.initial = {} /\ Facts(NewReader).game_ended = {}
    BY <2>2, <2>3 DEF Counts, StartReplay
  <2>5. Counts(reader') /\ reader'.initial = {} /\ Facts(reader').game_ended = {}
    BY <2>1, <2>4
  <2>6. Stands(reader, written)'
    BY <1>1, <2>5 DEF Stands, Counts, StartStands, Facts
  <2>. QED  BY <1>1, <2>6 DEF Standing
<1>5. Sealed'
  BY <1>1 DEF Sealed, IInv, Shape, NewReader, file, match
<1>. QED  BY <1>2, <1>3, <1>4, <1>5 DEF History

LEMMA SubmitHistory == ASSUME NEW a \in GameAction PROVE IInv /\ History /\ Submit(a) => History'
<1>. SUFFICES ASSUME IInv, History, Submit(a) PROVE History'
  OBVIOUS
<1>1. /\ UNCHANGED <<match, file, flushed, answers>> /\ pc' = "acting" /\ pc = "idle"
      /\ lifecycle = "Active" /\ written' = 0
  BY DEF Submit, MaySubmit
<1>2. Prefixes' /\ AnswersKept' /\ IsSequence(answers)'
  BY <1>1, FileStays DEF History
<1>3. AnswersCounted'
  BY <1>1, <1>2 DEF AnswersCounted, History, match
<1>4. Standing'
  <2>1. Counts(reader) /\ ActionStands(reader) /\ reader' = reader /\ state' = state
    BY <1>1 DEF History, Standing, file, match
  <2>2. Stands(reader, written)'
    BY <1>1, <2>1 DEF Stands, Counts, ActionStands, ReplayedTo, Facts
  <2>. QED  BY <1>1, <2>2 DEF Standing
<1>5. Sealed'
  BY <1>1 DEF History, Sealed, file, match
<1>. QED  BY <1>2, <1>3, <1>4, <1>5 DEF History

LEMMA WriteHistory == IInv /\ History /\ Write => History'
<1>. SUFFICES ASSUME IInv, History, Write PROVE History'
  OBVIOUS
<1>1. /\ InBatch /\ lines' = Append(lines, NextLine) /\ reader' = Advance(reader, NextLine)
      /\ reader' = ReaderAfter /\ written' = written + 1
      /\ UNCHANGED <<state, next_step, total_events, lifecycle, pc, action, result, flushed, answers>>
  BY DEF Write, NextLine, ReaderAfter
<1>2. Types /\ Shape /\ Reading /\ Prefixes /\ AnswersKept /\ IsSequence(answers)
  BY DEF IInv, History, AnswersCounted
<1>3. reader.phase = "Refused" \/ Stands(reader, written)
  BY <1>1 DEF History, Standing, InBatch
<1>4. reader.phase # "Complete"
  BY <1>1, <1>2, NotYetComplete
<1>5. LineKeeps(ReaderAfter)
  BY <1>1, <1>2, <1>3, LineStands, WholeIsRead
<1>6. Replays(reader')
      /\ (reader'.steps = reader.steps \/ \E step : reader'.steps = Append(reader.steps, step))
  BY <1>1, <1>5 DEF LineKeeps
<1>12. reader' \in Reader
  BY WriteInv DEF IInv, Types
<1>7. Prefixes'
  BY <1>1, <1>2, <1>4, <1>6, <1>12, PrefixesGrow
<1>8. AnswersKept'
  BY <1>1, <1>2, <1>4, <1>6, <1>12, AnswersStayKept
<1>9. AnswersCounted'
  BY <1>1 DEF AnswersCounted, History
<1>10. Standing'
  <2>1. reader'.phase = "Refused" \/ Stands(reader', written')
    BY <1>1, <1>5 DEF LineKeeps
  <2>2. Stands(reader', written') => Stands(reader, written)'
    BY <1>1 DEF Stands, Counts, StartStands, ActionStands, EventsStand, StepStands,
                RejectedStands, CompletionStands, ReplayedTo, EndsOnce, Facts
  <2>3. pc' # "idle"
    BY <1>1 DEF InBatch, Writing
  <2>. QED  BY <2>1, <2>2, <2>3 DEF Standing
<1>11. Sealed'
  <2>1. ASSUME reader'.phase = "Complete"
        PROVE  StatusOf[state'] \in Outcome /\ Verifies(Engine, lines')
    <3>1. reader.phase # "Refused"
      <4>1. reader.phase = "Refused" => ReaderAfter = reader
        BY <1>2, OffendedReadsOn DEF ReaderAfter
      <4>. QED  BY <1>1, <2>1, <4>1
    <3>. QED  BY <1>1, <1>2, <1>3, <1>5, <2>1, <3>1, CompletionVerifies
  <2>2. lifecycle' # "MatchCompleted"
    BY <1>1, <1>2 DEF InBatch, Writing, Shape, StartShape, ActShape, AcceptShape, RejectShape,
                      CompleteShape
  <2>. QED  BY <2>1, <2>2 DEF Sealed
<1>. QED  BY <1>7, <1>8, <1>9, <1>10, <1>11 DEF History

LEMMA TornLineStands ==
  ASSUME Types, Prefixes, reader.phase # "Complete", NEW q, q = Advance(reader, TornLine)
  PROVE  Replays(q) /\ q.steps = reader.steps /\ q.phase # "Complete"
<1>1. reader \in Reader /\ Replays(reader)
  BY WholeIsRead DEF Types
<1>2. q = reader \/ q = [reader EXCEPT !.phase = "Malformed"]
  BY DEF Advance, TornLine
<1>3. q.initial = reader.initial /\ q.steps = reader.steps /\ q.digest = reader.digest
      /\ q.phase # "Complete"
  BY <1>1, <1>2 DEF Reader
<1>4. Facts(q) = Facts(reader)
  BY <1>3, FactsOfTheSame
<1>. QED  BY <1>1, <1>3, <1>4 DEF Replays, ReplayedTo

LEMMA WriteFailsHistory == IInv /\ History /\ WriteFails => History'
<1>. SUFFICES ASSUME IInv, History, WriteFails PROVE History'
  OBVIOUS
<1>1. /\ InBatch /\ UNCHANGED <<state, flushed, answers>>
      /\ lifecycle' \in {lifecycle, "RecordingFailed"} /\ pc' \in {"over", "idle"}
      /\ pc' = "idle" => lifecycle' = "RecordingFailed"
      /\ \/ UNCHANGED file
         \/ lines' = Append(lines, TornLine) /\ reader' = Advance(reader, TornLine)
         \/ lines' = Append(lines, NextLine) /\ reader' = ReaderAfter
  BY DEF WriteFails, Fail, NextLine, ReaderAfter
<1>2. Types /\ Shape /\ Reading /\ Prefixes /\ AnswersKept /\ IsSequence(answers)
  BY DEF IInv, History, AnswersCounted
<1>3. reader.phase = "Refused" \/ Stands(reader, written)
  BY <1>1 DEF History, Standing, InBatch
<1>4. reader.phase # "Complete"
  BY <1>1, <1>2, NotYetComplete
<1>5. LineKeeps(ReaderAfter)
  BY <1>1, <1>2, <1>3, LineStands, WholeIsRead
<1>10. reader' \in Reader
  BY WriteFailsInv DEF IInv, Types
<1>6. /\ Prefixes' /\ AnswersKept'
      /\ reader'.phase = "Complete" => StatusOf[state'] \in Outcome /\ Verifies(Engine, lines')
  <2>1. CASE UNCHANGED file
    <3>1. Prefixes' /\ AnswersKept'
      BY <1>1, <2>1, FileStays DEF History
    <3>. QED  BY <1>4, <2>1, <3>1 DEF file
  <2>2. CASE lines' = Append(lines, TornLine) /\ reader' = Advance(reader, TornLine)
    <3>1. Replays(reader') /\ reader'.steps = reader.steps /\ reader'.phase # "Complete"
      BY <1>2, <1>4, <2>2, TornLineStands
    <3>2. Prefixes'
      BY <1>2, <1>4, <1>10, <2>2, <3>1, PrefixesGrow
    <3>3. AnswersKept'
      BY <1>1, <1>2, <1>4, <1>10, <2>2, <3>1, AnswersStayKept
    <3>. QED  BY <3>1, <3>2, <3>3
  <2>3. CASE lines' = Append(lines, NextLine) /\ reader' = ReaderAfter
    <3>1. reader' = Advance(reader, NextLine)
      BY <2>3 DEF ReaderAfter
    <3>2. Replays(reader')
          /\ (reader'.steps = reader.steps
               \/ \E step : reader'.steps = Append(reader.steps, step))
      BY <1>5, <2>3 DEF LineKeeps
    <3>3. Prefixes'
      BY <1>2, <1>4, <1>10, <2>3, <3>1, <3>2, PrefixesGrow
    <3>4. AnswersKept'
      BY <1>1, <1>2, <1>4, <1>10, <2>3, <3>1, <3>2, AnswersStayKept
    <3>5. ASSUME reader'.phase = "Complete"
          PROVE  StatusOf[state'] \in Outcome /\ Verifies(Engine, lines')
      <4>1. reader.phase # "Refused"
        <5>1. reader.phase = "Refused" => ReaderAfter = reader
          BY <1>2, OffendedReadsOn DEF ReaderAfter
        <5>. QED  BY <2>3, <3>5, <5>1
      <4>. QED  BY <1>1, <1>2, <1>3, <1>5, <2>3, <3>5, <4>1, CompletionVerifies
    <3>. QED  BY <3>3, <3>4, <3>5
  <2>. QED  BY <1>1, <2>1, <2>2, <2>3
<1>7. AnswersCounted'
  BY <1>1, <1>2 DEF AnswersCounted
<1>8. Standing'
  BY <1>1 DEF Standing, Writing
<1>9. Sealed'
  <2>1. lifecycle # "MatchCompleted"
    BY <1>1, <1>2 DEF InBatch, Writing, Shape, StartShape, ActShape, AcceptShape, RejectShape,
                      CompleteShape
  <2>. QED  BY <1>1, <1>6, <2>1 DEF Sealed
<1>. QED  BY <1>6, <1>7, <1>8, <1>9 DEF History

LEMMA FlushFailsHistory == IInv /\ History /\ FlushFails => History'
<1>. SUFFICES ASSUME IInv, History, FlushFails PROVE History'
  OBVIOUS
<1>1. /\ Writing /\ UNCHANGED <<state, file, flushed, answers>>
      /\ lifecycle' \in {lifecycle, "RecordingFailed"} /\ pc' \in {"over", "idle"}
      /\ pc' = "idle" => lifecycle' = "RecordingFailed"
  BY DEF FlushFails, Fail, AtCheckpoint
<1>2. Prefixes' /\ AnswersKept' /\ IsSequence(answers)'
  BY <1>1, FileStays DEF History
<1>3. AnswersCounted'
  BY <1>1, <1>2 DEF AnswersCounted
<1>4. Standing'
  BY <1>1 DEF Standing, Writing
<1>5. Sealed'
  <2>1. lifecycle # "MatchCompleted"
    BY <1>1 DEF IInv, Writing, Shape, StartShape, ActShape, AcceptShape, RejectShape,
                CompleteShape
  <2>. QED  BY <1>1, <2>1 DEF History, Sealed, file
<1>. QED  BY <1>2, <1>3, <1>4, <1>5 DEF History

\* What a flush covers: the reader of all the lines answers for the whole.
LEMMA AnswersInReader ==
  ASSUME Types, Prefixes, AnswersKept
  PROVE  BeginsWith(reader.steps, answers)
<1>1. ReadUpTo(lines, Len(lines)) = reader
  BY WholeIsRead
<1>2. Len(lines) \in flushed .. Len(lines)
  BY DEF Types, AnswersKept
<1>. QED  BY <1>1, <1>2 DEF AnswersKept

LEMMA FlushKeeps ==
  ASSUME Types, Prefixes, UNCHANGED file, flushed' = Len(lines), BeginsWith(reader.steps, answers')
  PROVE  Prefixes' /\ AnswersKept'
<1>1. lines' = lines /\ reader' = reader /\ Len(lines) \in Nat
  BY DEF file, Types
<1>2. Prefixes'
  BY <1>1 DEF Prefixes
<1>3. ReadUpTo(lines, Len(lines)) = reader
  BY WholeIsRead
<1>4. \A k \in Len(lines) .. Len(lines) : k = Len(lines)
  BY <1>1
<1>5. AnswersKept'
  BY <1>1, <1>3, <1>4 DEF AnswersKept
<1>. QED  BY <1>2, <1>5

LEMMA OneAnswerMore ==
  ASSUME NEW steps, NEW first, NEW step, IsSequence(steps), IsSequence(first),
         BeginsWith(steps, first), Len(steps) = Len(first) + 1, steps[Len(steps)] = step
  PROVE  BeginsWith(steps, Append(first, step)) /\ IsSequence(Append(first, step))
<1>1. /\ Len(first) \in Nat /\ Len(Append(first, step)) = Len(first) + 1
      /\ Append(first, step)[Len(first) + 1] = step
      /\ \A i \in 1 .. Len(first) : Append(first, step)[i] = first[i]
  BY LastOfAppend
<1>2. /\ Len(first) <= Len(steps)
      /\ \A i \in 1 .. Len(first) : steps[i] = first[i]
  BY DEF BeginsWith
<1>3. ASSUME NEW i \in 1 .. Len(first) + 1
      PROVE  steps[i] = Append(first, step)[i]
  <2>1. CASE i = Len(first) + 1
    BY <1>1, <2>1
  <2>2. CASE i # Len(first) + 1
    <3>1. i \in 1 .. Len(first)
      BY <1>1, <2>2
    <3>. QED  BY <1>1, <1>2, <3>1
  <2>. QED  BY <2>1, <2>2
<1>4. IsSequence(Append(first, step))
  BY Appended
<1>. QED  BY <1>1, <1>3, <1>4 DEF BeginsWith

LEMMA StartFlushedHistory == IInv /\ History /\ StartFlushed => History'
<1>. SUFFICES ASSUME IInv, History, StartFlushed PROVE History'
  OBVIOUS
<1>1. /\ pc = "starting" /\ ~InBatch /\ Writing /\ flushed' = Len(lines)
      /\ lifecycle' = "Active" /\ pc' = "idle"
      /\ UNCHANGED <<state, next_step, file, answers>>
  BY DEF StartFlushed, AtCheckpoint, Flushed
<1>2. Types /\ Shape /\ Reading /\ Prefixes /\ AnswersKept /\ AnswersCounted
  BY DEF IInv, History
<1>3. written = 2 /\ next_step = 1
  <2>1. StartShape /\ written <= Len(batch) /\ written \in Nat
    BY <1>1, <1>2 DEF Shape, Types
  <2>. QED  BY <1>1, <2>1 DEF StartShape, StartBatch, InBatch
<1>4. StartRead(reader, 2)
  BY <1>1, <1>2, <1>3 DEF Reading, Follows
<1>5. Counts(reader) /\ ActionStands(reader)
  <2>1. Counts(reader) /\ StartStands(reader, 2)
    BY <1>1, <1>3, <1>4 DEF History, Standing, Stands, StartRead
  <2>2. reader.steps = <<>>
    BY <1>4 DEF StartRead
  <2>3. Facts(reader).reached = reader.initial
    BY <2>2, ReplayOfNothing DEF Facts, StartReplay
  <2>. QED  BY <2>1, <2>3 DEF StartStands, ActionStands, ReplayedTo
<1>6. Prefixes' /\ AnswersKept'
  <2>1. BeginsWith(reader.steps, answers)
    BY <1>2, AnswersInReader
  <2>. QED  BY <1>1, <1>2, <2>1, FlushKeeps
<1>7. AnswersCounted'
  <2>1. answers = <<>> /\ Len(<<>>) = 0
    BY <1>1, <1>2 DEF AnswersCounted
  <2>. QED  BY <1>1, <1>2, <1>3, <2>1 DEF AnswersCounted
<1>8. Standing'
  BY <1>1, <1>5 DEF Standing, Writing, Counts, ActionStands, ReplayedTo, Facts, file
<1>9. Sealed'
  BY <1>1, <1>4 DEF Sealed, StartRead, file
<1>. QED  BY <1>6, <1>7, <1>8, <1>9 DEF History

LEMMA ApplyHistory == IInv /\ History /\ Apply => History'
<1>. SUFFICES ASSUME IInv, History, Apply PROVE History'
  OBVIOUS
<1>0. PICK r : r = Engine[state, action]
  OBVIOUS
<1>1. /\ pc = "acting" /\ ~InBatch /\ Writing /\ next_step' = next_step + 1 /\ written' = 0
      /\ result' = r /\ pc' \in {"accepting", "rejecting"}
      /\ UNCHANGED <<lifecycle, action, file, flushed, answers>>
  BY <1>0 DEF Apply, Writing
<1>2. Types /\ Shape /\ Reading /\ Prefixes /\ AnswersKept /\ AnswersCounted
  BY DEF IInv, History
<1>3. /\ ActShape /\ written \in Nat /\ written <= Len(batch) /\ next_step \in Nat
      /\ state \in GameState /\ action \in GameAction
  BY <1>1, <1>2 DEF Shape, Types
<1>4. written = 1
  BY <1>1, <1>3 DEF ActShape, InBatch
<1>5. ActionRead(reader, 1)
  BY <1>1, <1>2, <1>4 DEF Reading, Follows
<1>6. Counts(reader) /\ ActionStands(reader)
  BY <1>1, <1>5 DEF History, Standing, Stands, ActionRead
<1>7. Prefixes' /\ AnswersKept' /\ IsSequence(answers)'
  BY <1>1, FileStays DEF History
<1>8. AnswersCounted'
  <2>1. Len(answers) = next_step - 1 /\ (next_step + 1) - 2 = next_step - 1
    BY <1>1, <1>2, <1>3 DEF AnswersCounted
  <2>. QED  BY <1>1, <1>7, <2>1 DEF AnswersCounted
<1>9. Standing'
  <2>1. r \in Result
    BY <1>0, <1>3, EngineAssumption DEF Engines
  <2>2. CASE pc' = "accepting"
    <3>1. r.accepted
      BY <1>0, <2>2 DEF Apply
    <3>2. 0 <= Len(r.events)
      <4>1. r.events \in Seq(GameEvent)
        BY <2>1, <3>1 DEF Result
      <4>. QED  BY <4>1
    <3>3. Facts(reader).game_ended = {} /\ ReplayedTo(reader, state) /\ DigestOf[state] = reader.digest
      BY <1>5, <1>6 DEF ActionStands, ActionRead, Even
    <3>4. EventsStand(reader)'
      BY <1>0, <1>1, <1>3, <3>3 DEF EventsStand, ReplayedTo, Facts, file
    <3>5. Stands(reader, written)'
      BY <1>1, <1>6, <2>2, <3>2, <3>4 DEF Stands, Counts, Facts, file
    <3>. QED  BY <2>2, <3>5 DEF Standing
  <2>3. CASE pc' = "rejecting"
    <3>1. state' = state
      BY <1>0, <2>3 DEF Apply
    <3>2. RejectedStands(reader, written)'
      BY <1>1, <1>6, <3>1 DEF RejectedStands, ActionStands, ReplayedTo, Facts, file
    <3>3. Stands(reader, written)'
      BY <1>1, <1>6, <2>3, <3>2 DEF Stands, Counts, Facts, file
    <3>. QED  BY <2>3, <3>3 DEF Standing
  <2>. QED  BY <1>1, <2>2, <2>3
<1>10. Sealed'
  BY <1>1, <1>3, <1>5 DEF Sealed, ActionRead, ActShape, file
<1>. QED  BY <1>7, <1>8, <1>9, <1>10 DEF History

\* How often a step ends the match, as replay counts it.
LEMMA EndingsReplayed ==
  ASSUME NEW n, NEW act, NEW digest, NEW events \in Seq(GameEvent), NEW outcome \in Outcome
  PROVE  LET ended == GameEndedEvents(n, AcceptedStep(act, events, digest)) IN
         /\ NoGameEnded(events) => ended = {}
         /\ OneGameEnded(events, outcome) => \E e \in ended : ended = {e} /\ e.outcome = outcome
<1>. DEFINE ended == GameEndedEvents(n, AcceptedStep(act, events, digest))
            places == {j \in DOMAIN events : events[j] \in Outcome}
            at(i) == [step |-> n, index |-> i, outcome |-> events[i]]
<1>1. ended = {at(i) : i \in places}
  BY DEF GameEndedEvents, AcceptedStep
<1>2. ASSUME NoGameEnded(events) PROVE ended = {}
  <2>1. places = {}
    BY <1>2 DEF NoGameEnded
  <2>. QED  BY <1>1, <2>1
<1>3. ASSUME OneGameEnded(events, outcome)
      PROVE  \E e \in ended : ended = {e} /\ e.outcome = outcome
  <2>1. PICK i \in DOMAIN events :
          events[i] = outcome /\ \A j \in DOMAIN events : events[j] \in Outcome => j = i
    BY <1>3 DEF OneGameEnded
  <2>2. places = {i}
    BY <2>1
  <2>3. ended = {at(i)}
    BY <1>1, <2>2
  <2>. QED  BY <2>1, <2>3
<1>. QED  BY <1>2, <1>3

LEMMA AcceptedFlushedHistory == IInv /\ History /\ AcceptedFlushed => History'
<1>. SUFFICES ASSUME IInv, History, AcceptedFlushed PROVE History'
  OBVIOUS
<1>. DEFINE agree == TerminalEventsAgree(state, result.events)
            step == AcceptedStep(action, result.events, DigestOf[state])
<1>1. /\ pc = "accepting" /\ ~InBatch /\ Writing /\ flushed' = Len(lines)
      /\ UNCHANGED <<state, next_step, action, result, file>>
      /\ answers' = IF agree /\ StatusOf[state] = Playing THEN Append(answers, step) ELSE answers
      /\ IF agree /\ StatusOf[state] \in Outcome
           THEN pc' = "completing" /\ written' = 0 /\ lifecycle' = lifecycle
           ELSE /\ pc' = "idle"
                /\ lifecycle' = IF ~agree THEN "InvalidTerminalEvents"
                                ELSE IF StatusOf[state] = Broken THEN "GameBroken" ELSE "Active"
  BY DEF AcceptedFlushed, AtCheckpoint, Flushed, Answer
<1>2. Types /\ Shape /\ Reading /\ Prefixes /\ AnswersKept /\ AnswersCounted
  BY DEF IInv, History
<1>3. /\ AcceptShape /\ written \in Nat /\ written <= Len(batch) /\ next_step \in Nat
      /\ state \in GameState /\ reader \in Reader
  BY <1>1, <1>2 DEF Shape, Types
<1>4. result \in Result /\ result.accepted
  BY <1>3 DEF AcceptShape
<1>5. result.events \in Seq(GameEvent) /\ Len(result.events) \in Nat
  <2>1. result.events \in Seq(GameEvent)
    BY <1>4 DEF Result
  <2>. QED  BY <2>1
<1>6. written = Len(result.events) + 1
  BY <1>1, <1>3, <1>5 DEF AcceptShape, AcceptedBatch, InBatch
<1>7. StatusOf[state] \in Outcome \cup {Playing, Broken}
  BY <1>3, StatusAssumption
\* A step whose ending agrees with its status was read and replayed.
<1>8. ASSUME agree, StatusOf[state] # Broken
      PROVE  /\ Placed(reader, next_sequence) /\ StepRead(reader)
             /\ Counts(reader) /\ StepStands(reader)
  <2>1. \/ StatusOf[state] = Playing /\ NoGameEnded(result.events)
        \/ StatusOf[state] \in Outcome /\ OneGameEnded(result.events, StatusOf[state])
    BY <1>8 DEF TerminalEventsAgree
  <2>2. ~MultipleGameEnded(result.events)
    BY <1>5, <2>1 DEF MultipleGameEnded, NoGameEnded, OneGameEnded
  <2>3. reader.phase # "Refused"
    BY <1>2, <2>2 DEF Reading, Offended
  <2>4. Follows(reader, written, next_sequence) /\ Stands(reader, written)
    BY <1>1, <1>2, <2>3 DEF Reading, Offended, History, Standing
  <2>5. ~(written <= Len(result.events))
    BY <1>5, <1>6
  <2>6. Placed(reader, next_sequence) /\ AcceptedRead(reader, written) /\ Counts(reader)
    BY <1>1, <2>4 DEF Follows, Stands
  <2>7. StepStands(reader)
    BY <1>1, <2>4, <2>5 DEF Stands
  <2>. QED  BY <2>5, <2>6, <2>7 DEF AcceptedRead
<1>9. BeginsWith(reader.steps, answers) /\ IsSequence(answers) /\ IsSequence(reader.steps)
  <2>1. BeginsWith(reader.steps, answers)
    BY <1>2, AnswersInReader
  <2>. QED  BY <1>2, <1>3, <2>1 DEF AnswersCounted, Reader, IsSequence
<1>10. Len(answers) = next_step - 2 /\ Len(answers) \in Nat
  BY <1>1, <1>2, <1>9, LastOfAppend DEF AnswersCounted
<1>11. BeginsWith(reader.steps, answers') /\ IsSequence(answers')
  <2>1. CASE agree /\ StatusOf[state] = Playing
    <3>1. StatusOf[state] # Broken
      BY <2>1, StatusAssumption
    <3>2. Placed(reader, next_sequence) /\ StepRead(reader)
      BY <1>8, <2>1, <3>1
    <3>3. reader.steps[Len(reader.steps)] = step
      BY <3>2 DEF StepRead, LastStepIsTheResult
    <3>4. Len(reader.steps) = Len(answers) + 1
      BY <1>3, <1>10, <3>2 DEF Placed, StepRead
    <3>. HIDE DEF step, agree
    <3>5. answers' = Append(answers, step)
      BY <1>1, <2>1
    <3>. QED  BY <1>9, <3>3, <3>4, <3>5, OneAnswerMore
  <2>2. CASE ~(agree /\ StatusOf[state] = Playing)
    BY <1>1, <1>9, <2>2
  <2>. QED  BY <2>1, <2>2
<1>12. Prefixes' /\ AnswersKept'
  BY <1>1, <1>2, <1>11, FlushKeeps
<1>13. CASE agree /\ StatusOf[state] \in Outcome
  <2>1. /\ pc' = "completing" /\ written' = 0 /\ lifecycle' = lifecycle /\ answers' = answers
        /\ StatusOf[state] # Broken
    BY <1>1, <1>13, StatusAssumption
  <2>2. StepRead(reader) /\ Counts(reader) /\ StepStands(reader)
    BY <1>8, <1>13, <2>1
  <2>3. AnswersCounted'
    BY <1>1, <1>10, <1>11, <2>1 DEF AnswersCounted
  <2>4. EndsOnce(reader, StatusOf[state])
    <3>1. OneGameEnded(result.events, StatusOf[state])
      BY <1>13, StatusAssumption DEF TerminalEventsAgree
    <3>. QED  BY <1>5, <1>13, <2>2, <3>1, EndingsReplayed DEF StepStands, EndsOnce
  <2>5. CompletionStands(reader, written)'
    BY <1>1, <2>1, <2>2, <2>4 DEF CompletionStands, StepStands, ReplayedTo, EndsOnce, Facts, file
  <2>6. Stands(reader, written)'
    BY <1>1, <2>1, <2>2, <2>5 DEF Stands, Counts, Facts, file
  <2>7. Standing'
    BY <2>1, <2>6 DEF Standing
  <2>8. Sealed'
    BY <1>1, <1>2, <1>3, <2>1, <2>2 DEF Sealed, StepRead, AcceptShape, file
  <2>. QED  BY <1>12, <2>3, <2>7, <2>8 DEF History
<1>14. CASE ~(agree /\ StatusOf[state] \in Outcome)
  <2>1. /\ pc' = "idle" /\ lifecycle' # "MatchCompleted"
        /\ lifecycle' = "Active" => agree /\ StatusOf[state] # Broken
    BY <1>1, <1>14
  <2>2. lifecycle' = "Active" => StatusOf[state] = Playing /\ NoGameEnded(result.events)
    BY <1>7, <1>14, <2>1 DEF TerminalEventsAgree
  <2>3. AnswersCounted'
    <3>1. ASSUME lifecycle' = "Active" PROVE Len(answers') = next_step - 1
      <4>1. answers' = Append(answers, step)
        BY <1>1, <2>1, <2>2, <3>1
      <4>. HIDE DEF step
      <4>2. Len(answers') = Len(answers) + 1
        BY <1>9, <4>1, LastOfAppend
      <4>. QED  BY <1>3, <1>10, <4>2
    <3>. QED  BY <1>1, <1>11, <2>1, <3>1 DEF AnswersCounted
  <2>4. Standing'
    <3>1. ASSUME lifecycle' = "Active" PROVE Counts(reader) /\ ActionStands(reader)
      <4>1. Counts(reader) /\ StepStands(reader) /\ NoGameEnded(result.events)
        BY <1>8, <2>1, <2>2, <3>1
      <4>2. \A i \in DOMAIN result.events : result.events[i] \notin Outcome
        BY <4>1 DEF NoGameEnded
      <4>3. GameEndedEvents(next_step - 1, step) = {}
        BY <4>2 DEF GameEndedEvents, AcceptedStep
      <4>. QED  BY <4>1, <4>3 DEF StepStands, ActionStands
    <3>. QED  BY <1>1, <2>1, <3>1
              DEF Standing, Writing, Counts, ActionStands, ReplayedTo, Facts, file
  <2>5. Sealed'
    <3>1. reader' = reader /\ state' = state /\ lines' = lines
      BY <1>1 DEF file
    <3>2. reader.phase = "Complete" => StatusOf[state] \in Outcome /\ Verifies(Engine, lines)
      BY DEF History, Sealed
    <3>. QED  BY <2>1, <3>1, <3>2 DEF Sealed
  <2>. QED  BY <1>12, <2>3, <2>4, <2>5 DEF History
<1>. QED  BY <1>13, <1>14

LEMMA RejectedFlushedHistory == IInv /\ History /\ RejectedFlushed => History'
<1>. SUFFICES ASSUME IInv, History, RejectedFlushed PROVE History'
  OBVIOUS
<1>. DEFINE step == RejectedStep(action, result.error, DigestOf[state])
<1>1. /\ pc = "rejecting" /\ ~InBatch /\ Writing /\ flushed' = Len(lines) /\ pc' = "idle"
      /\ answers' = Append(answers, step)
      /\ UNCHANGED <<match, action, result, file>>
  BY DEF RejectedFlushed, AtCheckpoint, Flushed, Answer
<1>2. Types /\ Shape /\ Reading /\ Prefixes /\ AnswersKept /\ AnswersCounted
  BY DEF IInv, History
<1>3. /\ Len(batch) = 1 /\ written \in Nat /\ written <= Len(batch) /\ next_step \in Nat
      /\ state \in GameState /\ reader \in Reader /\ lifecycle = "Active"
  BY <1>1, <1>2 DEF Shape, Types, RejectShape
<1>4. written = 1
  BY <1>1, <1>3 DEF InBatch
<1>5. Placed(reader, next_sequence) /\ RejectedRead(reader, 1)
  BY <1>1, <1>2, <1>4 DEF Reading, Follows
<1>6. Counts(reader) /\ RejectedStands(reader, 1)
  BY <1>1, <1>4, <1>5 DEF History, Standing, Stands, RejectedRead
<1>7. BeginsWith(reader.steps, answers) /\ IsSequence(answers) /\ IsSequence(reader.steps)
  <2>1. BeginsWith(reader.steps, answers)
    BY <1>2, AnswersInReader
  <2>. QED  BY <1>2, <1>3, <2>1 DEF AnswersCounted, Reader, IsSequence
<1>8. Len(answers) = next_step - 2 /\ Len(answers) \in Nat
  BY <1>1, <1>2, <1>7, LastOfAppend DEF AnswersCounted
<1>9. BeginsWith(reader.steps, answers') /\ IsSequence(answers') /\ Len(answers') = next_step - 1
  <2>1. reader.steps[Len(reader.steps)] = step
    BY <1>6 DEF RejectedStands
  <2>2. Len(reader.steps) = Len(answers) + 1
    BY <1>3, <1>5, <1>8 DEF Placed, RejectedRead
  <2>. HIDE DEF step
  <2>3. Len(Append(answers, step)) = Len(answers) + 1
    BY <1>7, LastOfAppend
  <2>4. BeginsWith(reader.steps, Append(answers, step)) /\ IsSequence(Append(answers, step))
    BY <1>7, <2>1, <2>2, OneAnswerMore
  <2>. QED  BY <1>1, <1>3, <1>8, <2>3, <2>4
<1>10. Prefixes' /\ AnswersKept'
  BY <1>1, <1>2, <1>9, FlushKeeps
<1>11. AnswersCounted'
  BY <1>1, <1>9 DEF AnswersCounted, match
<1>12. Standing'
  BY <1>1, <1>6 DEF Standing, Writing, Counts, RejectedStands, ActionStands, ReplayedTo, Facts,
                    file, match
<1>13. Sealed'
  BY <1>1, <1>3, <1>5 DEF Sealed, RejectedRead, file, match
<1>. QED  BY <1>10, <1>11, <1>12, <1>13 DEF History

LEMMA CompletionFlushedHistory == IInv /\ History /\ CompletionFlushed => History'
<1>. SUFFICES ASSUME IInv, History, CompletionFlushed PROVE History'
  OBVIOUS
<1>. DEFINE step == AcceptedStep(action, result.events, DigestOf[state])
<1>1. /\ pc = "completing" /\ ~InBatch /\ Writing /\ flushed' = Len(lines) /\ pc' = "idle"
      /\ lifecycle' = "MatchCompleted" /\ answers' = Append(answers, step)
      /\ UNCHANGED <<state, file>>
  BY DEF CompletionFlushed, AtCheckpoint, Flushed, Answer
<1>2. Types /\ Shape /\ Reading /\ Prefixes /\ AnswersKept /\ AnswersCounted
  BY DEF IInv, History
<1>3. /\ Len(batch) = 2 /\ written \in Nat /\ written <= Len(batch) /\ next_step \in Nat
      /\ reader \in Reader
  BY <1>1, <1>2 DEF Shape, Types, CompleteShape, CompletionBatch
<1>4. written = 2
  BY <1>1, <1>3 DEF InBatch
<1>5. Placed(reader, next_sequence) /\ CompletionRead(reader, 2)
  BY <1>1, <1>2, <1>4 DEF Reading, Follows
<1>6. BeginsWith(reader.steps, answers) /\ IsSequence(answers) /\ IsSequence(reader.steps)
  <2>1. BeginsWith(reader.steps, answers)
    BY <1>2, AnswersInReader
  <2>. QED  BY <1>2, <1>3, <2>1 DEF AnswersCounted, Reader, IsSequence
<1>7. Len(answers) = next_step - 2 /\ Len(answers) \in Nat
  BY <1>1, <1>2, <1>6, LastOfAppend DEF AnswersCounted
<1>8. BeginsWith(reader.steps, answers') /\ IsSequence(answers')
  <2>1. reader.steps[Len(reader.steps)] = step
    BY <1>5 DEF CompletionRead, LastStepIsTheResult
  <2>2. Len(reader.steps) = Len(answers) + 1
    BY <1>3, <1>5, <1>7 DEF Placed, CompletionRead, Even
  <2>. HIDE DEF step
  <2>. QED  BY <1>1, <1>6, <2>1, <2>2, OneAnswerMore
<1>9. Prefixes' /\ AnswersKept'
  BY <1>1, <1>2, <1>8, FlushKeeps
<1>10. AnswersCounted'
  BY <1>1, <1>8 DEF AnswersCounted
<1>11. Standing'
  BY <1>1 DEF Standing, Writing
<1>12. Sealed'
  <2>1. reader.phase = "Complete" /\ reader' = reader /\ lines' = lines /\ state' = state
    BY <1>1, <1>5 DEF CompletionRead, file
  <2>. QED  BY <1>1, <2>1 DEF History, Sealed
<1>. QED  BY <1>9, <1>10, <1>11, <1>12 DEF History

LEMMA NextHistory == IInv /\ History /\ [Next]_vars => History'
<1>. SUFFICES ASSUME IInv, History, [Next]_vars PROVE History'
  OBVIOUS
<1>1. ASSUME NEW a \in GameAction, Submit(a) PROVE History'
  BY <1>1, SubmitHistory
<1>2. CASE UNCHANGED vars
  <2>1. UNCHANGED <<match, call, file, flushed, answers>>
    BY <1>2 DEF vars
  <2>2. Prefixes' /\ AnswersKept' /\ IsSequence(answers)'
    BY <2>1, FileStays DEF History
  <2>3. AnswersCounted'
    BY <2>1, <2>2 DEF AnswersCounted, History, match, call
  <2>4. Standing'
    BY <2>1 DEF History, Standing, Writing, Stands, Counts, StartStands, ActionStands,
                EventsStand, StepStands, RejectedStands, CompletionStands, ReplayedTo, EndsOnce,
                Facts, match, call, file
  <2>5. Sealed'
    BY <2>1 DEF History, Sealed, match, file
  <2>. QED  BY <2>2, <2>3, <2>4, <2>5 DEF History
<1>. QED
  BY <1>1, <1>2, RefuseStartHistory, StartHistory, StartFlushedHistory, WriteHistory,
     WriteFailsHistory, FlushFailsHistory, ApplyHistory, AcceptedFlushedHistory,
     RejectedFlushedHistory, CompletionFlushedHistory DEF Next

\* What a stop may cut off can be read, replayed and is no false completion.
LEMMA HistoryIsHonest == IInv /\ History => SurvivorsAreHonest
<1>. SUFFICES ASSUME IInv, History PROVE SurvivorsAreHonest
  OBVIOUS
<1>1. Types /\ Prefixes /\ AnswersKept /\ Sealed
  BY DEF IInv, History
<1>2. Len(lines) \in Nat /\ flushed \in Nat /\ flushed <= Len(lines) /\ IsSequence(lines)
  BY <1>1 DEF Types, AnswersKept
<1>8. SubSeq(lines, 1, Len(lines)) = lines
  BY <1>2, CutsOfAppend
<1>. DEFINE cut(k) == SubSeq(lines, 1, k)
<1>3. ASSUME NEW k \in flushed .. Len(lines)
      PROVE  /\ Parse(cut(k)) \in Reader
             /\ Replays(Parse(cut(k))) /\ BeginsWith(Parse(cut(k)).steps, answers)
             /\ IsTranscript(cut(k)) => k = Len(lines)
  <2>1. k \in 0 .. Len(lines)
    BY <1>2
  <2>2. Parse(cut(k)) \in Reader /\ Replays(Parse(cut(k))) /\ BeginsWith(Parse(cut(k)).steps, answers)
    BY <1>1, <2>1 DEF Prefixes, AnswersKept, ReadUpTo
  <2>3. k # Len(lines) => Parse(cut(k)).phase # "Complete"
    <3>1. k # Len(lines) => k \in 0 .. Len(lines) - 1
      BY <1>2, <2>1
    <3>. QED  BY <1>1, <3>1 DEF Prefixes, ReadUpTo
  <2>. QED  BY <2>2, <2>3 DEF IsTranscript
<1>4. ASSUME NEW k \in flushed .. Len(lines) - 1
      PROVE  LET r == Parse(Append(cut(k), TornLine)) IN
             /\ Replays(r) /\ BeginsWith(r.steps, answers) /\ r.phase # "Complete"
  <2>. DEFINE r == Parse(cut(k))
              q == Parse(Append(cut(k), TornLine))
  <2>1. k \in flushed .. Len(lines) /\ k # Len(lines)
    BY <1>2
  <2>2. r \in Reader /\ Replays(r) /\ BeginsWith(r.steps, answers) /\ r.phase # "Complete"
    BY <1>3, <2>1 DEF IsTranscript
  <2>3. IsSequence(cut(k))
    <3>1. PICK S : lines \in Seq(S)
      BY <1>2 DEF IsSequence
    <3>2. cut(k) \in Seq(S)
      BY <1>2, <2>1, <3>1
    <3>. QED  BY <3>2 DEF IsSequence
  <2>4. q = Advance(r, TornLine)
    BY <2>3, ParseReadsOn
  <2>. HIDE DEF r, q
  <2>5. q = r \/ q = [r EXCEPT !.phase = "Malformed"]
    BY <2>4 DEF Advance, TornLine
  <2>6. q = r \/ (/\ q.initial = r.initial /\ q.steps = r.steps /\ q.digest = r.digest
                 /\ q.phase # "Complete")
    BY <2>2, <2>5 DEF Reader
  <2>7. q.initial = r.initial /\ q.steps = r.steps => Facts(q) = Facts(r)
    BY ReplayOfTheSame DEF Facts
  <2>. QED  BY <2>2, <2>6, <2>7 DEF Replays, ReplayedTo, q, r
<1>5. OnlyCompletedVerifies
  <2>1. ASSUME NEW f \in Survivors, IsTranscript(f)
        PROVE  f = lines /\ StatusOf[state] \in Outcome /\ Verifies(Engine, f)
    <3>1. f = lines
      <4>1. PICK k \in flushed .. Len(lines) : f = cut(k)
        BY <1>4, <2>1 DEF Survivors, IsTranscript
      <4>. QED  BY <1>3, <1>8, <2>1, <4>1
    <3>2. reader.phase = "Complete"
      BY <1>1, <2>1, <3>1 DEF IsTranscript, Prefixes
    <3>. QED  BY <1>1, <3>1, <3>2 DEF Sealed
  <2>2. ASSUME lifecycle = "MatchCompleted", NEW f \in Survivors
        PROVE  IsTranscript(f)
    <3>1. reader.phase = "Complete" /\ flushed = Len(lines)
      BY <1>1, <2>2 DEF Sealed
    <3>2. flushed .. Len(lines) = {Len(lines)} /\ flushed .. Len(lines) - 1 = {}
      BY <1>2, <3>1
    <3>3. f = lines
      BY <1>8, <2>2, <3>2 DEF Survivors
    <3>. QED  BY <1>1, <3>1, <3>3 DEF IsTranscript, Prefixes
  <2>. QED  BY <2>1, <2>2 DEF OnlyCompletedVerifies
<1>6. AnswersSurvive
  BY <1>3, <1>4 DEF AnswersSurvive, Survivors
<1>7. SurvivorsReplay
  <2>1. \A f \in Survivors : Replays(Parse(f))
    BY <1>3, <1>4 DEF Survivors
  <2>. QED  BY <2>1 DEF SurvivorsReplay, Replays, ReplayedTo, Facts
<1>. QED  BY <1>5, <1>6, <1>7 DEF SurvivorsAreHonest

\* Wherever the process stops, whatever write or flush failed before it, what
\* is left on file begins with every answer submit has given, replays through
\* the same engine to the state its last digest names, and reads as a complete
\* transcript only if it is the whole recording of a match that ended, which
\* then verifies; and a completed recording leaves nothing else (record.rs:113,
\* 125, 160, 165, 236; replay.rs:417).
THEOREM SurvivorsAreHonestAlways == Spec => []SurvivorsAreHonest
<1>1. Init => IInv /\ History
  BY InitInv, InitHistory
<1>2. (IInv /\ History) /\ [Next]_vars => (IInv /\ History)'
  BY NextInv, NextHistory
<1>3. IInv /\ History => SurvivorsAreHonest
  BY HistoryIsHonest
<1>. QED  BY <1>1, <1>2, <1>3, PTL DEF Spec

-----------------------------------------------------------------------------
(* Telling engines apart: replay through another engine follows the match  *)
(* exactly as long as that engine makes the transitions the match took.    *)

\* No two states share a digest: SHA-256 has met no collision.
DigestsTellStates == \A s, t \in GameState : DigestOf[s] = DigestOf[t] => s = t

\* The reader holds steps to be played from s.
HoldsMatch(r, s) ==
  /\ s \in GameState /\ r.initial = {s}
  /\ r.steps \in Seq(Step)
  /\ \A i \in 1 .. Len(r.steps) : r.steps[i].action \in GameAction

\* Where the engine leads from s, by the action of a step.
Onward(engine, s, step) ==
  IF engine[s, step.action].accepted THEN engine[s, step.action].state ELSE s

\* The replay f of what r holds, step by step.
StepByStep(f, engine, r) ==
  /\ f[0] = StartReplay(r)
  /\ \A k \in 1 .. Len(r.steps) : f[k] = ReplayStep(engine, f[k - 1], r.steps[k])

LEMMA ReplayedSteps ==
  ASSUME NEW engine, NEW r, Len(r.steps) \in Nat
  PROVE  \E f : StepByStep(f, engine, r) /\ Replay(engine, r) = f[Len(r.steps)]
<1>. DEFINE n == Len(r.steps)
<1>1. PICK f : IsReplay(f, engine, r) /\ Replay(engine, r) = f[Len(r.steps)]
  BY ReplayIsReplay
<1>2. \A k \in 0 .. n :
        f[k] = IF k = 0 THEN StartReplay(r) ELSE ReplayStep(engine, f[k - 1], r.steps[k])
  BY <1>1 DEF IsReplay
<1>3. 0 \in 0 .. n /\ \A k \in 1 .. n : k \in 0 .. n /\ k # 0
  OBVIOUS
<1>. HIDE DEF n
<1>4. f[0] = StartReplay(r)
  BY <1>2, <1>3
<1>5. \A k \in 1 .. n : f[k] = ReplayStep(engine, f[k - 1], r.steps[k])
  BY <1>2, <1>3
<1>. QED  BY <1>1, <1>4, <1>5 DEF StepByStep, n

\* One step of a replay that has not diverged: it goes on or it diverges.
LEMMA StepReached ==
  ASSUME NEW engine, NEW replay, NEW step, NEW s, replay.reached = {s},
         Agrees(step, s, engine[s, step.action])
  PROVE  ReplayStep(engine, replay, step).reached = {Onward(engine, s, step)}
BY DEF ReplayStep, Onward

LEMMA StepDiverges ==
  ASSUME NEW engine, NEW replay, NEW step, NEW s, replay.reached = {s},
         ReplayStep(engine, replay, step).reached # {}
  PROVE  Agrees(step, s, engine[s, step.action])
BY DEF ReplayStep

\* A replay that has diverged goes nowhere any more.
LEMMA StaysDiverged ==
  ASSUME NEW engine, NEW replay, NEW step, replay.reached = {}
  PROVE  ReplayStep(engine, replay, step).reached = {}
BY DEF ReplayStep

\* A replay that reaches the end has diverged nowhere.
LEMMA NeverDiverged ==
  ASSUME NEW engine, NEW r, Len(r.steps) \in Nat, NEW f, StepByStep(f, engine, r),
         f[Len(r.steps)].reached # {},
         NEW k \in 0 .. Len(r.steps)
  PROVE  f[k].reached # {}
<1>. DEFINE n == Len(r.steps)
            T == {j \in 0 .. n : k <= j => f[j].reached = {}}
<1>1. SUFFICES ASSUME f[k].reached = {} PROVE FALSE
  OBVIOUS
<1>2. n \in Nat /\ k \in 0 .. n /\ f[n].reached # {}
  OBVIOUS
<1>3. \A j \in 1 .. n : f[j] = ReplayStep(engine, f[j - 1], r.steps[j])
  BY DEF StepByStep
<1>. HIDE DEF n
<1>4. 0 \in T
  <2>1. k <= 0 => k = 0
    BY <1>2
  <2>. QED  BY <1>1, <1>2, <2>1
<1>5. ASSUME NEW j \in 1 .. n, j - 1 \in T
      PROVE  j \in T
  <2>1. SUFFICES ASSUME k <= j PROVE f[j].reached = {}
    BY <1>2
  <2>2. CASE k = j
    BY <1>1, <2>2
  <2>3. CASE k # j
    <3>1. k <= j - 1
      BY <1>2, <2>1, <2>3
    <3>2. f[j - 1].reached = {}
      BY <1>5, <3>1
    <3>. QED  BY <1>3, <3>2, StaysDiverged
  <2>. QED  BY <2>2, <2>3
<1>6. n \in T
  <2>. HIDE DEF T
  <2>1. 0 .. n \subseteq T
    BY <1>2, <1>4, <1>5, BoundedInduction
  <2>. QED  BY <1>2, <2>1
<1>. QED  BY <1>2, <1>6

LEMMA StepCounts ==
  ASSUME NEW engine, NEW other, NEW step, NEW p, NEW q,
         p.step_count = q.step_count, p.event_count = q.event_count, p.game_ended = q.game_ended
  PROVE  LET a == ReplayStep(engine, p, step)
             b == ReplayStep(other, q, step) IN
         /\ a.step_count = b.step_count /\ a.event_count = b.event_count
         /\ a.game_ended = b.game_ended
BY DEF ReplayStep

\* What replay counts on the way is the same for every engine.
LEMMA CountsOfAnyEngine ==
  ASSUME NEW engine, NEW other, NEW r, Len(r.steps) \in Nat,
         NEW f, StepByStep(f, engine, r), NEW g, StepByStep(g, other, r)
  PROVE  LET p == f[Len(r.steps)]
             q == g[Len(r.steps)] IN
         /\ p.step_count = q.step_count /\ p.event_count = q.event_count
         /\ p.game_ended = q.game_ended
<1>. DEFINE n == Len(r.steps)
            Same(k) == /\ f[k].step_count = g[k].step_count
                       /\ f[k].event_count = g[k].event_count
                       /\ f[k].game_ended = g[k].game_ended
            T == {k \in 0 .. n : Same(k)}
<1>1. n \in Nat /\ n \in 0 .. n /\ 0 \in 0 .. n
  OBVIOUS
<1>2. f[0] = g[0]
  BY DEF StepByStep
<1>3. \A k \in 1 .. n : /\ f[k] = ReplayStep(engine, f[k - 1], r.steps[k])
                        /\ g[k] = ReplayStep(other, g[k - 1], r.steps[k])
  BY DEF StepByStep
<1>. HIDE DEF n
<1>4. 0 \in T
  BY <1>1, <1>2
<1>5. ASSUME NEW k \in 1 .. n, k - 1 \in T
      PROVE  k \in T
  <2>1. Same(k - 1) /\ k \in 0 .. n
    BY <1>1, <1>5
  <2>2. /\ f[k] = ReplayStep(engine, f[k - 1], r.steps[k])
        /\ g[k] = ReplayStep(other, g[k - 1], r.steps[k])
    BY <1>3
  <2>3. Same(k)
    BY <2>1, <2>2, StepCounts
  <2>. QED  BY <2>1, <2>3
<1>6. n \in T
  <2>. HIDE DEF T
  <2>1. 0 .. n \subseteq T
    BY <1>1, <1>4, <1>5, BoundedInduction
  <2>. QED  BY <1>1, <2>1
<1>. QED  BY <1>6 DEF n

\* The states v the engine visits from s, agreeing with every step r holds.
Visits(v, engine, r, s) ==
  /\ v \in [0 .. Len(r.steps) -> GameState] /\ v[0] = s
  /\ \A k \in 1 .. Len(r.steps) :
       /\ Agrees(r.steps[k], v[k - 1], engine[v[k - 1], r.steps[k].action])
       /\ v[k] = Onward(engine, v[k - 1], r.steps[k])

LEMMA OnwardIsAState ==
  ASSUME NEW engine \in Engines, NEW t \in GameState, NEW step, step.action \in GameAction
  PROVE  /\ engine[t, step.action] \in Result
         /\ Onward(engine, t, step) \in GameState
<1>1. engine[t, step.action] \in Result
  BY DEF Engines
<1>. QED  BY <1>1 DEF Onward, Result

\* A replay that reaches the end visits one state after each step.
LEMMA Visited ==
  ASSUME NEW engine \in Engines, NEW r, NEW s, HoldsMatch(r, s),
         NEW f, StepByStep(f, engine, r), f[Len(r.steps)].reached # {}
  PROVE  \E v : /\ Visits(v, engine, r, s)
                /\ \A k \in 0 .. Len(r.steps) : f[k].reached = {v[k]}
<1>. DEFINE n == Len(r.steps)
            At(k, t) == t \in GameState /\ f[k].reached = {t}
            T == {k \in 0 .. n : \E t : At(k, t)}
            v == [k \in 0 .. n |-> CHOOSE t : At(k, t)]
<1>1. n \in Nat /\ n \in 0 .. n /\ 0 \in 0 .. n
  BY DEF HoldsMatch
<1>2. f[0].reached = {s} /\ s \in GameState
  BY DEF StepByStep, StartReplay, HoldsMatch
<1>3. \A k \in 1 .. n : f[k] = ReplayStep(engine, f[k - 1], r.steps[k])
  BY DEF StepByStep
<1>4. \A k \in 0 .. n : f[k].reached # {}
  BY <1>1, NeverDiverged
<1>5. \A k \in 1 .. n : r.steps[k].action \in GameAction
  BY DEF HoldsMatch
<1>. HIDE DEF n
<1>6. \A k \in 1 .. n : k \in 0 .. n /\ k - 1 \in 0 .. n
  BY <1>1
<1>7. ASSUME NEW k \in 1 .. n, NEW t, At(k - 1, t)
      PROVE  /\ Agrees(r.steps[k], t, engine[t, r.steps[k].action])
             /\ At(k, Onward(engine, t, r.steps[k]))
  <2>. DEFINE step == r.steps[k]
              replay == f[k - 1]
  <2>1. f[k] = ReplayStep(engine, replay, step) /\ f[k].reached # {}
    BY <1>3, <1>4, <1>6
  <2>2. replay.reached = {t} /\ t \in GameState /\ step.action \in GameAction
    BY <1>5, <1>7
  <2>. HIDE DEF step, replay
  <2>3. Agrees(step, t, engine[t, step.action])
    BY <2>1, <2>2, StepDiverges
  <2>4. f[k].reached = {Onward(engine, t, step)}
    <3>1. ReplayStep(engine, replay, step).reached = {Onward(engine, t, step)}
      BY <2>2, <2>3, StepReached
    <3>. QED  BY <2>1, <3>1
  <2>5. Onward(engine, t, step) \in GameState
    BY <2>2, OnwardIsAState
  <2>. QED  BY <2>3, <2>4, <2>5 DEF step
<1>8. 0 \in T
  BY <1>1, <1>2
<1>9. ASSUME NEW k \in 1 .. n, k - 1 \in T
      PROVE  k \in T
  BY <1>6, <1>7, <1>9
<1>10. \A k \in 0 .. n : \E t : At(k, t)
  <2>1. 0 .. n \subseteq T
    <3>. HIDE DEF T
    <3>. QED  BY <1>1, <1>8, <1>9, BoundedInduction
  <2>. QED  BY <2>1
<1>11. \A k \in 0 .. n : At(k, v[k])
  <2>. HIDE DEF At
  <2>. QED  BY <1>10
<1>12. v \in [0 .. n -> GameState]
  BY <1>11
<1>13. v[0] = s
  <2>1. {v[0]} = {s}
    BY <1>1, <1>2, <1>11
  <2>. QED  BY <2>1
<1>14. ASSUME NEW k \in 1 .. n
       PROVE  /\ Agrees(r.steps[k], v[k - 1], engine[v[k - 1], r.steps[k].action])
              /\ v[k] = Onward(engine, v[k - 1], r.steps[k])
  <2>1. At(k - 1, v[k - 1]) /\ At(k, v[k])
    BY <1>6, <1>11
  <2>. HIDE DEF v
  <2>2. /\ Agrees(r.steps[k], v[k - 1], engine[v[k - 1], r.steps[k].action])
        /\ At(k, Onward(engine, v[k - 1], r.steps[k]))
    BY <1>7, <2>1
  <2>3. {v[k]} = {Onward(engine, v[k - 1], r.steps[k])}
    BY <2>1, <2>2
  <2>. QED  BY <2>2, <2>3
<1>15. \A k \in 0 .. n : f[k].reached = {v[k]}
  BY <1>11
<1>. HIDE DEF v, At
<1>16. Visits(v, engine, r, s)
  BY <1>12, <1>13, <1>14 DEF Visits, n
<1>. QED  BY <1>15, <1>16 DEF n

\* A step agrees with one result at most.
LEMMA OneResultAgrees ==
  ASSUME DigestsTellStates, NEW step, NEW s, NEW p \in Result, NEW q \in Result,
         Agrees(step, s, p), Agrees(step, s, q)
  PROVE  p = q
<1>1. p.accepted \in BOOLEAN /\ q.accepted \in BOOLEAN
  BY DEF Result
<1>2. (p.accepted <=> step.accepted) /\ (q.accepted <=> step.accepted)
  BY DEF Agrees
<1>3. CASE step.accepted
  <2>1. /\ p \in [accepted : {TRUE}, state : GameState, events : Seq(GameEvent)]
        /\ q \in [accepted : {TRUE}, state : GameState, events : Seq(GameEvent)]
    BY <1>1, <1>2, <1>3 DEF Result
  <2>2. p.events = q.events /\ DigestOf[p.state] = DigestOf[q.state]
    BY <1>2, <1>3 DEF Agrees
  <2>3. p.state = q.state
    BY <2>1, <2>2 DEF DigestsTellStates
  <2>4. /\ p = [accepted |-> TRUE, state |-> p.state, events |-> p.events]
        /\ q = [accepted |-> TRUE, state |-> q.state, events |-> q.events]
    BY <2>1
  <2>. QED  BY <2>2, <2>3, <2>4
<1>4. CASE ~step.accepted
  <2>1. /\ p \in [accepted : {FALSE}, error : ActionError]
        /\ q \in [accepted : {FALSE}, error : ActionError]
    BY <1>1, <1>2, <1>4 DEF Result
  <2>2. p.error = q.error
    BY <1>2, <1>4 DEF Agrees
  <2>3. p = [accepted |-> FALSE, error |-> p.error] /\ q = [accepted |-> FALSE, error |-> q.error]
    BY <2>1
  <2>. QED  BY <2>2, <2>3
<1>. QED  BY <1>3, <1>4

\* The transitions from one of the states v to the next.
Taken(r, v) == [k \in 1 .. Len(r.steps) |-> <<v[k - 1], r.steps[k].action>>]

LEMMA TransitionsTaken ==
  ASSUME NEW r, NEW s, HoldsMatch(r, s), NEW v, Visits(v, Engine, r, s)
  PROVE  Transitions(s, r.steps) = Taken(r, v)
<1>. DEFINE n == Len(r.steps)
            IsVisited(w) ==
              w = [k \in 0 .. n |->
                     IF k = 0 THEN s
                     ELSE IF r.steps[k].accepted THEN Engine[w[k - 1], r.steps[k].action].state
                     ELSE w[k - 1]]
            w == CHOOSE x : IsVisited(x)
            T == {k \in 0 .. n : w[k] = v[k]}
<1>1. Transitions(s, r.steps) = [k \in 1 .. n |-> <<w[k - 1], r.steps[k].action>>]
  BY DEF Transitions
<1>2. n \in Nat /\ 0 \in 0 .. n
  BY DEF HoldsMatch
<1>3. v \in [0 .. n -> GameState] /\ v[0] = s
  BY DEF Visits
<1>4. \A k \in 1 .. n : /\ Agrees(r.steps[k], v[k - 1], Engine[v[k - 1], r.steps[k].action])
                        /\ v[k] = Onward(Engine, v[k - 1], r.steps[k])
  BY DEF Visits
<1>. HIDE DEF n
<1>5. ASSUME NEW k \in 1 .. n
      PROVE  v[k] = IF r.steps[k].accepted THEN Engine[v[k - 1], r.steps[k].action].state
                    ELSE v[k - 1]
  <2>. DEFINE to == Engine[v[k - 1], r.steps[k].action]
  <2>1. IF to.accepted THEN r.steps[k].accepted ELSE ~r.steps[k].accepted
    BY <1>4 DEF Agrees
  <2>2. v[k] = IF to.accepted THEN to.state ELSE v[k - 1]
    BY <1>4 DEF Onward
  <2>. HIDE DEF to
  <2>3. v[k] = IF r.steps[k].accepted THEN to.state ELSE v[k - 1]
    BY <2>1, <2>2
  <2>. QED  BY <2>3 DEF to
<1>6. IsVisited(v)
  <2>1. v = [k \in 0 .. n |-> v[k]]
    BY <1>3
  <2>2. \A k \in 0 .. n : k # 0 => k \in 1 .. n
    BY <1>2
  <2>. QED  BY <1>3, <1>5, <2>1, <2>2
<1>7. IsVisited(w)
  <2>. HIDE DEF IsVisited
  <2>. QED  BY <1>6
<1>8. /\ w[0] = s
      /\ \A k \in 1 .. n :
           w[k] = IF r.steps[k].accepted THEN Engine[w[k - 1], r.steps[k].action].state
                  ELSE w[k - 1]
  <2>. HIDE DEF w
  <2>1. 0 \in 0 .. n /\ \A k \in 1 .. n : k \in 0 .. n /\ k # 0
    BY <1>2
  <2>2. \A k \in 0 .. n :
          w[k] = IF k = 0 THEN s
                 ELSE IF r.steps[k].accepted THEN Engine[w[k - 1], r.steps[k].action].state
                 ELSE w[k - 1]
    BY <1>7
  <2>. QED  BY <2>1, <2>2
<1>. HIDE DEF w, IsVisited
<1>9. 0 \in T
  BY <1>2, <1>3, <1>8
<1>10. ASSUME NEW k \in 1 .. n, k - 1 \in T
       PROVE  k \in T
  <2>1. w[k - 1] = v[k - 1] /\ k \in 0 .. n
    BY <1>2, <1>10
  <2>. QED  BY <1>5, <1>8, <2>1
<1>11. \A k \in 0 .. n : w[k] = v[k]
  <2>1. 0 .. n \subseteq T
    <3>. HIDE DEF T
    <3>. QED  BY <1>2, <1>9, <1>10, BoundedInduction
  <2>. QED  BY <2>1
<1>12. \A k \in 1 .. n : w[k - 1] = v[k - 1]
  <2>1. \A k \in 1 .. n : k - 1 \in 0 .. n
    BY <1>2
  <2>. QED  BY <1>11, <2>1
<1>. QED  BY <1>1, <1>12 DEF n, Taken

\* The other engine makes every transition taken over the states v.
Alike(other, r, v) ==
  \A k \in 1 .. Len(r.steps) :
    other[v[k - 1], r.steps[k].action] = Engine[v[k - 1], r.steps[k].action]

\* Replay through another engine reaches the end of the match exactly when
\* that engine makes every transition of it, and then reaches the same state.
LEMMA OnlyTheSameTransitions ==
  ASSUME DigestsTellStates, NEW other \in Engines, NEW r, NEW s, HoldsMatch(r, s),
         NEW v, Visits(v, Engine, r, s), NEW g, StepByStep(g, other, r)
  PROVE  /\ g[Len(r.steps)].reached # {} => Alike(other, r, v)
         /\ Alike(other, r, v) => g[Len(r.steps)].reached = {v[Len(r.steps)]}
<1>. DEFINE n == Len(r.steps)
            Same(k) == other[v[k - 1], r.steps[k].action] = Engine[v[k - 1], r.steps[k].action]
<1>1. n \in Nat /\ 0 \in 0 .. n /\ n \in 0 .. n
  BY DEF HoldsMatch
<1>2. v \in [0 .. n -> GameState] /\ v[0] = s
  BY DEF Visits
<1>3. \A k \in 1 .. n : /\ Agrees(r.steps[k], v[k - 1], Engine[v[k - 1], r.steps[k].action])
                        /\ v[k] = Onward(Engine, v[k - 1], r.steps[k])
  BY DEF Visits
<1>4. \A k \in 1 .. n : r.steps[k].action \in GameAction
  BY DEF HoldsMatch
<1>5. /\ g[0].reached = {s}
      /\ \A k \in 1 .. n : g[k] = ReplayStep(other, g[k - 1], r.steps[k])
  BY DEF StepByStep, StartReplay, HoldsMatch
<1>6. g[n].reached # {} => \E w : Visits(w, other, r, s)
  BY Visited
<1>. HIDE DEF n
<1>7. ASSUME NEW k \in 1 .. n
      PROVE  k \in 0 .. n /\ k - 1 \in 0 .. n /\ v[k - 1] \in GameState
  BY <1>1, <1>2
<1>8. ASSUME NEW k \in 1 .. n, Same(k)
      PROVE  /\ Agrees(r.steps[k], v[k - 1], other[v[k - 1], r.steps[k].action])
             /\ v[k] = Onward(other, v[k - 1], r.steps[k])
  BY <1>3, <1>8 DEF Onward
<1>9. ASSUME NEW k \in 1 .. n,
             Agrees(r.steps[k], v[k - 1], other[v[k - 1], r.steps[k].action])
      PROVE  Same(k)
  <2>. DEFINE p == Engine[v[k - 1], r.steps[k].action]
              q == other[v[k - 1], r.steps[k].action]
  <2>1. p \in Result /\ q \in Result
    BY <1>4, <1>7, OnwardIsAState, EngineAssumption
  <2>2. Agrees(r.steps[k], v[k - 1], p) /\ Agrees(r.steps[k], v[k - 1], q)
    BY <1>3, <1>9
  <2>. HIDE DEF p, q
  <2>3. p = q
    BY <2>1, <2>2, OneResultAgrees
  <2>. QED  BY <2>3 DEF p, q
<1>10. ASSUME g[n].reached # {} PROVE \A k \in 1 .. n : Same(k)
  <2>0. PICK w : Visits(w, other, r, s)
    BY <1>6, <1>10
  <2>1. /\ w \in [0 .. n -> GameState] /\ w[0] = s
        /\ \A k \in 1 .. n :
             /\ Agrees(r.steps[k], w[k - 1], other[w[k - 1], r.steps[k].action])
             /\ w[k] = Onward(other, w[k - 1], r.steps[k])
    BY <2>0 DEF Visits, n
  <2>. DEFINE T == {k \in 0 .. n : w[k] = v[k]}
  <2>2. 0 \in T
    BY <1>1, <1>2, <2>1
  <2>3. ASSUME NEW k \in 1 .. n, w[k - 1] = v[k - 1]
        PROVE  Same(k) /\ w[k] = v[k]
    <3>1. Same(k)
      BY <1>9, <2>1, <2>3
    <3>2. v[k] = Onward(other, v[k - 1], r.steps[k])
      BY <1>8, <3>1
    <3>. QED  BY <2>1, <2>3, <3>1, <3>2
  <2>4. ASSUME NEW k \in 1 .. n, k - 1 \in T PROVE k \in T
    BY <1>7, <2>3, <2>4
  <2>5. \A k \in 0 .. n : w[k] = v[k]
    <3>1. 0 .. n \subseteq T
      <4>. HIDE DEF T
      <4>. QED  BY <1>1, <2>2, <2>4, BoundedInduction
    <3>. QED  BY <3>1
  <2>. HIDE DEF Same
  <2>. QED  BY <1>7, <2>3, <2>5
<1>11. ASSUME \A k \in 1 .. n : Same(k) PROVE g[n].reached = {v[n]}
  <2>. DEFINE T == {k \in 0 .. n : g[k].reached = {v[k]}}
  <2>1. 0 \in T
    BY <1>1, <1>2, <1>5
  <2>2. ASSUME NEW k \in 1 .. n, g[k - 1].reached = {v[k - 1]}
        PROVE  g[k].reached = {v[k]}
    <3>1. /\ Agrees(r.steps[k], v[k - 1], other[v[k - 1], r.steps[k].action])
          /\ v[k] = Onward(other, v[k - 1], r.steps[k])
      BY <1>8, <1>11
    <3>2. ReplayStep(other, g[k - 1], r.steps[k]).reached =
            {Onward(other, v[k - 1], r.steps[k])}
      <4>. DEFINE replay == g[k - 1]
                  step == r.steps[k]
                  t == v[k - 1]
      <4>1. replay.reached = {t} /\ Agrees(step, t, other[t, step.action])
        BY <2>2, <3>1
      <4>. HIDE DEF replay, step, t
      <4>2. ReplayStep(other, replay, step).reached = {Onward(other, t, step)}
        BY <4>1, StepReached
      <4>. QED  BY <4>2 DEF replay, step, t
    <3>. QED  BY <1>5, <3>1, <3>2
  <2>3. ASSUME NEW k \in 1 .. n, k - 1 \in T PROVE k \in T
    BY <1>7, <2>2, <2>3
  <2>4. n \in T
    <3>. HIDE DEF T
    <3>1. 0 .. n \subseteq T
      BY <1>1, <2>1, <2>3, BoundedInduction
    <3>. QED  BY <1>1, <3>1
  <2>. QED  BY <2>4
<1>. HIDE DEF Same
<1>12. (g[n].reached # {} => \A k \in 1 .. n : Same(k))
       /\ ((\A k \in 1 .. n : Same(k)) => g[n].reached = {v[n]})
  BY <1>10, <1>11
<1>. QED  BY <1>12 DEF Same, n, Alike

\* Engines whose replays count alike verify alike, but for the state reached.
LEMMA VerifiesAlike ==
  ASSUME NEW engine, NEW other, NEW l, Verifies(engine, l),
         Replay(other, Parse(l)).step_count = Replay(engine, Parse(l)).step_count,
         Replay(other, Parse(l)).event_count = Replay(engine, Parse(l)).event_count,
         Replay(other, Parse(l)).game_ended = Replay(engine, Parse(l)).game_ended
  PROVE  /\ Replay(engine, Parse(l)).reached = Parse(l).final
         /\ Verifies(other, l) <=> Replay(other, Parse(l)).reached = Parse(l).final
<1>. DEFINE r == Parse(l)
            p == Replay(engine, r)
            q == Replay(other, r)
            Ends(e) == /\ \A s \in r.final : /\ StatusOf[s] = e.outcome
                                             /\ l[Len(l)].state_digest = DigestOf[s]
                       /\ l[Len(l)].outcome = e.outcome
            Rest(x) == /\ IsTranscript(l)
                       /\ \E e \in x.game_ended : x.game_ended = {e} /\ Ends(e)
                       /\ l[Len(l)].step_count = x.step_count
                       /\ l[Len(l)].event_count = x.event_count
<1>1. /\ Verifies(engine, l) <=> p.reached = r.final /\ Rest(p)
      /\ Verifies(other, l) <=> q.reached = r.final /\ Rest(q)
  BY DEF Verifies
<1>2. /\ q.step_count = p.step_count /\ q.event_count = p.event_count
      /\ q.game_ended = p.game_ended
  OBVIOUS
<1>. HIDE DEF p, q, r, Ends
<1>3. Rest(p) <=> Rest(q)
  BY <1>2
<1>. HIDE DEF Rest
<1>4. p.reached = r.final /\ (Verifies(other, l) <=> q.reached = r.final)
  BY <1>1, <1>3
<1>. QED  BY <1>4 DEF p, q, r

\* The phases of a reader that has read the state the match began in.
Begun == {"Ready", "Pending", "Terminal", "Final", "Complete"}

OpensOnce(r) == r.phase \in Begun => \E s \in GameState : r.initial = {s}

ActionsKnown(r) == \A i \in 1 .. Len(r.steps) : r.steps[i].action \in GameAction

LEMMA LineOpensOnce ==
  ASSUME NEW r \in Reader, NEW line, Advance(r, line) \in Reader, OpensOnce(r)
  PROVE  OpensOnce(Advance(r, line))
<1>. DEFINE q == Advance(r, line)
<1>1. q = r \/ q.phase \notin Begun \/ (q.initial = r.initial /\ r.phase \in Begun)
       \/ q.initial = {line.initial_state}
  <2>1. CASE r.phase \in {"Malformed", "Refused"}
    BY <2>1 DEF Advance
  <2>2. CASE r.phase \notin {"Malformed", "Refused"} /\ line.record = "torn"
    <3>1. q = [r EXCEPT !.phase = "Malformed"]
      BY <2>2 DEF Advance
    <3>. QED  BY <3>1 DEF Reader, Begun
  <2>3. CASE /\ r.phase \notin {"Malformed", "Refused"} /\ line.record # "torn"
             /\ line.sequence # r.position
    <3>1. q = [r EXCEPT !.phase = "Refused"]
      BY <2>3 DEF Advance, Refused
    <3>. QED  BY <3>1 DEF Reader, Begun
  <2>4. CASE /\ r.phase \notin {"Malformed", "Refused"} /\ line.record # "torn"
             /\ line.sequence = r.position
    <3>1. q = [Take(r, line) EXCEPT !.position = @ + 1]
      BY <2>4 DEF Advance
    <3>3. CASE r.phase = "Header"
      <4>1. \/ Take(r, line) = [r EXCEPT !.phase = "MatchCreated"]
            \/ Take(r, line) = [r EXCEPT !.phase = "Refused"]
        BY <3>3 DEF Take, Refused
      <4>. QED  BY <3>1, <4>1 DEF Reader, Begun
    <3>4. CASE r.phase = "MatchCreated"
      <4>1. \/ Take(r, line) = [r EXCEPT !.phase = "Ready", !.initial = {line.initial_state},
                                         !.digest = line.state_digest]
            \/ Take(r, line) = [r EXCEPT !.phase = "Refused"]
        BY <3>4 DEF Take, Refused, ReadMatchCreated
      <4>. QED  BY <3>1, <4>1 DEF Reader, Begun
    <3>5. CASE r.phase \in Begun
      <4>1. Take(r, line).initial = r.initial
        BY <3>5 DEF Begun, Take, Reader, Refused, ReadAction, ReadEvent, ReadStepCompleted,
                    ReadStepRejected, ReadFinalState, ReadMatchCompleted
      <4>. QED  BY <3>1, <3>5, <4>1
    <3>. QED  BY <2>4, <3>3, <3>4, <3>5 DEF Reader, Phase, Begun
  <2>. QED  BY <2>1, <2>2, <2>3, <2>4
<1>2. q.initial \subseteq GameState
  BY DEF Reader
<1>. HIDE DEF q
<1>3. q = r \/ q.phase \notin Begun => OpensOnce(q)
  BY DEF OpensOnce
<1>4. q.initial = r.initial /\ r.phase \in Begun => OpensOnce(q)
  BY DEF OpensOnce
<1>5. q.initial = {line.initial_state} => OpensOnce(q)
  BY <1>2 DEF OpensOnce
<1>6. OpensOnce(q)
  BY <1>1, <1>3, <1>4, <1>5
<1>. QED  BY <1>6 DEF q

LEMMA ReaderMoves ==
  ASSUME [Next]_vars
  PROVE  reader' = reader \/ \E line : reader' = Advance(reader, line)
<1>1. CASE Write
  BY <1>1 DEF Write
<1>2. CASE WriteFails
  BY <1>2 DEF WriteFails, file
<1>3. CASE UNCHANGED vars
  BY <1>3 DEF vars, file
<1>4. CASE RefuseStart \/ Start \/ StartFlushed \/ FlushFails \/ Apply
  BY <1>4 DEF RefuseStart, Start, StartFlushed, FlushFails, Apply, file
<1>5. CASE \E a \in GameAction : Submit(a)
  BY <1>5 DEF Submit, file
<1>6. CASE AcceptedFlushed \/ RejectedFlushed \/ CompletionFlushed
  BY <1>6 DEF AcceptedFlushed, RejectedFlushed, CompletionFlushed, file
<1>. QED  BY <1>1, <1>2, <1>3, <1>4, <1>5, <1>6 DEF Next

MatchOnFile == OpensOnce(reader) /\ ActionsKnown(reader)

LEMMA InitOnFile == Init => MatchOnFile
<1>1. Len(<<>>) = 0
  OBVIOUS
<1>. QED  BY <1>1 DEF Init, NewReader, MatchOnFile, OpensOnce, ActionsKnown, Begun

LEMMA NextOnFile == IInv /\ MatchOnFile /\ [Next]_vars => MatchOnFile'
<1>. SUFFICES ASSUME IInv, MatchOnFile, [Next]_vars PROVE MatchOnFile'
  OBVIOUS
<1>1. reader \in Reader /\ reader' \in Reader
  BY NextInv DEF IInv, Types
<1>2. OpensOnce(reader')
  <2>1. CASE reader' = reader
    BY <2>1 DEF MatchOnFile
  <2>2. ASSUME NEW line, reader' = Advance(reader, line) PROVE OpensOnce(reader')
    BY <1>1, <2>2, LineOpensOnce DEF MatchOnFile
  <2>. QED  BY <2>1, <2>2, ReaderMoves
<1>3. ActionsKnown(reader')
  <2>1. [J!Advances]_(J!journal)
    BY NextAdvances
  <2>2. \/ reader'.steps = reader.steps
        \/ \E a \in GameAction : \E step :
             step.action = a /\ reader'.steps = Append(reader.steps, step)
    BY <2>1 DEF J!Advances, J!journal, J!Open, J!Play, J!Seal, J!Accept, J!Reject,
                J!AcceptedStep, J!RejectedStep
  <2>3. CASE reader'.steps = reader.steps
    BY <2>3 DEF MatchOnFile, ActionsKnown
  <2>4. ASSUME NEW a \in GameAction, NEW step, step.action = a,
               reader'.steps = Append(reader.steps, step)
        PROVE  ActionsKnown(reader')
    <3>1. reader.steps \in Seq(Step) /\ Len(reader.steps) \in Nat
      BY <1>1 DEF Reader
    <3>2. /\ Len(reader'.steps) = Len(reader.steps) + 1
          /\ reader'.steps[Len(reader.steps) + 1] = step
          /\ \A i \in 1 .. Len(reader.steps) : reader'.steps[i] = reader.steps[i]
      BY <2>4, <3>1
    <3>3. \A i \in 1 .. Len(reader'.steps) :
            i \in 1 .. Len(reader.steps) \/ i = Len(reader.steps) + 1
      BY <3>1, <3>2
    <3>. QED  BY <2>4, <3>2, <3>3 DEF MatchOnFile, ActionsKnown
  <2>. QED  BY <2>2, <2>3, <2>4
<1>. QED  BY <1>2, <1>3 DEF MatchOnFile

\* What a completed recording holds verifies under the engines that make the
\* transitions of the match, and under no other.
LEMMA CompletedTellsEngines ==
  ASSUME DigestsTellStates, IInv, History, MatchOnFile, NEW other \in Engines
  PROVE  VerifiesOnlyThisMatch(other)
<1>. DEFINE r == reader
            n == Len(r.steps)
<1>1. SUFFICES ASSUME lifecycle = "MatchCompleted"
               PROVE  \E s \in r.initial :
                        LET taken == Transitions(s, r.steps) IN
                        Verifies(other, lines) <=>
                          \A k \in DOMAIN taken : other[taken[k]] = Engine[taken[k]]
  BY DEF VerifiesOnlyThisMatch
<1>2. r.phase = "Complete" /\ Verifies(Engine, lines) /\ r = Parse(lines)
  BY <1>1 DEF History, Sealed, Prefixes
<1>3. r \in Reader /\ n \in Nat
  BY DEF IInv, Types, Reader
<1>4. PICK s \in GameState : r.initial = {s}
  BY <1>2 DEF MatchOnFile, OpensOnce, Begun
<1>5. HoldsMatch(r, s)
  BY <1>3, <1>4 DEF HoldsMatch, MatchOnFile, ActionsKnown, Reader
<1>6. Replay(Engine, r).reached # {}
  <2>1. Len(lines) \in 0 .. Len(lines) /\ SubSeq(lines, 1, Len(lines)) = lines
    BY CutsOfAppend DEF IInv, Types
  <2>2. Replays(r)
    BY <1>2, <2>1 DEF History, Prefixes, ReadUpTo
  <2>. QED  BY <1>4, <2>2 DEF Replays, ReplayedTo, Facts
<1>7. PICK f : StepByStep(f, Engine, r) /\ Replay(Engine, r) = f[n]
  BY <1>3, ReplayedSteps
<1>8. PICK g : StepByStep(g, other, r) /\ Replay(other, r) = g[n]
  BY <1>3, ReplayedSteps
<1>9. PICK v : Visits(v, Engine, r, s) /\ \A k \in 0 .. n : f[k].reached = {v[k]}
  BY <1>5, <1>6, <1>7, Visited, EngineAssumption
<1>10. /\ g[n].reached # {} => Alike(other, r, v)
       /\ Alike(other, r, v) => g[n].reached = {v[n]}
  BY <1>5, <1>8, <1>9, OnlyTheSameTransitions
<1>11. /\ g[n].step_count = f[n].step_count /\ g[n].event_count = f[n].event_count
       /\ g[n].game_ended = f[n].game_ended
  BY <1>3, <1>7, <1>8, CountsOfAnyEngine
<1>12. f[n].reached = r.final /\ (Verifies(other, lines) <=> g[n].reached = r.final)
  BY <1>2, <1>7, <1>8, <1>11, VerifiesAlike
<1>13. r.final = {v[n]}
  BY <1>3, <1>9, <1>12
<1>14. Verifies(other, lines) <=> Alike(other, r, v)
  BY <1>10, <1>12, <1>13
<1>15. Transitions(s, r.steps) = Taken(r, v)
  BY <1>5, <1>9, TransitionsTaken
<1>16. (\A k \in DOMAIN Taken(r, v) : other[Taken(r, v)[k]] = Engine[Taken(r, v)[k]])
         <=> Alike(other, r, v)
  BY DEF Taken, Alike
<1>. QED  BY <1>4, <1>14, <1>15, <1>16

\* A completed transcript verifies under another engine exactly when that
\* engine makes, event for event and state for state, every transition the
\* match took, provided no two states share a digest (replay.rs:483,
\* verify_accepted_step and verify_rejected_step).
THEOREM ReplayTellsEnginesApart ==
  DigestsTellStates => (Spec => [](\A other \in Engines : VerifiesOnlyThisMatch(other)))
<1>1. Init => IInv /\ History /\ MatchOnFile
  BY InitInv, InitHistory, InitOnFile
<1>2. (IInv /\ History /\ MatchOnFile) /\ [Next]_vars => (IInv /\ History /\ MatchOnFile)'
  BY NextInv, NextHistory, NextOnFile
<1>. SUFFICES ASSUME DigestsTellStates
              PROVE  Spec => [](\A other \in Engines : VerifiesOnlyThisMatch(other))
  OBVIOUS
<1>3. IInv /\ History /\ MatchOnFile => \A other \in Engines : VerifiesOnlyThisMatch(other)
  BY CompletedTellsEngines
<1>. QED  BY <1>1, <1>2, <1>3, PTL DEF Spec
=============================================================================
