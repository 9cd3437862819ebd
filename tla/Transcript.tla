----------------------------- MODULE Transcript -----------------------------
(***************************************************************************)
(* A match transcript (crates/match-log): its records (wire.rs), what the  *)
(* strict parser makes of them (parse.rs) and what replaying them through  *)
(* an engine concludes (replay.rs).  The engine is a parameter: a function *)
(* from a state and an action to an accepted outcome or a typed error.     *)
(***************************************************************************)
EXTENDS Naturals, Sequences

CONSTANTS
  GameState,    \* match states, as far as a projection tells them apart
  GameAction,   \* normalized actions
  ActionError,  \* typed rejections
  Change,       \* every event that does not end the match
  Outcome,      \* winner and reason; also the GameEnded event that names them
  Playing, Broken,
  StatusOf,     \* the status of each state: Playing, Broken or its outcome
  StateDigest,  \* digest texts
  DigestOf,     \* the digest of each state's canonical projection
  NoDigest,     \* no digest read yet
  NoAction      \* no action read yet

GameEvent == Change \cup Outcome

Result == [accepted : {TRUE}, state : GameState, events : Seq(GameEvent)]
            \cup [accepted : {FALSE}, error : ActionError]

Engines == [GameState \X GameAction -> Result]

ASSUME StatusAssumption ==
  /\ StatusOf \in [GameState -> Outcome \cup {Playing, Broken}]
  /\ Playing # Broken /\ Playing \notin Outcome /\ Broken \notin Outcome

ASSUME EventAssumption == Change \cap Outcome = {}

ASSUME DigestAssumption ==
  DigestOf \in [GameState -> StateDigest] /\ NoDigest \notin StateDigest

\* How often the events of a step say that the match ended, and how.
NoGameEnded(events) == \A i \in DOMAIN events : events[i] \notin Outcome
OneGameEnded(events, outcome) ==
  \E i \in DOMAIN events :
    events[i] = outcome /\ \A j \in DOMAIN events : events[j] \in Outcome => j = i
MultipleGameEnded(events) ==
  \E i, j \in DOMAIN events : i # j /\ events[i] \in Outcome /\ events[j] \in Outcome

-----------------------------------------------------------------------------
(* Records.  A header is always the first line and a MatchCreated the      *)
(* second; the others carry the sequence number they were prepared with.   *)

HeaderRecord == [record |-> "header", sequence |-> 0]

MatchCreatedRecord(s) ==
  [record |-> "match_created", sequence |-> 1, initial_state |-> s,
   state_digest |-> DigestOf[s]]

ActionRecord(seq, step, action) ==
  [record |-> "action", sequence |-> seq, step |-> step, action |-> action]

EventRecord(seq, step, index, event) ==
  [record |-> "event", sequence |-> seq, step |-> step, index |-> index, event |-> event]

StepCompletedRecord(seq, step, count, digest) ==
  [record |-> "step_completed", sequence |-> seq, step |-> step,
   event_count |-> count, state_digest |-> digest]

StepRejectedRecord(seq, step, error, digest) ==
  [record |-> "step_rejected", sequence |-> seq, step |-> step, error |-> error,
   state_digest |-> digest]

FinalStateRecord(seq, s) ==
  [record |-> "final_state", sequence |-> seq, final_state |-> s, state_digest |-> DigestOf[s]]

MatchCompletedRecord(seq, steps, events, digest, outcome) ==
  [record |-> "match_completed", sequence |-> seq, step_count |-> steps,
   event_count |-> events, state_digest |-> digest, outcome |-> outcome]

\* A line cut off by a failing write: no JSON value.
TornLine == [record |-> "torn"]

-----------------------------------------------------------------------------
(* The parser: one reader, advanced by one decoded line at a time.         *)

Phase == {"Header", "MatchCreated", "Ready", "Pending", "Terminal", "Final",
          "Complete", "Malformed", "Refused"}

NewReader ==
  [phase |-> "Header", position |-> 0, initial |-> {}, digest |-> NoDigest,
   next_step |-> 1, event_count |-> 0, steps |-> <<>>,
   action |-> NoAction, events |-> <<>>, ended |-> {}, final |-> {}]

AcceptedStep(action, events, digest) ==
  [action |-> action, accepted |-> TRUE, events |-> events, digest |-> digest]
RejectedStep(action, error, digest) ==
  [action |-> action, accepted |-> FALSE, error |-> error, digest |-> digest]

Refused(r) == [r EXCEPT !.phase = "Refused"]

ReadMatchCreated(r, line) ==
  IF StatusOf[line.initial_state] = Playing /\ DigestOf[line.initial_state] = line.state_digest
    THEN [r EXCEPT !.phase = "Ready", !.initial = {line.initial_state},
                   !.digest = line.state_digest]
    ELSE Refused(r)

ReadAction(r, line) ==
  IF line.step = r.next_step
    THEN [r EXCEPT !.phase = "Pending", !.action = line.action, !.events = <<>>, !.ended = {}]
    ELSE Refused(r)

ReadEvent(r, line) ==
  LET ending == {line.event} \cap Outcome IN
  IF line.step = r.next_step /\ line.index = Len(r.events) /\ (ending # {} => r.ended = {})
    THEN [r EXCEPT !.events = Append(@, line.event), !.ended = @ \cup ending]
    ELSE Refused(r)

ReadStepCompleted(r, line) ==
  IF line.step = r.next_step /\ line.event_count = Len(r.events)
    THEN [r EXCEPT !.phase = IF r.ended = {} THEN "Ready" ELSE "Terminal",
                   !.event_count = @ + Len(r.events),
                   !.digest = line.state_digest,
                   !.next_step = @ + 1,
                   !.steps = Append(@, AcceptedStep(r.action, r.events, line.state_digest))]
    ELSE Refused(r)

ReadStepRejected(r, line) ==
  IF line.step = r.next_step /\ r.events = <<>> /\ r.digest = line.state_digest
    THEN [r EXCEPT !.phase = "Ready", !.next_step = @ + 1,
                   !.steps = Append(@, RejectedStep(r.action, line.error, line.state_digest))]
    ELSE Refused(r)

ReadFinalState(r, line) ==
  IF r.ended = {StatusOf[line.final_state]} /\ r.digest = line.state_digest
       /\ DigestOf[line.final_state] = line.state_digest
    THEN [r EXCEPT !.phase = "Final", !.final = {line.final_state}]
    ELSE Refused(r)

ReadMatchCompleted(r, line) ==
  IF line.step_count = Len(r.steps) /\ line.event_count = r.event_count
       /\ line.state_digest = r.digest /\ r.ended = {line.outcome}
    THEN [r EXCEPT !.phase = "Complete"]
    ELSE Refused(r)

\* What the reader does with a line that has its place in the sequence.
Take(r, line) ==
  CASE r.phase = "Header" /\ line.record = "header" -> [r EXCEPT !.phase = "MatchCreated"]
    [] r.phase = "MatchCreated" /\ line.record = "match_created" -> ReadMatchCreated(r, line)
    [] r.phase = "Ready" /\ line.record = "action" -> ReadAction(r, line)
    [] r.phase = "Pending" /\ line.record = "event" -> ReadEvent(r, line)
    [] r.phase = "Pending" /\ line.record = "step_completed" -> ReadStepCompleted(r, line)
    [] r.phase = "Pending" /\ line.record = "step_rejected" -> ReadStepRejected(r, line)
    [] r.phase = "Terminal" /\ line.record = "final_state" -> ReadFinalState(r, line)
    [] r.phase = "Final" /\ line.record = "match_completed" -> ReadMatchCompleted(r, line)
    [] OTHER -> Refused(r)

\* Both errors end the parse, so the reader that met one stays as it is.
Advance(r, line) ==
  IF r.phase \in {"Malformed", "Refused"} THEN r
  ELSE IF line.record = "torn" THEN [r EXCEPT !.phase = "Malformed"]
  ELSE IF line.sequence # r.position THEN Refused(r)
  ELSE [Take(r, line) EXCEPT !.position = @ + 1]

Parse(lines) ==
  LET read[k \in 0 .. Len(lines)] ==
        IF k = 0 THEN NewReader ELSE Advance(read[k - 1], lines[k])
  IN read[Len(lines)]

\* finish: anything short of the completion record is no transcript.
IsTranscript(lines) == Parse(lines).phase = "Complete"

-----------------------------------------------------------------------------
(* Replay of the steps a reader holds, through the engine given.           *)

\* Faulty variant: the events are not compared.
AgreesIgnoringEvents(step, s, result) ==
  IF result.accepted
    THEN step.accepted /\ DigestOf[result.state] = step.digest
    ELSE ~step.accepted /\ step.error = result.error
Agrees(step, s, result) ==
  IF result.accepted
    THEN step.accepted /\ step.events = result.events /\ DigestOf[result.state] = step.digest
    ELSE ~step.accepted /\ step.error = result.error /\ DigestOf[s] = step.digest

\* Where step n says that the match ended, and how.
GameEndedEvents(n, step) ==
  {[step |-> n, index |-> i, outcome |-> step.events[i]] :
     i \in IF step.accepted THEN {j \in DOMAIN step.events : step.events[j] \in Outcome} ELSE {}}

\* Replay holds the state reached, as a set that is empty once a step has
\* diverged, and the facts it gathered on the way.
StartReplay(r) ==
  [reached |-> r.initial, step_count |-> 0, event_count |-> 0, game_ended |-> {}]

ReplayStep(engine, replay, step) ==
  [reached |-> {IF engine[s, step.action].accepted THEN engine[s, step.action].state ELSE s :
                  s \in {t \in replay.reached : Agrees(step, t, engine[t, step.action])}},
   step_count |-> replay.step_count + 1,
   event_count |-> replay.event_count + (IF step.accepted THEN Len(step.events) ELSE 0),
   game_ended |-> replay.game_ended \cup GameEndedEvents(replay.step_count + 1, step)]

Replay(engine, r) ==
  LET replay[k \in 0 .. Len(r.steps)] ==
        IF k = 0 THEN StartReplay(r) ELSE ReplayStep(engine, replay[k - 1], r.steps[k])
  IN replay[Len(r.steps)]

(***************************************************************************)
(* verify_transcript: the lines are a complete transcript, every step      *)
(* replays, and the completion agrees with the state reached.              *)
(***************************************************************************)
Verifies(engine, lines) ==
  LET r == Parse(lines)
      replay == Replay(engine, r)
      completion == lines[Len(lines)]
  IN /\ IsTranscript(lines)
     /\ replay.reached = r.final
     /\ \E ended \in replay.game_ended :
          /\ replay.game_ended = {ended}
          /\ \A s \in r.final : /\ StatusOf[s] = ended.outcome
                                /\ completion.state_digest = DigestOf[s]
          /\ completion.outcome = ended.outcome
     /\ completion.step_count = replay.step_count
     /\ completion.event_count = replay.event_count
=============================================================================
