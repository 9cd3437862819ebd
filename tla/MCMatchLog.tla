----------------------------- MODULE MCMatchLog -----------------------------
(***************************************************************************)
(* A small engine for the recorded match: two states a match moves between,*)
(* two ways it ends, one in which it breaks.                               *)
(***************************************************************************)
EXTENDS MatchLog, Comparison
LOCAL INSTANCE SequencesExt

CONSTANTS early, late, won, lost, broken,   \* states
          step, finish, stray, hush, boast, \* actions
          c, o1, o2, bad                    \* an event, two outcomes, an error

Status == [s \in {early, late, won, lost, broken} |->
             CASE s = won -> o1 [] s = lost -> o2 [] s = broken -> Broken [] OTHER -> Playing]

\* A digest is as telling as the state.
Digests == [s \in {early, late, won, lost, broken} |-> <<"sha256", s>>]
DigestTexts == {Digests[s] : s \in {early, late, won, lost, broken}}

To(s, events) == [accepted |-> TRUE, state |-> s, events |-> events]
Refusal == [accepted |-> FALSE, error |-> bad]

\* Some transitions end the match with the one event that says so; others end
\* it unannounced, announced twice, for the wrong outcome, or not at all.
TrialEngine ==
  [x \in GameState \X GameAction |->
     CASE x = <<early, step>> -> To(late, <<c, c>>)
       [] x = <<late, step>> -> To(early, <<>>)
       [] x = <<early, finish>> -> To(won, <<c, o1>>)
       [] x = <<late, finish>> -> To(lost, <<o2, c>>)
       [] x = <<early, stray>> -> To(broken, <<c>>)
       [] x = <<early, hush>> -> To(won, <<c>>)
       [] x = <<late, hush>> -> To(won, <<o1, o1>>)
       [] x = <<early, boast>> -> To(early, <<o2>>)
       [] x = <<late, boast>> -> To(lost, <<o1>>)
       [] OTHER -> Refusal]

\* Engines that differ from the recording one in a single transition.
Changed ==
  {[Engine EXCEPT ![x] = r] :
     x \in {early, late} \X GameAction,
     r \in {Refusal, To(early, <<>>), To(late, <<>>), To(early, <<c>>), To(won, <<c, o1>>),
            To(lost, <<c, o2>>), To(late, <<c, c>>), To(lost, <<o1>>)}}

\* What a recording of the same actions holds under another engine: one more
\* submit, until the match is over.
Resubmit(engine, recording, act) ==
  IF recording.over THEN recording
  ELSE LET r == engine[recording.state, act]
           seq == Len(recording.lines) + 1
           begun == Append(recording.lines, ActionRecord(seq - 1, recording.step, act))
           events == recording.events + IF r.accepted THEN Len(r.events) ELSE 0
           next == IF r.accepted THEN r.state ELSE recording.state
           answered ==
             begun \o
             IF r.accepted THEN AcceptedBatch(seq, recording.step, r.events, DigestOf[next])
             ELSE <<StepRejectedRecord(seq, recording.step, r.error, DigestOf[next])>>
       IN [state |-> next, step |-> recording.step + 1, events |-> events,
           over |-> StatusOf[next] # Playing,
           lines |-> answered \o
                     IF StatusOf[next] \in Outcome
                     THEN CompletionBatch(Len(answered), recording.step, events, next)
                     ELSE <<>>]

Recorded(engine, s, actions) ==
  FoldLeft(LAMBDA recording, act : Resubmit(engine, recording, act),
           [state |-> s, step |-> 1, events |-> 0, over |-> FALSE,
            lines |-> <<HeaderRecord, MatchCreatedRecord(s)>>], actions).lines

\* Two transcripts differ in the step where the engines behind them first part,
\* whatever their headers say beside; two matches that went alike are equal
\* unless the header metadata is asked for and differs.
ComparisonNamesTheParting(other) ==
  LET s == CHOOSE t \in reader.initial : TRUE
      taken == Transitions(s, reader.steps)
      again == Recorded(other, s, [i \in DOMAIN taken |-> taken[i][2]])
      parted == {i \in DOMAIN taken : other[taken[i]] # Engine[taken[i]]}
      first == {i \in parted : \A j \in parted : i <= j}
      expected == [metadata |-> "recorded", lines |-> lines]
      actual == [metadata |-> "again", lines |-> again]
  IN IsTranscript(again) =>
       /\ LET d == Compare(expected, actual, FALSE) IN
            IF parted = {} THEN d = Equal ELSE ~d.equal /\ d.step = first
       /\ LET d == Compare(expected, actual, TRUE) IN
            ~d.equal /\ d.path = <<"header", "metadata">> /\ d.step = {}
       /\ Compare(expected, [expected EXCEPT !.lines = again], TRUE).equal <=> parted = {}

\* A completed transcript verifies under another engine exactly when that one
\* makes every transition the match took; and a transcript of the same actions
\* recorded under it compares equal exactly then, the difference naming the
\* step where the two first part (replay.rs:483; compare.rs:113,
\* compare_parsed_transcripts).
ReplayNoticesEveryChange ==
  \A other \in Changed :
    /\ VerifiesOnlyThisMatch(other)
    /\ lifecycle = "MatchCompleted" => ComparisonNamesTheParting(other)
=============================================================================
