# Summoners: specifications and proofs

TLA+ models of the Summoners card game: the deterministic rules engine in
`crates/core`, the card catalog of `crates/cards`, the match recording of
`crates/match-log`, the host of a match and its terminal client in `crates/cli`, and
the artwork service of `crates/cceroby`. This file says what exists, what is
modelled, what TLC checks, what TLAPS proves, and what is left.

## 1. The system

### Components, their state and their operations

| component | source | state it keeps | operations |
|---|---|---|---|
| rules engine | `crates/core/src/engine`, `domain` | one `GameState` value: turn, Stack, segment bases, work queue, pending decision, two boards, card zones, Mana, losses | `apply(state, action)`; thirteen actions; the resolution loop `drain` |
| scenario | `crates/core/src/scenario.rs` | none | `from_scenario`: a validated start state |
| catalog, decks | `crates/cards` | none | TOML documents to a `CardSet` and a library, Deck resolution |
| match setup | `crates/cli/src/setup.rs` | none | two Decks shuffled and dealt into a scenario |
| recorded match | `crates/match-log/src/record.rs` | writer, state, sequence and step counters, a fail-closed lifecycle | `start`, `submit`, completion |
| transcripts | `crates/match-log/src/{parse,replay,compare,state,wire}.rs` | none | project a state and rebuild it, parse a log, replay it, compare two |
| match server | `crates/cli/src/server.rs`, `protocol.rs` | two seats, revision, last request ids, the recorder | join, submit, disconnect, broadcast of views |
| match client | `crates/cli/src/client.rs`, `prompt.rs` | last snapshot, prompt state, request id | read input, receive views, submit |
| artwork service | `crates/cceroby/src/{server,search,core}.rs` | one search session behind a gate, live event streams | search, more, page, shutdown |
| artwork store | `crates/cceroby/src/{rate_limit,cache,asset_writer}.rs` | token buckets, one cache directory, saved assets | take a token, read, write, prune, clear, download |
| artwork providers | `crates/cceroby/src/providers` | none | five museums' answers to artworks and pages |
| developer tasks | `xtask` | none | lints, golden files |

The server owns a recorder, the recorder owns the match state and calls
`core::apply`; clients send actions to the server and get views back; replay
runs `apply` again over a transcript. The catalog gives the engine its faces, setup its
start. The artwork service is a separate program.

### Where it is hard

* The engine is sequential, but its control is not simple. An action may start a
  chain of queued consequences; a trigger may open a response window in the
  middle of it; a decision may pause it; the loop resolves the Stack before the
  queue; the steps of a destruction are separate queue items that re-read the
  board when they run. Two destruction chains, a chain and a response, or an
  Upkeep and a trigger can interleave in ways no unit test sets up.
* The recorder writes before it applies and after: a failed write or a crash can
  fall between any two records.
* The server has one loop, two connections, one task per handshake and writer,
  deadlines, and submissions based on revisions that may be out of date.
* One projection serves both seats from the whole match, and the engine's actions can only be
  reached through forms of fixed size over it.
* A Set is checked by one pass, converted by another and interpreted by a third.
* The artwork service shares one session between the requests of its tabs, one rate limiter
  between its tasks, and one cache directory with every other process; requests are
  cancelled at an `await`, processes die between two calls of the file system.

### What makes each part correct

* engine: a match at rest is in a state some player can act in; nobody acts out
  of turn; every consequence runs, once and in order; boards are whole; cards are
  neither lost nor copied; the turn follows the rules;
* catalog and setup: what is accepted can be played, and every leaf finds what it reads;
* recorder and transcripts: what is on disk is always a prefix the parser
  understands, and replay of it gives the recorded results; the recorded state is the state;
* session: an action is applied at most once, by its own player, on the state
  the player saw (resigning excepted), both players see every step, and neither sees
  the other's cards;
* artwork service: the list belongs to its search and holds everything once; it stops when
  it should; the provider's rate is kept; an entry and a saved asset are whole.

`PROJECT.json` lists the hazards behind these, each at its line.

## 2. Modules

```
Payment - Vocabulary - GameState - Actions - Resolution - Engine - Prompt -- MCEngine
                          |                                 |              |
                          |                                 +- EngineProofs ---------+
                          +- StateProjection (over WireState) ---- MCEngine, EngineProofs
Vocabulary - SetDocument - Catalog - Setup - MCCards --+
Payment -----------------------------------------------+- MCTables - TableProofs
SearchSession - Museums - MCMuseums -------------------+
Lists - GameState, SetDocument, SearchSession, Recursion
SearchSession - Gallery --+
                Lifecycle +- ArtService - MCArt
                                 |
                                 +- ArtProofs
RateLimiter - CacheStore ---+
RateLimiter - AssetWriter --+- Store - MCStore
                                |
                                +- StoreProofs
Transcript - MatchLog - MCMatchLog          Session - Client - MCSession
Transcript - Comparison - MCMatchLog                    |
             MatchLog - MatchLogProofs                  +- SessionProofs
Recursion - EngineProofs, MatchLogProofs, SearchProofs
SearchSession - SearchProofs - ArtProofs, TableProofs
```

A line is EXTENDS, read to the right. By INSTANCE: `Engine` implements `TurnProtocol`, `MatchLog`
implements `Journal`. `MCMuseums` and `MCCards` also extend `Calls`.

Engine and recording meet in one parameter: `MatchLog` and `Transcript` take the
transition function as a constant `Engine` (a function from a state and an
action to an outcome or an error), as `submit_with` and `replay_steps_with` do
in the code. What is shown of them holds for the rules engine because it holds
for every engine. `Session` in turn uses of the recorder only what `submit` answers (the step
was accepted or rejected, it ended the match or not, or recording failed), and leaves
that answer open. What passes between the parts is modelled where it is made: the
recorded state in `StateProjection`, the view and the forms in `Prompt`, over the
engine's own states.

| module | models | how |
|---|---|---|
| `Payment` | `engine/payment.rs` | `deduct` as operators over a bank (a function from Mana types to numbers) and a cost; `PaymentError` and `Paid` are its two results |
| `Vocabulary` | `domain/cards`, `domain/ids.rs` | positions, seats, effect leaves, what a card may print |
| `GameState` | `domain/state.rs` | `Face[c]`, everything card instance `c` prints; the VARIABLES (one per field), the values of Stack and work items, shared reads, `Init` |
| `Actions` | `apply`, `board`, `stack`, `skills`, `turn`, half of `upkeep` and `destruction` | one action per `GameAction`; a rejected action is no step |
| `Resolution` | `resolution`, `effects`, `damage`, `triggers`, `destruction`, `loss`, `upkeep` | one action per work item and per effect leaf |
| `Engine` | `apply::dispatch` | `Next`, `Spec`, the properties of a match |
| `TurnProtocol` | the rules' turn | the abstract specification `Engine` implements |
| `Prompt` | `cli/src/protocol.rs`, `prompt.rs` | what each seat is sent, as a function of the match and of the hidden zones; the menu and every form: one operator a form, from the view and a number to the next form or an action |
| `WireState`, `StateProjection` | `match-log/src/{wire,state,state/work}.rs` | the wire types of a state; both conversions, field by field |
| `SetDocument` | `cards/src/v1/{model,parse}` | a document as a record of its tables, and every refusal in order |
| `Catalog` | `cards/src/{identity,library}.rs`, `v1/convert.rs` | identities, conversion to faces, library |
| `Setup` | `cards/src/deck.rs`, `cli/src/setup.rs`, `core/src/scenario.rs` | resolve a Deck, deal two, parse any match situation |
| `Transcript` | `match-log` `wire.rs`, `parse.rs`, `replay.rs` | records, the strict reader as a function of a reader and a line (`Advance`), replay of the steps it holds (`Verifies`) |
| `Comparison` | `match-log/src/compare.rs` | the first difference of two transcripts and its place |
| `MatchLog` | `match-log/src/record.rs` | `RecordedMatch` over a failing writer: one action per write, flush and engine call; `Survivors` |
| `Journal` | what a transcript amounts to | the abstract specification `MatchLog` implements |
| `Session` | `crates/cli/src/server.rs` | `serve_session` with its handshake, reader and writer tasks: one action per event of the loop, per frame delivered or not, and one for what follows the last frame |
| `Client` | `crates/cli/src/client.rs`, `prompt.rs` | the three threads of `play` beside the host, and connections of other programs; every property of a session |
| `SearchSession` | `cceroby/src/core.rs` | forms, queries, the session and the merge of a batch: pure operators |
| `Gallery` | `server.rs`, `search.rs`, `render.rs` | the requests of several tabs, one step between two awaits, any of them dropped there |
| `Lifecycle` | `server.rs`, `search.rs` | event streams, the grace timer, quit, Ctrl-C |
| `ArtService` | both composed | start, fairness, properties |
| `Museums` | `providers/*.rs` | what a record of each museum becomes; places, cursors and pages |
| `RateLimiter` | `rate_limit.rs` | the tasks and the clock they share; a process's token bucket, the clock read before its lock |
| `CacheStore` | `cache.rs`, `cache/cache_fs.rs`, `search.rs` | one action per file system call on the shared directory |
| `AssetWriter` | `asset_writer.rs`, `search.rs` | the commit of a download over a disk that may lose what was not synced |
| `Store` | the three composed | tasks of processes, crashes, power loss |
| `EngineProofs`, `MatchLogProofs`, `SessionProofs`, `StoreProofs`, `TableProofs`, `SearchProofs`, `ArtProofs` | | theorems |
| `Lists` | | what a filter and a sum over a list give, as recursive functions that can be proved about |
| `Recursion` | | lemmas on recursive functions over numbers, with induction stated for sets; what `Lists` gives |
| `Calls`, `MC*` | | one call of a pure function a state; instances for TLC |

### Correspondence

* A state of the code between two calls of `apply` is a state of the model with
  `AtRest`. While `AtRest` is false the model is inside `apply`: each iteration of
  `resolution::drain` is one `DrainStep`, and no player action is enabled (`MayAct`).
  Splitting `apply` into steps adds no behaviour, and lets a property speak
  about the order of the steps.
* `resolving` is the local state of `apply_leaves`: which item's leaves are being
  applied and which remain. `FinishResolving` is what follows the last leaf: the
  Spell goes to its zone and the segment base is dropped when the segment settled.
* `bases`, `work`, `pending`, `window` are the fields of those names. A `WorkItem`
  is a record with field `op`.
* Positions are numbers: 0 is Main, 1 to 3 the Bench. A `SummonInstance` is a
  record; its `chain` has the base card first and the top card last.
* `Break` (an unprinted Life, `GameState::break_game`) sets `status` to "Broken".
* Events are not modelled: nothing in the engine reads them. Definition and
  instance of a `CardRef` are one value. A definition missing from the `CardSet`
  is left out: the scenario and deck validation exclude it.
* Numbers (`u32` damage and Mana) are natural numbers; nothing in the instances comes
  near a bound, and the code's subtractions saturate or are checked.
* `MatchLog`: the first five variables are the fields of `RecordedMatch` (`lifecycle`
  has "Unstarted" before `start` returned a recording). `pc`, `action`, `result`,
  `batch` and `written` are the local state of the call in progress: which call,
  the records it prepared and how many of them the writer took. `lines` is what
  the writer holds, `flushed` how much of it the last successful flush covers,
  `answers` what `submit` has returned, and `reader` a parser that has read
  `lines`: it is not in the program, and is what most properties speak about.
* A write that fails has left nothing, a part of its line (`TornLine`) or all of it but
  the newline, which the reader takes for a whole line. An error of the encoder or
  of the digest leaves nothing. `Fail` is `stop`.
* The server creates the transcript file anew and never resumes one, so a stop of
  the process is no action: the properties quantify over `Survivors`, every prefix
  a stop at this moment may leave, from what the last flush covers on, the next line
  perhaps cut off. (With a `File` as the writer nothing is buffered and only the
  longest prefix can be left; the recorder is written for any `Write`.)
* Digests are values of their own, and `DigestOf` is any function: the theorems,
  `ReplayTellsEnginesApart` excepted, do not assume that different states have different digests. The instances do.
* `Session`: `clients`, `revision`, `requests` are the loop's variables; of the recorder
  `plays` counts accepted steps, which names the state of the match, and `ended` says it is
  decided. The loop awaits every write inside a handler, so a handler in progress is
  `mode` (what it does next), `todo` (its frames to come), `caller` (the connection
  joining) and `failed` (broadcast's remembered error). Nothing else of the loop runs until
  `mode` is "loop" again; handshakes, readers and clients do.
* A connection is opened once. `inbox[c]` is its socket towards the host, its reader task
  and its place in the event channel, in one queue; `wire[c]` its writer task and
  the socket back. `stage[c]` is where the host has it; `cut[c]` says that a frame to it
  failed, after which its writer task is gone and so is every later frame.
* A view is named by the state it shows (`{plays}`); before the first there is none (`{}`).
  `views` in a message is not sent: it remembers the states the person had seen when
  typing the lines the action is made of. `before` in a line remembers the line typed before it.
* `Client`: `snapshot`, `prompt`, `giveup`, `request` are variables of `play`. A line is
  read by `TakeLine` as the loop does: stale, give up, confirm, cancel, local command,
  prompt. The forms are one form, "guided", of which a line may make the next form, an
  action, or the menu again; "resign" is the form of menu entry 8. Any program that sends
  anything is a connection outside `Honest`.
* A host that exits with unread input may lose what it had in flight (a reset): `HungUp`
  lets the client's receiver end early in that case only.
* `Prompt`: a view is computed at rest from the state and from the zones it
  may not show, so that two matches that differ only in hidden cards can be
  compared. `ViewIsEnoughAndNoMore` says that what a player is asked has an
  answer, that each action a player takes could be typed from that player's view alone,
  and that the view is the same for other hidden cards. `Client` keeps the forms abstract: they
  hold no state the host sees.
* `StateProjection` is checked at every rest: the state is projected, tested for its wire type
  and rebuilt, and the result must be the state.
* `Calls`: a pure function is called once, from an initial state that is the call; the result is
  then in `result`. Nothing of the code is between the two.
* `Gallery`: `gate` is `search_gate`, a fair queue; `requests` are the handlers with where
  they stand. A handler runs from one await to the next in one step; its tab may go
  away (the handler is dropped, and with it its place in the queue) at each of them. What a museum
  answers is chosen when the batch is merged: `Batches` is every combination of pages, failures and
  records that failed alone. `lost` are artworks such a failure dropped, and is not in the program.
* `Lifecycle`: `left` is the sleeping timer in ticks. `stream` is where an event stream stands:
  it subscribes when it opens, counts as live until its guard is dropped, and is "deaf" if it subscribed
  after the announcement.
* `Store`: `job[t]` is what task `t` does for which process, `stage[t]` its next step; a step is one
  call of the file system or one wait. `guarded` and `saving` are the two mutexes of a process. Directories
  are numbered; `place` says which one is at the root's name now. `history` and `kept` are
  the disk: of the contents a name has had since its directory was synced, any may be back
  after a loss of power, and an unsynced one is torn. `granted`, `rewound` and `saved`
  are books the program does not keep.
* Tokens are counted in ticks of refill, so that the limiter's fractions stay whole numbers.
* Texts are members of small sets that tell apart what the checks read: a URL is "https",
  "loopback", "http", "broken" or "absent"; a file is its media type and size.
* Operators commented "Faulty variant" are the mutated forms `PROJECT.json` uses.

## 3. What is checked

Invariants of the engine are checked in every state, inside and between actions, unless the
property says "when quiet": at rest, with no decision and no window. Related conditions are
one property, named for what they are for; its parts are named operators above it.

| run | instance | shows |
|---|---|---|
| `Tables` | every bank, cost and hint with components up to 3; records of the five museums in many conditions and lists of none, two and five; Set documents one edit away from well-formed ones; Decks, shuffles and situations | a payment takes the price and nothing else, whenever it can be paid, out of the pools the rules name; an accepted artwork may be used and is opened again under its key, and all its images can be fetched, except that none can of an Art Institute work whose answer names an image service that is no URL (section 5); a search ends and lists each accepted record once; an accepted Set converts to faces whose every leaf finds what it reads; accepted Decks always give a match |
| `Combat` | ten cards, three scenarios | the board is whole when quiet; cards are conserved |
| `Turns` | three matches: Retreats and exchanges under the marker (six cards), both Upkeeps (seven cards), one loss from defeat with two sources of Damage (nine cards) | types; the handover is clean; quiet is playable; one actor at a time; the third loss ends the match; the recorded state is the state; the marker lasts one opposing turn; arrivals in Main are announced; a turn enters its Main Phase once, when its Upkeep is done; the view is enough and no more; `TurnProtocol` is implemented; the loop settles |
| `Recording` | an engine with two playing states, two outcomes and a breakage, some of whose endings are unannounced, doubled, or name the wrong outcome; five actions | the strict parser never refuses a line the recorder wrote; recording and transcript agree between calls; what survives a stop says what happened and no more; replay and comparison notice every changed transition, and place it; the recorder implements `Journal` |
| `Session` | two persons, a third connection, five trials (below) | one client a seat; a play reaches the engine only in the state it was decided on; each client that stays is told every revision and the outcome; a request is answered by its number or the match ends, a resignation ends it; nobody is left playing a session that ended |
| `Gallery` | two tabs, two museums of two and three pages, two streams, six trials | the shared session is the search it names, whatever was cancelled or retried; a tab alone shows exactly the session; each request ends; the service stops when it should and no sooner |
| `Store` | three tasks of up to three processes, seven workloads over five leftovers of earlier runs | the rate is kept, but for what late tasks set back; entries are whole; what is reported as saved is durable; reports are true; a process's own fresh entries are kept; clearing spares a new root; every job ends |
| `LancePromotion` | two sources of Damage | a comment the code does not keep (section 5) |
| `GiveUp` | two persons, three lines and one | what `docs/shell.md` says of `give up`, and the code does not |
| `SharedPage` | as `Gallery` | a page that shows another tab's search |
| `LateTab` | as `Gallery` | a stream that is never told of the shutdown |
| `Vacant` | a scenario with an empty Main | the one path onto Main that announces nothing |

**Bounds.** In the engine nothing is cut off: an instance ends because a Deck runs
out, and `DrawCard` over an empty Deck is the loss the rules make it. Instances have
six to ten cards, the smallest that give each player a Main, a replacement, and the
Spells whose effects meet; Life and Damage are scaled from tens to ones. `Combat` has
a single source of Damage on purpose: with a second one the finding of `LancePromotion`
appears, and the third match of `Turns` checks the properties that hold
even then. `TargetChoices` bounds the target lists a player may name. `MaxSteps` bounds the
actions submitted to a recording: five let a match go back and forth between its two
playing states with a rejection in between and then end in every way it can. Every
action and every disjunct is taken in some passing run.

A session ends by itself: each connection is opened once, `t.lines` bounds the lines each person
types, `t.frames` the frames of a stranger, and `t.faults` says which failures are possible.
The five trials of `MCSession` divide what may happen, because all of it together is
out of reach: two persons typing ahead (two lines and one, enough for a line on its way while the
opponent's play is recorded) with a recorder that may fail; deliveries that fail while
clients leave; a third connection with the handshake limit at two, its handshakes failing; a
person against a stranger, with interrupts and failing deliveries; three clients
asking for two seats. Two handshakes are the smallest limit at which one is refused
while another is under way; the code's is four.

`Tables`: `MaxPool` 3, `MaxTyped` 1 and `MaxGeneric` 4 give every tie between pools and a
Generic cost that crosses from one to the next, and one that cannot be paid. `PageSize` 2 with lists of none, two and five
records ends a list inside and at the end of a page. `LargestDelta` 2 reaches the parser's bound from both sides.
`BodySize` 4, `CopyLimit` 2, `HandSize` 2 and `PrizeCount` 1 keep the order of the real
numbers (20, 2, 5, 2): a hand and the Prizes leave cards in the Deck. `StableKeys` are the keys of the
documents that the identifier syntax lets through; any other, as `found:ations`, it refuses.

`Gallery`: `MaxRequests` is a bound on what tabs send, two to four a trial: enough for a
search, one that replaces it while it waits, and a Load more of each. `Grace` 2 ticks let a timer be cut
short, run out, and race. Trials divide what happens as in `MCSession`.

`Store`: `Capacity` 2 and `Interval` 2 make three tasks one too many, so that one sleeps and may
find its token taken; `Horizon` bounds the idle clock to one tick (it moves on when everybody
sleeps), `Ttl` is the same tick, so an entry can expire between two looks; `MaxDir` 2 lets a root be detached, made again and
detached again. The workloads are pairs and triples of jobs that share a file: two searches of one process and of
two, a prune and a clear beside a reader, two clears, downloads under one name in one process and
in two, three downloads of one process. Two temporary names of one process never meet (the code counts them).

`CHECK_DEADLOCK FALSE` in every run: a match that ended stops, and so do a recording, a session and the
artwork service; `Tables` stops when its call is made and `Store` when every job has ended.

**Fairness.** Engine: `WF_vars(DrainStep)` and nothing else. `drain` is a loop inside `apply`;
when it is entered it runs, so a step of it that stays possible is taken. Players
owe nothing. `LoopSettles` therefore says that the loop terminates. A catalog
with a trigger that queues itself again would not settle; neither the shipped
catalog nor any instance has one.

Session: strong fairness for what the host does with each connection (`Served`), weak
fairness for its writes and the rest of its handlers, weak fairness for each client's receiver and
for its leaving once it heard the end. Tokio runs tasks that are ready, and the event channel is
first in, first out and `select!` picks among ready branches at random, so the event of one
connection waits for finitely many others: weak fairness would let the loop be
found busy each time it is looked at. A delivery that may fail or succeed does one of the two
within its deadline. Persons owe nothing: they may stop typing, connections may never come.

Artwork service: weak fairness for each request's handler (a ready task is polled, and a museum
answers or its request fails after 15 seconds), for the watcher that decides, for the end of a
stream that has been told, and for the server's own end. Tabs owe nothing: a page may stay open for ever. Store: weak
fairness for each task's next step and for the clock. A task asleep until its token is due wakes then; a
mutex is handed on. Crashes are never required.

## 4. What is proved

`EngineProofs`, for every set of cards, every catalog, every target set and every
set of validated scenarios:

* `ControlInvariant`: `Spec => []IInv`;
* `SegmentsNeverNestAlways`, `OneActorAtATimeAlways`, `HandoverIsCleanAlways`,
  `QuietIsPlayableAlways`: the four control properties, as its corollaries.

Assumptions: `FaceAssumption` (a card prints what its type allows),
`TargetAssumption` (a target list names positions), `SetupAssumption` (the
scenario is validated: zones hold cards, both players have a Summon).

None of the four is inductive. `HandoverIsClean` needs to know that a window over an
empty Stack cannot be opened by a trigger, hence that a trigger's window comes with
its own Stack item (`SegmentsNeverNest`) and that decisions and windows exclude
each other (`OneActorAtATime`). `QuietIsPlayable` needs that an Upkeep still has its
advance into Main queued (`UpkeepGoesOn`): all steps keep it because work is
only appended, put in front, or taken from the front by the step that runs it.
`SegmentsNeverNest` needs that the loop reaches the work queue over an empty Stack
only, which holds while at most one base, 0, is open. `ControlType` and `BoardShape`
carry the shapes these steps read: that a queue is a sequence of work items, that
a Summon in play has a card on top. The proof has one lemma per action or group of
actions with the same footprint, and a step lemma that puts them together.

The second part of `EngineProofs`, on the work queue, under the same assumptions:

* `ThirdLossIsDecidedAlways`: if the scenario starts with fewer than three losses a side
  (`NobodyHasLostYet`), a third Main loss always has its deciding check in the queue while the match goes on.
  The hypothesis is needed: the scenario parser accepts three losses, and no check is queued for them;
* `NobodyLosesAFourth`: from such a scenario nobody is ever counted a fourth loss, though two chains of one destroyed Main may
  be queued at once (`LancePromotion`);
* `MainArrivalIsAnnouncedAlways`: if both Mains are held at the start (`MainsHeldAtStart`), every arrival in
  Main leaves `EnteringMain`, or the step that queues it, in the queue. Without the hypothesis run `Vacant`
  shows the contrary;
* `UpkeepIsFinishedAlways`: a turn enters its Main Phase once, and with no Upkeep work left in the queue;
* `FollowsTurnProtocolAlways`: the engine implements `TurnProtocol`, for every scenario.

The first two debts live in the queue while windows, decisions and other chains come first. `Followed(work)` says that every queued loss has its
check somewhere behind it and every queued promotion its consequences right behind it.
`QueueChange` says what a step may do to the queue: take the front item, and then put work that is itself
`Followed` in front or at the back. The lemmas about sequences show that this keeps `Followed`; one
lemma per group of actions shows that each is a `QueueChange`, on top of `IInv`. Between two
queued losses of one player there is a check (`LossesSpaced`), and the check of a third loss comes before any other loss
(`CheckedFirst`): so the match has ended when the next would be counted. A pause of
a promotion (`ChoosePromotion`) is the case the second theorem turns on: the consequences are already queued when
the decision is asked for.

The third theorem rests on `UpkeepInv`: in the queue the advance into Main is behind every Upkeep step and not
repeated, and outside an Upkeep there is none. `UpkeepGoesOn` gives "at least once", this gives "at most
once" and "last". It is kept because all a step but the handover queues is `Ordinary` (no Upkeep step), and because
the handover finds an empty queue (`HandoverIsClean`); were work left over there, a second advance could stand behind the first. The
refinement uses both: `BeginMainPhase` runs in an Upkeep only, since the advance it takes is queued in none but an Upkeep, and a turn passes
out of Main or Combat only. `TurnMoves` shows that no other step moves a turn, and none at all when the match is over.

The third part of `EngineProofs`, on the values of a match and what is recorded of them, under the same assumptions:

* `TypeOKAlways`: every variable of a match keeps its type;
* `StateSurvivesTheLogAlways`, if `NobodyHasLostYet`: what a transcript records of a match at rest is a wire value of the
  schema, is never refused when it is read, and rebuilds to that match.

`IInv` has the control state and says little of the values. `DataInv` adds them: boards of whole Summons, piles of cards, pools,
counters, the status with its outcome, and what kind of decision and of Stack item there can be (`PendingType`, `Pushable`): the
wire writes of each kind only its own fields, so an attack with a card or a trigger without a position would not come back.
`TypeOK` alone is not inductive: that a pool is not below zero after a payment rests on the check of `deduct` over the simulated
payment (`PaidIsABank`, along a loop that may overdraw on its way), and Damage and a Retreat are numbers because the sums of
additions, reductions and taxes are (`DamageAmountType`, `RetreatCostType`, by `SumIsAnInteger`) and are cut off at zero. There is one
lemma for the board and one for the other values for each of players' actions, effect leaves and work.

The second theorem is a round trip for each conversion, from the names up (`PlayerName`, ...), over positions, Summons, seats, the turn,
decisions, effects and Stack items to work items. Each says that what is written is in the wire type and that reading gives it back;
lists go member by member (`WrittenList`, `ReadList`). That `main_losses` fits a byte is `LossInv`; that no chain is
read without a layer, and that a breakage names a known rule, is why `into_game_state` does not refuse. The theorem also covers what the
run does not reach: every leaf a card can print, and every queue and Stack.

`MatchLogProofs`, for every engine, every set of states, actions, errors and events,
every digest function and matches of any length:

* `MatchLogInvariant`: `Spec => []IInv`, with `IInv == Types /\ Shape /\ Reading`;
* `ParserReadsRecorder`, `RecordingMatchesLog`: two invariants of run `Recording`;
* `RecordingFailsClosed`: the action property;
* `RecorderKeepsAJournal`: the refinement of `Journal`;
* `SurvivorsAreHonestAlways`: whatever a stop leaves of the transcript, the strict reader and replay get from it;
* `ReplayTellsEnginesApart`: a completed transcript verifies under another engine if, and only if, that engine makes every
  transition of the match (the first half of `ReplayNoticesEveryChange`, for all engines).

Assumptions: `StatusAssumption`, `EventAssumption`, `DigestAssumption`, `EngineAssumption`,
which only say what kind of values the constants are (a status is Playing, Broken
or an outcome; the event that ends a match is told from the others). `ReplayTellsEnginesApart` alone
supposes that no two states share a digest (`DigestsTellStates`): the state after a step is on file as its
SHA-256 and nothing else.

The properties speak about a reader between lines, in the middle of a batch, so the
invariant has to say how far a reader is after each written record of each call.
`Shape` says what the batch in progress is, numbered from `base`, the sequence number the
recorder held when it prepared it; `Reading` says that after `written` records the reader
is `Follows(reader, written, next_sequence)`: one formula per call (`StartRead`,
`ActionRead`, `EventsRead` then `StepRead`, `RejectedRead`, `CompletionRead`) which keeps the
events read so far as a prefix of the result's, and the digest as one of a playing state
the engine made the result from (`TakenFrom`). The one way out is `Offended`: the reader refused
the second `GameEnded` of a step the recorder is about to refuse too. The proof has a lemma for
what each record is and for what the reader makes of it, then one per action; the
refinement needs no new invariant: each written line is `Open`, `Play`, `Seal` or a stutter.

`SurvivorsAreHonest` speaks of a parse of any surviving prefix, from its first line, and of the replay of what was
parsed: two folds. Its invariant, `History`, ranges over every place the lines can be cut at. `Prefixes`: the
`reader` that has been kept is what a parse of all the lines gives, each shorter prefix is readable and replays, and none
of them is complete. `AnswersKept`: from the last flush on, what can be read begins with every answer `submit` gave, because
every answer follows a flush; `AnswersCounted` numbers them. `Standing` carries the replay along the batch being written: after each
record, how many steps and events replay has counted and which state it has reached, so that the digest in the
step record is the one replay computes (`Stands`). `Sealed`: a reader that is complete has been through a match that
ended, and it verifies. One line more at the end of a prefix is one step more of the parse, and one step more of the replay at
most (by `Recursion`); the rest repeats the step proof above, an action at a time.

For `ReplayTellsEnginesApart`, replay under the recording engine has reached the end, so it diverged nowhere (`NeverDiverged`) and stood
at one state after each step (`Visited`); what replay counts is the same for any engine (`CountsOfAnyEngine`), so
only the states reached matter. By induction over the steps another engine stands at the same states or has diverged: a step
agrees with one result at most (`OneResultAgrees`), so the first transition it makes otherwise empties its replay for good
(`OnlyTheSameTransitions`). Beside `History` this needs that a reader past the second line holds one initial state and
actions of the game only (`MatchOnFile`).

`SessionProofs`, for any connections, any handshake limit, any trials and any frames of strangers:

* `SessionTypes`: every variable of host and clients keeps its type, and the handshake limit is kept;
* `OneClientPerSeatAlways`: an invariant of run `Session`;
* `PlaysOnTheViewSeenAlways`: the action property of run `Session`.

Assumptions: `ConnAssumption` (finitely many connections, `Nobody` is none),
`HandshakeLimitAssumption`, `TrialsAssumption`, `HonestAssumption`, `StrangeFramesAssumption`,
`BoundsAssumption` (kinds of values only).

The host checks a submission's revision, and the property speaks of what a person saw; between
them are a socket, a form, a tag on each line and a snapshot another thread writes. `ViewsAgree`
says one thing of each of them: the revision it carries is not ahead of the host's, and if it
is the host's then the state it shows is the host's (`Current`). A revision never comes back, so a step
that moves it on frees everything that falls behind (`CurrentStays`). Frames are made from the
revision and state of the moment (`HandlerFrames`), snapshots from frames, tags from snapshots; a
prompt is of the snapshot's revision after `Revised`, and a line that is not stale of no older one,
so what they make together was decided on one state (`SeenAgrees`). `accepts_revision`
does the rest. One client per seat needs that the connection being admitted found its seat free
and that no other event is handled until it sits there (`SeatsHeld`).

`StoreProofs`, for any tasks, processes, capacity, interval, lifetimes, and whatever earlier runs left:

* `GrantsBounded`: no bucket grants more than its capacity and one token an interval, but for the ticks
  (`rewound`) by which a task that read the clock before it waited for the lock set the bucket's time back. `LimiterInv` is the
  bucket's books: what was granted and what is held never exceed what it started with, what its time has refilled,
  and those ticks;
* `EntriesWhole`: a file under a task's own temporary name was written by that task, one under a key
  by a task of this run is whole, and what a task is about to rename is whole (`CacheInv`);
* `ClearSpares`: a directory that is being emptied is no longer at the root's name, and never comes
  back to it (`ClearInv`);
* `TargetsAreWhole`, `SavedSurvives`: every content a name may have after a loss of power was
  synced before its rename, and one reported as saved is among those the last sync of the directory kept (`AssetInv`);
* `OwnWritesKept`: from its look to its removal a task is in `CACHE_OPERATIONS`, which keeps its siblings out
  (`GuardInv`). Another process may meanwhile move the root aside and make a new one, and the
  reader opens the root again before it removes; but at most one directory is the root and an unmade
  one is empty (`RootInv`), so nothing in the new root is a sibling's, and in the old one no sibling's entry
  of that name was fresh (`LookInv`);
* `ReportsTruthful`: no entry is stamped later than its content came, because a search takes its
  time before it asks for a token (`TimeInv`); `WRITE_LOCK` is held from the look at the target to the
  sync, so what was seen there still holds at the rename (`SaveInv`). A loss of power keeps every download that
  was reported, and with it whatever was put there first.

Assumptions: `TtlAssumption`, `MaxDirAssumption`, `CapacityAssumption`, `IntervalAssumption`, `NamesAssumption`
(a temporary file is told from an entry), `HorizonAssumption`. `OwnWritesKept` needs the guard of `cache.rs`, `ReportsTruthful` needs `WRITE_LOCK`; in the others tasks of the same process or another may step
anywhere in between. What makes those right is that a temporary name is a task's own and that a rename moves a whole
directory or a whole file.

`TableProofs`, for every bank, cost and hint, every record and every result list of a museum, and every Set document:

* `DeductKeepsItsPromisesAlways`: a payment takes the price and nothing else whenever it can be paid, out of the pools the rules name;
* `AcceptedWorksStandUpAlways`: what a museum's parser accepts may be used, is opened again under its key, and all its
  images can be fetched as they are shown, except that none can of an Art Institute work whose answer names an image service
  that is no URL;
* `LoadedCardsCanBePlayedAlways`: of what the catalog's parser accepts, conversion refuses nothing and every face is one the
  engine was written for, whose leaves find what they read;
* `DealtMatchesStartAlways`: whatever Decks of a library are accepted and however they are shuffled, the engine accepts
  the scenario dealt from them, each seat holds the cards of its Deck, and the engine can go on from any scenario it accepts;
* `SearchListsEverything`: for any five result lists, query, key and page size, a search and as many Load more
  requests as the longest list has pages come to an end, and have then listed every accepted record asked for, once;
  `SearchFindsEverythingOnceAlways` is the property of the searches that are called.

Assumptions: `PaymentBounds` (the bounds on the calls are natural numbers, of any size) and `IdentityAssumption` (the
names of a Set get distinct texts, because `stable_key_syntax` lets no colon and no slash into a key, `v1/model.rs:29`; that
distinct texts get distinct version 5 UUIDs is part of the model), `DealAssumption` (the opening hand and the
Prizes are no more than the cards of a Deck), `PageSizeAssumption` (a page holds at least one record). The records are the calls of
`MCMuseums`, of which `MuseumRecord` is all the proof uses (of the Met and of Commons nothing, of the
Art Institute that the record is an `AicRecord`, of the others what a file or a medium is); of the documents the proof uses nothing
(`AcceptedCardsCanBePlayed` and `ConversionAgrees` are stated of any document). The Generic part of a cost is taken unit by unit, each from a
largest pool that is left. `Levelled(rest, named, n, pools)` is the invariant of that loop: `n` units are gone, a pool that has paid
is at most one below any other, and one the cost names that has paid is below no unnamed one
(`PickedPoolIsLargest`). It holds after any number of units (`AfterGenericIsLevelled`, by induction), and everything promised of
a payment follows from it. For the artworks there is one lemma a museum, which goes through the
checks of its parser in order, and one for the choice of the best usable file (`BestIsUsable`).

For the documents there is one lemma a parse function, saying what its silence means: a parser that reports its first fault reports
none only if every check passed (`NothingSaid`, by the least number), so an accepted card has what its family needs
(`AcceptedSummon`, `AcceptedSpell`, `AcceptedEnchantment`), its abilities what their role needs
(`AcceptedAbility`). Conversion is then followed field by field (`SummonCanBePlayed`, `CastCanBePlayed`). That a leaf finds what it reads
rests on the table of legal uses alone (`LegalLeafFinds`). Conversion's own two refusals cannot happen: codes that differ make names that
differ, whatever the role (`NamesAreDistinct`), and the bound on a modifier was checked wherever
a modifier can be printed (`ModifiersAreInRange`).

For the Decks the invariant, `OpenInv`, is the property, with what the calls are made of: a Deck is a list of cards with
quantities, and a position of a scenario holds at most one Summon. An accepted Deck is followed pass by pass: its items are faces of the library
(`AcceptedItem`, `KeysLeadToFaces`), one is the Starter, and the items laid end to end are as many cards as their quantities add up to
(`FlatIsWhole`, by `SumByStep`), so what is left after the Starter fills the hand and the Prizes
(`AcceptedDeckIsPlayable`). Dealing gives each card an instance from the range of its seat (`DealtOnce`,
`DealtInstances`), and what a shuffle does to a list keeps how often each card is in it, by a bijection between the
places (`SameCounts`, `SeatHoldsItsDeck`). The parser's silence is again that each of its checks passed
(`SoundBoard`, `SoundChain`, `SoundScenario`), and nothing more than that is needed to go on (`AcceptedCanStart`).

For the searches the invariant is `ReadTo(R, search, x, n)`, where the session stands after `n` batches: the museums still asked
are those that answered and whose list is longer than `n` pages, each at the place that begins its next page; what is listed is what the first `n` pages of
each list hold, once; the notices are about the museums without a key. It rests on one lemma a museum
(`AicGivesPage`, ...): the answer to the cursor of page `n` is that slice of the list, and the next cursor is that of
page `n + 1`, or none at the end, whether the museum counts pages, counts records, returns its whole list or hands out a
token (`PageCount` is the rounding of the first). A batch then moves every museum by
one page (`MuseumsMoveOn`) and lists what is new on the pages (`BatchIsListed`, by `RoundRobinIsUnion`); a museum that is no longer
asked has nothing left (`AskedNoMore`).

`SearchProofs`, for any museums, queries and artworks, used by `TableProofs` and `ArtProofs`:

* `RoundRobinIsUnion`: the round robin over a batch's pages lists every artwork on them that is new, once, and no other.

The merge is a loop of rounds. In each every page gives its next unseen artwork, so after as many rounds as the longest
page is long each page is seen to its end (`RoundOk`, by induction on the rounds). `EachMuseumMoves` is the same for the loop over
the outcomes: each says where its own museum stands, and whether there is a notice about it.

`ArtProofs`, for any tabs, forms, trials, museums with any number of pages of any length:

* `SessionIsTheSearchAlways`: the shared session is the search it names, whatever was cancelled, retried or dropped;
* `SolePageIsTheSessionAlways`: a tab that is alone and waits for its answers shows exactly the session.

Assumptions: `TrialsAssumption` (forms are forms, and the command's own search is one it would serve),
`MuseumAssumption` (a museum answers a query with at least one page, possibly empty, of artworks of its own), `GraceAssumption`.

`SessionOk(session, lost)` says that the session's
cursors are places of its museums, that it lists what they have, each artwork once, and that it lists all they gave
up to the cursors but for records that failed alone; a merge of a batch that answers the session's own cursors keeps it (`PlacesMove`,
`AnswersAreAdded`). That a merged batch is such an answer is not obvious: the handler read the session, then awaited the
museums, and other handlers ran. `GateKept` is why: a request that is fetching is first at the gate, and its
query and cursors are still the session's. The gate is given back by a merge, and by a handler that is dropped,
which has changed nothing.

The page is made in the tab, from answers rendered after the gate was given back, so `SolePageIsTheSession` needs that nothing else
reached the session in between. A patient tab (alone, and sending nothing while it waits) has at most one request on its way, the one it awaits,
and shows the session unless that request makes a new page (`WaitsInOrder`). Between merge and page, the page and the
answer together are the session: the cards of two lists in a row are the cards of each (`KeptOfBoth`), and a page that is
longer by what was merged is the page of the whole.

`Recursion` has what these proofs need of induction. The library's rules take a predicate; here a predicate is
the set of numbers it holds for. That a set of naturals has a least element is taken from
the well-foundedness of the finite sets (`LeastNatural`); `Induction`, `BoundedInduction` and the existence of an iteration
(`IterationExists`) follow, and from them what a filter and a sum over a list are
(`SumByStep`: a sum is that of the list before and its last number).

Only model-checked:

* liveness, everywhere;
* the comparison in `ReplayNoticesEveryChange`: that two transcripts differ in the step where the engines behind them first part
  (the other transcript is recorded and parsed by folds within the property);
* `CardsAreConserved` and `BoardIsWholeWhenQuiet`, which hold for one source of Damage only;
* `MarkerHoldsOneTurn` and `ViewIsEnoughAndNoMore`, which hold for the catalogs checked and not for every
  one (an ability printing a Mana production and then a move leaves a decision for a Summon that is gone);
* the other properties of a session, and when the artwork service stops.

## 5. Disagreements met while modelling

* `LancePromotion`: with two sources of Damage before one settles (an attack answered by an Attack Spell) two
  chains are queued for one destroyed Main; the second promotes onto the Summon the
  first promoted, which leaves the match (`destruction/mod.rs:293`). By the same cause the second chain records a second
  loss (`destruction/mod.rs:192`), and an over-damaged Summon may stay in play because a
  discard step can have two candidates (`destruction/mod.rs:153`), which the comment on `destruction/mod.rs:7` excludes.
* `Vacant`: answering the Promotion a scenario begins with queues no `EnteringMain`.
* `GiveUp`: a line discarded as stale does not cancel "give up", as `docs/shell.md:178` says any
  other line does; a `yes` two lines later resigns (`client.rs:112`).
* `SharedPage`: the gate is released before the page is rendered (`server.rs:211`), from a session another
  tab may have replaced; `CONTEXT.md:223` says the page keeps the submitted query.
* `LateTab`: a stream that opens after the shutdown was announced is never told of it, and graceful
  shutdown waits for it (`server.rs:346`); `CONTEXT.md:74` says Ctrl-C closes open streams.

Notes without a run. `docs/shell.md:201` advises, for an occupied seat, to stop the client that
has it before starting a replacement; when that client stops, the host ends the
session (`server.rs:166`), so there is nothing to join. `ctrl_c` is polled only between two
events (`server.rs:135`), so a signal is not acted on while a handler waits for a write.
A line is tagged when its thread has read it (`client.rs:64`), not when it was typed: lines that were
typed before the first view, or are still in the terminal's buffer, count as typed on the view
of that moment. The comment on `WorkItem` (`domain/state.rs:326`) says the loop
drains the queue before it looks at the Stack; `drain` looks at the Stack first
(`resolution/mod.rs:53`). The comment on `GameState::stack_segment_bases`
(`domain/state.rs:394`) speaks of nested segments: `SegmentsNeverNestAlways` proves there are
none. A second `ProduceMana` leaf in one ability would overwrite the decision of
the first (`effects/mod.rs:512`); no shipped card prints two. The scenario parser accepts three or more Main
losses of a player who is still playing. Passive modifiers an Enchantment or a Summon may be
given are converted and then read nowhere: a Retreat tax on an Enchantment, a reduction of
incoming Damage on a Summon; of several modifiers of a Summon the first counts. The branch of the comparison for a longer
transcript (`compare.rs`) cannot be reached with two whole transcripts: they end in a completion, and an earlier
record differs. The limiter reads the clock before it takes its lock (`rate_limit.rs:70`): a task that waited for the lock
sets `updated_at` back, and the ticks since are refilled twice. A search keeps the time it began
with for every entry it looks up, so one may be used a little past its lifetime. A Commons title with `&`, `=`, `%`, `#`, `?` or `/` is counted in
"Loaded N" but gets no card, because no key may hold it (`render.rs:163`); so does an Art
Institute or Cleveland id of zero. The Art Institute's image service is only looked at for text when a record is
listed or opened (`aic.rs:86`, `aic.rs:166`) and is parsed when an image is asked for (`aic.rs:195`, `aic.rs:207`): of a work
whose answer names a service that is no URL, card and detail page appear, and the thumbnail, the preview and the
download fail with `InvalidImageRequest`. The other four museums show no image they could not
ask for. `AcceptedWorksStandUp` states
the exception as it is, in both directions: with such a service no image can be asked for, and in every other case all can.

## 6. Plan

Done: the engine with its theorems on control, queue and values; the state a transcript records, rebuilt, as a theorem; what a player is sent and can type; the recording, its
parser, replay, comparison and state projection, with their theorems, the refinement of `Journal`, what a stop leaves and which engines verify it; the
session, host and clients composed, with three theorems; the catalog, Decks, setup and scenario parser; the
artwork service, its museums and its store; every safety invariant of the artwork service and
of the store as a theorem; payment, the museums' records and
the loading of Sets as theorems; the deal of a match and whole searches as theorems.

Left: the comparison of two transcripts as a theorem.

## 7. Not modelled

Of the engine: events (nothing in it reads them), the width of integers (the sum of Retreat taxes at
`board/mod.rs:75` is an `i32`; the catalog bounds each term). Of the recording: the format version and header
metadata, the canonical text of identifiers and digests, Set revisions, the mirrors of actions, events and
errors, the JSON Schema, and an engine that changes its argument while
it rejects (replay checks for one). Of the session: notices of events, errors of `accept` and of the signal handler (both
end the loop), the capacity of the channels, frames over the size limit (a failed delivery, or garbage), inspection
commands. Of the catalog: TOML syntax, names and wording. Of the artwork service: HTML, XMP and image decoding, the
retrying GET, addresses, the floating point of the refill, checks of a path against symbolic links, cache
statistics. Command lines, card text and the replay viewer are wording and layout; `xtask` is developer tools.
