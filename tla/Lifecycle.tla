----------------------------- MODULE Lifecycle ------------------------------
(***************************************************************************)
(* When the artwork service stops: the event streams its pages hold        *)
(* (crates/cceroby/src/server.rs, LiveConnections, LiveGuard, live, quit)  *)
(* and the task that decides (search.rs, select_shutdown, browser_closed). *)
(*                                                                         *)
(* `left` is the sleeping timer of the grace period in ticks.  A timer     *)
(* that has run out and a change of the connections may both be waiting    *)
(* when the task runs again; it then takes either.                         *)
(***************************************************************************)
EXTENDS Naturals, FiniteSets

CONSTANTS
  Conn,      \* event streams pages may open, each once
  Grace      \* the grace period in ticks (ten seconds)

ASSUME GraceAssumption == Grace \in Nat \ {0}

VARIABLES
  persistent,  \* --serve
  stream,      \* the place of each event stream
  live,        \* LiveSnapshot, with its generation
  watcher,     \* the place of browser_closed, what it has seen, its timer
  quit,        \* AppState::quit: a permit is stored
  interrupt,   \* Ctrl-C was pressed
  server,      \* "serving", "told" (the broadcast was sent), "stopped"
  reason,      \* ShutdownReason
  away         \* ticks since the last stream was dropped, up to Grace

lifeVars ==
  <<persistent, stream, live, watcher, quit, interrupt, server, reason, away>>

Place == {"unused", "open", "deaf", "left", "ended"}
Counted(c) == stream[c] \in {"open", "deaf", "left"}

LifeInit(modes) ==
  /\ persistent \in modes
  /\ stream = [c \in Conn |-> "unused"]
  /\ live = [active |-> 0, ever |-> FALSE, generation |-> 0]
  /\ watcher = [at |-> "look", seen |-> 0, generation |-> 0, left |-> 0]
  /\ quit = FALSE /\ interrupt = FALSE
  /\ server = "serving" /\ reason = "None"
  /\ away = 0

-----------------------------------------------------------------------------
(* Event streams.                                                          *)

\* LiveGuard::new.
Guarded(snapshot) ==
  [ active |-> snapshot.active + 1, ever |-> TRUE,
    generation |-> snapshot.generation + 1 ]

\* LiveGuard::drop.
Unguarded(snapshot) ==
  [snapshot EXCEPT !.active = IF @ = 0 THEN 0 ELSE @ - 1, !.generation = @ + 1]

\* live: the page connects.  The stream subscribes to the broadcast here; one
\* that was sent before does not reach it.
Connect(c) ==
  /\ server # "stopped" /\ stream[c] = "unused"
  /\ live' = Guarded(live)
  /\ stream' = [stream EXCEPT ![c] = IF server = "told" THEN "deaf" ELSE "open"]
  /\ away' = 0
  /\ UNCHANGED <<persistent, watcher, quit, interrupt, server, reason>>

\* The page is closed or left.
Leave(c) ==
  /\ stream[c] \in {"open", "deaf"}
  /\ stream' = [stream EXCEPT ![c] = "left"]
  /\ UNCHANGED <<persistent, live, watcher, quit, interrupt, server, reason, away>>

\* The server noticed that nobody reads it, or the broadcast ended it.
MayEnd(c) == stream[c] = "left" \/ (stream[c] = "open" /\ server = "told")

EndStream(c) ==
  /\ MayEnd(c)
  /\ stream' = [stream EXCEPT ![c] = "ended"]
  /\ live' = Unguarded(live)
  /\ UNCHANGED <<persistent, watcher, quit, interrupt, server, reason, away>>

\* POST /quit: only a request of the page's own origin leaves a permit.
AskToQuit(origin) ==
  /\ server = "serving" /\ ~quit
  /\ origin = "own"
  /\ quit' = TRUE
  /\ UNCHANGED <<persistent, stream, live, watcher, interrupt, server, reason, away>>

Interrupt ==
  /\ ~interrupt
  /\ interrupt' = TRUE
  /\ UNCHANGED <<persistent, stream, live, watcher, quit, server, reason, away>>

-----------------------------------------------------------------------------
(* browser_closed.                                                         *)

Watching == ~persistent /\ reason = "None"

\* A page is connected, or none has ever been.
NothingToTime == ~live.ever \/ live.active > 0

\* borrow_and_update, then wait for a change or sleep.
Look ==
  /\ Watching /\ watcher.at = "look"
  /\ watcher' = [ at |-> IF NothingToTime THEN "wait" ELSE "grace",
                  seen |-> live.generation, generation |-> live.generation,
                  left |-> IF NothingToTime THEN 0 ELSE Grace ]
  /\ UNCHANGED <<persistent, stream, live, quit, interrupt, server, reason, away>>

Changed ==
  /\ Watching /\ watcher.at \in {"wait", "grace"}
  /\ watcher.seen # live.generation
  /\ watcher' = [watcher EXCEPT !.at = "look", !.seen = live.generation, !.left = 0]
  /\ UNCHANGED <<persistent, stream, live, quit, interrupt, server, reason, away>>

\* Faulty variant: only the count is looked at.
StayedAwayByCount == live.active = 0
\* Nobody is connected, and nobody was in between.
StayedAway == live.active = 0 /\ live.generation = watcher.generation

Expire ==
  /\ Watching /\ watcher.at = "grace" /\ watcher.left = 0
  /\ watcher' = [watcher EXCEPT !.at = IF StayedAway THEN "closed" ELSE "look"]
  /\ UNCHANGED <<persistent, stream, live, quit, interrupt, server, reason, away>>

Tick ==
  /\ watcher.left > 0 \/ (live.ever /\ live.active = 0 /\ away < Grace)
  /\ watcher' = [watcher EXCEPT !.left = IF @ = 0 THEN 0 ELSE @ - 1]
  /\ away' = IF live.ever /\ live.active = 0 /\ away < Grace THEN away + 1 ELSE away
  /\ UNCHANGED <<persistent, stream, live, quit, interrupt, server, reason>>

-----------------------------------------------------------------------------
(* select_shutdown and shutdown_signal.                                    *)

Select(why) ==
  /\ reason = "None"
  /\ \/ why = "CtrlC" /\ interrupt
     \/ why = "BrowserQuit" /\ quit /\ ~persistent
     \/ why = "BrowserClosed" /\ watcher.at = "closed"
  /\ reason' = why
  /\ UNCHANGED <<persistent, stream, live, watcher, quit, interrupt, server, away>>

\* The broadcast; a receiver that subscribes later misses it.
Send ==
  /\ reason # "None" /\ server = "serving"
  /\ server' = "told"
  /\ UNCHANGED <<persistent, stream, live, watcher, quit, interrupt, reason, away>>

\* server::run returns when the last request and the last stream have ended.
Drained(inFlight) ==
  /\ server = "told" /\ ~inFlight
  /\ \A c \in Conn : ~Counted(c)
  /\ server' = "stopped"
  /\ UNCHANGED <<persistent, stream, live, watcher, quit, interrupt, reason, away>>
=============================================================================
