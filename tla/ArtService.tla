----------------------------- MODULE ArtService -----------------------------
(***************************************************************************)
(* The artwork service: its search page and its end, composed, and what    *)
(* both are for.                                                           *)
(***************************************************************************)
EXTENDS Gallery, Lifecycle

CONSTANTS Trials  \* what is tried: seeds, modes, tabs, forms

Forms == UNION {{t.seed} \cup t.forms : t \in Trials}
Queries == {SearchQuery(form) : form \in {f \in Forms : IsSearch(f)}}

\* The command's own search has words and museums, as every form that is
\* served; only tabs there are are used.
ASSUME TrialsAssumption ==
  /\ \A f \in Forms :
       f \in [query : {f.query}, sources : SUBSET SourceKind, culture : {f.culture}]
  /\ \A t \in Trials : IsSearch(t.seed) /\ t.tabs \subseteq Tab

FoundBy(query, source) == UNION {ToSet(page) : page \in ToSet(Museum(query, source))}

\* A museum has at least one page, if an empty one, and only artworks of its own.
ASSUME MuseumAssumption ==
  \A query \in Queries : \A source \in query.sources :
    /\ Museum(query, source) \in Seq(Seq(FoundBy(query, source))) \ {<<>>}
    /\ \A a \in FoundBy(query, source) : a.source = source

VARIABLES trial

vars == <<galleryVars, lifeVars, trial>>

-----------------------------------------------------------------------------
(* Start: run() has answered the command's own search before it serves.    *)

Init ==
  /\ trial \in Trials
  /\ LET fresh == NewSession(SearchQuery(trial.seed)) IN
     \E outcomes \in Batches(fresh.query, NextBatch(fresh)) :
       /\ session = MergeBatch(fresh, outcomes)
       /\ lost = DroppedBy(fresh.query, NextBatch(fresh), outcomes)
  /\ gate = <<>> /\ requests = <<>>
  /\ tab = [t \in Tab |-> Closed]
  /\ LifeInit(trial.modes)

-----------------------------------------------------------------------------

Browse(t) ==
  /\ t \in trial.tabs
  /\ \/ /\ server = "serving" /\ Len(requests) < trial.limit
        /\ \/ LoadMore(t) \/ Visit(t, "page", NoForm)
           \/ \E form \in trial.forms : Visit(t, "search", form)
     \/ Close(t)

\* One step of each part, the other parts at rest.
InPage(step) == step /\ UNCHANGED <<lifeVars, trial>>
InLife(step) == trial.conns # {} /\ step /\ UNCHANGED <<galleryVars, trial>>

Decide ==
  \/ Look \/ Changed \/ Expire \/ Tick \/ Send
  \/ \E why \in {"CtrlC", "BrowserQuit", "BrowserClosed"} : Select(why)
Streams(c) == Connect(c) \/ Leave(c) \/ EndStream(c)
ServerEnds == Drained(\E r \in Id : InFlight(r))

Next ==
  \/ InPage(\E t \in Tab : Browse(t))
  \/ InPage(\E r \in Id : Handle(r) \/ Drop(r))
  \/ InLife(\E c \in trial.conns : Streams(c))
  \/ InLife(Decide)
  \/ InLife(ServerEnds)
  \/ InLife(Interrupt)
  \/ InLife(\E origin \in {"own", "other"} : AskToQuit(origin))

Spec == Init /\ [][Next]_vars

-----------------------------------------------------------------------------
(* Fairness: the runtime polls every task that can go on, the museums      *)
(* answer or fail (every request has a timeout of 15 seconds), time        *)
(* passes.  Of people nothing is assumed.                                  *)

FairSpec ==
  /\ Spec
  /\ \A r \in Id : WF_vars(InPage(Handle(r)))
  /\ WF_vars(InLife(Decide))
  /\ \A c \in Conn : WF_vars(InLife(c \in trial.conns /\ EndStream(c)))
  /\ WF_vars(InLife(ServerEnds))

-----------------------------------------------------------------------------
(* The list.                                                               *)

(***************************************************************************)
(* What the session lists is what its own query found, once: no page of    *)
(* another search, of this or another tab, cut short or not, ends up in it *)
(* (search_gate, the `seen` set).                                          *)
(***************************************************************************)
NothingStrangeIsListed ==
  /\ \A i \in DOMAIN session.artworks :
       LET a == session.artworks[i] IN
       /\ a.source \in session.query.sources
       /\ a \in FoundBy(session.query, a.source)
  /\ IsInjective(session.artworks)

(***************************************************************************)
(* And all of it: whatever was cancelled, retried or asked by another tab, *)
(* the pages before a museum's cursor are listed, and all its pages when   *)
(* it has none left, unless it failed or a single record did.              *)
(***************************************************************************)
PagesTaken(s) ==
  IF s \notin session.active THEN Len(Museum(session.query, s))
  ELSE IF session.cursors[s] = NoCursor THEN 0 ELSE session.cursors[s] - 1

NothingTakenIsMissing ==
  \A s \in session.query.sources :
    (\A i \in DOMAIN session.notices : session.notices[i].source # s) =>
      \A n \in 1 .. PagesTaken(s) :
        ToSet(Museum(session.query, s)[n]) \subseteq ToSet(session.artworks) \cup lost

(***************************************************************************)
(* Together: the one session the tabs share is the search it names, no     *)
(* more and no less, as far as its cursors say (server.rs, core.rs).       *)
(***************************************************************************)
SessionIsTheSearch == NothingStrangeIsListed /\ NothingTakenIsMissing

(***************************************************************************)
(* The page of somebody who uses one tab and waits for its answers is the  *)
(* session: after any number of batches it has every card once, and the    *)
(* button exactly while a museum has another page.                         *)
(***************************************************************************)
SolePageIsTheSession ==
  \A t \in trial.tabs :
    /\ trial.tabs = {t} /\ ~tab[t].hasty
    /\ tab[t].open /\ tab[t].awaits = NoRequest /\ tab[t].page # Nothing
    => /\ tab[t].page.query = session.query
       /\ tab[t].page.cards = Cards(session.artworks)
       /\ tab[t].page.more = HasMore(session)

(***************************************************************************)
(* Every request gets through the gate and is answered, or was given up by *)
(* its tab: a dropped task never leaves the gate locked.                   *)
(***************************************************************************)
EveryRequestEnds == \A r \in Id : InFlight(r) ~> ~InFlight(r)

\* CONTEXT.md, "Search form values change": "the page keeps the submitted
\* query and filters".
PageKeepsItsQuery ==
  \A t \in Tab :
    tab[t].page.sent # NoForm => tab[t].page.query = SearchQuery(tab[t].page.sent)

-----------------------------------------------------------------------------
(* The end.                                                                *)

(***************************************************************************)
(* The service is not closed under somebody: when the watcher decides, the *)
(* last page has been away for the whole grace period, although the timer  *)
(* and a reconnection may race (CONTEXT.md: "a reconnect restarts the      *)
(* grace period").                                                         *)
(***************************************************************************)
ClosesAfterTheWholeGrace ==
  [][watcher.at # "closed" /\ watcher'.at = "closed" =>
       live.ever /\ live.active = 0 /\ away = Grace]_vars

(***************************************************************************)
(* A service nobody looks at any more stops, unless a page connects again. *)
(***************************************************************************)
LeftAloneItStops ==
  ~persistent /\ live.ever /\ live.active = 0
    ~> live.active > 0 \/ server = "stopped"

(***************************************************************************)
(* Ctrl-C stops the service in either mode and closes the streams, whose   *)
(* tabs may stay open for ever, but for a stream that subscribed after the *)
(* broadcast.                                                              *)
(***************************************************************************)
InterruptClosesStreams ==
  interrupt ~> server = "stopped" \/ (\E c \in Conn : stream[c] = "deaf")

(***************************************************************************)
(* Together: the service ends when it should and no sooner (search.rs).    *)
(***************************************************************************)
StopsWhenDue ==
  /\ ClosesAfterTheWholeGrace
  /\ LeftAloneItStops
  /\ InterruptClosesStreams

\* CONTEXT.md: "Ctrl-C stops either mode and closes open event streams
\* cleanly"; "it completes graceful shutdown and the command exits".
CtrlCStops == interrupt ~> server = "stopped"
=============================================================================
