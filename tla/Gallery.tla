------------------------------ MODULE Gallery -------------------------------
(***************************************************************************)
(* The search page of the artwork service: requests of several tabs on the *)
(* one session (crates/cceroby/src/server.rs, index and more; search.rs,   *)
(* search_batch_with_cursors; render.rs, the page and its script).         *)
(*                                                                         *)
(* A request is a task that holds search_gate from before it touches the   *)
(* session until its batch is merged.  Its awaits (the gate, the museums,  *)
(* the lock for the page) are where other requests run and where it is     *)
(* dropped when its connection closes.                                     *)
(***************************************************************************)
EXTENDS SearchSession, FiniteSets

CONSTANTS
  Tab,              \* tabs of the browser
  Museum(_, _),     \* query, museum: the pages it has, one after the other
  Connected,        \* museums this build can reach (ProviderEntry::Available)
  ByObject,         \* museums asked again for every record of a page
  Keyed(_),         \* artworks whose id a route can carry (ArtworkKey)
  MaxRequests       \* bound: requests of all tabs

VARIABLES
  session,   \* AppState::session
  gate,      \* AppState::search_gate: the requests that hold or await it, in order
  requests,  \* the requests of the tabs, in the order they were sent
  tab,       \* what each tab shows and which request it waits for
  lost       \* records whose own request failed: dropped without a notice

galleryVars == <<session, gate, requests, tab, lost>>

NoForm == [query |-> Blank, sources |-> {}, culture |-> NoCulture]
NoRequest == 0
Nothing == [query |-> NoForm, cards |-> <<>>, more |-> FALSE, sent |-> NoForm]
Closed == [page |-> Nothing, open |-> FALSE, awaits |-> NoRequest, hasty |-> FALSE]

\* The tab as it goes elsewhere; `hasty` remembers that it left while waiting.
Left(t) == [Closed EXCEPT !.hasty = tab[t].hasty \/ tab[t].awaits # NoRequest]

Request(t, op, form, at) ==
  [tab |-> t, op |-> op, form |-> form, at |-> at, query |-> NoForm, cursors |-> <<>>]

Id == 1 .. MaxRequests
At(r, place) == r \in DOMAIN requests /\ requests[r].at = place
InFlight(r) == r \in DOMAIN requests /\ requests[r].at \notin {"answered", "dropped"}
Wanted(r) == tab[requests[r].tab].awaits = r

-----------------------------------------------------------------------------
(* The museums.                                                            *)

\* A cursor is the number of a page; asked without one, a museum gives its first.
PageAt(query, source, cursor) ==
  LET pages == Museum(query, source)
      n     == IF cursor = NoCursor THEN 1 ELSE cursor
  IN [artworks |-> pages[n], next |-> IF n < Len(pages) THEN n + 1 ELSE NoCursor]

\* What remains of a page when some of the requests for single records fail
\* (resolve_candidate).
SomeOf(page, source) ==
  IF source \in ByObject
  THEN {Kept(page, resolved) : resolved \in SUBSET ToSet(page)}
  ELSE {page}

\* search_one: a museum out of reach, a failure of transport or parsing, or
\* its page.
Answers(query, ask) ==
  LET page == PageAt(query, ask.source, ask.cursor) IN
  IF ask.source \notin Connected THEN {Unavailable(ask.source)}
  ELSE {Failed(ask.source)} \cup
       {Success(ask.source, some, page.next) : some \in SomeOf(page.artworks, ask.source)}

\* search_batch_with_cursors: every museum of the batch answers in its way.
Batches(query, cursors) ==
  LET answers(i) == Answers(query, cursors[i]) IN
  {batch \in [DOMAIN cursors -> UNION {answers(i) : i \in DOMAIN cursors}] :
     \A i \in DOMAIN cursors : batch[i] \in answers(i)}

DroppedBy(query, cursors, outcomes) ==
  UNION {ToSet(PageAt(query, cursors[i].source, cursors[i].cursor).artworks)
           \ ToSet(outcomes[i].artworks) :
         i \in {k \in DOMAIN outcomes : outcomes[k].kind = "Success"}}

-----------------------------------------------------------------------------
(* The browser.                                                            *)

CanSend == Len(requests) < MaxRequests

\* A form is submitted, or the plain page is opened: the tab leaves what it
\* showed and whatever it still waited for.
Visit(t, op, form) ==
  /\ CanSend
  /\ requests' = Append(requests, Request(t, op, form, "sent"))
  /\ tab' = [tab EXCEPT ![t] = [Left(t) EXCEPT !.open = TRUE, !.awaits = Len(requests) + 1]]
  /\ UNCHANGED <<session, gate, lost>>

\* The button of the page; it is disabled until the answer arrives.
LoadMore(t) ==
  /\ CanSend
  /\ tab[t].open /\ tab[t].page.more /\ tab[t].awaits = NoRequest
  /\ requests' = Append(requests, Request(t, "more", NoForm, "sent"))
  /\ tab' = [tab EXCEPT ![t].awaits = Len(requests) + 1]
  /\ UNCHANGED <<session, gate, lost>>

Close(t) ==
  /\ tab[t].open
  /\ tab' = [tab EXCEPT ![t] = Left(t)]
  /\ UNCHANGED <<session, gate, requests, lost>>

\* The answer a tab waited for is there: a page of its own, or from the
\* script's fetch the page with more cards behind and its button as told.
Shown(t, page) ==
  [tab EXCEPT ![t] = [tab[t] EXCEPT !.awaits = NoRequest, !.page = page]]
Longer(page, cards, more) == [page EXCEPT !.cards = page.cards \o cards, !.more = more]

-----------------------------------------------------------------------------
(* The handlers.                                                           *)

\* tokio's Mutex: first come, first served; the holder is the first.
IsNext(r) == gate # <<>> /\ gate[1] = r

Leaves(r) == RemoveFirst(gate, r)

\* index without a query goes straight to the page; an unusable form is
\* refused (400); the others queue for the gate.
Arrive(r) ==
  /\ At(r, "sent")
  /\ LET q == requests[r] IN
     IF q.op = "page"
     THEN /\ requests' = [requests EXCEPT ![r].at = "render"]
          /\ UNCHANGED gate
     ELSE IF q.op = "search" /\ ~IsSearch(q.form)
     THEN /\ requests' = [requests EXCEPT ![r].at = "answered"]
          /\ UNCHANGED gate
     ELSE /\ requests' = [requests EXCEPT ![r].at = "gate"]
          /\ gate' = Append(gate, r)
  /\ tab' = IF requests'[r].at = "answered" /\ Wanted(r)
            THEN [tab EXCEPT ![requests[r].tab].awaits = NoRequest] ELSE tab
  /\ UNCHANGED <<session, lost>>

\* index: the session becomes that of the new query, empty, and the museums
\* are asked for their first pages.
StartSearch(r) ==
  /\ At(r, "gate") /\ IsNext(r) /\ requests[r].op = "search"
  /\ LET query == SearchQuery(requests[r].form) IN
     /\ session' = BeginSearch(session, query)
     /\ requests' = [requests EXCEPT
          ![r].at = "fetch", ![r].query = query, ![r].cursors = NextBatch(session')]
  /\ lost' = {}
  /\ UNCHANGED <<gate, tab>>

\* more: query and places as the session has them; nothing to ask, nothing new.
StartMore(r) ==
  /\ At(r, "gate") /\ IsNext(r) /\ requests[r].op = "more"
  /\ LET cursors == NextBatch(session) IN
     IF cursors = <<>>
     THEN /\ requests' = [requests EXCEPT ![r].at = "answered"]
          /\ gate' = Leaves(r)
          /\ tab' = IF Wanted(r)
                    THEN Shown(requests[r].tab, Longer(tab[requests[r].tab].page, <<>>, FALSE))
                    ELSE tab
     ELSE /\ requests' = [requests EXCEPT
               ![r].at = "fetch", ![r].query = session.query, ![r].cursors = cursors]
          /\ UNCHANGED <<gate, tab>>
  /\ UNCHANGED <<session, lost>>

\* The cards of a page or fragment: an artwork without a usable key has none.
Cards(artworks) == Kept(artworks, {a \in ToSet(artworks) : Keyed(a)})

\* Faulty variant: the whole list is answered, not what the batch added.
FragmentOfAll(before, outcomes) == Cards(MergeBatch(before, outcomes).artworks)
\* more: the markup of the new cards only.
Fragment(before, outcomes) == Cards(Appended(before, outcomes))

\* The museums have answered: the batch is merged and the gate released.  A
\* search goes on to its page; more answers from under the same lock.
Merge(r) ==
  /\ At(r, "fetch")
  /\ \E outcomes \in Batches(requests[r].query, requests[r].cursors) :
       /\ session' = MergeBatch(session, outcomes)
       /\ lost' = lost \cup DroppedBy(requests[r].query, requests[r].cursors, outcomes)
       /\ tab' = IF requests[r].op = "more" /\ Wanted(r)
                 THEN Shown(requests[r].tab,
                            Longer(tab[requests[r].tab].page, Fragment(session, outcomes),
                                   HasMore(session')))
                 ELSE tab
  /\ gate' = Leaves(r)
  /\ requests' = [requests EXCEPT
       ![r].at = IF requests[r].op = "more" THEN "answered" ELSE "render"]

\* render_search_page under the session's read lock, which is free of the gate.
Render(r) ==
  /\ At(r, "render")
  /\ requests' = [requests EXCEPT ![r].at = "answered"]
  /\ tab' = IF Wanted(r)
            THEN Shown(requests[r].tab,
                       [ query |-> session.query, cards |-> Cards(session.artworks),
                         more  |-> HasMore(session), sent  |-> requests[r].form ])
            ELSE tab
  /\ UNCHANGED <<session, gate, lost>>

\* Faulty variant: the lock outlives the dropped task.
KeepsPlace(r) == gate
\* A dropped task gives up its place at the gate, or the gate.
GivesUpPlace(r) == Leaves(r)

\* Nobody waits for the answer: the server notices the closed connection and
\* drops the task at its await.  What it did to the session stays done.
Drop(r) ==
  /\ InFlight(r) /\ ~Wanted(r)
  /\ requests' = [requests EXCEPT ![r].at = "dropped"]
  /\ gate' = GivesUpPlace(r)
  /\ UNCHANGED <<session, tab, lost>>

Handle(r) == Arrive(r) \/ StartSearch(r) \/ StartMore(r) \/ Merge(r) \/ Render(r)
=============================================================================
