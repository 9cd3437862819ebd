--------------------------- MODULE SearchSession ----------------------------
(***************************************************************************)
(* The search session of the artwork service                               *)
(* (crates/cceroby/src/core.rs): what a search form means, where every     *)
(* museum's result list stands, and how the pages of a batch are merged    *)
(* into one list.  Pure operators over one value.                          *)
(***************************************************************************)
EXTENDS Lists, SequencesExt

\* SourceKind::ALL: the order every batch and every page follows.
SourceOrder == <<"aic", "cleveland", "met", "smithsonian", "wikimedia">>
SourceKind == ToSet(SourceOrder)

\* A text of the form that has no words, and a culture left out.
Blank == "blank"
NoCulture == "none"

\* Option::None, for the first page and for no further page alike.
NoCursor == 0

-----------------------------------------------------------------------------
(* What is asked.                                                          *)

\* SearchParams: a text, a check box for each museum, an optional culture.
\* QueryText::parse and SourceSet::parse refuse an empty value;
\* Culture::parse takes one for none.
IsSearch(form) == form.query # Blank /\ form.sources # {}
SearchQuery(form) ==
  [form EXCEPT !.culture = IF @ = Blank THEN NoCulture ELSE @]

\* One artwork as the session keeps it; its identity is the pair.
ArtworkOf(source, id) == [source |-> source, source_id |-> id]

\* ProviderOutcome.
Success(source, artworks, next) ==
  [kind |-> "Success", source |-> source, artworks |-> artworks, next |-> next]
Failed(source) == [kind |-> "Failed", source |-> source]
Unavailable(source) == [kind |-> "Unavailable", source |-> source]

-----------------------------------------------------------------------------
(* The session.                                                            *)

NewSession(query) ==
  [ query   |-> query,
    notices |-> <<>>,
    artworks |-> <<>>,
    active  |-> query.sources,
    cursors |-> [s \in query.sources |-> NoCursor],
    seen    |-> {} ]

\* Faulty variant: what the last search showed counts as seen.
BeginSearchKeepingSeen(session, query) ==
  [NewSession(query) EXCEPT !.seen = session.seen]
\* SearchSession::begin_search: everything starts anew, also for the same
\* query again.
BeginSearch(session, query) == NewSession(query)

\* The museums still to ask, in order, each with its own place.
NextBatch(session) ==
  LET active == Kept(SourceOrder, session.active)
  IN [i \in DOMAIN active |->
        [source |-> active[i], cursor |-> session.cursors[active[i]]]]

HasMore(session) == session.active # {}

AddNotice(notices, notice) ==
  IF notice \in ToSet(notices) THEN notices ELSE Append(notices, notice)

\* One outcome: where its museum stands from now on.
Advance(session, outcome) ==
  IF outcome.kind = "Success"
  THEN [session EXCEPT
          !.cursors[outcome.source] = outcome.next,
          !.active = IF outcome.next = NoCursor THEN @ \ {outcome.source} ELSE @]
  ELSE [session EXCEPT
          !.active = @ \ {outcome.source},
          !.notices = AddNotice(@, [kind |-> outcome.kind, source |-> outcome.source])]

\* The loop over a batch.
Moved(session, outcomes) ==
  LET moved[i \in 0 .. Len(outcomes)] ==
        IF i = 0 THEN session ELSE Advance(moved[i - 1], outcomes[i])
  IN moved[Len(outcomes)]

PagesOf(outcomes) ==
  [s \in SourceKind |->
     LET of == {i \in DOMAIN outcomes :
                  outcomes[i].kind = "Success" /\ outcomes[i].source = s}
     IN IF of = {} THEN <<>> ELSE outcomes[CHOOSE i \in of : TRUE].artworks]

\* One turn of one museum: its next artwork nobody has seen, if it has one.
TakeNext(pages, state, source) ==
  LET fresh == {i \in DOMAIN pages[source] :
                  i > state.at[source] /\ pages[source][i] \notin state.seen}
      i     == CHOOSE k \in fresh : \A j \in fresh : k <= j
  IN IF fresh = {} THEN state
     ELSE [ at     |-> [state.at EXCEPT ![source] = i],
            seen   |-> state.seen \cup {pages[source][i]},
            merged |-> Append(state.merged, pages[source][i]) ]

Round(pages, state) ==
  LET turn[k \in 0 .. Len(SourceOrder)] ==
        IF k = 0 THEN state ELSE TakeNext(pages, turn[k - 1], SourceOrder[k])
  IN turn[Len(SourceOrder)]

\* round_robin_unique: rounds over all museums until one adds nothing.
RoundRobinUnique(pages, seen) ==
  LET start   == [at |-> [s \in SourceKind |-> 0], seen |-> seen, merged |-> <<>>]
      longest == CHOOSE n \in {Len(pages[s]) : s \in SourceKind} :
                   \A s \in SourceKind : Len(pages[s]) <= n
      after[n \in 0 .. longest] ==
        IF n = 0 THEN start ELSE Round(pages, after[n - 1])
  IN after[longest]

Appended(session, outcomes) ==
  RoundRobinUnique(PagesOf(outcomes), session.seen).merged

\* SearchSession::merge_batch.
MergeBatch(session, outcomes) ==
  LET union == RoundRobinUnique(PagesOf(outcomes), session.seen)
  IN [Moved(session, outcomes) EXCEPT !.artworks = @ \o union.merged, !.seen = union.seen]
=============================================================================
