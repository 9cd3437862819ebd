------------------------------- MODULE MCArt --------------------------------
(***************************************************************************)
(* Small instances of the artwork service: two museums with two and three  *)
(* pages that repeat a record, one that asks for every record again, one   *)
(* out of reach.                                                           *)
(***************************************************************************)
EXTENDS ArtService

FormOf(text, sources) == [query |-> text, sources |-> sources, culture |-> Blank]
Wide == FormOf("wide", {"aic", "met", "smithsonian"})
Narrow == FormOf("narrow", {"aic"})
Empty == FormOf(Blank, {"aic"})

Art(source, ids) == [i \in DOMAIN ids |-> ArtworkOf(source, ids[i])]
MCMuseum(query, source) ==
  IF query.query = "narrow" THEN << Art(source, <<1>>), Art(source, <<4>>) >>
  ELSE IF source = "aic" THEN << Art(source, <<1, 2>>), Art(source, <<2, 3>>) >>
  ELSE << Art(source, <<1>>), Art(source, <<2>>) >>
MCKeyed(artwork) == artwork # ArtworkOf("aic", 2)

Try(seed, tabs, forms, limit, conns, modes) ==
  [ seed |-> seed, tabs |-> tabs, forms |-> forms, limit |-> limit,
    conns |-> conns, modes |-> modes ]
MCTrials ==
  { Try(Narrow, {1}, {Wide}, 3, {}, {FALSE}),
    Try(Wide, {1}, {Narrow}, 3, {}, {FALSE}),
    Try(Wide, {1, 2}, {Wide, Narrow}, 2, {}, {FALSE}),
    Try(Narrow, {1, 2}, {}, 4, {}, {FALSE}),
    Try(Narrow, {}, {}, 0, {1, 2}, BOOLEAN),
    Try(Narrow, {1}, {Empty}, 1, {1}, {TRUE}) }
=============================================================================
