------------------------------ MODULE MCMuseums ------------------------------
(***************************************************************************)
(* Records of the five museums in many conditions, the key a browser asks  *)
(* one of them by, and whole searches over lists that end inside and at    *)
(* the end of a page.                                                      *)
(***************************************************************************)
EXTENDS Museums, Calls

File(url, type, area) == [url |-> url, type |-> type, area |-> area]
ClevelandFiles ==
  { NoFile, File("https", "jpeg", 1), File("http", "jpeg", 2), File("broken", "jpeg", 3),
    File("https", "tiff", 2), File("https", "none", 1) }

Media ==
  {m \in Medium :
     <<m.type, m.access, m.content, m.thumbnail>> \in
       { <<"Images", "CC0", "https", "https">>, <<"Images", "CC0", "https", "absent">>,
         <<"Images", "CC0", "broken", "https">>, <<"Images", "other", "loopback", "loopback">>,
         <<"other", "CC0", "https", "https">> }}

Stated == {NoLicense, "Cc0", "CcBy", "Restricted"}
CommonsRecords ==
  CommonsRecord({"File:a.jpg", "File:a&b.jpg"}, {TRUE}, Stated, Url, {"jpeg", "tiff", "png"})
  \cup CommonsRecord({"a.jpg", NoId, "File:a.jpg"}, BOOLEAN, {"Cc0"}, {"https"}, {"jpeg"})

RecordCalls(source, records, ids) ==
  [fn : {"record"}, source : {source}, record : records, id : ids]

Record(i) ==
  [ id |-> IF i = 4 THEN 1 ELSE i, accepted |-> i # 2,
    culture |-> IF i % 2 = 1 THEN "africa" ELSE "mnav" ]
ListOf(n) == [i \in 1 .. n |-> Record(i)]
LongestList == 5
SearchCalls ==
  [ fn : {"search"}, lists : [SourceKind -> {ListOf(0), ListOf(2), ListOf(LongestList)}],
    culture : {NoCulture, "africa"}, api_key : {"usable", "missing"} ]

MuseumCalls ==
  RecordCalls("aic", AicRecord, Numbers)
  \cup RecordCalls("cleveland", ClevelandRecord(ClevelandFiles), {"7", Zero})
  \cup RecordCalls("met", MetRecord, Numbers)
  \cup RecordCalls("smithsonian", SmithsonianRecord(Media), EdanIds)
  \cup RecordCalls("wikimedia", CommonsRecords, Files)
  \cup SearchCalls

ReadRecord ==
  /\ call.fn = "record" /\ ~result.made
  /\ Returns([ listed |-> ParseArtwork(call.source, call.record),
               opened |-> LoadArtwork(call.source, call.id, call.record) ])

\* As many as the longest list has pages.
Batches == (LongestList + PageSize - 1) \div PageSize
SearchMuseums ==
  /\ call.fn = "search" /\ ~result.made
  /\ LET query == [query |-> "text", sources |-> SourceKind, culture |-> call.culture]
     IN Returns([session |-> SearchAll(call.lists, query, call.api_key, Batches)])

Shown == {v \in {result.listed, result.opened} : Accepted(v)}

(***************************************************************************)
(* No artwork is listed or opened that is not free for commercial use:     *)
(* every licence its record states allows it, and at the Smithsonian the   *)
(* very image that is taken is CC0, not some other one of the record.      *)
(***************************************************************************)
StatesOnlyOpen(record, shown) ==
  CASE shown.source \in {"aic", "met"} -> record.public
    [] shown.source = "cleveland"      -> record.license = "CC0"
    [] shown.source = "smithsonian"    ->
         \E i \in DOMAIN record.media :
           /\ record.media[i].type = "Images" /\ record.media[i].access = "CC0"
           /\ record.media[i].content = shown.original.url
           /\ record.media[i].thumbnail = shown.thumbnail.url
    [] shown.source = "wikimedia"      ->
         {record.license_url, record.license_name} \subseteq {NoLicense, shown.license}
OnlyOpenWorksAreShown ==
  Made("record") => \A v \in Shown : StatesOnlyOpen(call.record, v.artwork)

(***************************************************************************)
(* Accepting a record and asking for its images later, for the grid, the   *)
(* preview and the file that is saved, are two checks made at different    *)
(* times over different fields, and they agree: every image of a shown     *)
(* work can be asked for, and a display image is served under the type it  *)
(* has.  One case is left out by the code, and no other: when the Art      *)
(* Institute's answer names an image service that is no URL, its works are *)
(* listed and opened all the same (aic.rs:86, 166 look for text only), and *)
(* then no image of theirs can be asked for (aic.rs:195, 207).             *)
(***************************************************************************)
NamesNoService(source, record) == source = "aic" /\ record.service = "broken"

ShownImagesCanBeAsked ==
  Made("record") =>
    \A v \in Shown :
      /\ \A i \in {v.artwork.thumbnail, v.artwork.display, v.artwork.original} :
           CanRequest(v.artwork, i) <=> ~NamesNoService(call.source, call.record)
      /\ \A i \in {v.artwork.thumbnail, v.artwork.display} :
           ServedAs(v.artwork, i, call.record) = i.type

(***************************************************************************)
(* The artwork a key opens is the artwork of that key: a museum that       *)
(* answers with another record, or one that went out of the public domain, *)
(* opens nothing.                                                          *)
(***************************************************************************)
OpenedIsWhatWasAsked ==
  Made("record") /\ Accepted(result.opened) =>
    /\ IsKey(call.source, call.id)
    /\ result.opened.artwork.source = call.source
    /\ result.opened.artwork.source_id = call.id

(***************************************************************************)
(* Together: what the service lists or opens may be used, is what it is    *)
(* called and can be fetched, but for the Art Institute's works without an *)
(* image service that is a URL, in each of the five museums                *)
(* (providers/*.rs).                                                       *)
(***************************************************************************)
AcceptedWorksStandUp ==
  /\ OnlyOpenWorksAreShown
  /\ ShownImagesCanBeAsked
  /\ OpenedIsWhatWasAsked

(***************************************************************************)
(* A search and its Load more requests, as many as the longest list has    *)
(* pages, come to an end and have then listed every accepted record of the *)
(* asked culture once, whatever the length of the lists and however each   *)
(* museum counts its pages; the museum without a key is the only one a     *)
(* notice is about.                                                        *)
(***************************************************************************)
Wanted(source) ==
  IF ~IsAvailable(source, call.api_key) THEN {}
  ELSE {ArtworkOf(source, r.id) :
          r \in {r \in ToSet(call.lists[source]) :
                   /\ r.accepted
                   /\ source # "wikimedia" => call.culture \in {NoCulture, r.culture}}}
SearchFindsEverythingOnce ==
  Made("search") =>
    LET session == result.session
    IN /\ ~HasMore(session)
       /\ IsInjective(session.artworks)
       /\ ToSet(session.artworks) = UNION {Wanted(s) : s \in SourceKind}
       /\ session.notices =
            IF call.api_key = "usable" THEN <<>>
            ELSE <<[kind |-> "Unavailable", source |-> "smithsonian"]>>
=============================================================================
