------------------------------- MODULE Museums -------------------------------
(***************************************************************************)
(* What the five museums' records become                                   *)
(* (crates/cceroby/src/providers): which record is accepted as an artwork, *)
(* which images it shows and saves, and the way back from an artwork's key *)
(* to the same artwork.  Pure operators; a record is the fields that       *)
(* decide, each from a small set of readings:                              *)
(*   a text   "text", "blank" or "absent";                                 *)
(*   a URL    "https", "loopback" (http, this machine), "http" (any other  *)
(*            host), "broken" (no URL) or "absent".                        *)
(***************************************************************************)
EXTENDS Integers, SearchSession

Text == {"text", "blank", "absent"}
Url == {"https", "loopback", "http", "broken", "absent"}

\* The identities records come with; Option::None and an empty one alike.
NoId == "absent"
Numbers == {"7", "8"}
Zero == "0"
EdanIds == {"edanmdm:a", "edanmdm:b"}
OtherUrl == "other"
Files == {"File:a.jpg", "File:b.jpg"}

\* Titles that exist but that no key may hold: & = % # ? / and the like.
UnsafeFiles == {"File:a&b.jpg"}
\* A title that would ask for two pages at once.
TwoFiles == "File:a|b.jpg"

\* parse_artwork_id: what a browser may name.
IsKey(source, id) ==
  CASE source \in {"aic", "cleveland", "met"} -> id \in Numbers
    [] source = "smithsonian"                 -> id \in EdanIds
    [] source = "wikimedia"                   -> id \notin UnsafeFiles \cup {NoId}

-----------------------------------------------------------------------------
(* Accepting a record: the first check that fails names the reason.        *)

Passed == "Passed"
Check(holds, reason) == IF holds THEN Passed ELSE reason
Verdict(checks, artwork) ==
  LET failed == {i \in DOMAIN checks : checks[i] # Passed}
      first  == CHOOSE i \in failed : \A j \in failed : i <= j
  IN IF failed = {} THEN [kind |-> "Accepted", artwork |-> artwork]
     ELSE [kind |-> "Dropped", reason |-> checks[first]]
Accepted(verdict) == verdict.kind = "Accepted"

Image(url, type) == [url |-> url, type |-> type]
Artwork(source, id, license, thumbnail, display, original) ==
  [ source |-> source, source_id |-> id, license |-> license,
    thumbnail |-> thumbnail, display |-> display, original |-> original ]

\* The remote addresses each provider sends an image request to.  The Art
\* Institute's are only parsed; the others name the hosts they trust.
AicAsks(url) == url \notin {"broken", "absent"}
ClevelandAsks(url) == url \in {"https", "loopback", "http"}
MetAsks(url) == url \in {"https", "loopback"}
SmithsonianAsks(url) == url \in {"https", "loopback"}
CommonsAsks(url) == url \in {"https", "loopback"}

-----------------------------------------------------------------------------
(* Art Institute of Chicago.  Three sizes of one image, all JPEG, at the   *)
(* image service the response names.                                       *)

AicRecord ==
  [ public : BOOLEAN, id : Numbers \cup {Zero, NoId}, title : Text, image : Text,
    service : Url ]

AicParse(record) ==
  LET image == Image(record.service, "jpeg")
  IN Verdict(<< Check(record.service # "absent", "MissingImage"),
                Check(record.public, "NotPublicDomain"),
                Check(record.id # NoId, "MissingSourceId"),
                Check(record.title = "text", "MissingTitle"),
                Check(record.image = "text", "MissingImage") >>,
             Artwork("aic", record.id, "PublicDomain", image, image, image))

-----------------------------------------------------------------------------
(* Cleveland Museum of Art.  The web, print and full files, each absent or *)
(* with a URL, the type its file name tells and its area.                  *)

ClevelandRecord(files) ==
  [ license : {"CC0", "other", "absent"}, id : Numbers \cup {Zero, NoId}, title : Text,
    page : Url, web : files, print : files, full : files ]

NoFile == [url |-> "absent", type |-> "none", area |-> 0]
Usable(file) == ClevelandAsks(file.url)

\* The largest usable file of a type, the later of two equals.
Best(record, type) ==
  LET files == <<record.web, record.print, record.full>>
      fit   == {i \in 1 .. 3 : Usable(files[i]) /\ files[i].type = type}
      beats(i, j) == IF files[i].area = files[j].area THEN i >= j
                     ELSE files[i].area > files[j].area
  IN IF fit = {} THEN NoFile ELSE files[CHOOSE i \in fit : \A j \in fit : beats(i, j)]

ClevelandParse(record) ==
  LET jpeg  == Best(record, "jpeg")
      tiff  == Best(record, "tiff")
      small == IF record.web.type = "jpeg" /\ Usable(record.web) THEN record.web ELSE jpeg
      whole == IF tiff = NoFile THEN jpeg ELSE tiff
  IN Verdict(<< Check(record.license = "CC0", "NotPublicDomain"),
                Check(record.id # NoId, "MissingSourceId"),
                Check(record.title = "text", "MissingTitle"),
                Check(jpeg # NoFile, "MissingImage"),
                Check(ClevelandAsks(record.page), "MissingSourceId") >>,
             Artwork("cleveland", record.id, "Cc0", Image(small.url, small.type),
                     Image(jpeg.url, jpeg.type), Image(whole.url, whole.type)))

-----------------------------------------------------------------------------
(* Metropolitan Museum of Art: one record to each object of the list.      *)

MetRecord ==
  [ public : BOOLEAN, id : Numbers \cup {Zero, NoId}, title : Text, primary : Url,
    small : Url, page : Url ]

MetParse(record) ==
  LET small == Image(record.small, "jpeg")
  IN Verdict(<< Check(record.public, "NotPublicDomain"),
                Check(record.id \in Numbers, "MissingSourceId"),
                Check(record.title = "text", "MissingTitle"),
                Check(MetAsks(record.primary), "MissingImage"),
                Check(MetAsks(record.small), "MissingImage"),
                Check(MetAsks(record.page), "MissingSourceId") >>,
             Artwork("met", record.id, "PublicDomain", small, small,
                     Image(record.primary, "jpeg")))

-----------------------------------------------------------------------------
(* Smithsonian Open Access.  An identity from the record's url, else from  *)
(* its record_ID; the first of its media that is an open image.            *)

Medium ==
  [ type : {"Images", "other", "none"}, access : {"CC0", "other", "none"},
    content : Url, thumbnail : Url ]
SmithsonianRecord(media) ==
  [ url : EdanIds \cup {OtherUrl, NoId}, record_id : EdanIds \cup {NoId},
    title : Text, label : Text, media : BoundedSeq(media, 2), link : Url,
    guid : {"ark", "other", "absent"} ]

SmithsonianId(record) == IF record.url # NoId THEN record.url ELSE record.record_id

\* Faulty variant: open access to anything in the record will do.
IsOpenSomewhere(media, i) ==
  /\ media[i].type = "Images"
  /\ \E j \in DOMAIN media : media[j].access = "CC0"
  /\ SmithsonianAsks(media[i].content) /\ SmithsonianAsks(media[i].thumbnail)
IsOpen(media, i) ==
  /\ media[i].type = "Images" /\ media[i].access = "CC0"
  /\ SmithsonianAsks(media[i].content) /\ SmithsonianAsks(media[i].thumbnail)

NoMedium == [type |-> "none", access |-> "none", content |-> "absent", thumbnail |-> "absent"]
SelectImage(media) ==
  LET open == {i \in DOMAIN media : IsOpen(media, i)}
  IN IF open = {} THEN NoMedium
     ELSE media[CHOOSE i \in open : \A j \in open : i <= j]

\* A link that is there decides; the persistent name counts without one.
ObjectPage(record) ==
  IF record.link # "absent" THEN SmithsonianAsks(record.link)
  ELSE record.guid = "ark"

SmithsonianParse(record) ==
  LET id   == SmithsonianId(record)
      main == SelectImage(record.media)
  IN Verdict(<< Check(IsKey("smithsonian", id), "MissingSourceId"),
                Check("text" \in {record.title, record.label}, "MissingTitle"),
                Check(main # NoMedium, "MissingImage"),
                Check(ObjectPage(record), "MissingSourceId") >>,
             Artwork("smithsonian", id, "Cc0", Image(main.thumbnail, "jpeg"),
                     Image(main.content, "jpeg"), Image(main.content, "jpeg")))

-----------------------------------------------------------------------------
(* Wikimedia Commons.  A licence is named, linked, both or neither.        *)

CommonsRecord(title, info, license, url, mime) ==
  [ title : title, info : info, license_url : license, license_name : license,
    url : url, thumb : url, page : url, extension : mime, mime : mime, thumbmime : mime ]

\* CommercialLicense::try_from and commons_license_url read these three and
\* refuse every other text, the restricted licences by name.
OpenLicense == {"Cc0", "PublicDomain", "CcBy"}
NoLicense == "absent"

\* license_from_metadata: what is stated must be open, and the same twice.
LicenseOf(record) ==
  LET stated == {record.license_url, record.license_name} \ {NoLicense}
  IN IF stated \subseteq OpenLicense /\ Cardinality(stated) = 1
     THEN CHOOSE l \in stated : TRUE ELSE NoLicense

DisplayMime == {"jpeg", "png", "webp"}

\* The declared type and the one the address ends in must agree.
ImagesFit(record) ==
  /\ record.mime \in {"jpeg", "tiff"}
  /\ record.thumbmime \in DisplayMime /\ record.extension = record.thumbmime

CommonsParse(record) ==
  LET small == Image(record.thumb, record.thumbmime)
  IN Verdict(<< Check(record.title \in Files \cup UnsafeFiles \cup {TwoFiles}, "MissingSourceId"),
                Check(record.info, "MissingImage"),
                Check(LicenseOf(record) # NoLicense, "NotPublicDomain"),
                Check(CommonsAsks(record.url), "MissingImage"),
                Check(CommonsAsks(record.thumb), "MissingImage"),
                Check(ImagesFit(record), "MissingImage"),
                Check(CommonsAsks(record.page), "MissingSourceId") >>,
             Artwork("wikimedia", record.title, LicenseOf(record), small, small,
                     Image(record.url, record.mime)))

-----------------------------------------------------------------------------
(* From an artwork to its images, and from a key back to its artwork.      *)

ParseArtwork(source, record) ==
  CASE source = "aic"         -> AicParse(record)
    [] source = "cleveland"   -> ClevelandParse(record)
    [] source = "met"         -> MetParse(record)
    [] source = "smithsonian" -> SmithsonianParse(record)
    [] source = "wikimedia"   -> CommonsParse(record)

\* display_image_request for a card and a preview, best_image_request for
\* the file that is saved: the address must still be one to send to, and a
\* display image is answered under a fixed type, at Commons the address's.
CanRequest(artwork, image) ==
  CASE artwork.source = "aic"         -> AicAsks(image.url)
    [] artwork.source = "cleveland"   -> ClevelandAsks(image.url)
    [] artwork.source = "met"         -> MetAsks(image.url)
    [] artwork.source = "smithsonian" -> SmithsonianAsks(image.url)
    [] artwork.source = "wikimedia"   -> CommonsAsks(image.url)
ServedAs(artwork, image, record) ==
  IF artwork.source # "wikimedia" THEN "jpeg"
  ELSE IF record.extension \in DisplayMime THEN record.extension ELSE "jpeg"

\* artwork_request: Commons refuses a key that is no single file.
CanAsk(source, id) ==
  IsKey(source, id) /\ (source = "wikimedia" => id \in Files \cup UnsafeFiles)

NotOpened == [kind |-> "NotOpened"]

\* parse_artwork_response_for_key over the record the museum answers with:
\* it must be accepted and be the artwork that was asked for.
LoadArtwork(source, id, record) ==
  LET parsed == ParseArtwork(source, record)
  IN IF /\ CanAsk(source, id) /\ Accepted(parsed)
        /\ parsed.artwork.source = source /\ parsed.artwork.source_id = id
     THEN parsed ELSE NotOpened
-----------------------------------------------------------------------------
(***************************************************************************)
(* How each museum's result list is read page by page: the place a cursor  *)
(* asks for, what a museum answers there, and the page and next cursor     *)
(* made of the answer.  A list is a sequence of records; a place counts    *)
(* pages at the Art Institute and records everywhere else.                 *)
(***************************************************************************)
CONSTANT PageSize   \* PAGE_SIZE, 20 in every provider

ASSUME PageSizeAssumption == PageSize \in Nat \ {0}

\* A cursor is NoCursor or a number; this one is neither.
BadCursor == -1

\* validate_search_cursor: two providers take any cursor.
ValidCursor(source, cursor) ==
  source \in {"aic", "cleveland"} \/ cursor # BadCursor

\* search_request of each provider: the place of the cursor and the filter
\* of the culture.  Two providers start over with a cursor that is no
\* number; the Met is always asked for its whole list.
Asking(place, by, culture) ==
  [ place |-> place,
    filter |-> IF culture = NoCulture \/ by = "nothing" THEN [by |-> "nothing"]
               ELSE [by |-> by, is |-> culture] ]

AicRequest(culture, cursor) ==
  Asking(IF cursor \in {NoCursor, BadCursor} THEN 1 ELSE cursor, "origin", culture)
ClevelandRequest(culture, cursor) ==
  Asking(IF cursor = BadCursor THEN 0 ELSE cursor, "culture", culture)
MetRequest(culture) == Asking(0, "location", culture)

\* Three regions are asked for by the museums that hold them.
Regions == {"africa", "asia", "pre-columbian"}
SmithsonianRequest(culture, cursor) ==
  Asking(cursor, IF culture \in Regions THEN "museum" ELSE "culture", culture)

\* Two institutions have a category; any other culture filters nothing.
Institutions == {"mnav", "cdf"}
CommonsRequest(culture, cursor) ==
  Asking(cursor, IF culture \in Institutions THEN "category" ELSE "nothing", culture)

SearchRequest(source, culture, cursor) ==
  CASE source = "aic"         -> AicRequest(culture, cursor)
    [] source = "cleveland"   -> ClevelandRequest(culture, cursor)
    [] source = "met"         -> MetRequest(culture)
    [] source = "smithsonian" -> SmithsonianRequest(culture, cursor)
    [] source = "wikimedia"   -> CommonsRequest(culture, cursor)

-----------------------------------------------------------------------------
(* The museums' side: what is answered at a place.                         *)

Least(a, b) == IF a <= b THEN a ELSE b
Slice(list, skip) == SubSeq(list, skip + 1, Least(skip + PageSize, Len(list)))

Reply(source, list, place) ==
  CASE source = "aic" ->
         [ data |-> Slice(list, (place - 1) * PageSize), current |-> place,
           total |-> (Len(list) + PageSize - 1) \div PageSize ]
    [] source = "cleveland" ->
         [data |-> Slice(list, place), skip |-> place, total |-> Len(list)]
    [] source = "met" -> [data |-> list]
    [] source = "smithsonian" -> [data |-> Slice(list, place), count |-> Len(list)]
    [] source = "wikimedia" ->
         [ data |-> Slice(list, place), token |-> "gsroffset",
           offset |-> IF place + PageSize < Len(list) THEN place + PageSize ELSE NoCursor ]

-----------------------------------------------------------------------------
(* parse_search.                                                           *)

Malformed == [kind |-> "Malformed"]
Page(candidates, next) == [kind |-> "Page", candidates |-> candidates, next |-> next]

\* next_cursor of the Art Institute.
AicPage(reply) ==
  Page(reply.data, IF reply.current < reply.total THEN reply.current + 1 ELSE NoCursor)

\* Faulty variant: a list that ends with a full page has one page more.
ClevelandPageClosed(reply) ==
  LET next == reply.skip + Len(reply.data)
  IN Page(reply.data, IF next <= reply.total THEN next ELSE NoCursor)
\* next_cursor of Cleveland, from the skip the answer repeats.
ClevelandPage(reply) ==
  LET next == reply.skip + Len(reply.data)
  IN Page(reply.data,
          IF reply.data # <<>> /\ next < reply.total THEN next ELSE NoCursor)

\* The window of the whole list a cursor names; past the end, nothing.
MetPage(reply, cursor) ==
  LET end == Least(cursor + PageSize, Len(reply.data))
  IN IF cursor = BadCursor THEN Malformed
     ELSE IF cursor >= Len(reply.data) THEN Page(<<>>, NoCursor)
     ELSE Page(SubSeq(reply.data, cursor + 1, end),
               IF end < Len(reply.data) THEN end ELSE NoCursor)

SmithsonianPage(reply, cursor) ==
  LET next == cursor + Len(reply.data)
  IN IF cursor = BadCursor THEN Malformed
     ELSE Page(reply.data,
               IF reply.data # <<>> /\ next < reply.count THEN next ELSE NoCursor)

\* Continued with the one token the provider knows, or not at all.
CommonsPage(reply) ==
  IF reply.token # "gsroffset" THEN Malformed ELSE Page(reply.data, reply.offset)

ParseSearch(source, reply, cursor) ==
  CASE source = "aic"         -> AicPage(reply)
    [] source = "cleveland"   -> ClevelandPage(reply)
    [] source = "met"         -> MetPage(reply, cursor)
    [] source = "smithsonian" -> SmithsonianPage(reply, cursor)
    [] source = "wikimedia"   -> CommonsPage(reply)

-----------------------------------------------------------------------------
(* One search, over the museums' lists: each record is of one culture and  *)
(* is accepted or not.                                                     *)

\* entry: only the Smithsonian needs a key, and it must fit in a header.
IsAvailable(source, api_key) == source # "smithsonian" \/ api_key = "usable"

Listed(list, filter) ==
  Kept(list, {r \in ToSet(list) : filter.by = "nothing" \/ r.culture = filter.is})
Resolved(source, candidates) ==
  LET accepted == Kept(candidates, {r \in ToSet(candidates) : r.accepted})
  IN [i \in DOMAIN accepted |-> ArtworkOf(source, accepted[i].id)]

\* search_one, with resolve_candidate dropping what is not accepted.
SearchOne(source, list, query, cursor, api_key) ==
  LET asked == SearchRequest(source, query.culture, cursor)
      reply == Reply(source, Listed(list, asked.filter), asked.place)
      page  == IF ValidCursor(source, cursor) THEN ParseSearch(source, reply, cursor)
               ELSE Malformed
  IN IF ~IsAvailable(source, api_key) THEN Unavailable(source)
     ELSE IF page.kind # "Page" THEN Failed(source)
     ELSE Success(source, Resolved(source, page.candidates), page.next)

\* search_batch_with_cursors, the outcomes in the order of the cursors.
SearchBatch(lists, query, cursors, api_key) ==
  [ i \in DOMAIN cursors |->
      SearchOne(cursors[i].source, lists[cursors[i].source], query,
                cursors[i].cursor, api_key) ]

\* A search and every Load more after it, at most so many.
SearchAll(lists, query, api_key, times) ==
  LET batch(session) ==
        IF ~HasMore(session) THEN session
        ELSE MergeBatch(session, SearchBatch(lists, query, NextBatch(session), api_key))
      after[n \in 0 .. times] ==
        IF n = 0 THEN NewSession(query) ELSE batch(after[n - 1])
  IN after[times]
=============================================================================
