------------------------------- MODULE Client -------------------------------
(***************************************************************************)
(* play (crates/cli/src/client.rs): the terminal client, beside a host     *)
(* that also takes connections from programs that send anything.  Three    *)
(* threads: one tags each line with the revision of the snapshot, one      *)
(* receives frames into the snapshot, one reads the tagged lines and sends *)
(* actions.                                                                *)
(***************************************************************************)
EXTENDS Session

CONSTANTS
  Honest,         \* the connections of this client
  StrangeFrames   \* what the others may send

ASSUME HonestAssumption == Honest \subseteq Conn
ASSUME StrangeFramesAssumption ==
  \A m \in StrangeFrames : m \in Message /\ (m.kind = "Join" => m.seat \in Seat)

\* Bounds: the seats asked for, the lines typed, the frames strangers send.
ASSUME BoundsAssumption ==
  \A t \in Trials :
    t.player \in [Honest -> Seat] /\ t.lines \in [Honest -> Nat] /\ t.frames \in Nat

VARIABLES
  snapshot,   \* Snapshot: revision and view
  input,      \* tagged lines not yet read
  prompt,     \* PromptState
  giveup,     \* giveup_pending
  request,    \* request_id
  heard,      \* what ended the receiver: nothing yet, a frame, the connection
  run,        \* the process
  typed,      \* how many lines have been typed, and the last
  strange     \* frames sent by connections that are not this client

local == <<snapshot, input, prompt, giveup, request, heard, run, typed>>
vars == <<server, local, strange>>

\* Any line but the two that resign: a menu or form choice, cancel, a local command.
Text == {"give up", "yes", "other"}
Snapshot == [revision : Nat, view : SUBSET Nat]
TaggedLine == [text : Text, revision : Nat, view : SUBSET Nat, before : Text]

\* A form, "resign" the confirmation of menu entry 8.  views: what its lines were typed on.
PromptState == [form : {"menu", "guided", "resign"}, revision : Nat, views : SUBSET Nat]
Menu(rev) == [form |-> "menu", revision |-> rev, views |-> {}]

\* The stream ends once the host let go of the socket; what a host that exits
\* with unread input had in flight may be lost.  Faulty variant: an exiting
\* host does not close its sockets.
HungUpByWriter(c) == wire[c] = <<>> /\ (cut[c] \/ stage[c] = "closed")
HungUp(c) ==
  \/ wire[c] = <<>> /\ (cut[c] \/ stage[c] = "closed" \/ mode = "over")
  \/ mode = "over" /\ inbox[c] # <<>>

-----------------------------------------------------------------------------
\* The client connects and asks for the seat of its --player.
Start(c) ==
  /\ run[c] = "off" /\ stage[c] # "away" /\ run' = [run EXCEPT ![c] = "playing"]
  /\ inbox' = [inbox EXCEPT ![c] = Append(@, Plain("Join", trial.player[c], 0))]
  /\ UNCHANGED <<trial, loop, recorder, handler, sockets, wire, cut,
                 snapshot, input, prompt, giveup, request, heard, typed, strange>>

\* The input thread: a line of stdin, tagged when it has been read.
Type(c, text) ==
  /\ run[c] = "playing" /\ typed[c].count < trial.lines[c]
  /\ typed' = [typed EXCEPT ![c] = [count |-> @.count + 1, last |-> text]]
  /\ input' = [input EXCEPT ![c] =
       Append(@, [text |-> text, revision |-> snapshot[c].revision,
                  view |-> snapshot[c].view, before |-> typed[c].last])]
  /\ UNCHANGED <<server, snapshot, prompt, giveup, request, heard, run, strange>>

\* receive
Receive(c) ==
  /\ run[c] = "playing" /\ heard[c] = "nothing"
  /\ \/ /\ wire[c] # <<>> /\ wire' = [wire EXCEPT ![c] = Tail(@)]
        /\ LET f == Head(wire[c]) IN
           \/ /\ f.kind = "Update" /\ UNCHANGED heard
              /\ snapshot' = [snapshot EXCEPT ![c] = [revision |-> f.revision, view |-> f.view]]
           \/ f.kind \in {"Waiting", "Rejected"} /\ UNCHANGED <<snapshot, heard>>
           \/ /\ f.kind \in {"Finished", "Stopped"} /\ UNCHANGED snapshot
              /\ heard' = [heard EXCEPT ![c] = f.kind]
     \/ HungUp(c) /\ heard' = [heard EXCEPT ![c] = "closed"] /\ UNCHANGED <<snapshot, wire>>
  /\ UNCHANGED <<trial, loop, recorder, handler, sockets, inbox, cut,
                 input, prompt, giveup, request, run, typed, strange>>

-----------------------------------------------------------------------------
\* prompt::revised
Revised(p, rev) == IF p.revision = rev THEN p ELSE Menu(rev)

\* The loop polls between lines: a form of an older revision is cancelled.
Poll(c) ==
  /\ run[c] = "playing" /\ input[c] = <<>> /\ prompt[c].revision # snapshot[c].revision
  /\ prompt' = [prompt EXCEPT ![c] = Revised(@, snapshot[c].revision)]
  /\ giveup' = [giveup EXCEPT ![c] = FALSE]
  /\ UNCHANGED <<server, snapshot, input, request, heard, run, typed, strange>>

Send(c, action, views) ==
  /\ request' = [request EXCEPT ![c] = @ + 1]
  /\ inbox' = [inbox EXCEPT ![c] =
       Append(@, Submission(request[c] + 1, snapshot[c].revision, action, views))]
SendNothing == UNCHANGED <<request, inbox>>

\* is_stale.  Faulty variant: never.
NeverStale(line, snap) == FALSE
IsStale(line, snap) == line.revision < snap.revision

\* The two lines that resign, and the line that cancels the first.
GivingUp(c, line) ==
  \/ /\ line.text = "give up" /\ SendNothing
     /\ giveup' = [giveup EXCEPT ![c] = TRUE]
  \/ /\ line.text # "give up" /\ giveup[c]
     /\ giveup' = [giveup EXCEPT ![c] = FALSE]
     /\ IF line.text = "yes" THEN Send(c, "resign", {}) ELSE SendNothing

\* reduce, menu and form_step: what a line may make of a prompt.  A pending
\* choice opens its form by itself, so at the menu a line may belong to one.
Guided(p, line) == [form |-> "guided", revision |-> p.revision, views |-> p.views \cup line.view]
Resigning(p) == [form |-> "resign", revision |-> p.revision, views |-> {}]
Choose(c, p, line) ==
  \/ prompt' = [prompt EXCEPT ![c] = Menu(p.revision)] /\ SendNothing
  \/ /\ line.text = "other" /\ p.form = "menu"
     /\ prompt' = [prompt EXCEPT ![c] = Resigning(p)] /\ SendNothing
  \/ /\ line.text = "other" /\ p.form # "resign"
     /\ prompt' = [prompt EXCEPT ![c] = Guided(p, line)] /\ SendNothing
  \/ /\ line.text = "other" /\ p.form # "resign"
     /\ prompt' = [prompt EXCEPT ![c] = Menu(p.revision)]
     /\ Send(c, "play", p.views \cup line.view)
  \/ /\ p.form = "resign"
     /\ prompt' = [prompt EXCEPT ![c] = Menu(p.revision)] /\ Send(c, "resign", {})

\* One line of the loop.  The loop looks for the end before it waits for a
\* line, so the end may come in between, and one more line is then read.
TakeLine(c) ==
  /\ run[c] = "playing" /\ input[c] # <<>>
  /\ input' = [input EXCEPT ![c] = Tail(@)]
  /\ LET line == Head(input[c])
         snap == snapshot[c] IN
     \/ IsStale(line, snap) /\ SendNothing /\ UNCHANGED <<prompt, giveup>>
     \/ ~IsStale(line, snap) /\ GivingUp(c, line) /\ UNCHANGED prompt
     \/ /\ ~IsStale(line, snap) /\ line.text # "give up" /\ ~giveup[c] /\ UNCHANGED giveup
        /\ \/ (snap.view = {} \/ line.text = "other") /\ SendNothing /\ UNCHANGED prompt
           \/ snap.view # {} /\ Choose(c, Revised(prompt[c], snap.revision), line)
  /\ run' = [run EXCEPT ![c] = IF heard[c] = "nothing" THEN @ ELSE "leaving"]
  /\ UNCHANGED <<trial, loop, recorder, handler, sockets, wire, cut, snapshot, heard, typed, strange>>

\* The loop ends: the match did, or the input, or a send failed.
Leave(c) ==
  /\ \/ run[c] = "leaving"
     \/ run[c] = "playing" /\ (heard[c] # "nothing" \/ "leaving" \in trial.faults)
  /\ run' = [run EXCEPT ![c] = "left"]
  /\ inbox' = [inbox EXCEPT ![c] = Append(@, Plain("Eof", NoSeat, 0))]
  /\ UNCHANGED <<trial, loop, recorder, handler, sockets, wire, cut,
                 snapshot, input, prompt, giveup, request, heard, typed, strange>>

\* A connection from some other program.
Strange(c, m) ==
  /\ stage[c] # "away" /\ strange[c] < trial.frames
  /\ strange' = [strange EXCEPT ![c] = @ + 1]
  /\ inbox' = [inbox EXCEPT ![c] = Append(@, m)]
  /\ UNCHANGED <<trial, loop, recorder, handler, sockets, wire, cut, local>>
-----------------------------------------------------------------------------
Init ==
  /\ ServerInit
  /\ snapshot = [c \in Honest |-> [revision |-> 0, view |-> {}]]
  /\ input = [c \in Honest |-> <<>>] /\ prompt = [c \in Honest |-> Menu(0)]
  /\ giveup = [c \in Honest |-> FALSE] /\ request = [c \in Honest |-> 0]
  /\ heard = [c \in Honest |-> "nothing"] /\ run = [c \in Honest |-> "off"]
  /\ typed = [c \in Honest |-> [count |-> 0, last |-> "other"]]
  /\ strange = [c \in Conn \ Honest |-> 0]

ServerNext == ServerStep /\ UNCHANGED <<local, strange>>
ClientNext(c) ==
  \/ Start(c)
  \/ \E text \in Text : Type(c, text)
  \/ Receive(c) \/ Poll(c) \/ TakeLine(c) \/ Leave(c)

Next ==
  \/ ServerNext
  \/ \E c \in Honest : ClientNext(c)
  \/ \E c \in Conn \ Honest, m \in StrangeFrames : Strange(c, m)

(* The host's tasks and the client's threads run; persons may stop typing   *)
(* and connections may never come.                                          *)
LeaveInTime(c) == (run[c] = "leaving" \/ heard[c] # "nothing") /\ Leave(c)
Fairness ==
  /\ ServerFairness
  /\ \A c \in Honest : WF_vars(Receive(c) \/ LeaveInTime(c))

Spec == Init /\ [][Next]_vars
FairSpec == Spec /\ Fairness

-----------------------------------------------------------------------------
ServerTypes ==
  /\ trial \in Trials
  /\ clients \in [Seat -> Conn \cup {Nobody}] /\ revision \in Nat /\ requests \in [Seat -> Nat]
  /\ plays \in Nat /\ ended \in BOOLEAN
  /\ mode \in Mode /\ todo \in Seq(Outgoing)
  /\ failed \in BOOLEAN /\ caller \in Conn \cup {Nobody}
  /\ stage \in [Conn -> Stage] /\ seat \in [Conn -> Seat \cup {NoSeat}]
  /\ inbox \in [Conn -> Seq(Message)] /\ wire \in [Conn -> Seq(Frame)]
  /\ cut \in [Conn -> BOOLEAN]

ClientTypes ==
  /\ snapshot \in [Honest -> Snapshot] /\ input \in [Honest -> Seq(TaggedLine)]
  /\ prompt \in [Honest -> PromptState] /\ giveup \in [Honest -> BOOLEAN]
  /\ request \in [Honest -> Nat]
  /\ heard \in [Honest -> {"nothing", "Finished", "Stopped", "closed"}]
  /\ run \in [Honest -> {"off", "playing", "leaving", "left"}]
  /\ typed \in [Honest -> [count : Nat, last : Text]]
  /\ strange \in [Conn \ Honest -> Nat]

(* Every variable holds what its Rust type can, and no more handshakes are  *)
(* under way than there are permits.                                        *)
TypeOK == ServerTypes /\ ClientTypes /\ Cardinality(Shaking) <= HandshakeLimit

(* The engine is handed an action of this client only in the state its      *)
(* lines were typed on: forms, tags, revisions and the host's check add up  *)
(* to that (client.rs:109, prompt.rs:88, server.rs:195).  Resignations are  *)
(* free, and so are lines typed before there was a view.                    *)
PlaysOnTheViewSeen ==
  [][\A c \in Honest :
       revision' # revision /\ inbox'[c] # inbox[c] /\ Head(inbox[c]).action = "play"
         => Head(inbox[c]).views \subseteq {plays}]_vars

(* A client sees every revision in turn, whoever moved and whatever the     *)
(* engine answered (broadcast).                                             *)
EveryRevisionShown ==
  [][\A c \in Honest :
       snapshot'[c] # snapshot[c] =>
         snapshot'[c].revision = IF snapshot[c].view = {} THEN 0 ELSE snapshot[c].revision + 1]_vars

(* When the host exits a decided match, each client whose connection held   *)
(* and had left nothing unread has been told the outcome, although the      *)
(* other client may have failed in the middle of the broadcast; and nobody  *)
(* is told of an outcome there is not.                                      *)
OutcomeIsTold ==
  \A c \in Honest :
    /\ heard[c] = "Finished" => ended
    /\ mode = "over" /\ ended /\ stage[c] = "seated" /\ ~cut[c] /\ inbox[c] = <<>>
       /\ run[c] = "playing"
         => \/ heard[c] = "Finished"
            \/ heard[c] = "nothing" /\ \E i \in 1 .. Len(wire[c]) : wire[c][i].kind = "Finished"

(* Together: nothing that happened is kept from a client that stays (server.rs:209). *)
EveryoneIsTold == EveryRevisionShown /\ []OutcomeIsTold

(* Two connections never hold one seat, however their handshakes overlap.   *)
OneClientPerSeat ==
  \A c, d \in Conn :
    stage[c] = "seated" /\ stage[d] = "seated" /\ seat[c] = seat[d] => c = d

(* A request that reached the host is answered by its number, or the match  *)
(* ends.                                                                    *)
EveryRequestIsAnswered ==
  \A c \in Honest : \A id \in UNION {1 .. t.lines[c] : t \in Trials} :
    (\E i \in 1 .. Len(inbox[c]) : inbox[c][i].id = id) /\ stage[c] = "seated"
      ~> mode = "over" \/ \E i \in 1 .. Len(wire[c]) : wire[c][i].reply = id

(* A resignation sent while both sit ends the match, whatever revision it   *)
(* names and whatever the opponent keeps sending.                           *)
ResignationIsFinal ==
  \A c \in Honest :
    /\ Playing(clients) /\ stage[c] = "seated"
    /\ \E i \in 1 .. Len(inbox[c]) : inbox[c][i].kind = "Submit" /\ inbox[c][i].action = "resign"
    ~> mode = "over"

(* Together: whatever a seated client sent is acted on (server.rs:182, 195). *)
RequestsAreServed == EveryRequestIsAnswered /\ ResignationIsFinal

(* No client waits for ever on a session that ended.                        *)
NobodyLeftPlaying == \A c \in Honest : mode = "over" /\ run[c] # "off" ~> run[c] = "left"

(* docs/shell.md: after "give up", "Any other next line cancels that        *)
(* confirmation."                                                           *)
GiveUpNeedsTheNextLine ==
  [][\A c \in Honest :
       giveup[c] /\ request'[c] # request[c] => Head(input[c]).before = "give up"]_vars
=============================================================================
