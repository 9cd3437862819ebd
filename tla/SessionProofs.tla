--------------------------- MODULE SessionProofs ---------------------------
(***************************************************************************)
(* Theorems of Client's Spec, for any connections, trials and strangers:   *)
(* the types and the handshake limit, one client per seat, and that a play *)
(* reaches the engine only in the state it was decided on.                 *)
(***************************************************************************)
EXTENDS Client, TLAPS, SequenceTheorems, FiniteSetTheorems

\* A seated connection holds its seat; the one being admitted finds it free.
SeatsHeld ==
  /\ \A c \in Conn : stage[c] \in {"joined", "seated"} => seat[c] \in Seat
  /\ \A c \in Conn : stage[c] = "seated" => clients[seat[c]] = c
  /\ mode = "join" =>
       /\ caller \in Conn /\ stage[caller] = "joined" /\ clients[seat[caller]] = Nobody

\* What shows, tags or was composed at revision rev and state v is not ahead
\* of the host, and is right if it is not behind.
CurrentAt(rev, v, r, p) == rev <= r /\ (rev = r => v \subseteq {p})
Current(rev, v) == CurrentAt(rev, v, revision, plays)

FramesAgree ==
  \A i \in 1 .. Len(todo) :
    todo[i].frame.kind = "Update" => Current(todo[i].frame.revision, todo[i].frame.view)
WiresAgree ==
  \A c \in Conn : \A i \in 1 .. Len(wire[c]) :
    wire[c][i].kind = "Update" => Current(wire[c][i].revision, wire[c][i].view)
SnapshotsAgree == \A c \in Honest : Current(snapshot[c].revision, snapshot[c].view)
PromptsAgree == \A c \in Honest : Current(prompt[c].revision, prompt[c].views)
LinesAgree ==
  \A c \in Honest : \A i \in 1 .. Len(input[c]) : Current(input[c][i].revision, input[c][i].view)
PlaysAgree ==
  \A c \in Honest : \A i \in 1 .. Len(inbox[c]) :
    inbox[c][i].action = "play" => Current(inbox[c][i].based, inbox[c][i].views)
ViewsAgree ==
  FramesAgree /\ WiresAgree /\ SnapshotsAgree /\ PromptsAgree /\ LinesAgree /\ PlaysAgree

-----------------------------------------------------------------------------
(* The shapes of the frames and messages the host and the client make.      *)
LEMMA NoteIsFrame ==
  ASSUME NEW kind \in {"Waiting", "Rejected", "Stopped"}, NEW id \in Nat
  PROVE  Note(kind, id) \in Frame
BY DEF Note, Frame

LEMMA SentIsOutgoing ==
  ASSUME NEW c \in Conn, NEW f \in Frame
  PROVE  Sent(c, f) \in Outgoing /\ Sent(c, f).to = c /\ Sent(c, f).frame = f
BY DEF Sent, Outgoing

LEMMA StopAllTypes ==
  ASSUME clients \in [Seat -> Conn \cup {Nobody}], StopAll
  PROVE  /\ todo' \in Seq(Outgoing) /\ mode' = "stopping"
         /\ \A i \in 1 .. Len(todo') : todo'[i].frame.kind = "Stopped"
<1> DEFINE f == Note("Stopped", NoReply)
<1>1. f \in Frame /\ f.kind = "Stopped"
  BY NoteIsFrame DEF NoReply, Note
<1>2. \A s \in {1, 2} : \/ Stopping(s) = <<>>
                        \/ clients[s] \in Conn /\ Stopping(s) = <<Sent(clients[s], f)>>
  BY DEF Stopping, Seat
<1>3. \A s \in {1, 2} :
        /\ Stopping(s) \in Seq(Outgoing)
        /\ \A i \in 1 .. Len(Stopping(s)) : Stopping(s)[i].frame.kind = "Stopped"
  <2> TAKE s \in {1, 2}
  <2>1. CASE Stopping(s) = <<>>
    BY <2>1
  <2>2. CASE clients[s] \in Conn /\ Stopping(s) = <<Sent(clients[s], f)>>
    <3> DEFINE x == Sent(clients[s], f)
    <3>1. x \in Outgoing /\ x.frame.kind = "Stopped"
      BY <2>2, <1>1, SentIsOutgoing
    <3> HIDE DEF x
    <3>2. Stopping(s) = <<x>>
      BY <2>2 DEF x
    <3> QED
      BY <3>1, <3>2
  <2> QED
    BY <2>1, <2>2, <1>2
<1>4. \A p, q \in Seq(Outgoing) :
        (/\ \A i \in 1 .. Len(p) : p[i].frame.kind = "Stopped"
         /\ \A i \in 1 .. Len(q) : q[i].frame.kind = "Stopped")
        => /\ p \o q \in Seq(Outgoing)
           /\ \A i \in 1 .. Len(p \o q) : (p \o q)[i].frame.kind = "Stopped"
  OBVIOUS
<1> QED
  BY <1>3, <1>4 DEF StopAll

\* What a handler has to send shows one state, or none.
Shows(q, rev, p) ==
  \A i \in 1 .. Len(q) : q[i].frame.revision = rev /\ q[i].frame.view = {p}
ShowsNothing(q) == \A i \in 1 .. Len(q) : q[i].frame.kind # "Update"

LEMMA BroadcastTypes ==
  ASSUME NEW cs \in [Seat -> Conn], NEW rev \in Nat, NEW view \in Nat, NEW final \in BOOLEAN,
         NEW requester, NEW id \in Nat, NEW accepted
  PROVE  LET b == Broadcast(cs, rev, view, final, requester, id, accepted) IN
         b \in Seq(Outgoing) /\ Shows(b, rev, view)
<1> DEFINE f(s) == BroadcastFrame(rev, view, final, requester, id, accepted, s)
<1>1. \A s : f(s) \in Frame /\ f(s).revision = rev /\ f(s).view = {view}
  BY DEF BroadcastFrame, Frame, NoReply
<1>2. cs[1] \in Conn /\ cs[2] \in Conn
  BY DEF Seat
<1> DEFINE x == Sent(cs[1], f(1))
           y == Sent(cs[2], f(2))
<1>3. x \in Outgoing /\ x.frame.revision = rev /\ x.frame.view = {view}
  BY <1>1, <1>2, SentIsOutgoing
<1>4. y \in Outgoing /\ y.frame.revision = rev /\ y.frame.view = {view}
  BY <1>1, <1>2, SentIsOutgoing
<1>5. Broadcast(cs, rev, view, final, requester, id, accepted) = <<x, y>>
  BY DEF Broadcast
<1> HIDE DEF x, y
<1> QED
  BY <1>3, <1>4, <1>5 DEF Shows

-----------------------------------------------------------------------------
(* The types.                                                               *)
LEMMA InitTypes == Init => ServerTypes /\ ClientTypes
<1> SUFFICES ASSUME Init PROVE ServerTypes /\ ClientTypes
  OBVIOUS
<1> USE DEF Init, ServerInit
<1>1. ServerTypes
  <2>1. \A S : <<>> \in Seq(S)
    OBVIOUS
  <2>2. inbox \in [Conn -> Seq(Message)] /\ wire \in [Conn -> Seq(Frame)] /\ todo \in Seq(Outgoing)
    BY <2>1
  <2>3. clients \in [Seat -> Conn \cup {Nobody}] /\ requests \in [Seat -> Nat]
    OBVIOUS
  <2>4. stage \in [Conn -> Stage] /\ cut \in [Conn -> BOOLEAN] /\ seat \in [Conn -> Seat \cup {NoSeat}]
    BY DEF Stage
  <2> QED
    BY <2>2, <2>3, <2>4 DEF ServerTypes, Mode
<1>2. ClientTypes
  BY DEF ClientTypes, Snapshot, PromptState, Menu, Text
<1> QED
  BY <1>1, <1>2

\* What a step that only moves frames and connections has to keep.
LEMMA QueueTypes ==
  ASSUME NEW S, NEW T, NEW q \in [S -> Seq(T)], NEW c \in S
  PROVE  /\ \A e \in T : [q EXCEPT ![c] = Append(@, e)] \in [S -> Seq(T)]
         /\ q[c] # <<>> => /\ Head(q[c]) \in T /\ Head(q[c]) = q[c][1]
                           /\ [q EXCEPT ![c] = Tail(@)] \in [S -> Seq(T)]
OBVIOUS

LEMMA PlainIsMessage ==
  ASSUME NEW kind \in {"Join", "Garbage", "Eof"}, NEW s \in Seat \cup {NoSeat}
  PROVE  Plain(kind, s, 0) \in Message
BY DEF Plain, Message, Action

LEMMA ConnectionStepTypes ==
  ASSUME ServerTypes, NEW c \in Conn, Accept(c) \/ HandshakeFails(c) \/ FirstFrame(c) \/ Joined(c)
  PROVE  ServerTypes'
<1> USE DEF ServerTypes, loop, recorder, handler, sockets
<1> DEFINE note == Note("Rejected", NoReply)
<1>0. note \in Frame /\ [wire EXCEPT ![c] = Append(@, note)] \in [Conn -> Seq(Frame)]
  BY NoteIsFrame, QueueTypes DEF NoReply
<1> HIDE DEF note
<1>1. CASE Accept(c)
  BY <1>0, <1>1 DEF Accept, Stage, note
<1>2. CASE HandshakeFails(c)
  BY <1>2 DEF HandshakeFails, Stage
<1>3. CASE FirstFrame(c)
  <2>1. Head(inbox[c]) \in Message /\ inbox' \in [Conn -> Seq(Message)]
    BY <1>3, QueueTypes DEF FirstFrame
  <2>2. Head(inbox[c]).seat \in Seat \cup {NoSeat}
    BY <2>1 DEF Message
  <2>3. wire' \in [Conn -> Seq(Frame)]
    BY <1>3, <1>0 DEF FirstFrame, note
  <2>4. stage' \in [Conn -> Stage] /\ seat' \in [Conn -> Seat \cup {NoSeat}]
    BY <1>3, <2>2 DEF FirstFrame, Stage
  <2> QED
    BY <1>3, <2>1, <2>3, <2>4 DEF FirstFrame
<1>4. CASE Joined(c)
  <2>1. \A kind \in {"Waiting", "Rejected"} : Sent(c, Note(kind, NoReply)) \in Outgoing
    BY NoteIsFrame, SentIsOutgoing DEF NoReply
  <2>2. \A x \in Outgoing : <<x>> \in Seq(Outgoing)
    OBVIOUS
  <2>3. todo' \in Seq(Outgoing)
    BY <1>4, <2>1, <2>2 DEF Joined
  <2> QED
    BY <1>4, <2>3 DEF Joined, Mode
<1> QED
  BY <1>1, <1>2, <1>3, <1>4

LEMMA HandleMessageTypes ==
  ASSUME ServerTypes, NEW c \in Conn, HandleMessage(c)
  PROVE  ServerTypes'
<1> USE DEF ServerTypes, loop, recorder, sockets
<1> DEFINE m == Head(inbox[c])
<1>1. m \in Message /\ inbox' \in [Conn -> Seq(Message)]
  BY QueueTypes DEF HandleMessage
<1>2. m.id \in Nat
  BY <1>1 DEF Message
<1> HIDE DEF m
<1>3. \A id \in Nat : Sent(c, Note("Rejected", id)) \in Outgoing
  BY NoteIsFrame, SentIsOutgoing
<1>4. \A x \in Outgoing : <<x>> \in Seq(Outgoing)
  OBVIOUS
<1>5. Reply(c, m.id) => mode' \in Mode /\ todo' \in Seq(Outgoing)
  BY <1>2, <1>3, <1>4 DEF Reply, Mode
<1>6. StopAll => mode' \in Mode /\ todo' \in Seq(Outgoing)
  BY StopAllTypes DEF Mode
<1> DEFINE kept == /\ mode' \in Mode /\ todo' \in Seq(Outgoing) /\ clients' = clients
                   /\ revision' \in Nat /\ requests' \in [Seat -> Nat]
                   /\ plays' \in Nat /\ ended' \in BOOLEAN
<1>7. ASSUME Submit(c, m) PROVE kept
  <2>1. CASE m.id <= requests[seat[c]] /\ Reply(c, m.id) /\ UNCHANGED <<loop, recorder>>
    BY <1>5, <2>1
  <2> DEFINE counted == requests' = [requests EXCEPT ![seat[c]] = m.id]
  <2>2. CASE counted /\ Reply(c, m.id) /\ UNCHANGED <<clients, revision, recorder>>
    BY <1>2, <1>5, <2>2
  <2>3. ASSUME counted, ~Refused(seat[c], m),
               NEW accepted \in BOOLEAN, NEW final \in BOOLEAN, Recorded(c, m, accepted, final)
        PROVE  kept
    <3>1. plays' \in Nat /\ revision' = revision + 1 /\ revision + 1 \in Nat
      BY <2>3 DEF Recorded
    <3>2. clients \in [Seat -> Conn]
      BY <2>3 DEF Refused, Playing
    <3>3. todo' \in Seq(Outgoing)
      BY <1>2, <2>3, <3>1, <3>2, BroadcastTypes DEF Recorded
    <3> QED
      BY <1>2, <2>3, <3>1, <3>3 DEF Recorded, Mode
  <2>4. CASE counted /\ StopAll /\ UNCHANGED <<clients, revision, recorder>>
    BY <1>2, <1>6, <2>4
  <2> QED
    BY <1>7, <2>1, <2>2, <2>3, <2>4 DEF Submit
<1> DEFINE old == /\ mode' = "version" /\ todo' = <<Sent(c, Note("Rejected", m.id))>>
                  /\ UNCHANGED <<loop, recorder>>
<1>8. ASSUME old PROVE kept
  BY <1>2, <1>3, <1>4, <1>8 DEF Mode
<1>9. ASSUME StopAll, UNCHANGED <<loop, recorder>> PROVE kept
  BY <1>6, <1>9
<1> HIDE DEF kept
<1>10. Submit(c, m) \/ old \/ (StopAll /\ UNCHANGED <<loop, recorder>>)
  BY DEF HandleMessage, m
<1>11. kept => ServerTypes'
  BY <1>1 DEF HandleMessage, kept
<1> QED
  BY <1>7, <1>8, <1>9, <1>10, <1>11

LEMMA HandlerStepTypes ==
  ASSUME ServerTypes, Interrupt \/ Deliver \/ FailToDeliver \/ Conclude
  PROVE  ServerTypes'
<1> USE DEF ServerTypes, loop, recorder, sockets
<1>0. StopAll => mode' \in Mode /\ todo' \in Seq(Outgoing)
  BY StopAllTypes DEF Mode
<1>1. CASE Interrupt
  BY <1>0, <1>1 DEF Interrupt
<1>2. todo # <<>> => Head(todo) \in Outgoing /\ Tail(todo) \in Seq(Outgoing)
  OBVIOUS
<1>3. todo # <<>> => Head(todo).to \in Conn /\ Head(todo).frame \in Frame
  BY <1>2 DEF Outgoing
<1>4. CASE Deliver
  <2>1. wire' \in [Conn -> Seq(Frame)]
    BY <1>3, <1>4, QueueTypes DEF Deliver
  <2> QED
    BY <1>2, <1>4, <2>1 DEF Deliver
<1>5. CASE FailToDeliver
  <2>1. cut' \in [Conn -> BOOLEAN] /\ failed' \in BOOLEAN
    BY <1>3, <1>5 DEF FailToDeliver
  <2>2. <<>> \in Seq(Outgoing)
    OBVIOUS
  <2>3. mode' \in Mode /\ todo' \in Seq(Outgoing)
    BY <1>0, <1>2, <1>5, <2>2 DEF FailToDeliver, Mode
  <2> QED
    BY <1>5, <2>1, <2>3 DEF FailToDeliver
<1>6. CASE Conclude
  <2>1. clients' \in [Seat -> Conn \cup {Nobody}] /\ stage' \in [Conn -> Stage] /\ failed' \in BOOLEAN
    BY <1>6 DEF Conclude, Admit, TurnAway, Announced, Resume, Stage
  <2>2. ASSUME Admit PROVE mode' \in Mode /\ todo' \in Seq(Outgoing)
    <3>1. CASE Playing(clients')
      <4>1. clients' \in [Seat -> Conn]
        BY <2>1, <3>1 DEF Playing
      <4>2. Broadcast(clients', revision, plays, ended, NoSeat, NoReply, TRUE) \in Seq(Outgoing)
        BY <4>1, BroadcastTypes DEF NoReply
      <4> QED
        BY <2>2, <3>1, <4>2 DEF Admit, Mode
    <3>2. CASE ~Playing(clients')
      BY <2>2, <3>2 DEF Admit, Mode
    <3> QED
      BY <3>1, <3>2
  <2>3. mode' \in Mode /\ todo' \in Seq(Outgoing)
    BY <1>0, <1>6, <2>2 DEF Conclude, TurnAway, Announced, Resume, Mode
  <2> QED
    BY <1>6, <2>1, <2>3 DEF Conclude
<1> QED
  BY <1>1, <1>4, <1>5, <1>6

-----------------------------------------------------------------------------
\* Of the host's variables, a client writes its inbox and reads its wire.
LEMMA SendTypes ==
  ASSUME ServerTypes, ClientTypes, NEW c \in Honest, NEW action \in Action,
         NEW views \in SUBSET Nat, Send(c, action, views) \/ SendNothing
  PROVE  inbox' \in [Conn -> Seq(Message)] /\ request' \in [Honest -> Nat]
<1> DEFINE m == Submission(request[c] + 1, snapshot[c].revision, action, views)
<1>1. m \in Message /\ request[c] + 1 \in Nat /\ c \in Conn
  BY HonestAssumption DEF ClientTypes, Snapshot, Message, Submission
<1>2. [inbox EXCEPT ![c] = Append(@, m)] \in [Conn -> Seq(Message)]
  BY <1>1, QueueTypes DEF ServerTypes
<1>3. CASE Send(c, action, views)
  <2>1. inbox' = [inbox EXCEPT ![c] = Append(@, m)] /\ request' = [request EXCEPT ![c] = @ + 1]
    BY <1>3 DEF Send
  <2> HIDE DEF m
  <2> QED
    BY <1>1, <1>2, <2>1 DEF ClientTypes
<1>4. CASE SendNothing
  BY <1>4 DEF SendNothing, ServerTypes, ClientTypes
<1> QED
  BY <1>3, <1>4

LEMMA TakeLineTypes ==
  ASSUME ServerTypes, ClientTypes, NEW c \in Honest, TakeLine(c)
  PROVE  ServerTypes' /\ ClientTypes'
<1> USE DEF loop, recorder, handler, sockets
<1> DEFINE line == Head(input[c])
           p == Revised(prompt[c], snapshot[c].revision)
<1>1. line \in TaggedLine /\ input' \in [Honest -> Seq(TaggedLine)]
  BY QueueTypes DEF TakeLine, ClientTypes
<1>2. p \in PromptState /\ p.revision \in Nat /\ p.views \in SUBSET Nat
  BY DEF ClientTypes, Snapshot, PromptState, Revised, Menu
<1>3. line.view \in SUBSET Nat
  BY <1>1 DEF TaggedLine
<1>4. /\ Menu(p.revision) \in PromptState /\ Guided(p, line) \in PromptState
      /\ Resigning(p) \in PromptState /\ p.views \cup line.view \in SUBSET Nat
  BY <1>2, <1>3 DEF Menu, Guided, Resigning, PromptState
<1> HIDE DEF p, line
<1> DEFINE typed_ == /\ inbox' \in [Conn -> Seq(Message)] /\ request' \in [Honest -> Nat]
                     /\ prompt' \in [Honest -> PromptState] /\ giveup' \in [Honest -> BOOLEAN]
<1>5. ASSUME SendNothing, UNCHANGED <<prompt, giveup>> PROVE typed_
  BY <1>5 DEF SendNothing, ServerTypes, ClientTypes
<1>6. ASSUME GivingUp(c, line), UNCHANGED prompt PROVE typed_
  <2>1. SendNothing \/ Send(c, "resign", {})
    BY <1>6 DEF GivingUp
  <2>2. inbox' \in [Conn -> Seq(Message)] /\ request' \in [Honest -> Nat]
    BY <2>1, SendTypes DEF Action
  <2> QED
    BY <1>6, <2>2 DEF GivingUp, ClientTypes
<1>7. ASSUME Choose(c, p, line), UNCHANGED giveup PROVE typed_
  <2>1. SendNothing \/ Send(c, "resign", {}) \/ Send(c, "play", p.views \cup line.view)
    BY <1>7 DEF Choose
  <2>2. \A views \in SUBSET Nat :
          Send(c, "play", views) => /\ inbox' \in [Conn -> Seq(Message)]
                                    /\ request' \in [Honest -> Nat]
    BY SendTypes DEF Action
  <2>3. ASSUME SendNothing \/ Send(c, "resign", {})
        PROVE  inbox' \in [Conn -> Seq(Message)] /\ request' \in [Honest -> Nat]
    BY <2>3, SendTypes DEF Action
  <2>4. inbox' \in [Conn -> Seq(Message)] /\ request' \in [Honest -> Nat]
    BY <1>4, <2>1, <2>2, <2>3
  <2>5. prompt' \in [Honest -> PromptState]
    BY <1>4, <1>7 DEF Choose, ClientTypes
  <2> QED
    BY <1>7, <2>4, <2>5 DEF ClientTypes
<1> HIDE DEF typed_
<1>8. typed_
  BY <1>5, <1>6, <1>7 DEF TakeLine, p, line
<1>9. run' \in [Honest -> {"off", "playing", "leaving", "left"}]
  BY DEF TakeLine, ClientTypes
<1>10. ServerTypes'
  BY <1>8 DEF TakeLine, ServerTypes, typed_
<1>11. ClientTypes'
  BY <1>1, <1>8, <1>9 DEF TakeLine, ClientTypes, typed_
<1> QED
  BY <1>10, <1>11

LEMMA ClientStepTypes ==
  ASSUME ServerTypes, ClientTypes, NEW c \in Honest, ClientNext(c)
  PROVE  ServerTypes' /\ ClientTypes'
<1> USE DEF server, loop, recorder, handler, sockets
<1>0. c \in Conn
  BY HonestAssumption
<1>1. CASE Start(c)
  <2>1. Plain("Join", trial.player[c], 0) \in Message
    BY BoundsAssumption, PlainIsMessage DEF ServerTypes
  <2>2. inbox' \in [Conn -> Seq(Message)]
    BY <1>0, <1>1, <2>1, QueueTypes DEF Start, ServerTypes
  <2> QED
    BY <1>1, <2>2 DEF Start, ServerTypes, ClientTypes
<1>2. ASSUME NEW text \in Text, Type(c, text) PROVE ServerTypes' /\ ClientTypes'
  <2> DEFINE line == [text |-> text, revision |-> snapshot[c].revision,
                      view |-> snapshot[c].view, before |-> typed[c].last]
  <2>1. line \in TaggedLine
    BY DEF ClientTypes, Snapshot, TaggedLine
  <2> HIDE DEF line
  <2>2. input' \in [Honest -> Seq(TaggedLine)]
    BY <1>2, <2>1, QueueTypes DEF Type, ClientTypes, line
  <2>3. typed' \in [Honest -> [count : Nat, last : Text]]
    BY <1>2 DEF Type, ClientTypes
  <2> QED
    BY <1>2, <2>2, <2>3 DEF Type, ServerTypes, ClientTypes
<1>3. CASE Receive(c)
  <2>1. wire[c] # <<>> => /\ Head(wire[c]) \in Frame
                          /\ [wire EXCEPT ![c] = Tail(@)] \in [Conn -> Seq(Frame)]
    BY <1>0, QueueTypes DEF ServerTypes
  <2>2. wire' \in [Conn -> Seq(Frame)]
    BY <1>3, <2>1 DEF Receive, ServerTypes
  <2> DEFINE shown == [revision |-> Head(wire[c]).revision, view |-> Head(wire[c]).view]
  <2>5. snapshot' = snapshot \/ (wire[c] # <<>> /\ snapshot' = [snapshot EXCEPT ![c] = shown])
    BY <1>3 DEF Receive
  <2>6. wire[c] # <<>> => shown \in Snapshot
    BY <2>1 DEF Snapshot, Frame
  <2> HIDE DEF shown
  <2>3. snapshot' \in [Honest -> Snapshot]
    BY <2>5, <2>6 DEF ClientTypes
  <2>4. heard' \in [Honest -> {"nothing", "Finished", "Stopped", "closed"}]
    BY <1>3 DEF Receive, ClientTypes
  <2> QED
    BY <1>3, <2>2, <2>3, <2>4 DEF Receive, ServerTypes, ClientTypes
<1>4. CASE Poll(c)
  <2>1. prompt' \in [Honest -> PromptState]
    BY <1>4 DEF Poll, Revised, Menu, ClientTypes, Snapshot, PromptState
  <2> QED
    BY <1>4, <2>1 DEF Poll, ServerTypes, ClientTypes
<1>5. CASE Leave(c)
  <2>1. inbox' \in [Conn -> Seq(Message)]
    BY <1>0, <1>5, PlainIsMessage, QueueTypes DEF Leave, ServerTypes
  <2> QED
    BY <1>5, <2>1 DEF Leave, ServerTypes, ClientTypes
<1> QED
  BY <1>1, <1>2, <1>3, <1>4, <1>5, TakeLineTypes DEF ClientNext

LEMMA StepTypes ==
  ASSUME ServerTypes, ClientTypes, [Next]_vars
  PROVE  ServerTypes' /\ ClientTypes'
<1>1. CASE ServerNext
  <2>1. ServerTypes'
    BY <1>1, ConnectionStepTypes, HandleMessageTypes, HandlerStepTypes DEF ServerNext, ServerStep
  <2>2. ClientTypes'
    BY <1>1 DEF ServerNext, local, ClientTypes
  <2> QED
    BY <2>1, <2>2
<1>2. CASE \E c \in Honest : ClientNext(c)
  BY <1>2, ClientStepTypes
<1>3. ASSUME NEW c \in Conn \ Honest, NEW m \in StrangeFrames, Strange(c, m)
      PROVE  ServerTypes' /\ ClientTypes'
  <2>1. inbox' \in [Conn -> Seq(Message)]
    BY <1>3, StrangeFramesAssumption, QueueTypes DEF Strange, ServerTypes
  <2>2. strange' \in [Conn \ Honest -> Nat]
    BY <1>3 DEF Strange, ClientTypes
  <2> QED
    BY <1>3, <2>1, <2>2
    DEF Strange, ServerTypes, ClientTypes, local, loop, recorder, handler, sockets
<1>4. CASE UNCHANGED vars
  BY <1>4 DEF vars, server, local, loop, recorder, handler, sockets, ServerTypes, ClientTypes
<1> QED
  BY <1>1, <1>2, <1>3, <1>4 DEF Next

-----------------------------------------------------------------------------
(* The handshake limit.                                                     *)
LEMMA LimitHolds ==
  ASSUME ServerTypes, [Next]_vars, Cardinality(Shaking) <= HandshakeLimit
  PROVE  Cardinality(Shaking') <= HandshakeLimit
<1>1. IsFiniteSet(Shaking) /\ Cardinality(Shaking) \in Nat
  BY ConnAssumption, FS_Subset, FS_CardinalityType DEF Shaking
<1>2. ASSUME NEW c \in Conn, Accept(c), ~Busy, stage' = [stage EXCEPT ![c] = "handshake"]
      PROVE  Cardinality(Shaking') <= HandshakeLimit
  <2>1. Shaking' = Shaking \cup {c} /\ c \notin Shaking
    BY <1>2 DEF Accept, Shaking, ServerTypes
  <2>2. Cardinality(Shaking') = Cardinality(Shaking) + 1
    BY <1>1, <2>1, FS_AddElement
  <2>3. Cardinality(Shaking) < HandshakeLimit
    BY <1>1, <1>2, HandshakeLimitAssumption DEF Busy
  <2> QED
    BY <1>1, <2>2, <2>3, HandshakeLimitAssumption
<1>3. ASSUME Shaking' \subseteq Shaking
      PROVE  Cardinality(Shaking') <= HandshakeLimit
  <2>1. Cardinality(Shaking') \in Nat /\ Cardinality(Shaking') <= Cardinality(Shaking)
    BY <1>1, <1>3, FS_Subset, FS_CardinalityType
  <2> QED
    BY <1>1, <2>1, HandshakeLimitAssumption
<1>4. \/ \E c \in Conn : Accept(c) /\ ~Busy /\ stage' = [stage EXCEPT ![c] = "handshake"]
      \/ Shaking' \subseteq Shaking
  <2> USE DEF Shaking, ServerTypes, loop, recorder, handler, sockets
  <2>1. ASSUME NEW c \in Conn, Accept(c) PROVE <1>4
    BY <2>1 DEF Accept
  <2>2. ASSUME NEW c \in Conn, HandshakeFails(c) \/ FirstFrame(c) \/ Joined(c) \/ HandleMessage(c)
        PROVE  Shaking' \subseteq Shaking
    BY <2>2 DEF HandshakeFails, FirstFrame, Joined, HandleMessage
  <2>3. CASE Interrupt \/ Deliver \/ FailToDeliver
    BY <2>3 DEF Interrupt, Deliver, FailToDeliver
  <2>4. CASE Conclude
    BY <2>4 DEF Conclude, Admit, TurnAway, Announced, Resume
  <2>5. ASSUME NEW c \in Honest, ClientNext(c) PROVE Shaking' = Shaking
    BY <2>5 DEF ClientNext, Start, Type, Receive, Poll, TakeLine, Leave, server
  <2>6. ASSUME NEW c \in Conn \ Honest, NEW m \in StrangeFrames, Strange(c, m)
        PROVE  Shaking' = Shaking
    BY <2>6 DEF Strange
  <2>7. CASE UNCHANGED vars
    BY <2>7 DEF vars, server
  <2> QED
    BY <2>1, <2>2, <2>3, <2>4, <2>5, <2>6, <2>7 DEF Next, ServerNext, ServerStep
<1> QED
  BY <1>2, <1>3, <1>4

LEMMA InitTypeOK == Init => TypeOK
<1>1. Init => Shaking = {}
  BY DEF Init, ServerInit, Shaking
<1>2. Init => Cardinality(Shaking) <= HandshakeLimit
  BY <1>1, FS_EmptySet, HandshakeLimitAssumption
<1> QED
  BY <1>2, InitTypes DEF TypeOK

LEMMA StepTypeOK == TypeOK /\ [Next]_vars => TypeOK'
BY StepTypes, LimitHolds DEF TypeOK

(* The types always hold, for any connections, limit, trials and strangers. *)
THEOREM SessionTypes == Spec => []TypeOK
BY InitTypeOK, StepTypeOK, PTL DEF Spec

-----------------------------------------------------------------------------
(* What a step does to the inboxes: nothing, one message less, or one more. *)
JoinsHaveSeats ==
  \A c \in Conn : \A i \in 1 .. Len(inbox[c]) :
    inbox[c][i].kind = "Join" => inbox[c][i].seat \in Seat

Taken(c) == inbox[c] # <<>> /\ inbox' = [inbox EXCEPT ![c] = Tail(@)]
Added(c, m) == inbox' = [inbox EXCEPT ![c] = Append(@, m)]

LEMMA TailFacts ==
  ASSUME NEW T, NEW s \in Seq(T), s # <<>>
  PROVE  /\ Len(s) \in Nat \ {0} /\ Head(s) = s[1] /\ Len(Tail(s)) = Len(s) - 1
         /\ \A i \in 1 .. Len(Tail(s)) : i + 1 \in 1 .. Len(s) /\ Tail(s)[i] = s[i + 1]
OBVIOUS

LEMMA ServerStepInbox ==
  ASSUME ServerTypes, ServerStep
  PROVE  inbox' = inbox \/ \E c \in Conn : Taken(c)
BY DEF ServerStep, ServerTypes, Taken, Accept, HandshakeFails, FirstFrame, Joined, HandleMessage,
       Interrupt, Deliver, FailToDeliver, Conclude

LEMMA ClientStepInbox ==
  ASSUME ServerTypes, NEW c \in Honest, ClientNext(c)
  PROVE  \/ inbox' = inbox
         \/ \E m : Added(c, m) /\ (m.kind = "Join" => m.seat \in Seat) /\ m.action # "play"
         \/ \E action, views : TakeLine(c) /\ Send(c, action, views)
<1> USE DEF Added
<1>1. CASE Start(c)
  <2>1. trial.player[c] \in Seat
    BY BoundsAssumption DEF ServerTypes
  <2> DEFINE m == Plain("Join", trial.player[c], 0)
  <2>2. (m.kind = "Join" => m.seat \in Seat) /\ m.action # "play"
    BY <2>1 DEF Plain
  <2>3. inbox' = [inbox EXCEPT ![c] = Append(@, m)]
    BY <1>1 DEF Start
  <2> HIDE DEF m
  <2> QED
    BY <2>2, <2>3
<1>2. CASE Leave(c)
  <2> DEFINE m == Plain("Eof", NoSeat, 0)
  <2>1. (m.kind = "Join" => m.seat \in Seat) /\ m.action # "play"
    BY DEF Plain
  <2>2. inbox' = [inbox EXCEPT ![c] = Append(@, m)]
    BY <1>2 DEF Leave
  <2> HIDE DEF m
  <2> QED
    BY <2>1, <2>2
<1>3. CASE TakeLine(c)
  BY <1>3 DEF TakeLine, GivingUp, Choose, SendNothing
<1>4. CASE Receive(c) \/ Poll(c) \/ \E text \in Text : Type(c, text)
  BY <1>4 DEF Receive, Poll, Type, server
<1> QED
  BY <1>1, <1>2, <1>3, <1>4 DEF ClientNext

LEMMA JoinsKeepSeats ==
  ASSUME ServerTypes, [Next]_vars, JoinsHaveSeats
  PROVE  JoinsHaveSeats'
<1>0. inbox' = inbox => JoinsHaveSeats'
  BY DEF JoinsHaveSeats
<1>1. ASSUME NEW c \in Conn, Taken(c) PROVE JoinsHaveSeats'
  <2>1. \A i \in 1 .. Len(inbox'[c]) :
          i + 1 \in 1 .. Len(inbox[c]) /\ inbox'[c][i] = inbox[c][i + 1]
    BY <1>1, TailFacts DEF Taken, ServerTypes
  <2>2. \A d \in Conn \ {c} : inbox'[d] = inbox[d]
    BY <1>1 DEF Taken, ServerTypes
  <2> QED
    BY <2>1, <2>2 DEF JoinsHaveSeats
<1>2. ASSUME NEW c \in Conn, NEW m, Added(c, m), m.kind = "Join" => m.seat \in Seat
      PROVE  JoinsHaveSeats'
  BY <1>2 DEF Added, JoinsHaveSeats, ServerTypes
<1>3. CASE ServerNext
  BY <1>0, <1>1, <1>3, ServerStepInbox DEF ServerNext
<1>4. ASSUME NEW c \in Honest, ClientNext(c) PROVE JoinsHaveSeats'
  <2>1. ASSUME NEW action, NEW views, Send(c, action, views) PROVE JoinsHaveSeats'
    BY <1>2, <2>1, HonestAssumption DEF Send, Submission, Added
  <2> QED
    BY <1>0, <1>2, <1>4, <2>1, ClientStepInbox, HonestAssumption
<1>5. ASSUME NEW c \in Conn \ Honest, NEW m \in StrangeFrames, Strange(c, m)
      PROVE  JoinsHaveSeats'
  BY <1>2, <1>5, StrangeFramesAssumption DEF Strange, Added
<1>6. CASE UNCHANGED vars
  BY <1>0, <1>6 DEF vars, server
<1> QED
  BY <1>3, <1>4, <1>5, <1>6 DEF Next

-----------------------------------------------------------------------------
(* Seats.                                                                   *)
LEMMA SeatsStay ==
  ASSUME ServerTypes, [Next]_vars, JoinsHaveSeats, SeatsHeld
  PROVE  SeatsHeld'
<1> USE DEF SeatsHeld, ServerTypes, loop, recorder, handler, sockets
<1>0. UNCHANGED <<clients, mode, caller, stage, seat>> => SeatsHeld'
  OBVIOUS
<1>1. ASSUME NEW c \in Conn, Accept(c) \/ HandshakeFails(c) PROVE SeatsHeld'
  BY <1>1 DEF Accept, HandshakeFails
<1>2. ASSUME NEW c \in Conn, FirstFrame(c) PROVE SeatsHeld'
  <2>0. Head(inbox[c]) = inbox[c][1] /\ 1 \in 1 .. Len(inbox[c])
    BY <1>2, TailFacts DEF FirstFrame
  <2>1. Head(inbox[c]).kind = "Join" => Head(inbox[c]).seat \in Seat
    BY <2>0 DEF JoinsHaveSeats
  <2> QED
    BY <1>2, <2>1 DEF FirstFrame
<1>3. ASSUME NEW c \in Conn, Joined(c) PROVE SeatsHeld'
  BY <1>3 DEF Joined, Occupied
<1>4. ASSUME NEW c \in Conn, HandleMessage(c) PROVE SeatsHeld'
  <2>1. mode' # "join" /\ UNCHANGED <<clients, stage, seat>>
    BY <1>4 DEF HandleMessage, Submit, Reply, Recorded, StopAll
  <2> QED
    BY <2>1
<1>5. CASE Interrupt \/ Deliver \/ FailToDeliver
  <2>1. (mode' # "join" \/ UNCHANGED <<mode, caller>>) /\ UNCHANGED <<clients, stage, seat>>
    BY <1>5 DEF Interrupt, Deliver, FailToDeliver, StopAll
  <2> QED
    BY <2>1
<1>6. CASE Conclude
  <2>1. CASE Admit
    BY <1>6, <2>1, ConnAssumption DEF Conclude, Admit
  <2>2. CASE TurnAway \/ Announced \/ Resume
    <3>1. mode' # "join" /\ UNCHANGED <<clients, seat>>
          /\ \A c \in Conn : stage'[c] \in {stage[c], "closed"}
      BY <1>6, <2>2 DEF Conclude, TurnAway, Announced, Resume, StopAll
    <3> QED
      BY <3>1
  <2> QED
    BY <1>6, <2>1, <2>2 DEF Conclude
<1>7. ASSUME NEW c \in Honest, ClientNext(c) PROVE SeatsHeld'
  BY <1>0, <1>7 DEF ClientNext, Start, Type, Receive, Poll, TakeLine, Leave, server
<1>8. ASSUME NEW c \in Conn \ Honest, NEW m \in StrangeFrames, Strange(c, m) PROVE SeatsHeld'
  BY <1>0, <1>8 DEF Strange
<1>9. CASE UNCHANGED vars
  BY <1>0, <1>9 DEF vars, server
<1> QED
  BY <1>1, <1>2, <1>3, <1>4, <1>5, <1>6, <1>7, <1>8, <1>9 DEF Next, ServerNext, ServerStep

(* No two connections ever hold one seat, whatever strangers ask for.       *)
THEOREM OneClientPerSeatAlways == Spec => []OneClientPerSeat
<1> DEFINE I == TypeOK /\ JoinsHaveSeats /\ SeatsHeld
<1>1. Init => I
  <2>1. Init => JoinsHaveSeats /\ SeatsHeld
    BY DEF Init, ServerInit, JoinsHaveSeats, SeatsHeld
  <2> QED
    BY <2>1, InitTypeOK
<1>2. I /\ [Next]_vars => I'
  BY StepTypeOK, JoinsKeepSeats, SeatsStay DEF TypeOK
<1>3. I => OneClientPerSeat
  BY DEF SeatsHeld, OneClientPerSeat
<1> QED
  BY <1>1, <1>2, <1>3, PTL DEF Spec

-----------------------------------------------------------------------------
(* Views.  The revision only grows, so what is not ahead of the host stays  *)
(* so, and what falls behind is no longer bound to the state it shows.      *)
LEMMA RevisionStep ==
  ASSUME ServerTypes, [Next]_vars
  PROVE  UNCHANGED <<revision, plays>> \/ revision' = revision + 1
<1> USE DEF loop, recorder
<1>1. ASSUME NEW c \in Conn, Accept(c) \/ HandshakeFails(c) \/ FirstFrame(c) \/ Joined(c)
      PROVE  UNCHANGED <<revision, plays>>
  BY <1>1 DEF Accept, HandshakeFails, FirstFrame, Joined
<1>2. ASSUME NEW c \in Conn, HandleMessage(c)
      PROVE  UNCHANGED <<revision, plays>> \/ revision' = revision + 1
  BY <1>2 DEF HandleMessage, Submit, Recorded
<1>3. CASE Interrupt \/ Deliver \/ FailToDeliver \/ Conclude
  BY <1>3 DEF Interrupt, Deliver, FailToDeliver, Conclude
<1>4. ASSUME NEW c \in Honest, ClientNext(c) PROVE UNCHANGED <<revision, plays>>
  BY <1>4 DEF ClientNext, Start, Type, Receive, Poll, TakeLine, Leave, server
<1>5. ASSUME NEW c \in Conn \ Honest, NEW m \in StrangeFrames, Strange(c, m)
      PROVE  UNCHANGED <<revision, plays>>
  BY <1>5 DEF Strange
<1>6. CASE UNCHANGED vars
  BY <1>6 DEF vars, server
<1> QED
  BY <1>1, <1>2, <1>3, <1>4, <1>5, <1>6 DEF Next, ServerNext, ServerStep

LEMMA CurrentStays ==
  ASSUME ServerTypes, [Next]_vars, NEW rev \in Nat, NEW v, Current(rev, v)
  PROVE  CurrentAt(rev, v, revision', plays')
BY RevisionStep DEF Current, CurrentAt, ServerTypes

LEMMA OneNote ==
  ASSUME NEW c \in Conn, NEW kind \in {"Waiting", "Rejected"}, NEW id \in Nat
  PROVE  ShowsNothing(<<Sent(c, Note(kind, id))>>)
<1>1. Sent(c, Note(kind, id)).frame.kind # "Update"
  BY DEF Sent, Note
<1> DEFINE x == Sent(c, Note(kind, id))
<1> HIDE DEF x
<1>2. \A i \in 1 .. Len(<<x>>) : <<x>>[i] = x
  OBVIOUS
<1> QED
  BY <1>1, <1>2 DEF ShowsNothing, x

LEMMA HandlerFrames ==
  ASSUME ServerTypes, ServerStep
  PROVE  \/ todo' = todo \/ (todo # <<>> /\ todo' = Tail(todo))
         \/ ShowsNothing(todo') \/ Shows(todo', revision', plays')
<1> USE DEF loop, recorder
<1>0. StopAll => ShowsNothing(todo')
  BY StopAllTypes DEF ServerTypes, ShowsNothing
<1>1. ASSUME NEW c \in Conn, Accept(c) \/ HandshakeFails(c) \/ FirstFrame(c) PROVE todo' = todo
  BY <1>1 DEF Accept, HandshakeFails, FirstFrame, handler
<1>2. ASSUME NEW c \in Conn, Joined(c) PROVE ShowsNothing(todo')
  BY <1>2, OneNote DEF Joined, NoReply
<1>3. ASSUME NEW c \in Conn, HandleMessage(c)
      PROVE  ShowsNothing(todo') \/ Shows(todo', revision', plays')
  <2> DEFINE m == Head(inbox[c])
  <2>0. m \in Message
    BY <1>3, QueueTypes DEF HandleMessage, ServerTypes
  <2>1. m.id \in Nat
    BY <2>0 DEF Message
  <2> HIDE DEF m
  <2>2. Reply(c, m.id) => ShowsNothing(todo')
    BY <2>1, OneNote DEF Reply
  <2>3. todo' = <<Sent(c, Note("Rejected", m.id))>> => ShowsNothing(todo')
    BY <2>1, OneNote
  <2>4. ASSUME ~Refused(seat[c], m), NEW accepted \in BOOLEAN, NEW final \in BOOLEAN,
               Recorded(c, m, accepted, final)
        PROVE  Shows(todo', revision', plays')
    <3>1. plays' \in Nat /\ revision' = revision + 1 /\ revision + 1 \in Nat
      BY <2>4 DEF Recorded, ServerTypes
    <3>2. clients \in [Seat -> Conn]
      BY <2>4 DEF Refused, Playing, ServerTypes
    <3> DEFINE b == Broadcast(clients, revision', plays', final, seat[c], m.id, accepted)
    <3>3. Shows(b, revision', plays')
      BY <2>1, <3>1, <3>2, BroadcastTypes
    <3>4. todo' = b
      BY <2>4, <3>1 DEF Recorded
    <3> QED
      BY <3>3, <3>4
  <2> QED
    BY <1>0, <1>3, <2>2, <2>3, <2>4 DEF HandleMessage, Submit, m
<1>4. CASE Interrupt \/ Deliver \/ FailToDeliver
  <2>1. todo' = <<>> => ShowsNothing(todo')
    BY DEF ShowsNothing
  <2> QED
    BY <1>0, <1>4, <2>1 DEF Interrupt, Deliver, FailToDeliver
<1>5. CASE Conclude
  <2>1. ASSUME Admit, Playing(clients') PROVE Shows(todo', revision', plays')
    <3>1. clients' \in [Seat -> Conn]
      BY <1>5, <2>1, HandlerStepTypes DEF ServerTypes, Playing
    <3>2. revision' = revision /\ plays' = plays /\ ended \in BOOLEAN
          /\ revision \in Nat /\ plays \in Nat
      BY <1>5 DEF Conclude, ServerTypes
    <3> DEFINE b == Broadcast(clients', revision, plays, ended, NoSeat, NoReply, TRUE)
    <3>3. Shows(b, revision, plays)
      BY <3>1, <3>2, BroadcastTypes DEF NoReply
    <3>4. todo' = b
      BY <2>1 DEF Admit
    <3> QED
      BY <3>2, <3>3, <3>4
  <2> QED
    BY <1>0, <1>5, <2>1 DEF Conclude, Admit, TurnAway, Announced, Resume
<1> QED
  BY <1>1, <1>2, <1>3, <1>4, <1>5 DEF ServerStep

LEMMA FramesStayAgreed ==
  ASSUME ServerTypes, [Next]_vars, FramesAgree
  PROVE  FramesAgree'
<1>1. \A i \in 1 .. Len(todo) : todo[i].frame.revision \in Nat
  <2>1. \A i \in 1 .. Len(todo) : todo[i] \in Outgoing
    BY DEF ServerTypes
  <2> QED
    BY <2>1 DEF Outgoing, Frame
<1>2. \A i \in 1 .. Len(todo) :
        todo[i].frame.kind = "Update" =>
          CurrentAt(todo[i].frame.revision, todo[i].frame.view, revision', plays')
  BY <1>1, CurrentStays DEF FramesAgree
<1>3. CASE todo' = todo
  BY <1>2, <1>3 DEF FramesAgree, Current
<1>4. CASE todo # <<>> /\ todo' = Tail(todo)
  <2>1. \A i \in 1 .. Len(todo') : i + 1 \in 1 .. Len(todo) /\ todo'[i] = todo[i + 1]
    BY <1>4, TailFacts DEF ServerTypes
  <2> QED
    BY <1>2, <2>1 DEF FramesAgree, Current
<1>5. CASE ShowsNothing(todo')
  BY <1>5 DEF ShowsNothing, FramesAgree
<1>6. ASSUME Shows(todo', revision', plays'), revision' \in Nat PROVE FramesAgree'
  BY <1>6 DEF Shows, FramesAgree, Current, CurrentAt
<1>7. revision' \in Nat
  BY RevisionStep DEF ServerTypes
<1>8. CASE ServerNext
  BY <1>3, <1>4, <1>5, <1>6, <1>7, <1>8, HandlerFrames DEF ServerNext
<1>9. ASSUME NEW c \in Honest, ClientNext(c) PROVE todo' = todo
  BY <1>9 DEF ClientNext, Start, Type, Receive, Poll, TakeLine, Leave, server, handler
<1>10. ASSUME NEW c \in Conn \ Honest, NEW m \in StrangeFrames, Strange(c, m) PROVE todo' = todo
  BY <1>10 DEF Strange, handler
<1>11. CASE UNCHANGED vars
  BY <1>3, <1>11 DEF vars, server, handler
<1> QED
  BY <1>3, <1>8, <1>9, <1>10, <1>11 DEF Next

\* A wire loses its first frame, or gets one that shows nothing or was due.
LEMMA WiresStayAgreed ==
  ASSUME ServerTypes, [Next]_vars, FramesAgree, WiresAgree
  PROVE  WiresAgree'
<1> USE DEF loop, recorder, handler, sockets
<1>1. \A c \in Conn : \A i \in 1 .. Len(wire[c]) :
        wire[c][i].kind = "Update" =>
          CurrentAt(wire[c][i].revision, wire[c][i].view, revision', plays')
  <2>1. \A c \in Conn : \A i \in 1 .. Len(wire[c]) : wire[c][i] \in Frame
    BY DEF ServerTypes
  <2>2. \A c \in Conn : \A i \in 1 .. Len(wire[c]) : wire[c][i].revision \in Nat
    BY <2>1 DEF Frame
  <2> QED
    BY <2>2, CurrentStays DEF WiresAgree
<1>2. ASSUME wire' = wire PROVE WiresAgree'
  BY <1>1, <1>2 DEF WiresAgree, Current
<1>3. ASSUME NEW c \in Conn, NEW f,
             f.kind = "Update" => CurrentAt(f.revision, f.view, revision', plays'),
             wire' = [wire EXCEPT ![c] = Append(@, f)]
      PROVE  WiresAgree'
  <2>1. \A i \in 1 .. Len(wire'[c]) :
          \/ i \in 1 .. Len(wire[c]) /\ wire'[c][i] = wire[c][i]
          \/ wire'[c][i] = f
    BY <1>3 DEF ServerTypes
  <2>2. \A d \in Conn \ {c} : wire'[d] = wire[d]
    BY <1>3 DEF ServerTypes
  <2> QED
    BY <1>1, <1>3, <2>1, <2>2 DEF WiresAgree, Current
<1>4. ASSUME NEW c \in Conn, wire[c] # <<>>, wire' = [wire EXCEPT ![c] = Tail(@)]
      PROVE  WiresAgree'
  <2>1. \A i \in 1 .. Len(wire'[c]) :
          i + 1 \in 1 .. Len(wire[c]) /\ wire'[c][i] = wire[c][i + 1]
    BY <1>4, TailFacts DEF ServerTypes
  <2>2. \A d \in Conn \ {c} : wire'[d] = wire[d]
    BY <1>4 DEF ServerTypes
  <2> QED
    BY <1>1, <2>1, <2>2 DEF WiresAgree, Current
<1>5. Note("Rejected", NoReply).kind # "Update"
  BY DEF Note
<1>6. ASSUME NEW c \in Conn, Accept(c) \/ FirstFrame(c) PROVE WiresAgree'
  <2> DEFINE n == Note("Rejected", NoReply)
  <2>1. wire' = wire \/ wire' = [wire EXCEPT ![c] = Append(@, n)]
    BY <1>6 DEF Accept, FirstFrame
  <2> HIDE DEF n
  <2>2. n.kind # "Update"
    BY <1>5 DEF n
  <2> QED
    BY <1>2, <1>3, <2>1, <2>2
<1>7. ASSUME NEW c \in Conn, HandshakeFails(c) \/ Joined(c) \/ HandleMessage(c) PROVE WiresAgree'
  BY <1>2, <1>7 DEF HandshakeFails, Joined, HandleMessage
<1>8. CASE Deliver
  <2> DEFINE f == Head(todo).frame
  <2>1. 1 \in 1 .. Len(todo) /\ Head(todo) = todo[1] /\ todo[1] \in Outgoing
    BY <1>8 DEF Deliver, ServerTypes
  <2>2. f \in Frame /\ f.revision \in Nat /\ Head(todo).to \in Conn
    BY <2>1 DEF Outgoing, Frame
  <2>3. f.kind = "Update" => CurrentAt(f.revision, f.view, revision', plays')
    BY <2>1, <2>2, CurrentStays DEF FramesAgree
  <2>4. wire' = [wire EXCEPT ![Head(todo).to] = Append(@, f)]
    BY <1>8 DEF Deliver
  <2> HIDE DEF f
  <2> QED
    BY <1>3, <2>2, <2>3, <2>4
<1>9. CASE Interrupt \/ FailToDeliver \/ Conclude
  BY <1>2, <1>9 DEF Interrupt, FailToDeliver, Conclude
<1>10. ASSUME NEW c \in Honest, ClientNext(c) PROVE WiresAgree'
  <2>1. c \in Conn
    BY HonestAssumption
  <2>2. CASE Receive(c)
    BY <1>2, <1>4, <2>1, <2>2 DEF Receive
  <2>3. CASE ~Receive(c)
    BY <1>2, <1>10, <2>3 DEF ClientNext, Start, Type, Poll, TakeLine, Leave, server
  <2> QED
    BY <2>2, <2>3
<1>11. ASSUME NEW c \in Conn \ Honest, NEW m \in StrangeFrames, Strange(c, m) PROVE WiresAgree'
  BY <1>2, <1>11 DEF Strange
<1>12. CASE UNCHANGED vars
  BY <1>2, <1>12 DEF vars, server
<1> QED
  BY <1>6, <1>7, <1>8, <1>9, <1>10, <1>11, <1>12 DEF Next, ServerNext, ServerStep

\* A snapshot is a frame that was shown.
LEMMA SnapshotsStayAgreed ==
  ASSUME ServerTypes, ClientTypes, [Next]_vars, WiresAgree, SnapshotsAgree
  PROVE  SnapshotsAgree'
<1>1. \A c \in Honest : snapshot[c].revision \in Nat
  BY DEF ClientTypes, Snapshot
<1>2. \A c \in Honest : CurrentAt(snapshot[c].revision, snapshot[c].view, revision', plays')
  BY <1>1, CurrentStays DEF SnapshotsAgree
<1>3. ASSUME snapshot' = snapshot PROVE SnapshotsAgree'
  BY <1>2, <1>3 DEF SnapshotsAgree, Current
<1>4. ASSUME NEW c \in Honest, Receive(c) PROVE SnapshotsAgree'
  <2> DEFINE f == Head(wire[c])
             shown == [revision |-> f.revision, view |-> f.view]
  <2>1. CASE snapshot' = snapshot
    BY <1>3, <2>1
  <2>2. CASE wire[c] # <<>> /\ f.kind = "Update" /\ snapshot' = [snapshot EXCEPT ![c] = shown]
    <3>1. c \in Conn /\ f = wire[c][1] /\ 1 \in 1 .. Len(wire[c]) /\ f \in Frame
      BY <2>2, HonestAssumption, TailFacts, QueueTypes DEF ServerTypes
    <3>2. f.revision \in Nat /\ Current(f.revision, f.view)
      BY <2>2, <3>1 DEF WiresAgree, Frame
    <3>3. CurrentAt(shown.revision, shown.view, revision', plays')
      BY <3>2, CurrentStays
    <3> HIDE DEF shown
    <3>4. snapshot'[c] = shown /\ \A d \in Honest \ {c} : snapshot'[d] = snapshot[d]
      BY <2>2 DEF ClientTypes
    <3> QED
      BY <1>2, <3>3, <3>4 DEF SnapshotsAgree, Current
  <2> QED
    BY <1>4, <2>1, <2>2 DEF Receive
<1>5. ASSUME NEW c \in Honest, ClientNext(c), ~Receive(c) PROVE snapshot' = snapshot
  BY <1>5 DEF ClientNext, Start, Type, Poll, TakeLine, Leave
<1>6. CASE ServerNext
  BY <1>3, <1>6 DEF ServerNext, local
<1>7. ASSUME NEW c \in Conn \ Honest, NEW m \in StrangeFrames, Strange(c, m)
      PROVE  snapshot' = snapshot
  BY <1>7 DEF Strange, local
<1>8. CASE UNCHANGED vars
  BY <1>3, <1>8 DEF vars, local
<1> QED
  BY <1>3, <1>4, <1>5, <1>6, <1>7, <1>8 DEF Next

\* A line is tagged with the snapshot its thread finds.
LEMMA LinesStayAgreed ==
  ASSUME ServerTypes, ClientTypes, [Next]_vars, SnapshotsAgree, LinesAgree
  PROVE  LinesAgree'
<1>1. \A c \in Honest : \A i \in 1 .. Len(input[c]) :
        CurrentAt(input[c][i].revision, input[c][i].view, revision', plays')
  <2>1. \A c \in Honest : \A i \in 1 .. Len(input[c]) : input[c][i] \in TaggedLine
    BY DEF ClientTypes
  <2>2. \A c \in Honest : \A i \in 1 .. Len(input[c]) : input[c][i].revision \in Nat
    BY <2>1 DEF TaggedLine
  <2> QED
    BY <2>2, CurrentStays DEF LinesAgree
<1>2. ASSUME input' = input PROVE LinesAgree'
  BY <1>1, <1>2 DEF LinesAgree, Current
<1>3. ASSUME NEW c \in Honest, NEW text \in Text, Type(c, text) PROVE LinesAgree'
  <2> DEFINE line == [text |-> text, revision |-> snapshot[c].revision,
                      view |-> snapshot[c].view, before |-> typed[c].last]
  <2>1. snapshot[c].revision \in Nat
    BY DEF ClientTypes, Snapshot
  <2>2. CurrentAt(line.revision, line.view, revision', plays')
    BY <2>1, CurrentStays DEF SnapshotsAgree
  <2>3. input' = [input EXCEPT ![c] = Append(@, line)]
    BY <1>3 DEF Type
  <2> HIDE DEF line
  <2>4. \A i \in 1 .. Len(input'[c]) :
          \/ i \in 1 .. Len(input[c]) /\ input'[c][i] = input[c][i]
          \/ input'[c][i] = line
    BY <2>3 DEF ClientTypes
  <2>5. \A d \in Honest \ {c} : input'[d] = input[d]
    BY <2>3 DEF ClientTypes
  <2> QED
    BY <1>1, <2>2, <2>4, <2>5 DEF LinesAgree, Current
<1>4. ASSUME NEW c \in Honest, TakeLine(c) PROVE LinesAgree'
  <2>0. input[c] \in Seq(TaggedLine) /\ input[c] # <<>> /\ input'[c] = Tail(input[c])
    BY <1>4 DEF TakeLine, ClientTypes
  <2>1. \A i \in 1 .. Len(input'[c]) :
          i + 1 \in 1 .. Len(input[c]) /\ input'[c][i] = input[c][i + 1]
    BY <2>0, TailFacts
  <2>2. \A d \in Honest \ {c} : input'[d] = input[d]
    BY <1>4 DEF TakeLine, ClientTypes
  <2> QED
    BY <1>1, <2>1, <2>2 DEF LinesAgree, Current
<1>5. ASSUME NEW c \in Honest, Start(c) \/ Receive(c) \/ Poll(c) \/ Leave(c) PROVE input' = input
  BY <1>5 DEF Start, Receive, Poll, Leave
<1>6. CASE ServerNext
  BY <1>2, <1>6 DEF ServerNext, local
<1>7. ASSUME NEW c \in Conn \ Honest, NEW m \in StrangeFrames, Strange(c, m) PROVE input' = input
  BY <1>7 DEF Strange, local
<1>8. CASE UNCHANGED vars
  BY <1>2, <1>8 DEF vars, local
<1> QED
  BY <1>2, <1>3, <1>4, <1>5, <1>6, <1>7, <1>8 DEF Next, ClientNext

-----------------------------------------------------------------------------
(* What a line that is not stale makes of a prompt was decided on one       *)
(* state: the prompt's revision is the snapshot's, and the line's is not    *)
(* older.                                                                   *)
Fitted(c) == Revised(prompt[c], snapshot[c].revision)
Seen(c) == Fitted(c).views \cup Head(input[c]).view

LEMMA FittedAgrees ==
  ASSUME ServerTypes, ClientTypes, SnapshotsAgree, PromptsAgree, NEW c \in Honest
  PROVE  /\ Fitted(c).revision = snapshot[c].revision /\ snapshot[c].revision \in Nat
         /\ Current(snapshot[c].revision, Fitted(c).views)
         /\ Current(snapshot[c].revision, {})
<1>1. snapshot[c].revision \in Nat
  BY DEF ClientTypes, Snapshot
<1>2. Fitted(c).revision = snapshot[c].revision
  BY DEF Fitted, Revised, Menu
<1>3. Current(snapshot[c].revision, {})
  BY DEF SnapshotsAgree, Current, CurrentAt
<1>4. Current(snapshot[c].revision, Fitted(c).views)
  BY <1>3 DEF Fitted, Revised, Menu, PromptsAgree
<1> QED
  BY <1>1, <1>2, <1>3, <1>4

LEMMA SeenAgrees ==
  ASSUME ServerTypes, ClientTypes, SnapshotsAgree, PromptsAgree, LinesAgree,
         NEW c \in Honest, input[c] # <<>>, ~IsStale(Head(input[c]), snapshot[c])
  PROVE  Current(snapshot[c].revision, Seen(c))
<1> DEFINE line == Head(input[c])
<1>1. line = input[c][1] /\ 1 \in 1 .. Len(input[c]) /\ line \in TaggedLine
  BY TailFacts, QueueTypes DEF ClientTypes
<1>2. line.revision \in Nat /\ Current(line.revision, line.view)
  BY <1>1 DEF TaggedLine, LinesAgree
<1>3. snapshot[c].revision <= line.revision
  BY <1>2, FittedAgrees DEF IsStale
<1> QED
  BY <1>2, <1>3, FittedAgrees DEF Seen, Current, CurrentAt, ServerTypes

\* What a line does to the prompt and sends.
Prompts(c, views) ==
  \E q : prompt' = [prompt EXCEPT ![c] = q] /\ q.revision = Fitted(c).revision /\ q.views = views

LEMMA LineEffects ==
  ASSUME ClientTypes, NEW c \in Honest, TakeLine(c)
  PROVE  /\ \/ prompt' = prompt
            \/ Prompts(c, {})
            \/ Prompts(c, Seen(c)) /\ ~IsStale(Head(input[c]), snapshot[c])
         /\ \/ SendNothing \/ Send(c, "resign", {})
            \/ Send(c, "play", Seen(c)) /\ ~IsStale(Head(input[c]), snapshot[c])
<1> DEFINE line == Head(input[c])
           p == Fitted(c)
<1>1. ASSUME Choose(c, p, line)
      PROVE  /\ SendNothing \/ Send(c, "resign", {}) \/ Send(c, "play", Seen(c))
             /\ Prompts(c, {}) \/ Prompts(c, Seen(c))
  <2>1. /\ Menu(p.revision).revision = p.revision /\ Menu(p.revision).views = {}
        /\ Resigning(p).revision = p.revision /\ Resigning(p).views = {}
        /\ Guided(p, line).revision = p.revision /\ Guided(p, line).views = Seen(c)
    BY DEF Menu, Resigning, Guided, Seen
  <2>2. \E q \in {Menu(p.revision), Resigning(p), Guided(p, line)} :
          prompt' = [prompt EXCEPT ![c] = q]
    BY <1>1 DEF Choose
  <2>3. SendNothing \/ Send(c, "resign", {}) \/ Send(c, "play", Seen(c))
    BY <1>1 DEF Choose, Seen
  <2> QED
    BY <2>1, <2>2, <2>3 DEF Prompts
<1>2. GivingUp(c, line) => SendNothing \/ Send(c, "resign", {})
  BY DEF GivingUp
<1>3. \/ SendNothing /\ prompt' = prompt
      \/ GivingUp(c, line) /\ prompt' = prompt
      \/ ~IsStale(line, snapshot[c]) /\ Choose(c, p, line)
  BY DEF TakeLine, Fitted
<1> HIDE DEF line, p
<1>4. CASE ~IsStale(line, snapshot[c]) /\ Choose(c, p, line)
  BY <1>1, <1>4 DEF line
<1> QED
  BY <1>2, <1>3, <1>4

LEMMA PromptsStayAgreed ==
  ASSUME ServerTypes, ClientTypes, [Next]_vars, SnapshotsAgree, PromptsAgree, LinesAgree
  PROVE  PromptsAgree'
<1>1. \A c \in Honest : CurrentAt(prompt[c].revision, prompt[c].views, revision', plays')
  <2>1. \A c \in Honest : prompt[c].revision \in Nat
    BY DEF ClientTypes, PromptState
  <2> QED
    BY <2>1, CurrentStays DEF PromptsAgree
<1>2. ASSUME prompt' = prompt PROVE PromptsAgree'
  BY <1>1, <1>2 DEF PromptsAgree, Current
<1>3. ASSUME NEW c \in Honest, NEW q, prompt' = [prompt EXCEPT ![c] = q],
             q.revision = snapshot[c].revision, Current(snapshot[c].revision, q.views)
      PROVE  PromptsAgree'
  <2>1. CurrentAt(q.revision, q.views, revision', plays')
    BY <1>3, FittedAgrees, CurrentStays
  <2>2. prompt'[c] = q /\ \A d \in Honest \ {c} : prompt'[d] = prompt[d]
    BY <1>3 DEF ClientTypes
  <2> QED
    BY <1>1, <2>1, <2>2 DEF PromptsAgree, Current
<1>4. ASSUME NEW c \in Honest, Poll(c) PROVE PromptsAgree'
  <2>1. prompt' = [prompt EXCEPT ![c] = Fitted(c)]
    BY <1>4 DEF Poll, Fitted
  <2> QED
    BY <1>3, <2>1, FittedAgrees
<1>5. ASSUME NEW c \in Honest, TakeLine(c) PROVE PromptsAgree'
  <2>1. input[c] # <<>>
    BY <1>5 DEF TakeLine
  <2> QED
    BY <1>2, <1>3, <1>5, <2>1, LineEffects, FittedAgrees, SeenAgrees, ZenonT(30) DEF Prompts
<1>6. ASSUME NEW c \in Honest, ClientNext(c), ~Poll(c), ~TakeLine(c) PROVE prompt' = prompt
  BY <1>6 DEF ClientNext, Start, Type, Receive, Leave
<1>7. CASE ServerNext
  BY <1>2, <1>7 DEF ServerNext, local
<1>8. ASSUME NEW c \in Conn \ Honest, NEW m \in StrangeFrames, Strange(c, m) PROVE prompt' = prompt
  BY <1>8 DEF Strange, local
<1>9. CASE UNCHANGED vars
  BY <1>2, <1>9 DEF vars, local
<1> QED
  BY <1>2, <1>4, <1>5, <1>6, <1>7, <1>8, <1>9 DEF Next

\* A play is bound to the state it was decided on when it is sent.
LEMMA PlaysStayAgreed ==
  ASSUME ServerTypes, ClientTypes, [Next]_vars, SnapshotsAgree, PromptsAgree, LinesAgree, PlaysAgree
  PROVE  PlaysAgree'
<1>1. \A c \in Honest : \A i \in 1 .. Len(inbox[c]) :
        inbox[c][i].action = "play" =>
          CurrentAt(inbox[c][i].based, inbox[c][i].views, revision', plays')
  <2>1. \A c \in Honest : \A i \in 1 .. Len(inbox[c]) : inbox[c][i] \in Message
    BY HonestAssumption DEF ServerTypes
  <2>2. \A c \in Honest : \A i \in 1 .. Len(inbox[c]) : inbox[c][i].based \in Nat
    BY <2>1 DEF Message
  <2> QED
    BY <2>2, CurrentStays DEF PlaysAgree
<1>2. ASSUME inbox' = inbox PROVE PlaysAgree'
  BY <1>1, <1>2 DEF PlaysAgree, Current
<1>3. ASSUME NEW c \in Conn, Taken(c) PROVE PlaysAgree'
  <2>0. inbox[c] \in Seq(Message) /\ inbox[c] # <<>> /\ inbox'[c] = Tail(inbox[c])
    BY <1>3 DEF Taken, ServerTypes
  <2>1. \A i \in 1 .. Len(inbox'[c]) :
          i + 1 \in 1 .. Len(inbox[c]) /\ inbox'[c][i] = inbox[c][i + 1]
    BY <2>0, TailFacts
  <2>2. \A d \in Honest \ {c} : inbox'[d] = inbox[d]
    BY <1>3, HonestAssumption DEF Taken, ServerTypes
  <2> QED
    BY <1>1, <2>1, <2>2 DEF PlaysAgree, Current
<1>4. ASSUME NEW c \in Conn, NEW m, Added(c, m),
             c \in Honest /\ m.action = "play" => CurrentAt(m.based, m.views, revision', plays')
      PROVE  PlaysAgree'
  <2>0. inbox[c] \in Seq(Message) /\ inbox'[c] = Append(inbox[c], m)
    BY <1>4 DEF Added, ServerTypes
  <2>1. \A i \in 1 .. Len(inbox'[c]) :
          \/ i \in 1 .. Len(inbox[c]) /\ inbox'[c][i] = inbox[c][i]
          \/ inbox'[c][i] = m
    BY <2>0
  <2>2. \A d \in Honest \ {c} : inbox'[d] = inbox[d]
    BY <1>4, HonestAssumption DEF Added, ServerTypes
  <2> QED
    BY <1>1, <1>4, <2>1, <2>2 DEF PlaysAgree, Current
<1>5. ASSUME NEW c \in Honest, TakeLine(c) PROVE PlaysAgree'
  <2>0. c \in Conn /\ input[c] # <<>>
    BY <1>5, HonestAssumption DEF TakeLine
  <2>1. ASSUME NEW action \in {"resign", "play"}, NEW views, Send(c, action, views),
               action = "play" => Current(snapshot[c].revision, views)
        PROVE  PlaysAgree'
    <3> DEFINE m == Submission(request[c] + 1, snapshot[c].revision, action, views)
    <3>1. m.action = action /\ m.based = snapshot[c].revision /\ m.views = views
      BY DEF Submission
    <3>2. Added(c, m)
      BY <2>1 DEF Send, Added
    <3> HIDE DEF m
    <3>3. m.action = "play" => CurrentAt(m.based, m.views, revision', plays')
      BY <2>1, <3>1, FittedAgrees, CurrentStays
    <3> QED
      BY <1>4, <2>0, <3>2, <3>3
  <2>2. CASE SendNothing
    BY <1>2, <2>2 DEF SendNothing
  <2>3. CASE Send(c, "resign", {})
    BY <2>1, <2>3
  <2>4. CASE Send(c, "play", Seen(c)) /\ ~IsStale(Head(input[c]), snapshot[c])
    BY <2>0, <2>1, <2>4, SeenAgrees
  <2> QED
    BY <1>5, <2>2, <2>3, <2>4, LineEffects
<1>6. ASSUME NEW c \in Honest, ClientNext(c), ~TakeLine(c) PROVE PlaysAgree'
  BY <1>2, <1>4, <1>6, ClientStepInbox, HonestAssumption
<1>7. CASE ServerNext
  BY <1>2, <1>3, <1>7, ServerStepInbox DEF ServerNext
<1>8. ASSUME NEW c \in Conn \ Honest, NEW m \in StrangeFrames, Strange(c, m) PROVE PlaysAgree'
  BY <1>4, <1>8 DEF Strange, Added
<1>9. CASE UNCHANGED vars
  BY <1>2, <1>9 DEF vars, server
<1> QED
  BY <1>5, <1>6, <1>7, <1>8, <1>9 DEF Next

(* For any connections, trials and strangers, whatever may fail: the engine *)
(* is handed a client's action only in the state its lines were typed on.   *)
(* Nothing on its way, in a form or on a tag is ahead of the host           *)
(* (ViewsAgree), and the host hands on only what is not behind.             *)
THEOREM PlaysOnTheViewSeenAlways == Spec => PlaysOnTheViewSeen
<1> DEFINE I == TypeOK /\ ViewsAgree
<1>1. Init => I
  <2> SUFFICES ASSUME Init PROVE ViewsAgree
    BY InitTypeOK
  <2>1. Current(0, {})
    BY DEF Init, ServerInit, Current, CurrentAt
  <2>2. todo = <<>> /\ (\A c \in Conn : wire[c] = <<>> /\ inbox[c] = <<>>)
    BY DEF Init, ServerInit
  <2>3. \A c \in Honest : /\ input[c] = <<>> /\ inbox[c] = <<>>
                          /\ snapshot[c].revision = 0 /\ snapshot[c].view = {}
                          /\ prompt[c].revision = 0 /\ prompt[c].views = {}
    BY <2>2, HonestAssumption DEF Init, Menu
  <2>4. FramesAgree /\ WiresAgree /\ PlaysAgree /\ LinesAgree
    BY <2>2, <2>3 DEF FramesAgree, WiresAgree, PlaysAgree, LinesAgree
  <2>5. SnapshotsAgree /\ PromptsAgree
    BY <2>1, <2>3 DEF SnapshotsAgree, PromptsAgree
  <2> QED
    BY <2>4, <2>5 DEF ViewsAgree
<1>2. I /\ [Next]_vars => I'
  BY StepTypeOK, FramesStayAgreed, WiresStayAgreed, SnapshotsStayAgreed, LinesStayAgreed,
     PromptsStayAgreed, PlaysStayAgreed DEF TypeOK, ViewsAgree
<1> DEFINE A == \A c \in Honest :
                  revision' # revision /\ inbox'[c] # inbox[c] /\ Head(inbox[c]).action = "play"
                    => Head(inbox[c]).views \subseteq {plays}
<1>3. I /\ [Next]_vars => [A]_vars
  <2> SUFFICES ASSUME I, Next, NEW c \in Honest, revision' # revision, inbox'[c] # inbox[c],
                      Head(inbox[c]).action = "play"
               PROVE  Head(inbox[c]).views \subseteq {plays}
    BY DEF vars, server
  <2>1. PICK d \in Conn : HandleMessage(d)
    BY DEF Next, ServerNext, ServerStep, Accept, HandshakeFails, FirstFrame, Joined, Interrupt,
           Deliver, FailToDeliver, Conclude, Strange, ClientNext, Start, Type, Receive, Poll,
           TakeLine, Leave, server, loop
  <2>2. d = c /\ inbox[c] \in Seq(Message) /\ inbox[c] # <<>>
    BY <2>1, HonestAssumption DEF HandleMessage, TypeOK, ServerTypes
  <2>3. ~Refused(seat[c], Head(inbox[c]))
    BY <2>1, <2>2 DEF HandleMessage, Submit, loop
  <2>4. Head(inbox[c]).based = revision
    BY <2>3 DEF Refused, AcceptsRevision
  <2>5. Head(inbox[c]) = inbox[c][1] /\ 1 \in 1 .. Len(inbox[c])
    BY <2>2, TailFacts
  <2>6. Current(revision, Head(inbox[c]).views)
    BY <2>4, <2>5 DEF ViewsAgree, PlaysAgree
  <2> QED
    BY <2>6 DEF Current, CurrentAt
<1> QED
  BY <1>1, <1>2, <1>3, PTL DEF Spec, PlaysOnTheViewSeen
=============================================================================
