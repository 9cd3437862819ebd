------------------------------ MODULE Session ------------------------------
(***************************************************************************)
(* serve_session (crates/cli/src/server.rs): the host of one match between *)
(* two connections.  A connection's socket, its reader task and its place  *)
(* in the event channel are one queue, inbox; its writer task and the      *)
(* socket behind it are another, wire.  The loop handles one event at a    *)
(* time and waits for each of its writes, any of which may fail or time    *)
(* out; connections are accepted only between two events.                  *)
(***************************************************************************)
EXTENDS Naturals, Sequences, FiniteSets

CONSTANTS
  Conn,            \* the connections that may be opened, each once
  Nobody,          \* no connection
  HandshakeLimit,  \* HANDSHAKE_LIMIT: handshakes under way at once
  Trials           \* bound: which connections come, and what may go wrong

ASSUME ConnAssumption == IsFiniteSet(Conn) /\ Nobody \notin Conn
ASSUME HandshakeLimitAssumption == HandshakeLimit \in Nat

Fault == {"interrupt", "delivery", "recording", "handshake", "leaving"}
ASSUME TrialsAssumption ==
  \A t \in Trials : t.comes \subseteq Conn /\ t.faults \subseteq Fault

VARIABLES
  trial,                        \* which of the trials this is
  clients, revision, requests,  \* the loop's own variables
  plays, ended,                 \* the recorder: accepted steps, match decided
  mode, todo, failed, caller,   \* the event being handled
  stage, seat,                  \* each connection at the host
  inbox, wire, cut              \* each connection's queues; its writer failed

loop == <<clients, revision, requests>>
recorder == <<plays, ended>>
handler == <<mode, todo, failed, caller>>
sockets == <<stage, seat>>
server == <<trial, loop, recorder, handler, sockets, inbox, wire, cut>>

Seat == 1 .. 2
NoSeat == 0
NoReply == 0

\* "unfit": made for the other player, or not convertible.
Action == {"play", "resign", "unfit"}
Stage == {"away", "handshake", "joined", "seated", "closed"}
Mode == {"loop", "occupied", "join", "reply", "version", "broadcast", "stopping", "over"}

\* ClientEnvelope, what is not one, and the end of the stream.  views is not
\* sent: the states the person looked at when they composed the action.
Message == [kind : {"Join", "Submit", "OldSubmit", "Garbage", "Eof"}, seat : Seat \cup {NoSeat},
            id : Nat, based : Nat, action : Action, views : SUBSET Nat]
Plain(kind, s, id) ==
  [kind |-> kind, seat |-> s, id |-> id, based |-> 0, action |-> "unfit", views |-> {}]
Submission(id, based, action, views) ==
  [kind |-> "Submit", seat |-> NoSeat, id |-> id, based |-> based, action |-> action,
   views |-> views]

\* ServerEnvelope.  A view is the number of the state it shows.
Frame == [kind : {"Waiting", "Rejected", "Update", "Finished", "Stopped"},
          revision : Nat, view : SUBSET Nat, reply : Nat]
Note(kind, id) == [kind |-> kind, revision |-> 0, view |-> {}, reply |-> id]
Outgoing == [to : Conn, frame : Frame]
Sent(c, f) == [to |-> c, frame |-> f]

-----------------------------------------------------------------------------
Playing(cs) == \A s \in Seat : cs[s] # Nobody

\* stop_all, to whoever sits.
Stopping(s) == IF clients[s] = Nobody THEN <<>> ELSE <<Sent(clients[s], Note("Stopped", NoReply))>>
StopAll == mode' = "stopping" /\ todo' = Stopping(1) \o Stopping(2)

\* The frame of a broadcast for the client of seat s.  Faulty variant: a step
\* the engine rejected is not answered.
BroadcastFrameUnanswered(rev, view, final, requester, id, accepted, s) ==
  [kind |-> IF final THEN "Finished" ELSE "Update", revision |-> rev, view |-> {view},
   reply |-> IF s = requester /\ accepted THEN id ELSE NoReply]
BroadcastFrame(rev, view, final, requester, id, accepted, s) ==
  [kind |-> IF final THEN "Finished" ELSE "Update", revision |-> rev, view |-> {view},
   reply |-> IF s = requester THEN id ELSE NoReply]

\* broadcast, to both clients.  Faulty variant: what the engine rejected is
\* told to the requester alone.
BroadcastOfChanges(cs, rev, view, final, requester, id, accepted) ==
  LET to(s) == Sent(cs[s], BroadcastFrame(rev, view, final, requester, id, accepted, s)) IN
  IF accepted THEN <<to(1), to(2)>> ELSE <<to(requester)>>
Broadcast(cs, rev, view, final, requester, id, accepted) ==
  LET to(s) == Sent(cs[s], BroadcastFrame(rev, view, final, requester, id, accepted, s)) IN
  <<to(1), to(2)>>

Reply(c, id) ==
  /\ mode' = "reply"
  /\ todo' = <<Sent(c, Note("Rejected", id))>>

-----------------------------------------------------------------------------
Shaking == {c \in Conn : stage[c] \in {"handshake", "joined"}}

Busy == Cardinality(Shaking) >= HandshakeLimit

Accept(c) ==
  /\ mode = "loop" /\ stage[c] = "away" /\ c \in trial.comes
  /\ \/ ~Busy /\ stage' = [stage EXCEPT ![c] = "handshake"] /\ UNCHANGED wire
     \/ /\ Busy /\ stage' = [stage EXCEPT ![c] = "closed"]
        /\ \/ wire' = [wire EXCEPT ![c] = Append(@, Note("Rejected", NoReply))]
           \/ "delivery" \in trial.faults /\ UNCHANGED wire
  /\ UNCHANGED <<trial, loop, recorder, handler, seat, inbox, cut>>

\* handshake: no whole frame within five seconds.
HandshakeFails(c) ==
  /\ mode # "over" /\ "handshake" \in trial.faults
  /\ stage[c] = "handshake" /\ stage' = [stage EXCEPT ![c] = "closed"]
  /\ UNCHANGED <<trial, loop, recorder, handler, seat, inbox, wire, cut>>

\* handshake, join_decision.
FirstFrame(c) ==
  /\ mode # "over"
  /\ stage[c] = "handshake" /\ inbox[c] # <<>>
  /\ LET m == Head(inbox[c]) IN
     \/ /\ m.kind = "Join"
        /\ stage' = [stage EXCEPT ![c] = "joined"] /\ seat' = [seat EXCEPT ![c] = m.seat]
        /\ UNCHANGED wire
     \/ /\ m.kind # "Join"
        /\ stage' = [stage EXCEPT ![c] = "closed"] /\ UNCHANGED seat
        /\ \/ m.kind # "Eof" /\ wire' = [wire EXCEPT ![c] = Append(@, Note("Rejected", NoReply))]
           \/ (m.kind = "Eof" \/ "delivery" \in trial.faults) /\ UNCHANGED wire
  /\ inbox' = [inbox EXCEPT ![c] = Tail(@)]
  /\ UNCHANGED <<trial, loop, recorder, handler, cut>>

\* Faulty variant: only a full table is refused.
OccupiedOnlyWhenFull(s) == Playing(clients)
Occupied(s) == clients[s] # Nobody \/ Playing(clients)

Joined(c) ==
  /\ mode = "loop" /\ stage[c] = "joined"
  /\ \/ /\ Occupied(seat[c])
        /\ mode' = "occupied" /\ todo' = <<Sent(c, Note("Rejected", NoReply))>>
     \/ /\ ~Occupied(seat[c])
        /\ mode' = "join" /\ todo' = <<Sent(c, Note("Waiting", NoReply))>>
  /\ caller' = c
  /\ UNCHANGED <<trial, loop, recorder, failed, sockets, inbox, wire, cut>>

-----------------------------------------------------------------------------
\* accepts_revision.
AcceptsRevision(m) == ~ended /\ (m.based = revision \/ m.action = "resign")

\* The refusals that never reach the recorder.
Refused(s, m) == ~Playing(clients) \/ m.action = "unfit" \/ ~AcceptsRevision(m)

\* What recorder.submit did of the action; a resignation always ends the match.
Recorded(c, m, accepted, final) ==
  /\ m.action = "resign" => accepted /\ final
  /\ final => accepted
  /\ plays' = IF accepted THEN plays + 1 ELSE plays
  /\ ended' = final
  /\ revision' = revision + 1
  /\ mode' = "broadcast"
  /\ todo' = Broadcast(clients, revision + 1, plays', final, seat[c], m.id, accepted)
  /\ UNCHANGED clients

Submit(c, m) ==
  LET s == seat[c] IN
  \/ m.id <= requests[s] /\ Reply(c, m.id) /\ UNCHANGED <<loop, recorder>>
  \/ /\ m.id > requests[s] /\ requests' = [requests EXCEPT ![s] = m.id]
     /\ \/ Refused(s, m) /\ Reply(c, m.id) /\ UNCHANGED <<clients, revision, recorder>>
        \/ /\ ~Refused(s, m)
           /\ \E accepted, final \in BOOLEAN : Recorded(c, m, accepted, final)
        \/ /\ ~Refused(s, m) /\ "recording" \in trial.faults
           /\ StopAll /\ UNCHANGED <<clients, revision, recorder>>

\* One event of a seated connection's reader.
HandleMessage(c) ==
  /\ mode = "loop" /\ stage[c] = "seated" /\ inbox[c] # <<>>
  /\ LET m == Head(inbox[c]) IN
     \/ m.kind = "Submit" /\ Submit(c, m)
     \/ /\ m.kind = "OldSubmit"
        /\ mode' = "version" /\ todo' = <<Sent(c, Note("Rejected", m.id))>>
        /\ UNCHANGED <<loop, recorder>>
     \/ m.kind \in {"Join", "Garbage", "Eof"} /\ StopAll /\ UNCHANGED <<loop, recorder>>
  /\ inbox' = [inbox EXCEPT ![c] = Tail(@)]
  /\ UNCHANGED <<trial, failed, caller, sockets, wire, cut>>

\* ctrl_c is awaited between two events only.
Interrupt ==
  /\ mode = "loop" /\ "interrupt" \in trial.faults /\ StopAll
  /\ UNCHANGED <<trial, loop, recorder, failed, caller, sockets, inbox, wire, cut>>

-----------------------------------------------------------------------------
\* deliver, of the next frame, to a writer that takes it.
Deliver ==
  /\ todo # <<>> /\ ~cut[Head(todo).to]
  /\ wire' = [wire EXCEPT ![Head(todo).to] = Append(@, Head(todo).frame)]
  /\ todo' = Tail(todo)
  /\ UNCHANGED <<trial, loop, recorder, mode, failed, caller, sockets, inbox, cut>>

\* The modes that go on to the next frame when one cannot be delivered.
GoesOn(m) == m \in {"occupied", "broadcast", "stopping"}

FailToDeliver ==
  /\ todo # <<>> /\ (cut[Head(todo).to] \/ "delivery" \in trial.faults)
  /\ cut' = [cut EXCEPT ![Head(todo).to] = TRUE]
  /\ \/ /\ GoesOn(mode) /\ todo' = Tail(todo) /\ failed' = (failed \/ mode = "broadcast")
        /\ UNCHANGED mode
     \/ mode \notin {"reply", "version"} /\ ~GoesOn(mode) /\ StopAll /\ UNCHANGED failed
     \/ mode \in {"reply", "version"} /\ mode' = "over" /\ todo' = <<>> /\ UNCHANGED failed
  /\ UNCHANGED <<trial, loop, recorder, caller, sockets, inbox, wire>>

\* The rest of the handler once its frames are out.
Admit ==
  /\ mode = "join" /\ stage' = [stage EXCEPT ![caller] = "seated"]
  /\ clients' = [clients EXCEPT ![seat[caller]] = caller]
  /\ \/ /\ Playing(clients') /\ mode' = "broadcast"
        /\ todo' = Broadcast(clients', revision, plays, ended, NoSeat, NoReply, TRUE)
     \/ ~Playing(clients') /\ mode' = "loop" /\ UNCHANGED todo
  /\ UNCHANGED failed
TurnAway ==
  /\ mode = "occupied" /\ stage' = [stage EXCEPT ![caller] = "closed"]
  /\ mode' = "loop" /\ UNCHANGED <<todo, failed, clients>>
Announced ==
  /\ mode = "broadcast" /\ failed' = FALSE
  /\ \/ failed /\ StopAll
     \/ ~failed /\ mode' = (IF ended THEN "over" ELSE "loop") /\ UNCHANGED todo
  /\ UNCHANGED <<stage, clients>>
Resume ==
  /\ \/ mode = "reply" /\ mode' = "loop" /\ UNCHANGED todo
     \/ mode = "version" /\ StopAll
     \/ mode = "stopping" /\ mode' = "over" /\ UNCHANGED todo
  /\ UNCHANGED <<stage, clients, failed>>

Conclude ==
  /\ todo = <<>>
  /\ Admit \/ TurnAway \/ Announced \/ Resume
  /\ caller' = Nobody
  /\ UNCHANGED <<trial, revision, requests, recorder, seat, inbox, wire, cut>>

-----------------------------------------------------------------------------
ServerInit ==
  /\ trial \in Trials
  /\ clients = [s \in Seat |-> Nobody] /\ revision = 0 /\ requests = [s \in Seat |-> 0]
  /\ plays = 0 /\ ended = FALSE
  /\ mode = "loop" /\ todo = <<>> /\ failed = FALSE /\ caller = Nobody
  /\ stage = [c \in Conn |-> "away"] /\ seat = [c \in Conn |-> NoSeat]
  /\ inbox = [c \in Conn |-> <<>>] /\ wire = [c \in Conn |-> <<>>]
  /\ cut = [c \in Conn |-> FALSE]

ServerStep ==
  \/ \E c \in Conn : \/ Accept(c) \/ HandshakeFails(c) \/ FirstFrame(c)
                     \/ Joined(c) \/ HandleMessage(c)
  \/ Interrupt \/ Deliver \/ FailToDeliver \/ Conclude

(* The reader tasks, the writers and the loop run while the process does.   *)
(* The event channel is first in, first out, so an event waits only for     *)
(* those sent before it: strong fairness for each connection.               *)
Served(c) == FirstFrame(c) \/ Joined(c) \/ HandleMessage(c)
ServerFairness ==
  /\ \A c \in Conn : SF_server(Served(c))
  /\ WF_server(Deliver \/ FailToDeliver \/ Conclude)
=============================================================================
