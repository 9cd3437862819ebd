----------------------------- MODULE MCSession -----------------------------
(***************************************************************************)
(* One match between a host and its terminal clients, and what makes it    *)
(* correct, for TLC.                                                       *)
(***************************************************************************)
EXTENDS Client

CONSTANTS Alice, Bob, Mallory
MCConn == {Alice, Bob, Mallory}
MCHonest == {Alice, Bob}

\* What a connection that is not the client sends.
MCFrames ==
  {Plain("Join", 1, 0), Plain("Garbage", NoSeat, 0), Plain("OldSubmit", NoSeat, 1),
   Submission(1, 0, "resign", {}), Submission(1, 0, "unfit", {})}

Trial(comes, faults, lines, frames) ==
  [comes |-> comes, faults |-> faults, frames |-> frames,
   player |-> [c \in MCHonest |-> IF c = Alice THEN 1 ELSE 2],
   lines |-> [c \in MCHonest |-> IF c = Alice THEN lines[1] ELSE lines[2]]]

MCTrials ==
  {Trial(MCHonest, {"recording"}, <<2, 1>>, 0),
   Trial(MCHonest, {"delivery", "leaving"}, <<1, 0>>, 0),
   Trial(MCConn, {"handshake"}, <<0, 0>>, 2),
   Trial({Bob, Mallory}, {"interrupt", "delivery"}, <<0, 0>>, 3),
   Trial(MCConn, {"delivery"}, <<0, 0>>, 0)}

\* Two people, and nothing that fails.
MCGiveUp == {Trial(MCHonest, {}, <<3, 1>>, 0)}
=============================================================================
