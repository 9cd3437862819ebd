---------------------------- MODULE TurnProtocol ----------------------------
(***************************************************************************)
(* What the engine promises about turns, with everything else forgotten:   *)
(* "Phases only move forward" (rules section 9), the turn passes to the    *)
(* opponent only out of a Main or Combat Phase and always into an Upkeep,  *)
(* and a match that is over never moves again.                             *)
(***************************************************************************)
VARIABLES player,   \* whose turn it is
          stage,    \* the phase of that turn
          over      \* the match has ended or broken

turn == <<player, stage, over>>

Seat == {"One", "Two"}
Other(p) == IF p = "One" THEN "Two" ELSE "One"

Init ==
  /\ player \in Seat
  /\ stage = "Main"
  /\ over = FALSE

EnterMain ==
  /\ ~over /\ stage = "Upkeep"
  /\ stage' = "Main"
  /\ UNCHANGED <<player, over>>

EnterCombat ==
  /\ ~over /\ stage = "Main"
  /\ stage' = "Combat"
  /\ UNCHANGED <<player, over>>

PassTurn ==
  /\ ~over /\ stage \in {"Main", "Combat"}
  /\ player' = Other(player)
  /\ stage' = "Upkeep"
  /\ UNCHANGED over

Finish ==
  /\ ~over
  /\ over' = TRUE
  /\ UNCHANGED <<player, stage>>

Next == EnterMain \/ EnterCombat \/ PassTurn \/ Finish

Spec == Init /\ [][Next]_turn
=============================================================================
