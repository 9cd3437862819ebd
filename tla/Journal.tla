------------------------------ MODULE Journal ------------------------------
(***************************************************************************)
(* What a transcript amounts to, with lines, numbers and failures          *)
(* forgotten: a list of whole steps of the engine, each taken from the     *)
(* state the steps before it led to, and a seal that only a match that     *)
(* ended with one GameEnded event may get.                                 *)
(***************************************************************************)
EXTENDS Transcript

CONSTANT Engine

VARIABLES steps,   \* the whole steps on record
          digest,  \* the digest of the state they lead to
          sealed   \* the transcript is complete

journal == <<steps, digest, sealed>>

Current == {s \in GameState : DigestOf[s] = digest}

Blank == steps = <<>> /\ digest = NoDigest /\ sealed = FALSE

Open ==
  /\ digest = NoDigest
  /\ \E s \in GameState : StatusOf[s] = Playing /\ digest' = DigestOf[s]
  /\ UNCHANGED <<steps, sealed>>

Accept(s, a) ==
  /\ Engine[s, a].accepted
  /\ digest' = DigestOf[Engine[s, a].state]
  /\ steps' = Append(steps, AcceptedStep(a, Engine[s, a].events, digest'))

Reject(s, a) ==
  /\ ~Engine[s, a].accepted
  /\ digest' = digest
  /\ steps' = Append(steps, RejectedStep(a, Engine[s, a].error, digest))

Play ==
  /\ ~sealed
  /\ \E s \in Current, a \in GameAction :
       StatusOf[s] = Playing /\ (Accept(s, a) \/ Reject(s, a))
  /\ UNCHANGED sealed

Seal ==
  /\ ~sealed /\ sealed' = TRUE
  /\ steps # <<>> /\ steps[Len(steps)].accepted
  /\ \E s \in Current : OneGameEnded(steps[Len(steps)].events, StatusOf[s])
  /\ UNCHANGED <<steps, digest>>

Advances == Open \/ Play \/ Seal

JournalSpec == Blank /\ [][Advances]_journal
=============================================================================
