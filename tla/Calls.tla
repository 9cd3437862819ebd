-------------------------------- MODULE Calls --------------------------------
(***************************************************************************)
(* One call of a pure function: what it is called with and what it         *)
(* returns.  The modules that extend this one list the calls to check, one *)
(* initial state each, and the step that makes them.                       *)
(***************************************************************************)
VARIABLES call, result

vars == <<call, result>>

NotCalled == [made |-> FALSE]
Returns(r) ==
  /\ result' = [f \in DOMAIN r \cup {"made"} |-> IF f = "made" THEN TRUE ELSE r[f]]
  /\ UNCHANGED call
Made(fn) == call.fn = fn /\ result.made
=============================================================================
