--------------------------- MODULE MCExternalDelta ---------------------------
(***************************************************************************)
(* The mixes of faults under which ExternalDelta is checked.               *)
(***************************************************************************)
EXTENDS ExternalDelta

Mix(commit, reset, base, fail, stop, move) ==
  [k \in Kinds |-> CASE k = "commit" -> commit
                     [] k = "reset"  -> reset
                     [] k = "base"   -> base
                     [] k = "fail"   -> fail
                     [] k = "stop"   -> stop
                     [] k = "move"   -> move]

FaultMixes ==
  {Mix(3, 0, 1, 0, 0, 1), Mix(3, 0, 2, 0, 0, 1), Mix(3, 0, 1, 0, 1, 0), Mix(2, 1, 1, 1, 0, 0),
   Mix(2, 1, 1, 0, 1, 0)}

=============================================================================
