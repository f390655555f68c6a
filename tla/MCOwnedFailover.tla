---------------------------- MODULE MCOwnedFailover ----------------------------
(***************************************************************************)
(* The mixes of faults under which OwnedFailover is checked.               *)
(***************************************************************************)
EXTENDS OwnedFailover

Mix(commit, tick, move, compact, fail, stop, cut, found, run) ==
  [k \in Kinds |-> CASE k = "commit"  -> commit
                     [] k = "tick"    -> tick
                     [] k = "move"    -> move
                     [] k = "compact" -> compact
                     [] k = "fail"    -> fail
                     [] k = "stop"    -> stop
                     [] k = "cut"     -> cut
                     [] k = "found"   -> found
                     [] k = "run"     -> run]

FaultMixes ==
  {Mix(2, 0, 1, 0, 0, 0, 0, 1, 0), Mix(3, 0, 1, 1, 0, 0, 0, 0, 0),
   Mix(2, 1, 1, 0, 0, 0, 0, 0, 0), Mix(2, 0, 2, 0, 0, 1, 0, 0, 0),
   Mix(2, 0, 1, 0, 1, 0, 0, 0, 0), Mix(3, 0, 0, 0, 0, 0, 1, 0, 0),
   Mix(2, 0, 0, 0, 0, 1, 0, 0, 1)}

=============================================================================
