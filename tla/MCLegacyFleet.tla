---------------------------- MODULE MCLegacyFleet ----------------------------
(***************************************************************************)
(* The mixes of faults under which LegacyFleet is checked.                 *)
(***************************************************************************)
EXTENDS LegacyFleet

Faults(seq, restart, op, torn, window) ==
  [k \in FleetKinds |-> CASE k = "seq"     -> seq
                          [] k = "restart" -> restart
                          [] k = "op"      -> op
                          [] k = "torn"    -> torn
                          [] k = "window"  -> window
                          [] k = "batch"   -> 2
                          [] OTHER         -> 0]

With(mix, kind) == [mix EXCEPT ![kind] = 1]

\* The same, with batches of up to three files.
Larger(mix) == [mix EXCEPT !["batch"] = 3]

FaultMixes ==
  {Larger(Faults(4, 1, 1, 1, 1)), Larger(Faults(5, 0, 1, 0, 1)),
   With(Faults(4, 0, 0, 0, 1), "prune"), With(Faults(5, 0, 1, 0, 0), "prune"),
   With(Faults(4, 0, 0, 0, 0), "restore"),
   With(With(Faults(3, 0, 0, 0, 0), "restore"), "prune"),
   With(With(Faults(3, 0, 0, 0, 0), "verify"), "prune"),
   With(Faults(4, 0, 0, 0, 0), "verify"), With(Faults(3, 0, 1, 0, 0), "verify"),
   With(With(Faults(3, 0, 0, 0, 0), "replica"), "prune"),
   With(With(Faults(4, 0, 0, 0, 0), "replica"), "stop")}

\* Room for a lone file, a merge behind it that is cut short, and a file after it.
LoneFile == {Larger(Faults(7, 1, 1, 0, 0))}

=============================================================================
