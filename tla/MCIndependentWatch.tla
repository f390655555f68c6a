------------------------- MODULE MCIndependentWatch -------------------------
(***************************************************************************)
(* The setups under which IndependentWatch is checked.                     *)
(***************************************************************************)
EXTENDS IndependentWatch

Mix(app, scatter, reset, start, stop, put, snap, retry, fail) ==
  [k \in Kinds |-> CASE k = "app"     -> app
                     [] k = "scatter" -> scatter
                     [] k = "reset"   -> reset
                     [] k = "start"   -> start
                     [] k = "stop"    -> stop
                     [] k = "put"     -> put
                     [] k = "snap"    -> snap
                     [] k = "retry"   -> retry
                     [] k = "fail"    -> fail]

Setup(m, mix) == [mode |-> m, budget |-> mix]

\* Direct: resets of the WAL with a failed put, a stop, snapshot ticks.
\* Cache: a reset before the WAL is pinned, a stop and an upload given up, an
\* upload repeated around a snapshot tick, an upload given up behind others.
FaultSetups ==
  {Setup("direct", Mix(2, 0, 1, 1, 0, 1, 1, 0, 0)),
   Setup("direct", Mix(1, 0, 1, 2, 1, 1, 0, 0, 0)),
   Setup("direct", Mix(1, 0, 2, 2, 1, 0, 1, 0, 0)),
   Setup("cache",  Mix(1, 0, 1, 1, 0, 0, 0, 0, 0)),
   Setup("cache",  Mix(1, 0, 0, 2, 1, 0, 0, 0, 1)),
   Setup("cache",  Mix(1, 0, 0, 1, 0, 0, 1, 1, 0)),
   Setup("cache",  Mix(2, 0, 0, 1, 0, 0, 0, 0, 1)),
   Setup("cache",  Mix(0, 0, 0, 2, 0, 0, 1, 0, 1)),
   Setup("cache",  Mix(0, 1, 0, 2, 0, 0, 0, 0, 0))}

\* A commit that leaves the file laid out as VACUUM INTO would not.
LayoutSetups == {Setup("direct", Mix(1, 1, 0, 1, 0, 0, 0, 0, 0))}

=============================================================================
