---------------------------- MODULE MCOwnedStream ----------------------------
(***************************************************************************)
(* The fault mixes under which OwnedStream is checked.                     *)
(***************************************************************************)
EXTENDS OwnedStream

Mix(app, stop, put, save, busy, ext, tick) ==
  [k \in Kinds |-> CASE k = "app"  -> app
                     [] k = "stop" -> stop
                     [] k = "put"  -> put
                     [] k = "save" -> save
                     [] k = "busy" -> busy
                     [] k = "ext"  -> ext
                     [] k = "tick" -> tick]

\* A stop, a failed or unanswered put, a failed save and a foreign checkpoint; a stop,
\* a foreign checkpoint and a snapshot tick; a tick that ends busy, after which another
\* connection may truncate the WAL.
CrashMixes ==
  {Mix(2, 1, 1, 1, 0, 1, 0), Mix(2, 1, 0, 0, 0, 1, 1), Mix(1, 0, 0, 0, 1, 1, 1)}

\* No failed request: a stop and a foreign checkpoint; a foreign checkpoint and a
\* snapshot tick; a busy checkpoint, after which the WAL is not pinned, and snapshot
\* ticks.
LiveMixes ==
  {Mix(2, 1, 0, 0, 0, 1, 0), Mix(2, 0, 0, 0, 0, 1, 1), Mix(2, 0, 0, 0, 1, 0, 2)}

\* Mixes under which what the code's documentation says does not hold.
FailedPut == {Mix(2, 0, 1, 0, 0, 0, 0)}
BusyGap   == {Mix(2, 1, 0, 0, 1, 1, 0)}
TickCrash == {Mix(3, 1, 0, 0, 0, 0, 1)}

=============================================================================
