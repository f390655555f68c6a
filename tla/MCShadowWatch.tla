---------------------------- MODULE MCShadowWatch ----------------------------
(***************************************************************************)
(* The mixes of faults under which ShadowWatch is checked.                 *)
(***************************************************************************)
EXTENDS ShadowWatch

Mix(app, reset, start, stop, put, snap, ckpt, retry, fail) ==
  [k \in Kinds |-> CASE k = "app"   -> app
                     [] k = "reset" -> reset
                     [] k = "start" -> start
                     [] k = "stop"  -> stop
                     [] k = "put"   -> put
                     [] k = "snap"  -> snap
                     [] k = "ckpt"  -> ckpt
                     [] k = "retry" -> retry
                     [] k = "fail"  -> fail]

Setup(m, mix) == [mode |-> m, budget |-> mix]

\* Direct: a failed request among snapshot and checkpoint ticks; a crash, a failed
\* request and a reset while down; two crashes and two resets; a crash and a
\* reset around a checkpoint; checkpoints in a row.
DirectSetups ==
  {Setup("direct", Mix(2, 0, 1, 0, 1, 1, 1, 0, 0)), Setup("direct", Mix(1, 1, 2, 1, 1, 0, 0, 0, 0)),
   Setup("direct", Mix(0, 2, 3, 2, 0, 0, 0, 0, 0)), Setup("direct", Mix(1, 1, 2, 1, 0, 0, 1, 0, 0)),
   Setup("direct", Mix(1, 0, 1, 0, 0, 0, 2, 0, 0))}

\* Cache: a checkpoint with an upload that fails; a snapshot tick before a
\* checkpoint; a crash and a reset around a checkpoint; a crash with uploads
\* waiting; a crash with uploads repeated; checkpoints in a row; a failed request.
CacheSetups ==
  {Setup("cache", Mix(2, 0, 1, 0, 0, 0, 1, 0, 1)), Setup("cache", Mix(1, 0, 1, 0, 0, 1, 1, 0, 0)),
   Setup("cache", Mix(0, 1, 2, 1, 0, 0, 1, 0, 0)), Setup("cache", Mix(1, 0, 2, 1, 0, 0, 0, 0, 0)),
   Setup("cache", Mix(0, 0, 2, 1, 0, 0, 1, 1, 0)), Setup("cache", Mix(1, 0, 1, 0, 0, 0, 2, 0, 0)),
   Setup("cache", Mix(1, 0, 1, 0, 1, 0, 0, 0, 0))}

FaultSetups == DirectSetups \cup CacheSetups

\* A commit between the copy before a checkpoint and the checkpoint.
OvertakenSetups == {Setup("direct", Mix(2, 0, 1, 0, 0, 0, 1, 0, 0))}

=============================================================================
