--------------------------- MODULE MCPagePipeline ---------------------------
(***************************************************************************)
(* What SQLite does to the WAL while PagePipeline reads it: frames written,*)
(* torn or rolled back, and resets.                                        *)
(***************************************************************************)
EXTENDS PagePipeline

Mix(frame, torn, reset) == [k \in PageKinds |->
  CASE k = "frame" -> frame [] k = "torn" -> torn [] k = "reset" -> reset]

FaultMixes == {Mix(2, 1, 1), Mix(2, 0, 2), Mix(3, 0, 1), Mix(3, 1, 0)}

=============================================================================
