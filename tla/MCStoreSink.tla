---------------------------- MODULE MCStoreSink ----------------------------
(* Three frames make up to nine rows against a batch of three, so flushes  *)
(* by size fall on each of the three writes of a frame and leave every     *)
(* mixture of tables behind; two clock readings make a batch old enough or *)
(* not.  Frames are interchangeable: the model never compares two of them. *)
EXTENDS StoreSink, TLC

FrameSymmetry == Permutations(Frames)
MCTimes == 0 .. 1
=============================================================================
