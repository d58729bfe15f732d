-------------------------- MODULE MCWriteThreshold --------------------------
(* An instance of WriteThreshold with a period of eight units.             *)
EXTENDS WriteThreshold

(* Values on both sides of every test the code makes on kernel_frames: far *)
(* below zero, an empty buffer, and both sides of depletion.              *)
MCGarbage == {-20, 0, 9, 47, 70}
MCWriteSizes == {3, 8}
==============================================================================
