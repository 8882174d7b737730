---------------------------- MODULE MCImageLaunch ----------------------------
(* The launch chains for TLC.  Images and commits are model values: they are
   compared and never ordered, so they may be exchanged.                     *)
EXTENDS ImageLaunch, TLC

Interchangeable == Permutations(Images) \cup Permutations(Commits)
=============================================================================
