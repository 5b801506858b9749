----------------------- MODULE MCUpstreamAdministration -----------------------
(***************************************************************************)
(* A small instance: one user who may upload one upstream under either of  *)
(* two numbers, which administrators use as well; one group.               *)
(***************************************************************************)
EXTENDS UpstreamAdministration, TLC

MCNumbers == 1..2
KeySymmetry == Permutations(Keys)
===============================================================================
