---------------------------- MODULE MCEpcSystem ----------------------------
(***************************************************************************)
(* EpcSystem and its refinement for TLC.  Listeners are interchangeable;   *)
(* clients are not (NoKey chooses one).                                    *)
(***************************************************************************)
EXTENDS EpcRpcRefinement, EpcInvariants, TLC

ListenerSymmetry == Permutations(Server)
=============================================================================
