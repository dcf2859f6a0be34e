----------------------------- MODULE MCSockets ------------------------------
(* Sockets, for TLC; the objects are interchangeable.                       *)
EXTENDS Sockets, TLC

ObjectSymmetry == Permutations(Objects)
==============================================================================
