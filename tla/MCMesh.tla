------------------------------- MODULE MCMesh -------------------------------
(* Mesh with two senders; b may have the receiver's id.                     *)
EXTENDS Mesh

CONSTANTS a, b

MCSenders == {a, b}
MCIds == [s \in MCSenders |-> IF s = a THEN 1 ELSE 2]
=============================================================================
