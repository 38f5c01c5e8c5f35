-------------------------- MODULE MCSignalingServer --------------------------
(* Constants of the model-checked instances of SignalingServer. *)
EXTENDS SignalingServer, TLC

(* Connections are interchangeable, and so are rooms; no property names one. *)
ServerSymmetry == Permutations(Conns) \cup Permutations(RoomIds)

OwnOnly == {TRUE}
AnyClaim == {TRUE, FALSE}
=============================================================================
