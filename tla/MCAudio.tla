------------------------------- MODULE MCAudio -------------------------------
(* A small instance of Audio: one member that talks.                       *)
EXTENDS Audio
CONSTANT p1
MCSources == {<<p1, "mic">>}
=============================================================================
