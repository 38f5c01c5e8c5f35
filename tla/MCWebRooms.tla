----------------------------- MODULE MCWebRooms -----------------------------
(* WebRooms for TLC: the browsers are interchangeable.                     *)
EXTENDS WebRooms, TLC

BrowserSymmetry == Permutations(Browsers)
=============================================================================
