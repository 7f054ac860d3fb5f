------------------------------ MODULE MCVideoSend ------------------------------
(* Two sessions, a short packet channel and a handful of frames.  The properties  *)
(* are safety properties and treat the sessions alike.                           *)
EXTENDS VideoSend, TLC

Symmetry == Permutations(Sessions)
===============================================================================
