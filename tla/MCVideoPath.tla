------------------------------ MODULE MCVideoPath ------------------------------
(* One viewer and a handful of frames. *)
EXTENDS VideoPath
===============================================================================
