-------------------------------- MODULE MCAudio --------------------------------
(* A delay of one frame and channels that are full soon. *)
EXTENDS AudioPath
===============================================================================
