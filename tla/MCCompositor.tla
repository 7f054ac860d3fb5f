------------------------------ MODULE MCCompositor ------------------------------
(* One peer that comes and goes beside the own tile.  What kind of path it has does *)
(* not matter to the properties, so that the kinds may be the same value: their     *)
(* commands still take their places in the channel.  Nor does the own name.         *)
EXTENDS Compositor
===============================================================================
