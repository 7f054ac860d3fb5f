------------------------------- MODULE MCProgram -------------------------------
(* Peers a, b and c, of whom only c is known by name and path.  When b comes in c's  *)
(* place the galleries between may have been dropped.                                *)
EXTENDS Program

CONSTANTS a, b, c, Direct

Tile(peer, name, kind) == [peer |-> peer, name |-> name, kind |-> kind]

MCGalleries ==
  { <<>>,
    <<Tile(a, None, Unknown), Tile(c, c, Direct)>>,
    <<Tile(a, None, Unknown), Tile(b, None, Unknown)>> }
===============================================================================
