-------------------------------- MODULE MCMesh --------------------------------
(* Mesh on three participants. *)
EXTENDS Mesh

ThreePeers == 1..3
TwoPeers == 1..2

\* Anyone may be given anyone's ticket.
AllInvites3 == {i \in ThreePeers \X ThreePeers : i[1] # i[2]}
AllInvites2 == {i \in TwoPeers \X TwoPeers : i[1] # i[2]}

\* One that dials one of the others and is dialled by the other.
Middle == {2}

\* 1 and 3 are invited by 2.
StarInvites == {<<1, 2>>, <<3, 2>>}
===============================================================================
