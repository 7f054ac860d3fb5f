-------------------------------- MODULE Playout --------------------------------
(* What a playout buffer promises: batch by batch, everything that is put out is  *)
(* later than everything that was put out before.                                 *)
EXTENDS Integers, Sequences

VARIABLE out

PlayoutInit == out = <<>>

PutOut(batch) ==
  /\ batch # {}
  /\ \A i \in DOMAIN out : \A old \in out[i], new \in batch : old < new
  /\ out' = Append(out, batch)

PlayoutNext == Len(out') > 0 /\ PutOut(out'[Len(out')])

PlayoutSpec == PlayoutInit /\ [][PlayoutNext]_out
===============================================================================
