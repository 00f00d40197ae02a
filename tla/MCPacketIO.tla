----------------------------- MODULE MCPacketIO -----------------------------
(* Model-checking instance of PacketIO: bytes of two bits, so that headers *)
(* with either byte in the upper half belong to short packets.  The last   *)
(* packet is longer than a header can say.                                 *)
EXTENDS PacketIO

MCPackets == {<<>>, <<3>>, <<0, 1>>, <<1, 2, 3, 0, 1, 2, 3, 0, 1>>,
              [i \in 1..18 |-> i % 3]}
=============================================================================
