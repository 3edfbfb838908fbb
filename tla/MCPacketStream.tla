--------------------------- MODULE MCPacketStream ---------------------------
(* Two connections; payloads that hold MAGIC, with a length of 0 behind it. *)
EXTENDS PacketStream

MCSent ==
  << <<[no |-> 1, payload |-> <<M, M, 0>>], [no |-> 2, payload |-> <<>>]>>,
     <<[no |-> 1, payload |-> <<M>>], [no |-> 2, payload |-> <<>>]>> >>
MCPortions == {1, 8}
=============================================================================
