--------------------------- MODULE MCPacketRelay ----------------------------
(***************************************************************************)
(* PacketRelay with one height, at which the client's states replace each  *)
(* other, and a few blocks on either side.                                 *)
(***************************************************************************)
EXTENDS PacketRelay, TLC

SymmetricAcks == Permutations(Acks)

OneHeight == {get_self_height(1)}
=============================================================================
