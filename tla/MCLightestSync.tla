--------------------------- MODULE MCLightestSync ---------------------------
(***************************************************************************)
(* Three validators at first; two may join at the end of an epoch of two   *)
(* blocks, so that three commits are a quorum before and none after.       *)
(***************************************************************************)
EXTENDS LightestSync

V(address, key) == [address |-> address, public_key |-> key]

MCGenesisSet == <<V("a", "ka"), V("b", "kb"), V("c", "kc")>>
MCCandidates == {V("b", "kb2"), V("d", "kd"), V("e", "ke")}
=============================================================================
