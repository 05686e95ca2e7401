---------------------------- MODULE MCEpochSync -----------------------------
(***************************************************************************)
(* Three validators, epochs of two blocks, two elections: at each, one     *)
(* validator may leave and one may join, a new one or an old one with a    *)
(* new key.                                                                *)
(***************************************************************************)
EXTENDS EpochSync

V(address, key) == [address |-> address, public_key |-> key]

MCGenesisSet == <<V("a", "ka"), V("b", "kb"), V("c", "kc")>>
MCCandidates == {V("b", "kb2"), V("d", "kd")}

MCConfig == [epoch_size |-> EpochSize, allowed_clock_skew |-> 1,
             verify_epoch_headers |-> TRUE, verify_non_epoch_headers |-> TRUE,
             verify_header_timestamp |-> TRUE]
=============================================================================
