------------------------ MODULE MCNonEpochUnchecked -------------------------
(***************************************************************************)
(* EpochSync with verify_non_epoch_headers off.  Six validators is the     *)
(* least number for which a quorum of the set before an election is also,  *)
(* position by position, a quorum of the set after it.                     *)
(***************************************************************************)
EXTENDS EpochSync

V(address, key) == [address |-> address, public_key |-> key]

MCGenesisSet == <<V("a", "ka"), V("b", "kb"), V("c", "kc"),
                  V("d", "kd"), V("e", "ke"), V("f", "kf")>>

MCConfig == [epoch_size |-> EpochSize, allowed_clock_skew |-> 1,
             verify_epoch_headers |-> TRUE, verify_non_epoch_headers |-> FALSE,
             verify_header_timestamp |-> TRUE]
=============================================================================
