-------------------------- MODULE MCHostedClients ---------------------------
(***************************************************************************)
(* HostedClients in two sizes: one client of a chain with elections, and   *)
(* two clients of a chain whose validators stay.                           *)
(***************************************************************************)
EXTENDS HostedClients

V(address, key) == [address |-> address, public_key |-> key]

ThreeValidators == <<V("a", "ka"), V("b", "kb"), V("c", "kc")>>
OneValidator == <<V("a", "ka")>>
MCCandidates == {V("d", "kd")}

H(revision, height) ==
    [revision_number |-> revision, revision_height |-> height]

TwoHeights == {H(0, 1), H(0, 2)}
ThreeHeights == {H(0, 1), H(0, 2), H(0, 3)}
MCUpgradeHeight == H(1, 1)
NoUpgrade == H(0, 0)

LightClientState(trusting_period) ==
    [epoch_size |-> EpochSize, allowed_clock_skew |-> 3,
     trusting_period |-> trusting_period, upgrade_path |-> <<"upgrade">>,
     verify_epoch_headers |-> TRUE, verify_non_epoch_headers |-> TRUE,
     verify_header_timestamp |-> TRUE,
     allow_update_after_misbehavior |-> FALSE,
     allow_update_after_expiry |-> TRUE]

LongTrust == LightClientState(90)
ShortTrust == LightClientState(1)

SymmetricClients == Permutations(Clients)
=============================================================================
