---------------------------- MODULE ProofQueries ----------------------------
(***************************************************************************)
(* The queries of the contract (src/src/contract/mod.rs): does the chain   *)
(* that the client follows hold a value at a path, by the root of the      *)
(* consensus state that the host passes in?  Those about packets make sure *)
(* first that the delay of the connection has passed.                      *)
(*                                                                         *)
(* A message is a record with the fields of the Rust variant; `channel`    *)
(* stands for port_id and channel_id, `proof` is the decoded chain.  The   *)
(* paths are those of ICS 24.                                              *)
(***************************************************************************)
EXTENDS ClientContract

(* util.rs: eight bytes, the most significant first; injective on u64. *)
u64_to_big_endian(value) == <<"uint64", value>>

(* What decoding base64 gives. *)
Bytes(value) == <<"bytes", value>>

ReceiptPath(channel, sequence) == <<"receipts", channel, sequence>>

Verdict(msg, path, value) ==
    LET prefixed == apply_prefix(msg.commitment_prefix, <<path>>)
    IN  IF prefixed.res # "Ok" THEN prefixed.res
        ELSE verify_membership(msg.proof, msg.consensus_state.root,
                               prefixed.key_path, value)

DelayedVerdict(env, store, msg, verdict) ==
    LET waited == verify_delay_period_passed(env, store, msg.height,
                        msg.delay_time_period, msg.delay_block_period)
    IN  IF waited # "Ok" THEN waited ELSE verdict

-----------------------------------------------------------------------------
(* CosmosClientState and CosmosConsensusState are the fields the contract  *)
(* knows; others that the message had are not in the JSON that is proven.  *)
verify_client_state(msg) ==
    Verdict(msg, <<"clients", msg.counterparty_client_identifier>>,
        Json([latest_height |->
                msg.counterparty_client_state.latest_height]))

verify_client_consensus_state(msg) ==
    Verdict(msg,
        <<"consensusStates", msg.counterparty_client_identifier,
          msg.consensus_height>>,
        Json([root |-> msg.counterparty_consensus_state.root]))

verify_connection_state(msg) ==
    Verdict(msg, <<"connections", msg.connection_id>>,
            Json(msg.connection_end))

verify_channel_state(msg) ==
    Verdict(msg, <<"channelEnds", msg.channel>>, Json(msg.channel_end))

verify_packet_commitment(env, store, msg) ==
    DelayedVerdict(env, store, msg,
        Verdict(msg, <<"commitments", msg.channel, msg.sequence>>,
                Bytes(msg.commitment_bytes)))

(* Mutant: nobody waits for an acknowledgement. *)
verify_packet_acknowledgment_AtOnce(env, store, msg) ==
    Verdict(msg, <<"acks", msg.channel, msg.sequence>>,
            Bytes(msg.acknowledgement))

verify_packet_acknowledgment(env, store, msg) ==
    DelayedVerdict(env, store, msg,
        Verdict(msg, <<"acks", msg.channel, msg.sequence>>,
                Bytes(msg.acknowledgement)))

(* Mutant: absent from whatever tree the proof is of. *)
verify_packet_receipt_absence_AnyRoot(env, store, msg) ==
    DelayedVerdict(env, store, msg,
        IF msg.proof = <<>> THEN "Panic"
        ELSE IF ics23_verify_non_membership(msg.proof[1], specs[1],
                msg.proof[1].root, ReceiptPath(msg.channel, msg.sequence))
        THEN "Ok" ELSE "InvalidProof")

(* Only the first proof is looked at, against the root itself: there is no *)
(* subroot for a proof of absence, as the comment there says, and a tree   *)
(* below another one cannot be asked.                                      *)
verify_packet_receipt_absence(env, store, msg) ==
    LET path == ReceiptPath(msg.channel, msg.sequence)
        prefixed == apply_prefix(msg.commitment_prefix, <<path>>)
        absent == ics23_verify_non_membership(msg.proof[1], specs[1],
                        msg.consensus_state.root, path)
    IN  DelayedVerdict(env, store, msg,
            IF prefixed.res # "Ok" THEN prefixed.res
            ELSE IF msg.proof = <<>> THEN "Panic"
            ELSE IF absent THEN "Ok" ELSE "InvalidProof")

verify_next_sequence_recv(env, store, msg) ==
    DelayedVerdict(env, store, msg,
        Verdict(msg, <<"nextSequenceRecv", msg.channel>>,
                u64_to_big_endian(msg.next_sequence_recv)))

-----------------------------------------------------------------------------
(* The proof queries of the dispatcher, by the variant of the message. *)
query(env, store, variant, msg) ==
    CASE variant = "VerifyClientState" -> verify_client_state(msg)
      [] variant = "VerifyClientConsensusState" ->
            verify_client_consensus_state(msg)
      [] variant = "VerifyConnectionState" -> verify_connection_state(msg)
      [] variant = "VerifyChannelState" -> verify_channel_state(msg)
      [] variant = "VerifyPacketCommitment" ->
            verify_packet_commitment(env, store, msg)
      [] variant = "VerifyPacketAcknowledgement" ->
            verify_packet_acknowledgment(env, store, msg)
      [] variant = "VerifyPacketReceiptAbsence" ->
            verify_packet_receipt_absence(env, store, msg)
      [] variant = "VerifyNextSequenceRecv" ->
            verify_next_sequence_recv(env, store, msg)
=============================================================================
