--------------------------- MODULE ClientContract ---------------------------
(***************************************************************************)
(* The light client contract (src/src/contract): each operator is one      *)
(* handler.  It takes what the host passes in (the block's time and        *)
(* height, the client state `me`, consensus states) and the client's       *)
(* store, and returns the verdict, the store and the states the host is    *)
(* given back.                                                             *)
(*                                                                         *)
(* A client state is [data, frozen, frozen_height, latest_height], with    *)
(* the LightClientState decoded in `data`.  A consensus state is           *)
(* [snapshot, timestamp, root], with the LightConsensusState decoded in    *)
(* `snapshot`.  A store is [consensusStates, processed]: functions whose   *)
(* domains are the heights that have an entry.  The keys of processed time *)
(* and height are written together and are one entry here.  Encodings of   *)
(* the messages, and identifiers in them, are taken to be well formed.     *)
(***************************************************************************)
EXTENDS State, Membership

(* None, for an optional height: below every height, as Option orders it. *)
NoHeight == [revision_number |-> -1, revision_height |-> 0]

(* Mutant: two heights are only told apart. *)
Higher_Differs(a, b) == a # b

(* Ord for Height *)
Higher(a, b) ==
    \/ a.revision_number > b.revision_number
    \/ /\ a.revision_number = b.revision_number
       /\ a.revision_height > b.revision_height

get_self_height(block_height) ==
    [revision_number |-> 0, revision_height |-> block_height]

Put(entries, key, entry) ==
    [k \in DOMAIN entries \cup {key} |-> IF k = key THEN entry ELSE entries[k]]

EmptyStore == [consensusStates |-> <<>>, processed |-> <<>>]

(* The host writes a consensus state in the encoding that it and the       *)
(* contract read.                                                          *)
HostWrites(store, height, consensus_state) ==
    [store EXCEPT !.consensusStates =
        Put(@, height, [readable |-> TRUE, state |-> consensus_state])]

(* Mutant: the bytes are written under the other client's prefix. *)
set_consensus_state_Elsewhere(store, height, bytes) == store

(* The contract writes the bytes it is given as a JSON array: what comes   *)
(* out no longer decodes as a consensus state.                             *)
set_consensus_state(store, height, bytes) ==
    [store EXCEPT !.consensusStates =
        Put(@, height, [bytes EXCEPT !.readable = FALSE])]

(* Mutant: only the first header stored at a height counts. *)
set_consensus_meta_Once(env, store, height) ==
    IF height \in DOMAIN store.processed THEN store
    ELSE [store EXCEPT !.processed =
            Put(@, height, [time |-> env.time,
                            height |-> get_self_height(env.height)])]

set_consensus_meta(env, store, height) ==
    [store EXCEPT !.processed =
        Put(@, height, [time |-> env.time,
                        height |-> get_self_height(env.height)])]

(* What a handler hands back. *)
Done(store, client_state, consensus_state) ==
    [res |-> "Ok", store |-> store, client_state |-> client_state,
     consensus_state |-> consensus_state]

Failed(reason) == [res |-> reason]

is_expired(current_timestamp, latest_timestamp, data) ==
    IF latest_timestamp + data.trusting_period > MaxU64 THEN "Panic"
    ELSE IF current_timestamp > latest_timestamp + data.trusting_period
    THEN "Expired" ELSE "Fresh"

-----------------------------------------------------------------------------
init_contract(env, store, consensus_state, me) ==
    LET verdict == snapshot_verify(consensus_state.snapshot)
    IN  IF verdict # "Ok" THEN Failed(verdict)
        ELSE IF me.latest_height = NoHeight THEN Failed("Panic")
        ELSE Done(set_consensus_meta(env, store, me.latest_height), me,
                  consensus_state)

(* The client state is handed back as it came, latest_height included; the *)
(* height the relayer gives the header is not compared with its number.    *)
check_header_and_update_state(env, store, me, consensus_state, header, height) ==
    LET outcome == insert_header(me.data, consensus_state.snapshot, header,
                                 env.time)
    IN  IF outcome.res # "Ok" THEN Failed(outcome.res)
        ELSE Done(set_consensus_meta(env, store, height), me,
                  [snapshot |-> outcome.snapshot, timestamp |-> header.time,
                   root |-> header.root])

(* Mutant: no seal is looked at. *)
check_misbehaviour_header_Unsealed(consensus_state, header) == header.extra

check_misbehaviour_header(consensus_state, header) ==
    verify_header_seal(consensus_state.snapshot, header)

(* The heights compared are the relayer's labels, not the block numbers.   *)
check_misbehaviour(me, misbehaviour, consensus_state_1, consensus_state_2) ==
    LET verdict_1 ==
            check_misbehaviour_header(consensus_state_1, misbehaviour.header_1)
        verdict_2 ==
            check_misbehaviour_header(consensus_state_2, misbehaviour.header_2)
    IN  IF misbehaviour.height_1 # misbehaviour.height_2
        THEN Failed("HeightsDiffer")
        ELSE IF /\ me.frozen /\ me.frozen_height # NoHeight
                /\ ~ Higher(me.frozen_height, misbehaviour.height_1)
        THEN Failed("FrozenEarlier")
        ELSE IF misbehaviour.header_1.root = misbehaviour.header_2.root
        THEN Failed("RootsEqual")
        ELSE IF verdict_1 # "Ok" THEN Failed(verdict_1)
        ELSE IF verdict_2 # "Ok" THEN Failed(verdict_2)
        ELSE [res |-> "Ok",
              client_state |->
                [me EXCEPT !.frozen = TRUE,
                           !.frozen_height = misbehaviour.height_1]]

-----------------------------------------------------------------------------
(* The key a chain commits an upgrade under, after its upgrade path. *)
construct_upgrade_merkle_path(upgrade_path, client_upgrade_path) ==
    Append(upgrade_path, client_upgrade_path)

UpgradedClientState(revision_number) == <<"upgradedClient", revision_number>>
UpgradedClientConsensusState(revision_number) ==
    <<"upgradedConsState", revision_number>>

(* to_vec: the JSON of a value. *)
Json(value) == <<"json", value>>

(* The proof that came for the consensus state is checked against the new  *)
(* client state, and the other way round.                                  *)
verify_upgrade_and_update_state(env, store, me, new_client, new_state, client_proof, state_proof, last) ==
    LET expiry == is_expired(env.time, last.timestamp, me.data)
        revision == me.latest_height.revision_number
        client_verdict ==
            verify_membership(state_proof, last.root,
                construct_upgrade_merkle_path(me.data.upgrade_path,
                    UpgradedClientState(revision)),
                Json(new_client))
        state_verdict ==
            verify_membership(client_proof, last.root,
                construct_upgrade_merkle_path(me.data.upgrade_path,
                    UpgradedClientConsensusState(revision)),
                Json(new_state))
    IN  IF ~ Higher(new_client.latest_height, me.latest_height)
        THEN Failed("HeightNotGreater")
        ELSE IF expiry # "Fresh" THEN Failed(expiry)
        ELSE IF me.latest_height = NoHeight THEN Failed("Panic")
        ELSE IF client_verdict # "Ok" THEN Failed(client_verdict)
        ELSE IF state_verdict # "Ok" THEN Failed(state_verdict)
        ELSE Done(set_consensus_meta(env, store,
                                     new_client.latest_height),
                  new_client, new_state)

(* For the chain to commit to, when it plans the upgrade of a client.  The *)
(* configuration in `data` stays; the height, which is None afterwards,    *)
(* does not.                                                               *)
zero_custom_fields(me) ==
    [me EXCEPT !.frozen = FALSE, !.frozen_height = NoHeight,
               !.latest_height = NoHeight]

(* The stores are those under "subject/" and "substitute/".  The heights   *)
(* to copy run from initial to the substitute's latest height, which the   *)
(* first test has made equal: one height is copied.  What is tested for    *)
(* expiry in the end is the subject's state at its old latest height; it   *)
(* is decoded with unwrap().                                               *)
check_substitute_client_state(env, subject, substitute, me, other, state, initial) ==
    LET height == other.latest_height
        subject_expiry == is_expired(env.time, state.timestamp, me.data)
        isFrozen == me.frozen /\ me.frozen_height # NoHeight
        copied == IF height \in DOMAIN substitute.consensusStates
                  THEN set_consensus_state(subject, height,
                                    substitute.consensusStates[height])
                  ELSE subject
        store == set_consensus_meta(env, copied, height)
        latest == store.consensusStates[me.latest_height]
        expiry == is_expired(env.time, latest.state.snapshot.timestamp,
                             me.data)
    IN  IF height # initial THEN Failed("InitialHeightDiffers")
        ELSE IF other.data # me.data
        THEN Failed("ClientStatesDiffer")
        ELSE IF isFrozen /\ me.data.allow_update_after_misbehavior
        THEN Failed("NotAllowedToUnfreeze")
        ELSE IF ~ isFrozen /\ subject_expiry = "Panic" THEN Failed("Panic")
        ELSE IF /\ ~ isFrozen /\ subject_expiry = "Expired"
                /\ ~ me.data.allow_update_after_expiry
        THEN Failed("NotAllowedToUnexpire")
        ELSE IF me.latest_height \notin DOMAIN store.consensusStates
        THEN Failed("NotFound")
        ELSE IF ~ latest.readable THEN Failed("Panic")
        ELSE IF expiry # "Fresh" THEN Failed(expiry)
        ELSE Done(store,
                  [me EXCEPT !.frozen = IF isFrozen THEN FALSE ELSE @,
                             !.frozen_height = IF isFrozen THEN NoHeight
                                               ELSE @,
                             !.latest_height = height],
                  <<>>)

-----------------------------------------------------------------------------
status(env, me, consensus_state) ==
    LET expiry == is_expired(env.time, consensus_state.snapshot.timestamp,
                             me.data)
    IN  IF me.frozen THEN "Frozen"
        ELSE IF expiry = "Fresh" THEN "Active" ELSE expiry

verify_delay_period_passed(env, store, height, delay_time, delay_blocks) ==
    LET processed == store.processed[height]
        valid_time == processed.time + delay_time
        valid_height == [processed.height EXCEPT
                            !.revision_height = @ + delay_blocks]
    IN  IF height \notin DOMAIN store.processed THEN "NotFound"
        ELSE IF valid_time > MaxU64 THEN "Panic"
        ELSE IF env.time < valid_time THEN "TooEarly"
        ELSE IF valid_height.revision_height > MaxU64 THEN "Panic"
        ELSE IF Higher(valid_height, get_self_height(env.height))
        THEN "TooEarly"
        ELSE "Ok"

(* The ProcessedTime query. *)
ProcessedTime(store, height) ==
    IF height \notin DOMAIN store.processed THEN [res |-> "NotFound"]
    ELSE [res |-> "Ok", time |-> store.processed[height].time]
=============================================================================
