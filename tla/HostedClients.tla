--------------------------- MODULE HostedClients ----------------------------
(***************************************************************************)
(* Light clients of the chain of CeloChain.tla, hosted by a Cosmos chain   *)
(* that runs the contract of ClientContract.tla.  The host is not part of  *)
(* the repository.  As far as the contract's messages show it (msg.rs), it *)
(* keeps a client state and a store for every client, passes them in and   *)
(* stores what comes back; a call that fails or panics leaves no trace, so *)
(* an action here is a call that succeeds.                                 *)
(*                                                                         *)
(* Nothing is assumed of which of the client's consensus states the host   *)
(* passes in.  It asks for the status before it updates or upgrades a      *)
(* client, and cannot pass in a consensus state that does not decode.      *)
(*                                                                         *)
(* Relayers hand in a header together with a consensus state of its own    *)
(* epoch (see EpochSync.tla), under the header's number if LabelIsNumber   *)
(* and under any height otherwise.                                         *)
(***************************************************************************)
EXTENDS CeloChain, ProofQueries

CONSTANTS Clients,
          Data,             \* the clients' LightClientState
          Heights,          \* the heights consensus states are kept at
          UpgradeHeight,    \* the height of the upgraded client
          LabelIsNumber,    \* do relayers label headers with their number?
          Forks,            \* numbers for which two headers get a quorum
          BlockTimes,       \* how much time a block of the host may take
          MaxTime,          \* bound of the host's clock
          MaxHeight,        \* bound of the host's block height
          Delays            \* the delay periods of connections

(* The clients are configured with the epoch size of the chain; forks are  *)
(* of headers that carry no diff.                                          *)
ASSUME HostAssumption ==
    /\ Data.epoch_size = EpochSize
    /\ LabelIsNumber \in BOOLEAN
    /\ \A n \in Forks : n % EpochSize # 0
    /\ Delays \subseteq Nat /\ BlockTimes \subseteq Nat
    /\ MaxTime \in Nat /\ MaxHeight \in Nat \ {0}
    /\ Data.upgrade_path \in Seq(STRING)
    /\ Heights \cup {UpgradeHeight}
            \subseteq [revision_number : Nat, revision_height : Nat]

(* No delay runs past what u64 holds; where it does, the contract panics.  *)
ASSUME DelaysFitU64 ==
    /\ MaxU64 \in Nat
    /\ \A delay \in Delays :
        MaxTime + delay <= MaxU64 /\ MaxHeight + delay <= MaxU64

VARIABLES env,          \* time and height of the host's block
          clients,      \* the client states, for the clients that exist
          stores,       \* their stores
          submitted     \* history: the block a consensus state was stored in

hostVars == <<env, clients, stores, submitted>>
vars == <<chain, sets, env, clients, stores, submitted>>

Live == DOMAIN clients

(* The heights whose consensus state the host can pass in, and the state. *)
Readable(client) ==
    {h \in DOMAIN stores[client].consensusStates :
        stores[client].consensusStates[h].readable}
StateAt(client, height) == stores[client].consensusStates[height].state

Active(client) ==
    \E h \in Readable(client) :
        status(env, clients[client], StateAt(client, h)) = "Active"

LabelsOf(number) ==
    {h \in Heights :
        LabelIsNumber => h = get_self_height(number)}

(* A second header that a quorum committed to. *)
Fork(number) ==
    Commit(UnsealedHeader(number, "fork", <<>>, {}), SetAfter(number - 1),
           DOMAIN SetAfter(number - 1))

(* A finalised header, as one of its quorums sealed it. *)
SealedBlock(number) ==
    Commit(Block(number), SetAfter(number - 1), DOMAIN SetAfter(number - 1))

Relayed(number) ==
    {SealedBlock(number)} \cup Abandoned(number)
        \cup {Fork(n) : n \in Forks \cap {number}}

ConsensusStateOf(header, validators) ==
    [snapshot |-> SnapshotOf(header, validators),
     timestamp |-> header.time, root |-> header.root]

Init ==
    /\ ChainInit
    /\ env = [time |-> 0, height |-> 1]
    /\ clients = <<>> /\ stores = <<>> /\ submitted = <<>>

ChainGrows == Grow /\ UNCHANGED hostVars

(* Several blocks of the host may carry the same second. *)
NextBlock ==
    /\ env.height < MaxHeight
    /\ \E elapsed \in BlockTimes :
        /\ env.time + elapsed <= MaxTime
        /\ env' = [time |-> env.time + elapsed, height |-> env.height + 1]
    /\ UNCHANGED <<chain, sets, clients, stores, submitted>>

(* The host stores what a call handed back. *)
Keep(client, outcome, height) ==
    /\ outcome.res = "Ok"
    /\ clients' = Put(clients, client, outcome.client_state)
    /\ stores' = Put(stores, client,
                     HostWrites(outcome.store, height,
                                outcome.consensus_state))
    /\ submitted' = Put(submitted, client,
                        Put(IF client \in Live THEN submitted[client] ELSE <<>>,
                            height, env))
    /\ UNCHANGED <<chain, sets, env>>

(* A client is created from a block of the chain and its validator set. *)
Create(client, number, height) ==
    LET me == [data |-> Data, frozen |-> FALSE, frozen_height |-> NoHeight,
               latest_height |-> height]
        state == ConsensusStateOf(SealedBlock(number), SetAfter(number))
    IN  /\ client \notin Live
        /\ Keep(client, init_contract(env, EmptyStore, state, me), height)

(* The header is of the trusted state's epoch, or the next one's boundary. *)
Update(client, trusted, header, height) ==
    LET state == StateAt(client, trusted)
        boundary ==
            get_epoch_last_block_number(
                get_epoch_number(state.snapshot.number + 1, EpochSize),
                EpochSize)
    IN  /\ Active(client)
        /\ header.number <= boundary
        /\ Keep(client,
                check_header_and_update_state(env, stores[client],
                    clients[client], state, header, height),
                height)

SubmitMisbehaviour(client, trusted_1, trusted_2, misbehaviour) ==
    LET outcome == check_misbehaviour(clients[client], misbehaviour,
                        StateAt(client, trusted_1), StateAt(client, trusted_2))
    IN  /\ outcome.res = "Ok"
        /\ clients' = Put(clients, client, outcome.client_state)
        /\ UNCHANGED <<chain, sets, env, stores, submitted>>

(* The upgrade the Celo chain has committed to, in its finalised blocks:   *)
(* the same client at a new height, or as zero_custom_fields leaves it,    *)
(* with one of the chain's states.                                         *)
Upgraded(me) == [me EXCEPT !.latest_height = UpgradeHeight]

UpgradedClients(me) == {Upgraded(me), zero_custom_fields(me)}

UpgradeStates ==
    {ConsensusStateOf(SealedBlock(n), SetAfter(n)) : n \in 1..Tip}

(* A chain with one proof, of a tree of which only the root is known. *)
ProofUnder(root, path, value) ==
    <<[kind |-> "exist", spec |-> specs[1], key |-> path, value |-> value,
       root |-> root]>>

UpgradeProofs(me, last) ==
    LET revision == me.latest_height.revision_number
        values == {<<UpgradedClientState(revision), Json(new_client)>> :
                            new_client \in UpgradedClients(me)}
                  \cup {<<UpgradedClientConsensusState(revision),
                          Json(state)>> : state \in UpgradeStates}
    IN  IF last.snapshot.hash # hash(Block(last.snapshot.number)) THEN {}
        ELSE {ProofUnder(last.root, v[1], v[2]) : v \in values}

(* The state handed in may be another one: of an abandoned proposal. *)
Upgrade(client, last) ==
    LET me == clients[client]
    IN  /\ Active(client)
        /\ \E new_client \in UpgradedClients(me),
              state \in UpgradeStates
                \cup {ConsensusStateOf(h, SetAfter(1)) : h \in Abandoned(1)},
              proof_1, proof_2 \in UpgradeProofs(me, StateAt(client, last)) :
            Keep(client,
                 verify_upgrade_and_update_state(env, stores[client], me,
                    new_client, state, proof_1, proof_2,
                    StateAt(client, last)),
                 new_client.latest_height)

(* The host has nothing to store but the client state. *)
Substitute(subject, substitute, latest) ==
    LET height == clients[substitute].latest_height
        outcome == check_substitute_client_state(env, stores[subject],
                        stores[substitute], clients[subject],
                        clients[substitute], StateAt(subject, latest), height)
    IN  /\ outcome.res = "Ok"
        /\ clients' = Put(clients, subject, outcome.client_state)
        /\ stores' = Put(stores, subject, outcome.store)
        /\ submitted' = Put(submitted, subject,
                            Put(submitted[subject], height, env))
        /\ UNCHANGED <<chain, sets, env>>

Next ==
    \/ ChainGrows
    \/ NextBlock
    \/ \E client \in Clients, number \in 1..Tip :
        \E height \in LabelsOf(number) : Create(client, number, height)
    \/ \E client \in Live : \E trusted \in Readable(client) :
        \/ \E number \in 1..Tip : \E header \in Relayed(number) :
            \E height \in LabelsOf(number) :
                Update(client, trusted, header, height)
        \/ \E trusted_2 \in Readable(client), number_1, number_2 \in 1..Tip :
            \E height_1 \in LabelsOf(number_1), height_2 \in LabelsOf(number_2),
              header_1 \in Relayed(number_1), header_2 \in Relayed(number_2) :
                SubmitMisbehaviour(client, trusted, trusted_2,
                    [header_1 |-> header_1, height_1 |-> height_1,
                     header_2 |-> header_2, height_2 |-> height_2])
        \/ Upgrade(client, trusted)
    \/ \E subject, substitute \in Live :
        /\ subject # substitute
        /\ \E latest \in Readable(subject) :
            Substitute(subject, substitute, latest)

Spec == Init /\ [][Next]_vars
-----------------------------------------------------------------------------
(* Whichever of its consensus states a client is updated from, and in      *)
(* whatever order, each one it keeps is of a block that a quorum of its    *)
(* epoch's validators committed to, with the time and the root of that     *)
(* very block and the validator set in force after it (mod.rs:427-486); so *)
(* is the one an upgrade brings in (mod.rs:488-588).                       *)
StatesFollowChain ==
    \A client \in Live : \A h \in DOMAIN stores[client].consensusStates :
        LET state == StateAt(client, h)
            number == state.snapshot.number
            header == IF number \in Forks /\ state.root = Fork(number).root
                      THEN Fork(number) ELSE SealedBlock(number)
        IN  /\ number <= Tip
            /\ state.root = header.root
            /\ state.timestamp = header.time
            /\ state.snapshot.hash = hash(header)
            /\ state.snapshot.validators = SetAfter(number)

(* A packet is accepted exactly when it is proven under the root of the    *)
(* state kept at the height, and that state, not one that was at the       *)
(* height before, has been there for the time and the blocks of the delay: *)
(* "will ensure that at least delayPeriod amount of time has passed since  *)
(* consensus state was submitted" (mod.rs:1259-1260).  A relayer that asks *)
(* for the processed time (mod.rs:372-377) is told when that was.          *)
PacketsWait ==
    \A client \in Live : \A h \in Readable(client) :
        LET state == StateAt(client, h)
            since == submitted[client][h]
            path == <<"commitments", "channel-0", 1>>
            roots == {StateAt(client, k).root : k \in Readable(client)}
                        \cup {<<branch, state.snapshot.number>> :
                                branch \in {"final", "fork", "abandoned"}}
        IN  /\ ProcessedTime(stores[client], h)
                    = [res |-> "Ok", time |-> since.time]
            /\ \A time, blocks \in Delays, root \in roots :
                verify_packet_commitment(env, stores[client],
                    [height |-> h, commitment_prefix |-> <<"ibc">>,
                     proof |-> ProofUnder(root, path, Bytes("packet")),
                     channel |-> "channel-0", sequence |-> 1,
                     commitment_bytes |-> "packet",
                     delay_time_period |-> time,
                     delay_block_period |-> blocks,
                     consensus_state |-> state]) = "Ok"
                <=> /\ root = state.root
                    /\ env.time >= since.time + time
                    /\ env.height >= since.height + blocks

(* The latest height a client state names is always that of a state it     *)
(* keeps, and never None: the contract unwraps it and reads the state      *)
(* there, through updates that leave it behind, upgrades, zeroed client    *)
(* states and substitutions (mod.rs:534,1139,1200-1203).                   *)
LatestIsKept ==
    \A client \in Live :
        /\ clients[client].latest_height # NoHeight
        /\ clients[client].latest_height
                \in DOMAIN stores[client].consensusStates

(* A client is frozen only at the height of a block for which two          *)
(* conflicting headers got a quorum: no sequence of updates and evidence   *)
(* freezes a client of a chain that has none (mod.rs:590-652).  It is said *)
(* of chains whose set stays: seals are checked against the sets of the    *)
(* trusted states that come with the evidence, of whatever epoch, and what *)
(* is a quorum of one set need not be one of another.                      *)
FrozenByForkOnly ==
    \A client \in Live :
        clients[client].frozen =>
            \E number \in Forks :
                clients[client].frozen_height = get_self_height(number)

(* The clients implement the promise of ClientLifecycle.  "If client is    *)
(* already frozen at earlier height than misbehaviour, return with error"  *)
(* (mod.rs:606): the height a client is frozen at only goes down, through  *)
(* all that happens to a frozen client, until the client takes over the    *)
(* latest state of another one, of the same configuration: "Copy consensus *)
(* states" (mod.rs:1183).                                                  *)
Lifecycle == INSTANCE ClientLifecycle WITH
    Heights <- Heights \cup {UpgradeHeight}, None <- NoHeight,
    kept <- [client \in Live |->
                [h \in DOMAIN stores[client].consensusStates |->
                    stores[client].consensusStates[h].state]],
    latest <- [client \in Live |-> clients[client].latest_height],
    frozenAt <- [client \in Live |-> clients[client].frozen_height],
    config <- [client \in Live |-> clients[client].data]

ImplementsLifecycle == Lifecycle!Spec
-----------------------------------------------------------------------------
(* What names, comments and messages of the code say; the runs show where  *)
(* the code does otherwise.                                                *)

(* allow_update_after_misbehavior (types/state.rs:20) allows it, and       *)
(* without it the "client is not allowed to be unfrozen" (mod.rs:1165).    *)
UnfrozenOnlyIfAllowed ==
    [][\A client \in Live :
        clients[client].frozen /\ ~ clients'[client].frozen
            => Data.allow_update_after_misbehavior]_vars

(* allow_update_after_expiry (types/state.rs:21): a client that expired    *)
(* can be updated from one that did not (mod.rs:1171-1215).                *)
ExpiredIsRecovered ==
    \A subject, substitute \in Live :
        LET me == clients[subject]
            other == clients[substitute]
        IN  /\ Data.allow_update_after_expiry
            /\ me.latest_height \in Readable(subject)
            /\ other.latest_height \in Readable(substitute)
            /\ status(env, me, StateAt(subject, me.latest_height)) = "Expired"
            /\ status(env, other, StateAt(substitute, other.latest_height))
                    = "Active"
            => check_substitute_client_state(env, stores[subject],
                    stores[substitute], me, other,
                    StateAt(subject, me.latest_height),
                    other.latest_height).res = "Ok"

(* "Verify client proof" and "Verify consensus proof" (mod.rs:531,550): an *)
(* upgrade that the chain committed to is accepted with the client's proof *)
(* for the client and the consensus state's proof for the consensus state. *)
ProvenUpgradeAccepted ==
    \A client \in Live : \A last \in Readable(client) :
        LET me == clients[client]
            revision == me.latest_height.revision_number
            state == StateAt(client, last)
            proofOf(path, value) == ProofUnder(state.root, path, Json(value))
        IN  /\ Higher(UpgradeHeight, me.latest_height)
            /\ status(env, me, state) = "Active"
            => verify_upgrade_and_update_state(env, stores[client], me,
                    Upgraded(me), state,
                    proofOf(UpgradedClientState(revision), Upgraded(me)),
                    proofOf(UpgradedClientConsensusState(revision), state),
                    state).res = "Ok"
=============================================================================
