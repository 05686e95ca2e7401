------------------------ MODULE HostedClientsProofs -------------------------
(***************************************************************************)
(* Whatever heights relayers give to headers, whatever forks the chain has *)
(* and however many clients a host keeps: the height a client state names  *)
(* is that of a state the host keeps for it, and the clients implement     *)
(* ClientLifecycle.  With a second invariant, on what is kept: the states  *)
(* follow the chain, packets wait, and only forks freeze a client.         *)
(***************************************************************************)
EXTENDS HostedClients, ChainLemmas

HeightType == [revision_number : Nat, revision_height : Nat]

ClientStateType ==
    [data : {Data}, frozen : BOOLEAN,
     frozen_height : HeightType \cup {NoHeight}, latest_height : HeightType]

(* A client is frozen exactly when it has a height it is frozen at. *)
IsClient(me) ==
    /\ me \in ClientStateType
    /\ me.frozen <=> me.frozen_height # NoHeight

IsEntry(entry) == entry \in [readable : BOOLEAN, state : {entry.state}]

IsStore(store) ==
    /\ store = [consensusStates |-> store.consensusStates,
                processed |-> store.processed]
    /\ \A h \in DOMAIN store.consensusStates :
        IsEntry(store.consensusStates[h])

Sound(me, store) ==
    /\ IsClient(me) /\ IsStore(store)
    /\ me.latest_height \in DOMAIN store.consensusStates

(* The inductive invariant. *)
HostInv ==
    /\ DOMAIN stores = Live /\ Live \subseteq Clients
    /\ \A client \in Live : Sound(clients[client], stores[client])

(* A store has a new state at one height. *)
Wrote(old, new, height) ==
    /\ DOMAIN new.consensusStates = DOMAIN old.consensusStates \cup {height}
    /\ \A h \in DOMAIN old.consensusStates \ {height} :
        new.consensusStates[h] = old.consensusStates[h]

(* The step of one client. *)
Moves(client, me, store) ==
    /\ DOMAIN clients' = Live \cup {client}
    /\ DOMAIN stores' = DOMAIN stores \cup {client}
    /\ clients'[client] = me /\ stores'[client] = store
    /\ \A other \in Live \ {client} :
        clients'[other] = clients[other] /\ stores'[other] = stores[other]
    /\ Sound(me, store)

-----------------------------------------------------------------------------
(* set_consensus_meta (mod.rs:1389-1433) leaves the consensus states alone *)
LEMMA MetaLeavesStates ==
    ASSUME NEW e, NEW store, NEW height, IsStore(store)
    PROVE  /\ IsStore(set_consensus_meta(e, store, height))
           /\ set_consensus_meta(e, store, height).consensusStates
                    = store.consensusStates
BY DEF IsStore, set_consensus_meta

(* The host's write adds one state, and keeps the others.                  *)
LEMMA HostWritesOne ==
    ASSUME NEW store, NEW height, NEW state, IsStore(store)
    PROVE  /\ IsStore(HostWrites(store, height, state))
           /\ Wrote(store, HostWrites(store, height, state), height)
<1> DEFINE entry == [readable |-> TRUE, state |-> state]
<1> DEFINE states == Put(store.consensusStates, height, entry)
<1>1. HostWrites(store, height, state)
        = [consensusStates |-> states, processed |-> store.processed]
    BY DEF HostWrites, IsStore
<1>2. /\ DOMAIN states = DOMAIN store.consensusStates \cup {height}
      /\ states[height] = entry
      /\ \A h \in DOMAIN store.consensusStates \ {height} :
            states[h] = store.consensusStates[h]
    BY DEF Put
<1>3. IsEntry(entry)
    BY DEF IsEntry
<1> HIDE DEF states, entry
<1> QED BY <1>1, <1>2, <1>3 DEF IsStore, Wrote

(* The contract's write of a state it read elsewhere keeps its content.    *)
LEMMA ContractWritesOne ==
    ASSUME NEW store, NEW height, NEW bytes, IsStore(store),
           IsEntry(bytes)
    PROVE  LET new == set_consensus_state(store, height, bytes)
           IN  /\ IsStore(new) /\ Wrote(store, new, height)
               /\ new.consensusStates[height].state = bytes.state
<1> DEFINE entry == [bytes EXCEPT !.readable = FALSE]
<1> DEFINE states == Put(store.consensusStates, height, entry)
<1>1. set_consensus_state(store, height, bytes)
        = [consensusStates |-> states, processed |-> store.processed]
    BY DEF set_consensus_state, IsStore
<1>2. /\ DOMAIN states = DOMAIN store.consensusStates \cup {height}
      /\ states[height] = entry
      /\ \A h \in DOMAIN store.consensusStates \ {height} :
            states[h] = store.consensusStates[h]
    BY DEF Put
<1>3. IsEntry(entry) /\ entry.state = bytes.state
    BY DEF IsEntry
<1> HIDE DEF states, entry
<1> QED BY <1>1, <1>2, <1>3 DEF IsStore, Wrote

-----------------------------------------------------------------------------
(* The heights of the model are heights.                                   *)
LEMMA Heights_Type == Heights \cup {UpgradeHeight} \subseteq HeightType
BY HostAssumption DEF HeightType

(* Relayers label headers with such heights.                               *)
LEMMA LabelsAreHeights ==
    ASSUME NEW number PROVE LabelsOf(number) \subseteq Heights
BY DEF LabelsOf

(* What Keep leaves, for a client state and a store that are sound. *)
LEMMA KeepMoves ==
    ASSUME HostInv, NEW client, NEW outcome, NEW height,
           Keep(client, outcome, height), IsStore(outcome.store),
           IsClient(outcome.client_state),
           outcome.client_state.latest_height
                \in DOMAIN outcome.store.consensusStates \cup {height}
    PROVE  \E store :
            /\ Moves(client, outcome.client_state, store)
            /\ Wrote(outcome.store, store, height)
<1> DEFINE store == HostWrites(outcome.store, height, outcome.consensus_state)
<1>1. IsStore(store) /\ Wrote(outcome.store, store, height)
    BY HostWritesOne
<1>2. /\ clients' = Put(clients, client, outcome.client_state)
      /\ stores' = Put(stores, client, store)
    BY DEF Keep
<1>3. DOMAIN stores = Live
    BY DEF HostInv
<1> HIDE DEF store
<1>4. outcome.client_state.latest_height \in DOMAIN store.consensusStates
    BY <1>1 DEF Wrote
<1>5. Moves(client, outcome.client_state, store)
    BY <1>1, <1>2, <1>3, <1>4 DEF Moves, Sound, Put, Live
<1> QED BY <1>1, <1>5

(* init_contract (mod.rs:404-425) *)
LEMMA CreateStep ==
    ASSUME HostInv, NEW client, NEW number, NEW height \in Heights,
           Create(client, number, height)
    PROVE  /\ client \notin Live
           /\ \E me, store :
                /\ Moves(client, me, store)
                /\ DOMAIN store.consensusStates = {height}
                /\ me.latest_height = height
                /\ me.frozen_height = NoHeight
<1> DEFINE me == [data |-> Data, frozen |-> FALSE,
                  frozen_height |-> NoHeight, latest_height |-> height]
<1> DEFINE state == ConsensusStateOf(SealedBlock(number), SetAfter(number))
<1> DEFINE outcome == init_contract(env, EmptyStore, state, me)
<1>1. client \notin Live /\ Keep(client, outcome, height)
    BY DEF Create
<1>2. IsClient(me) /\ me.latest_height = height
        /\ me.frozen_height = NoHeight
    BY Heights_Type DEF IsClient, ClientStateType
<1>3. IsStore(EmptyStore) /\ DOMAIN EmptyStore.consensusStates = {}
    BY DEF IsStore, EmptyStore
<1> HIDE DEF me, state
<1>4. outcome.res = "Ok"
    BY <1>1 DEF Keep
<1>5. outcome = Done(set_consensus_meta(env, EmptyStore, me.latest_height),
                     me, state)
    BY <1>4 DEF init_contract, Failed
<1>6. /\ outcome.client_state = me
      /\ outcome.store = set_consensus_meta(env, EmptyStore, me.latest_height)
    BY <1>5 DEF Done
<1> HIDE DEF outcome
<1>7. IsStore(outcome.store) /\ DOMAIN outcome.store.consensusStates = {}
    BY <1>3, <1>6, MetaLeavesStates
<1>8. PICK store : /\ Moves(client, me, store)
                   /\ Wrote(outcome.store, store, height)
    BY <1>1, <1>2, <1>6, <1>7, KeepMoves
<1>9. DOMAIN store.consensusStates = {height}
    BY <1>7, <1>8 DEF Wrote
<1> QED BY <1>1, <1>2, <1>8, <1>9

(* check_header_and_update_state (mod.rs:427-486) *)
LEMMA UpdateStep ==
    ASSUME HostInv, NEW client \in Live, NEW trusted, NEW header,
           NEW height \in Heights, Update(client, trusted, header, height)
    PROVE  /\ ~ clients[client].frozen
           /\ \E store : /\ Moves(client, clients[client], store)
                         /\ Wrote(stores[client], store, height)
<1> DEFINE me == clients[client]
<1> DEFINE inserted ==
        insert_header(me.data, StateAt(client, trusted).snapshot, header,
                      env.time)
<1> DEFINE outcome ==
        check_header_and_update_state(env, stores[client], me,
            StateAt(client, trusted), header, height)
<1>1. Active(client) /\ Keep(client, outcome, height)
    BY DEF Update
<1>2. ~ me.frozen
    BY <1>1 DEF Active, status
<1>3. Sound(me, stores[client])
    BY DEF HostInv
<1>4. outcome.res = "Ok"
    BY <1>1 DEF Keep
<1> HIDE DEF me
<1>5. outcome = Done(set_consensus_meta(env, stores[client], height), me,
                     [snapshot |-> inserted.snapshot,
                      timestamp |-> header.time, root |-> header.root])
    BY <1>4 DEF check_header_and_update_state, Failed
<1>6. /\ outcome.client_state = me
      /\ outcome.store = set_consensus_meta(env, stores[client], height)
    BY <1>5 DEF Done
<1> HIDE DEF outcome
<1>7. /\ IsStore(outcome.store)
      /\ outcome.store.consensusStates = stores[client].consensusStates
    BY <1>3, <1>6, MetaLeavesStates DEF Sound
<1>8. PICK store : /\ Moves(client, me, store)
                   /\ Wrote(outcome.store, store, height)
    BY <1>1, <1>3, <1>6, <1>7, KeepMoves DEF Sound
<1>9. Wrote(stores[client], store, height)
    BY <1>7, <1>8 DEF Wrote
<1> QED BY <1>2, <1>8, <1>9 DEF me

(* verify_upgrade_and_update_state (mod.rs:488-588) *)
LEMMA UpgradeStep ==
    ASSUME HostInv, NEW client \in Live, NEW last, Upgrade(client, last)
    PROVE  /\ ~ clients[client].frozen
           /\ Higher(UpgradeHeight, clients[client].latest_height)
           /\ \E store :
                /\ Moves(client, Upgraded(clients[client]), store)
                /\ Wrote(stores[client], store, UpgradeHeight)
<1> DEFINE me == clients[client]
<1> DEFINE outcome(new_client, state, proof_1, proof_2) ==
        verify_upgrade_and_update_state(env, stores[client], me, new_client,
            state, proof_1, proof_2, StateAt(client, last))
<1>1. PICK new_client, state, proof_1, proof_2 :
        /\ new_client \in UpgradedClients(me)
        /\ Keep(client, outcome(new_client, state, proof_1, proof_2),
                new_client.latest_height)
    BY DEF Upgrade
<1> DEFINE kept == outcome(new_client, state, proof_1, proof_2)
<1>2. ~ me.frozen
    BY DEF Upgrade, Active, status
<1>3. Sound(me, stores[client]) /\ IsClient(me)
    BY DEF HostInv, Sound
<1>4. kept.res = "Ok"
    BY <1>1 DEF Keep
<1> HIDE DEF me
<1>5. /\ Higher(new_client.latest_height, me.latest_height)
      /\ kept = Done(set_consensus_meta(env, stores[client],
                                        new_client.latest_height),
                     new_client, state)
    <2>1. is_expired(env.time, StateAt(client, last).timestamp, me.data)
            # "Ok"
        BY DEF is_expired
    <2> QED BY <1>4, <2>1 DEF verify_upgrade_and_update_state, Failed
<1>6. /\ kept.client_state = new_client
      /\ kept.store = set_consensus_meta(env, stores[client],
                                         new_client.latest_height)
    BY <1>5 DEF Done
<1> HIDE DEF kept
<1>7. new_client = Upgraded(me)
    <2>1. new_client \in {Upgraded(me), zero_custom_fields(me)}
        BY <1>1 DEF UpgradedClients
    <2>2. zero_custom_fields(me).latest_height = NoHeight
        BY <1>3 DEF zero_custom_fields, IsClient, ClientStateType
    <2>3. ~ Higher(NoHeight, me.latest_height)
        BY <1>3 DEF Higher, NoHeight, IsClient, ClientStateType, HeightType
    <2> QED BY <1>5, <2>1, <2>2, <2>3
<1>8. IsClient(Upgraded(me)) /\ Upgraded(me).latest_height = UpgradeHeight
    BY <1>3, Heights_Type DEF Upgraded, IsClient, ClientStateType
<1>9. /\ IsStore(kept.store)
      /\ kept.store.consensusStates = stores[client].consensusStates
    BY <1>3, <1>6, MetaLeavesStates DEF Sound
<1>10. Keep(client, kept, UpgradeHeight)
    BY <1>1, <1>7, <1>8 DEF kept
<1>11. PICK store : /\ Moves(client, Upgraded(me), store)
                    /\ Wrote(kept.store, store, UpgradeHeight)
    BY <1>6, <1>7, <1>8, <1>9, <1>10, KeepMoves
<1>12. Wrote(stores[client], store, UpgradeHeight)
    BY <1>9, <1>11 DEF Wrote
<1> QED BY <1>2, <1>5, <1>7, <1>8, <1>11, <1>12 DEF me

(* The client that check_misbehaviour freezes at a height.                 *)
FrozenAt(me, height) ==
    [me EXCEPT !.frozen = TRUE, !.frozen_height = height]

(* check_misbehaviour (mod.rs:590-652) *)
LEMMA MisbehaviourStep ==
    ASSUME HostInv, NEW client \in Live, NEW trusted_1, NEW trusted_2,
           NEW misbehaviour, misbehaviour.height_1 \in Heights,
           SubmitMisbehaviour(client, trusted_1, trusted_2, misbehaviour)
    PROVE  LET me == clients[client]
               height == misbehaviour.height_1
           IN  /\ \/ me.frozen_height = NoHeight
                  \/ Higher(me.frozen_height, height)
               /\ Moves(client, FrozenAt(me, height), stores[client])
               /\ stores' = stores
<1> DEFINE me == clients[client]
<1> DEFINE height == misbehaviour.height_1
<1> DEFINE frozen == FrozenAt(me, height)
<1> DEFINE outcome ==
        check_misbehaviour(me, misbehaviour, StateAt(client, trusted_1),
                           StateAt(client, trusted_2))
<1>1. /\ outcome.res = "Ok"
      /\ clients' = Put(clients, client, outcome.client_state)
      /\ stores' = stores
    BY DEF SubmitMisbehaviour
<1>2. Sound(me, stores[client]) /\ IsClient(me) /\ DOMAIN stores = Live
    BY DEF HostInv, Sound
<1> HIDE DEF me
<1>3. /\ ~ (/\ me.frozen /\ me.frozen_height # NoHeight
            /\ ~ Higher(me.frozen_height, height))
      /\ outcome = [res |-> "Ok", client_state |-> frozen]
    BY <1>1 DEF check_misbehaviour, Failed, FrozenAt
<1>4. /\ outcome.client_state = frozen
      /\ me.frozen_height = NoHeight \/ Higher(me.frozen_height, height)
    BY <1>2, <1>3 DEF IsClient
<1>5. height \in HeightType /\ height # NoHeight
    BY Heights_Type DEF HeightType, NoHeight
<1>6. IsClient(frozen) /\ frozen.latest_height = me.latest_height
    BY <1>2, <1>5 DEF IsClient, ClientStateType, FrozenAt
<1> HIDE DEF outcome, frozen, height
<1>7. Sound(frozen, stores[client])
    BY <1>2, <1>6 DEF Sound
<1>8. Moves(client, frozen, stores[client])
    BY <1>1, <1>2, <1>4, <1>7 DEF Moves, Put, Live
<1> QED BY <1>1, <1>4, <1>8 DEF me, frozen, height

(* What check_substitute_client_state hands back (mod.rs:1131-1251): the   *)
(* substitute's latest state copied, and the block noted.                  *)
Recovered(me, height) ==
    LET isFrozen == me.frozen /\ me.frozen_height # NoHeight
    IN  [me EXCEPT !.frozen = IF isFrozen THEN FALSE ELSE @,
                   !.frozen_height = IF isFrozen THEN NoHeight ELSE @,
                   !.latest_height = height]

Copied(e, store, theirs, height) ==
    set_consensus_meta(e,
        set_consensus_state(store, height, theirs.consensusStates[height]),
        height)

Substitutes(e, before, theirs, me, other, read, height, outcome) ==
    /\ height = other.latest_height
    /\ height \in DOMAIN theirs.consensusStates
    /\ outcome = check_substitute_client_state(e, before, theirs, me, other,
                                               read, height)
    /\ outcome.res = "Ok"

(* A substitution that is not refused does just that (mod.rs:1131-1251).   *)
LEMMA SubstituteDone ==
    ASSUME NEW e, NEW before, NEW theirs, NEW me, NEW other, NEW read,
           NEW height, NEW outcome,
           Substitutes(e, before, theirs, me, other, read, height, outcome)
    PROVE  /\ other.data = me.data
           /\ outcome = Done(Copied(e, before, theirs, height),
                             Recovered(me, height), <<>>)
<1> DEFINE isFrozen == me.frozen /\ me.frozen_height # NoHeight
           copied == set_consensus_state(before, height,
                            theirs.consensusStates[height])
           store == set_consensus_meta(e, copied, height)
           new == [me EXCEPT !.frozen = IF isFrozen THEN FALSE ELSE @,
                             !.frozen_height = IF isFrozen THEN NoHeight
                                               ELSE @,
                             !.latest_height = height]
           expiry == is_expired(e.time, read.timestamp, me.data)
           latest == store.consensusStates[me.latest_height]
           later == is_expired(e.time, latest.state.snapshot.timestamp,
                               me.data)
           differ == other.data # me.data
           stuck == isFrozen /\ me.data.allow_update_after_misbehavior
           panics == ~ isFrozen /\ expiry = "Panic"
           old == /\ ~ isFrozen /\ expiry = "Expired"
                  /\ ~ me.data.allow_update_after_expiry
           missing == me.latest_height \notin DOMAIN store.consensusStates
           unread == ~ latest.readable
<1>1. later # "Ok"
    BY DEF is_expired
<1>2. /\ height = other.latest_height
      /\ height \in DOMAIN theirs.consensusStates
      /\ outcome = check_substitute_client_state(e, before, theirs, me, other,
                                                 read, height)
      /\ outcome.res = "Ok"
    BY DEF Substitutes
<1>3. outcome = IF differ THEN Failed("ClientStatesDiffer")
                ELSE IF stuck THEN Failed("NotAllowedToUnfreeze")
                ELSE IF panics THEN Failed("Panic")
                ELSE IF old THEN Failed("NotAllowedToUnexpire")
                ELSE IF missing THEN Failed("NotFound")
                ELSE IF unread THEN Failed("Panic")
                ELSE IF later # "Fresh" THEN Failed(later)
                ELSE Done(store, new, <<>>)
    BY <1>2, Zenon DEF check_substitute_client_state
<1>4. ~ differ /\ outcome = Done(store, new, <<>>)
    <2> HIDE DEF differ, stuck, panics, old, missing, unread, later, store, new
    <2> QED BY <1>1, <1>2, <1>3 DEF Failed
<1> QED BY <1>4, Zenon DEF Copied, Recovered

(* check_substitute_client_state (mod.rs:1131-1251) *)
LEMMA SubstituteStep ==
    ASSUME HostInv, NEW subject \in Live, NEW substitute \in Live,
           subject # substitute, NEW latest,
           Substitute(subject, substitute, latest)
    PROVE  LET height == clients[substitute].latest_height
           IN  /\ clients[substitute].data = clients[subject].data
               /\ \E me, store :
                    /\ Moves(subject, me, store)
                    /\ Wrote(stores[subject], store, height)
                    /\ store.consensusStates[height].state
                        = stores[substitute].consensusStates[height].state
                    /\ me.latest_height = height
                    /\ me.frozen_height = NoHeight
                    /\ me.data = clients[subject].data
<1> DEFINE me == clients[subject]
<1> DEFINE other == clients[substitute]
<1> DEFINE height == other.latest_height
<1> DEFINE outcome ==
        check_substitute_client_state(env, stores[subject],
            stores[substitute], me, other, StateAt(subject, latest), height)
<1> DEFINE isFrozen == me.frozen /\ me.frozen_height # NoHeight
<1> DEFINE copied == set_consensus_state(stores[subject], height,
                            stores[substitute].consensusStates[height])
<1> DEFINE store == set_consensus_meta(env, copied, height)
<1> DEFINE new ==
        [me EXCEPT !.frozen = IF isFrozen THEN FALSE ELSE @,
                   !.frozen_height = IF isFrozen THEN NoHeight ELSE @,
                   !.latest_height = height]
<1>1. /\ outcome.res = "Ok"
      /\ clients' = Put(clients, subject, outcome.client_state)
      /\ stores' = Put(stores, subject, outcome.store)
    BY DEF Substitute
<1>2. /\ Sound(me, stores[subject]) /\ Sound(other, stores[substitute])
      /\ IsClient(me) /\ IsClient(other) /\ DOMAIN stores = Live
    BY DEF HostInv, Sound
<1> HIDE DEF me, other
<1>3. height \in DOMAIN stores[substitute].consensusStates
    BY <1>2 DEF Sound
<1>4. other.data = me.data /\ outcome = Done(store, new, <<>>)
    <2>1. PICK result, at, old, target, before, theirs, read :
            /\ result = outcome /\ at = height /\ old = me /\ target = other
            /\ before = stores[subject] /\ theirs = stores[substitute]
            /\ read = StateAt(subject, latest)
        OBVIOUS
    <2>2. Substitutes(env, before, theirs, old, target, read, at, result)
        BY <1>1, <1>3, <2>1 DEF Substitutes
    <2>3. /\ target.data = old.data
          /\ result = Done(Copied(env, before, theirs, at),
                           Recovered(old, at), <<>>)
        BY <2>2, SubstituteDone
    <2>4. /\ other.data = me.data
          /\ outcome = Done(Copied(env, stores[subject], stores[substitute],
                                   height), Recovered(me, height), <<>>)
        BY <2>1, <2>3
    <2> QED BY <2>4, Zenon DEF Copied, Recovered
<1>5. outcome.client_state = new /\ outcome.store = store
    BY <1>4 DEF Done
<1>6. /\ IsStore(copied) /\ Wrote(stores[subject], copied, height)
      /\ copied.consensusStates[height].state
            = stores[substitute].consensusStates[height].state
    <2>1. /\ IsStore(stores[subject])
          /\ IsEntry(stores[substitute].consensusStates[height])
        BY <1>2, <1>3 DEF Sound, IsStore
    <2> QED BY <2>1, ContractWritesOne
<1>7. /\ IsClient(new) /\ new.latest_height = height
      /\ new.frozen_height = NoHeight /\ new.data = me.data
    BY <1>2 DEF IsClient, ClientStateType
<1> HIDE DEF outcome, copied, new, height
<1>8. /\ IsStore(store)
      /\ store.consensusStates = copied.consensusStates
    BY <1>6, MetaLeavesStates
<1> HIDE DEF store
<1>9. /\ Wrote(stores[subject], store, height)
      /\ store.consensusStates[height].state
            = stores[substitute].consensusStates[height].state
    BY <1>6, <1>8 DEF Wrote
<1>10. Moves(subject, new, store)
    <2>1. height \in DOMAIN store.consensusStates
        BY <1>9 DEF Wrote
    <2>2. Sound(new, store)
        BY <1>7, <1>8, <2>1 DEF Sound
    <2> QED BY <1>1, <1>2, <1>5, <2>2 DEF Moves, Put, Live
<1>11. /\ Moves(subject, new, store)
       /\ Wrote(stores[subject], store, height)
       /\ store.consensusStates[height].state
            = stores[substitute].consensusStates[height].state
       /\ new.latest_height = height
       /\ new.frozen_height = NoHeight
       /\ new.data = me.data
    BY <1>7, <1>9, <1>10
<1> QED BY <1>4, <1>11, Zenon DEF me, other, height

-----------------------------------------------------------------------------
(* The kinds of steps, as the store and the state of one client show them. *)

Creates(client, height) ==
    /\ client \in Clients \ Live
    /\ \E me, store :
        /\ Moves(client, me, store)
        /\ DOMAIN store.consensusStates = {height}
        /\ me.latest_height = height /\ me.frozen_height = NoHeight

Extends(client, height) ==
    LET old == clients[client]
    IN  /\ client \in Live /\ old.frozen_height = NoHeight
        /\ \E me, store :
            /\ Moves(client, me, store)
            /\ Wrote(stores[client], store, height)
            /\ \/ me.latest_height = old.latest_height
               \/ /\ me.latest_height = height
                  /\ Higher(height, old.latest_height)
            /\ me.frozen_height = NoHeight /\ me.data = old.data

Freezes(client, height) ==
    LET old == clients[client]
    IN  /\ client \in Live
        /\ old.frozen_height = NoHeight \/ Higher(old.frozen_height, height)
        /\ \E me :
            /\ Moves(client, me, stores[client])
            /\ me.latest_height = old.latest_height
            /\ me.frozen_height = height /\ me.data = old.data

TakesOver(client, other) ==
    LET height == clients[other].latest_height
    IN  /\ client \in Live /\ other \in Live \ {client}
        /\ clients[other].data = clients[client].data
        /\ \E me, store :
            /\ Moves(client, me, store)
            /\ Wrote(stores[client], store, height)
            /\ store.consensusStates[height].state
                = stores[other].consensusStates[height].state
            /\ me.latest_height = height
            /\ me.frozen_height = NoHeight
            /\ me.data = clients[client].data

StepOf(client) ==
    \/ \E height \in Heights \cup {UpgradeHeight} :
        Creates(client, height) \/ Extends(client, height)
            \/ Freezes(client, height)
    \/ \E other \in Live : TakesOver(client, other)

(* Every step of the system is one of a client, or leaves them all alone.  *)
LEMMA EveryStep ==
    ASSUME HostInv, Next
    PROVE  \/ UNCHANGED <<clients, stores>>
           \/ \E client \in Clients : StepOf(client)
<1>1. CASE ChainGrows \/ NextBlock
    BY <1>1 DEF ChainGrows, NextBlock, hostVars
<1>2. ASSUME NEW client \in Clients, NEW number \in 1..Tip,
             NEW height \in LabelsOf(number), Create(client, number, height)
      PROVE  StepOf(client)
    <2>1. height \in Heights
        BY LabelsAreHeights
    <2>2. Creates(client, height)
        BY <1>2, <2>1, CreateStep DEF Creates
    <2> QED BY <2>1, <2>2 DEF StepOf
<1>3. ASSUME NEW client \in Live, NEW trusted, NEW header, NEW number,
             NEW height \in LabelsOf(number),
             Update(client, trusted, header, height)
      PROVE  StepOf(client)
    <2>1. height \in Heights
        BY LabelsAreHeights
    <2>2. IsClient(clients[client])
        BY DEF HostInv, Sound
    <2>3. Extends(client, height)
        BY <1>3, <2>1, <2>2, UpdateStep DEF Extends, IsClient
    <2> QED BY <2>1, <2>3 DEF StepOf
<1>4. ASSUME NEW client \in Live, NEW trusted_1, NEW trusted_2,
             NEW misbehaviour, NEW number,
             misbehaviour.height_1 \in LabelsOf(number),
             SubmitMisbehaviour(client, trusted_1, trusted_2, misbehaviour)
      PROVE  StepOf(client)
    <2> DEFINE height == misbehaviour.height_1
    <2> DEFINE me == FrozenAt(clients[client], height)
    <2>1. height \in Heights
        BY <1>4, LabelsAreHeights
    <2>2. IsClient(clients[client])
        BY DEF HostInv, Sound
    <2>3. /\ me.latest_height = clients[client].latest_height
          /\ me.frozen_height = height /\ me.data = clients[client].data
        BY <2>2 DEF IsClient, ClientStateType, FrozenAt
    <2>4. /\ \/ clients[client].frozen_height = NoHeight
             \/ Higher(clients[client].frozen_height, height)
          /\ Moves(client, me, stores[client])
        BY <1>4, <2>1, MisbehaviourStep
    <2> HIDE DEF me, height
    <2>5. Freezes(client, height)
        BY <2>3, <2>4 DEF Freezes
    <2> QED BY <2>1, <2>5 DEF StepOf
<1>5. ASSUME NEW client \in Live, NEW last, Upgrade(client, last)
      PROVE  StepOf(client)
    <2> DEFINE old == clients[client]
    <2>1. IsClient(old)
        BY DEF HostInv, Sound
    <2>2. /\ Upgraded(old).latest_height = UpgradeHeight
          /\ Upgraded(old).frozen_height = old.frozen_height
          /\ Upgraded(old).data = old.data
        BY <2>1 DEF Upgraded, IsClient, ClientStateType
    <2>3. Extends(client, UpgradeHeight)
        BY <1>5, <2>1, <2>2, UpgradeStep DEF Extends, IsClient
    <2> QED BY <2>3 DEF StepOf
<1>6. ASSUME NEW client \in Live, NEW other \in Live, client # other,
             NEW latest, Substitute(client, other, latest)
      PROVE  StepOf(client)
    <2>1. TakesOver(client, other)
        BY <1>6, SubstituteStep DEF TakesOver
    <2> QED BY <2>1 DEF StepOf
<1>7. Live \subseteq Clients
    BY DEF HostInv
<1> QED BY <1>1, <1>2, <1>3, <1>4, <1>5, <1>6, <1>7 DEF Next

-----------------------------------------------------------------------------
(* The invariant holds of a host without clients.                          *)
LEMMA InitSound == Init => HostInv
BY DEF Init, HostInv, Live

(* What keeps the client that moves sound keeps the invariant.             *)
LEMMA MovesKeepInv ==
    ASSUME HostInv, NEW client \in Clients, NEW me, NEW store,
           Moves(client, me, store)
    PROVE  HostInv'
<1>1. DOMAIN stores' = Live' /\ Live' \subseteq Clients
    BY DEF HostInv, Moves, Live
<1>2. ASSUME NEW other \in Live' PROVE Sound(clients'[other], stores'[other])
    <2>1. CASE other = client
        BY <2>1 DEF Moves
    <2>2. CASE other # client
        BY <2>2 DEF HostInv, Moves, Live
    <2> QED BY <2>1, <2>2
<1> QED BY <1>1, <1>2 DEF HostInv, Live

(* Every step keeps the invariant.                                         *)
LEMMA InvPreserved == HostInv /\ [Next]_vars => HostInv'
<1> SUFFICES ASSUME HostInv, [Next]_vars PROVE HostInv'
    OBVIOUS
<1>1. CASE UNCHANGED <<clients, stores>>
    BY <1>1 DEF HostInv, Live
<1>2. ASSUME NEW client \in Clients, StepOf(client) PROVE HostInv'
    <2>1. PICK me, store : Moves(client, me, store)
        <3>1. CASE \E height : Creates(client, height)
            BY <3>1 DEF Creates
        <3>2. CASE \E height : Extends(client, height)
            BY <3>2 DEF Extends
        <3>3. CASE \E height : Freezes(client, height)
            BY <3>3 DEF Freezes
        <3>4. CASE \E other : TakesOver(client, other)
            BY <3>4 DEF TakesOver
        <3> QED BY <1>2, <3>1, <3>2, <3>3, <3>4 DEF StepOf
    <2> QED BY <2>1, MovesKeepInv
<1>3. CASE UNCHANGED vars
    BY <1>1, <1>3 DEF vars
<1> QED BY <1>1, <1>2, <1>3, EveryStep

(* The inductive invariant holds: see HostInv.                             *)
LEMMA AlwaysSound == Spec => []HostInv
<1> QED BY InitSound, InvPreserved, PTL DEF Spec

(* The latest height a client state names is always that of a state the    *)
(* host keeps for the client (mod.rs:534,1139,1200-1203).                  *)
THEOREM LatestAlwaysKept == Spec => []LatestIsKept
<1>1. ASSUME HostInv PROVE LatestIsKept
    <2>1. ASSUME NEW client \in Live
          PROVE  /\ clients[client].latest_height # NoHeight
                 /\ clients[client].latest_height
                        \in DOMAIN stores[client].consensusStates
        BY <1>1 DEF HostInv, Sound, IsClient, ClientStateType, HeightType,
                    NoHeight
    <2> QED BY <2>1 DEF LatestIsKept
<1> QED BY <1>1, AlwaysSound, PTL

-----------------------------------------------------------------------------
(* Of what ClientLifecycle sees, a step of one client leaves the others'   *)
(* part as it is.                                                          *)
LEMMA OnlyOneMoves ==
    ASSUME HostInv, NEW client, NEW me, NEW store, Moves(client, me, store)
    PROVE  Lifecycle!Only(client)
<1>1. Live' = Live \cup {client}
    BY DEF Moves, Live
<1>2. ASSUME NEW other \in Live \ {client}
      PROVE  clients'[other] = clients[other] /\ stores'[other] = stores[other]
    BY DEF Moves
<1> QED BY <1>1, <1>2 DEF Lifecycle!Only, Lifecycle!Others, Lifecycle!Exists

(* What a call writes, the abstract client adds.                           *)
LEMMA WroteAdds ==
    ASSUME HostInv, NEW client \in Live, NEW me, NEW store, NEW height,
           Moves(client, me, store), Wrote(stores[client], store, height)
    PROVE  Lifecycle!AddsOnly(client, height)
<1>1. Live' = Live \cup {client} /\ stores'[client] = store
    BY DEF Moves, Live
<1> QED BY <1>1 DEF Wrote, Lifecycle!AddsOnly

(* Each kind of step is an action of ClientLifecycle. *)
LEMMA CreatesMaps ==
    ASSUME HostInv, NEW client, NEW height, Creates(client, height)
    PROVE  Lifecycle!Create(client, height)
<1>1. PICK me, store :
        /\ Moves(client, me, store)
        /\ DOMAIN store.consensusStates = {height}
        /\ me.latest_height = height /\ me.frozen_height = NoHeight
    BY DEF Creates
<1>2. /\ Live' = Live \cup {client}
      /\ clients'[client] = me /\ stores'[client] = store
    BY <1>1 DEF Moves, Live
<1>3. Lifecycle!Only(client)
    BY <1>1, OnlyOneMoves
<1> QED BY <1>1, <1>2, <1>3 DEF Creates, Lifecycle!Create, Lifecycle!Exists

(* Updates and upgrades extend the abstract client,                        *)
LEMMA ExtendsMaps ==
    ASSUME HostInv, NEW client, NEW height, Extends(client, height)
    PROVE  Lifecycle!Extend(client, height)
<1> DEFINE old == clients[client]
<1>1. PICK me, store :
        /\ Moves(client, me, store)
        /\ Wrote(stores[client], store, height)
        /\ \/ me.latest_height = old.latest_height
           \/ me.latest_height = height /\ Higher(height, old.latest_height)
        /\ me.frozen_height = NoHeight /\ me.data = old.data
    BY DEF Extends
<1>2. Live' = Live \cup {client} /\ clients'[client] = me
    BY <1>1 DEF Moves, Live
<1>3. client \in Live /\ old.frozen_height = NoHeight
    BY DEF Extends
<1>4. Lifecycle!Only(client) /\ Lifecycle!AddsOnly(client, height)
    BY <1>1, <1>3, OnlyOneMoves, WroteAdds
<1> QED BY <1>1, <1>2, <1>3, <1>4 DEF Lifecycle!Extend, Lifecycle!Exists

(* evidence freezes it,                                                    *)
LEMMA FreezesMaps ==
    ASSUME HostInv, NEW client, NEW height, Freezes(client, height)
    PROVE  Lifecycle!Freeze(client, height)
<1> DEFINE old == clients[client]
<1>1. PICK me :
        /\ Moves(client, me, stores[client])
        /\ me.latest_height = old.latest_height
        /\ me.frozen_height = height /\ me.data = old.data
    BY DEF Freezes
<1>2. /\ Live' = Live \cup {client}
      /\ clients'[client] = me /\ stores'[client] = stores[client]
    BY <1>1 DEF Moves, Live
<1>3. /\ client \in Live
      /\ old.frozen_height = NoHeight \/ Higher(old.frozen_height, height)
    BY DEF Freezes
<1>4. Lifecycle!Only(client)
    BY <1>1, OnlyOneMoves
<1> QED BY <1>1, <1>2, <1>3, <1>4 DEF Lifecycle!Freeze, Lifecycle!Exists

(* and a substitution takes the latest state of another over.              *)
LEMMA TakesOverMaps ==
    ASSUME HostInv, NEW client, NEW other, TakesOver(client, other)
    PROVE  Lifecycle!TakeOver(client, other)
<1>0. PICK height : height = clients[other].latest_height
    OBVIOUS
<1>1. PICK me, store :
        /\ Moves(client, me, store)
        /\ Wrote(stores[client], store, height)
        /\ store.consensusStates[height].state
                = stores[other].consensusStates[height].state
        /\ me.latest_height = height /\ me.frozen_height = NoHeight
        /\ me.data = clients[client].data
    BY <1>0 DEF TakesOver
<1>2. /\ Live' = Live \cup {client}
      /\ clients'[client] = me /\ stores'[client] = store
    BY <1>1 DEF Moves, Live
<1>3. /\ client \in Live /\ other \in Live \ {client}
      /\ clients[client].data = clients[other].data
    BY DEF TakesOver
<1>4. height \in DOMAIN stores[other].consensusStates
    BY <1>0, <1>3 DEF HostInv, Sound
<1>5. height \in DOMAIN store.consensusStates
    BY <1>1 DEF Wrote
<1>6. Lifecycle!Only(client) /\ Lifecycle!AddsOnly(client, height)
    BY <1>1, <1>3, OnlyOneMoves, WroteAdds
<1>7. /\ [c \in Live |-> clients[c].latest_height][other] = height
      /\ [c \in Live |-> clients[c].data][client]
            = [c \in Live |-> clients[c].data][other]
    BY <1>0, <1>3
<1>8. /\ [c \in Live |-> clients[c].latest_height]'[client] = height
      /\ [c \in Live |-> clients[c].frozen_height]'[client] = NoHeight
      /\ [c \in Live |-> clients[c].data]'[client]
            = [c \in Live |-> clients[c].data][client]
    BY <1>1, <1>2, <1>3
<1> DEFINE kept(c) == [h \in DOMAIN stores[c].consensusStates |->
                        stores[c].consensusStates[h].state]
<1>9. /\ height \in DOMAIN kept(other)
      /\ kept(client)'[height] = kept(other)[height]
    BY <1>1, <1>2, <1>4, <1>5
<1>10. /\ [c \in Live |-> kept(c)]'[client] = kept(client)'
       /\ [c \in Live |-> kept(c)][other] = kept(other)
    BY <1>2, <1>3
<1>11. /\ height \in DOMAIN [c \in Live |-> kept(c)][other]
       /\ [c \in Live |-> kept(c)]'[client][height]
            = [c \in Live |-> kept(c)][other][height]
    BY <1>9, <1>10
<1>12. Lifecycle!AddsOnly(client,
            [c \in Live |-> clients[c].latest_height][other])
    BY <1>6, <1>7 DEF Lifecycle!AddsOnly
<1>13. client \in Lifecycle!Exists /\ other \in Lifecycle!Others(client)
    BY <1>3 DEF Lifecycle!Exists, Lifecycle!Others
<1> DEFINE latestOf == [c \in Live |-> clients[c].latest_height]
<1>14. /\ latestOf[other] \in DOMAIN [c \in Live |-> kept(c)][other]
       /\ [c \in Live |-> kept(c)]'[client][latestOf[other]]
            = [c \in Live |-> kept(c)][other][latestOf[other]]
       /\ latestOf'[client] = latestOf[other]
    BY <1>7, <1>8, <1>11
<1> QED BY <1>6, <1>7, <1>8, <1>12, <1>13, <1>14
        DEF Lifecycle!TakeOver, Lifecycle!AddsOnly

(* Every step is one of ClientLifecycle, or a stutter of it.               *)
LEMMA StepsMap ==
    ASSUME HostInv, [Next]_vars PROVE [Lifecycle!Next]_Lifecycle!vars
<1>1. CASE UNCHANGED <<clients, stores>>
    BY <1>1 DEF Lifecycle!vars, Live
<1>2. CASE UNCHANGED vars
    BY <1>1, <1>2 DEF vars
<1>3. ASSUME NEW client \in Clients, StepOf(client) PROVE Lifecycle!Next
    <2>1. ASSUME NEW height \in Heights \cup {UpgradeHeight},
                 Creates(client, height) \/ Extends(client, height)
                    \/ Freezes(client, height)
          PROVE  Lifecycle!Next
        BY <2>1, CreatesMaps, ExtendsMaps, FreezesMaps DEF Lifecycle!Next
    <2>2. ASSUME NEW other \in Live, TakesOver(client, other)
          PROVE  Lifecycle!Next
        <3>1. other \in Lifecycle!Others(client)
            BY <2>2 DEF TakesOver, Lifecycle!Others, Lifecycle!Exists
        <3> QED BY <2>2, <3>1, TakesOverMaps DEF Lifecycle!Next
    <2> QED BY <1>3, <2>1, <2>2 DEF StepOf
<1> QED BY <1>1, <1>2, <1>3, EveryStep

(* No clients, no abstract clients.                                        *)
LEMMA InitMaps == Init => Lifecycle!Init
<1> SUFFICES ASSUME Init PROVE Lifecycle!Init
    OBVIOUS
<1>1. Live = {}
    BY DEF Init, Live
<1> QED BY <1>1 DEF Lifecycle!Init

(* However many clients there are and whatever heights relayers name, the  *)
(* clients keep the promise of ClientLifecycle (mod.rs:404-652,1131-1251). *)
THEOREM LifecycleImplemented == Spec => ImplementsLifecycle
<1>1. HostInv /\ [Next]_vars => [Lifecycle!Next]_Lifecycle!vars
    BY StepsMap
<1> QED BY <1>1, InitMaps, AlwaysSound, PTL
        DEF Spec, ImplementsLifecycle, Lifecycle!Spec

-----------------------------------------------------------------------------
(* What the clients keep. *)

(* The client verifies every header it stores. *)
Checking == Data.verify_epoch_headers /\ Data.verify_non_epoch_headers

(* A consensus state that is made of a header of the chain.                *)
IsOf(state, header) ==
    /\ state.root = header.root /\ state.timestamp = header.time
    /\ state.snapshot.number = header.number
    /\ state.snapshot.hash = hash(header)
    /\ state.snapshot.validators = SetAfter(header.number)

Certified(state) ==
    \E n \in 1..Tip :
        \/ IsOf(state, SealedBlock(n))
        \/ n \in Forks /\ IsOf(state, Fork(n))

(* Every root is one of the chain's or of a proposal's.                    *)
IsRoot(root) == \E branch, n : root = <<branch, n>>

Known(state) == IsRoot(state.root) /\ (Checking => Certified(state))

(* The entry that a block of the host leaves. *)
Noted(block) ==
    [time |-> block.time, height |-> get_self_height(block.height)]

(* The second inductive invariant: each state a client keeps is one of the *)
(* chain's, and was noted in the block that stored it.                     *)
KeptInv ==
    /\ ChainInv
    /\ env \in [time : 0..MaxTime, height : 1..MaxHeight]
    /\ DOMAIN submitted = Live
    /\ \A client \in Live : \A h \in DOMAIN stores[client].consensusStates :
        /\ Known(StateAt(client, h))
        /\ h \in DOMAIN submitted[client]
        /\ submitted[client][h] \in [time : 0..MaxTime, height : 1..MaxHeight]
        /\ h \in DOMAIN stores[client].processed
        /\ stores[client].processed[h] = Noted(submitted[client][h])

(* A call puts a state into the store of one client, and notes the block.  *)
StoreOf(client) == IF client \in Live THEN stores[client] ELSE EmptyStore
BlocksOf(client) == IF client \in Live THEN submitted[client] ELSE <<>>

Keeps(client, height, state) ==
    /\ UNCHANGED <<chain, sets, env>>
    /\ Live' = Live \cup {client}
    /\ DOMAIN submitted' = DOMAIN submitted \cup {client}
    /\ \A other \in Live \ {client} :
        stores'[other] = stores[other] /\ submitted'[other] = submitted[other]
    /\ Wrote(StoreOf(client), stores'[client], height)
    /\ stores'[client].consensusStates[height].state = state
    /\ stores'[client].processed
            = Put(StoreOf(client).processed, height, Noted(env))
    /\ submitted'[client] = Put(BlocksOf(client), height, env)

(* Such a call keeps the invariant, if the state is of the chain.          *)
LEMMA KeepsInv ==
    ASSUME KeptInv, NEW client, NEW height, NEW state,
           Keeps(client, height, state), Known(state)
    PROVE  KeptInv'
<1>1. ChainInv' /\ Tip' = Tip /\ Checking' = Checking
    BY DEF KeptInv, Keeps, ChainInv, Follows, Tip, Block, SetAfter, Checking
<1>2. \A kept : Known(kept) => Known(kept)'
    <2>1. ASSUME NEW kept PROVE Certified(kept)' = Certified(kept)
        BY DEF Keeps, Certified, IsOf, SealedBlock, Fork, Block, SetAfter, Tip
    <2> QED BY <2>1 DEF Known, Checking
<1>3. /\ env' = env
      /\ env \in [time : 0..MaxTime, height : 1..MaxHeight]
    BY DEF KeptInv, Keeps
<1>4. DOMAIN submitted' = Live'
    BY DEF KeptInv, Keeps
<1> DEFINE Good(c, h) ==
        /\ Known(StateAt(c, h))
        /\ h \in DOMAIN submitted[c]
        /\ submitted[c][h] \in [time : 0..MaxTime, height : 1..MaxHeight]
        /\ h \in DOMAIN stores[c].processed
        /\ stores[c].processed[h] = Noted(submitted[c][h])
<1>5. ASSUME NEW c \in Live', NEW h \in DOMAIN stores'[c].consensusStates
      PROVE  Good(c, h)'
    <2>1. CASE c # client
        <3>1. c \in Live /\ stores'[c] = stores[c]
                /\ submitted'[c] = submitted[c]
            BY <2>1 DEF Keeps
        <3>2. Good(c, h)
            BY <3>1 DEF KeptInv
        <3> QED BY <1>2, <3>1, <3>2 DEF StateAt
    <2>2. CASE c = client /\ h = height
        <3>1. StateAt(c, h)' = state
            BY <2>2 DEF Keeps, StateAt
        <3>2. /\ h \in DOMAIN submitted'[c] /\ submitted'[c][h] = env
              /\ h \in DOMAIN stores'[c].processed
              /\ stores'[c].processed[h] = Noted(env)
            BY <2>2 DEF Keeps, Put
        <3>3. Known(state)'
            BY <1>2
        <3> QED BY <1>3, <3>1, <3>2, <3>3
    <2>3. CASE c = client /\ h # height
        <3>1. /\ h \in DOMAIN StoreOf(c).consensusStates
              /\ stores'[c].consensusStates[h] = StoreOf(c).consensusStates[h]
            BY <2>3 DEF Keeps, Wrote
        <3>2. c \in Live
            BY <3>1 DEF StoreOf, EmptyStore
        <3>3. Good(c, h) /\ StateAt(c, h)' = StateAt(c, h)
            BY <3>1, <3>2 DEF KeptInv, StateAt, StoreOf
        <3>4. /\ h \in DOMAIN submitted'[c]
              /\ submitted'[c][h] = submitted[c][h]
              /\ h \in DOMAIN stores'[c].processed
              /\ stores'[c].processed[h] = stores[c].processed[h]
            BY <2>3, <3>2, <3>3 DEF Keeps, Put, StoreOf, BlocksOf
        <3>5. Known(StateAt(c, h))'
            <4>1. PICK kept : kept = StateAt(c, h)
                OBVIOUS
            <4>2. Known(kept)'
                BY <1>2, <3>3, <4>1
            <4> QED BY <3>3, <4>1, <4>2
        <3> QED BY <3>3, <3>4, <3>5
    <2> QED BY <2>1, <2>2, <2>3
<1> QED BY <1>1, <1>3, <1>4, <1>5 DEF KeptInv

(* set_consensus_meta (mod.rs:1389-1433) notes the block. *)
LEMMA MetaNotes ==
    ASSUME NEW e, NEW store, NEW height, IsStore(store)
    PROVE  set_consensus_meta(e, store, height).processed
            = Put(store.processed, height, Noted(e))
BY DEF IsStore, set_consensus_meta, Noted

(* A call that succeeds hands back a store where only the block is noted;  *)
(* the host then writes the state.                                         *)
LEMMA KeepKeeps ==
    ASSUME HostInv, KeptInv, NEW client, NEW outcome, NEW height,
           Keep(client, outcome, height),
           outcome.store = set_consensus_meta(env, StoreOf(client), height)
    PROVE  Keeps(client, height, outcome.consensus_state)
<1>1. IsStore(StoreOf(client))
    BY DEF HostInv, Sound, StoreOf, IsStore, EmptyStore
<1>2. PICK noted : noted = outcome.store
    OBVIOUS
<1>3. /\ IsStore(noted)
      /\ noted.consensusStates = StoreOf(client).consensusStates
      /\ noted.processed = Put(StoreOf(client).processed, height, Noted(env))
    BY <1>1, <1>2, MetaLeavesStates, MetaNotes
<1>4. PICK store :
        store = HostWrites(noted, height, outcome.consensus_state)
    OBVIOUS
<1>5. Wrote(noted, store, height)
    BY <1>3, <1>4, HostWritesOne
<1>6. /\ store.processed = noted.processed
      /\ store.consensusStates[height].state = outcome.consensus_state
    BY <1>3, <1>4 DEF HostWrites, IsStore, Put
<1>7. Wrote(StoreOf(client), store, height)
    BY <1>3, <1>5 DEF Wrote
<1>8. /\ clients' = Put(clients, client, outcome.client_state)
      /\ stores' = Put(stores, client, store)
      /\ submitted' = Put(submitted, client,
                          Put(BlocksOf(client), height, env))
      /\ UNCHANGED <<chain, sets, env>>
    BY <1>2, <1>4 DEF Keep, BlocksOf
<1>9. /\ DOMAIN stores = Live /\ DOMAIN submitted = Live
    BY DEF HostInv, KeptInv
<1>10. /\ Live' = Live \cup {client}
       /\ DOMAIN submitted' = DOMAIN submitted \cup {client}
       /\ stores'[client] = store
       /\ submitted'[client] = Put(BlocksOf(client), height, env)
    BY <1>8 DEF Put, Live
<1>11. \A other \in Live \ {client} :
        stores'[other] = stores[other] /\ submitted'[other] = submitted[other]
    BY <1>8, <1>9 DEF Put
<1> QED BY <1>3, <1>6, <1>7, <1>8, <1>10, <1>11 DEF Keeps

-----------------------------------------------------------------------------
(* The headers that relayers hand in. *)

(* A header has the root of its block and branch. *)
LEMMA RootOf ==
    ASSUME NEW header, NEW n, NEW branch, NEW added, NEW removed,
           IsBlock(header, n, branch, added, removed)
    PROVE  header.root = <<branch, n>>
<1>1. hash(header) = UnsealedHeader(n, branch, added, removed)
    BY DEF IsBlock
<1>2. "root" \in DOMAIN hash(header) /\ hash(header).root = <<branch, n>>
    BY <1>1 DEF UnsealedHeader
<1>3. "root" \in DOMAIN header /\ hash(header).root = header.root
    BY <1>2 DEF hash
<1> QED BY <1>2, <1>3

(* All of a set are a quorum of it.                                        *)
LEMMA WholeSet ==
    ASSUME NEW set \in ValidatorSets
    PROVE  IsQuorum(DOMAIN set, set)
<1>1. Len(set) \in Nat /\ DOMAIN set = 1..Len(set)
    BY DEF ValidatorSets
<1>2. Cardinality(DOMAIN set) = Len(set)
    <2>1. PICK l : l = Len(set)
        OBVIOUS
    <2>2. l \in Nat /\ 1 \in Int /\ l \in Int
        BY <1>1, <2>1
    <2>3. Cardinality(1..l) = l
        BY <2>2, FS_Interval
    <2> QED BY <1>1, <2>1, <2>3
<1> QED BY <1>1, <1>2 DEF IsQuorum

(* Sealed by the whole set, a block is finalised.                          *)
LEMMA SealedBlockIsFinalised ==
    ASSUME ChainInv, NEW n \in 1..Tip
    PROVE  SealedBlock(n) \in Finalised(n)
<1>1. n - 1 \in 0..Tip /\ n # 0
    BY DEF ChainInv
<1>2. SetAfter(n - 1) \in ValidatorSets
    BY <1>1, SetType
<1>3. IsQuorum(DOMAIN SetAfter(n - 1), SetAfter(n - 1))
    BY <1>2, WholeSet
<1> QED BY <1>1, <1>3 DEF Finalised, QuorumSealed, SealedBlock

(* The parts of a finalised block,                                         *)
LEMMA SealedBlockIs ==
    ASSUME ChainInv, NEW n \in 1..Tip
    PROVE  /\ \E added, removed :
                IsBlock(SealedBlock(n), n, "final", added, removed)
           /\ SealedBlock(n).root = <<"final", n>>
<1>1. PICK added, removed :
        IsBlock(SealedBlock(n), n, "final", added, removed)
    BY SealedBlockIsFinalised, FinalisedIsBlock
<1> QED BY <1>1, RootOf

(* of the second header for its number,                                    *)
LEMMA ForkIs ==
    ASSUME NEW n
    PROVE  /\ IsBlock(Fork(n), n, "fork", <<>>, {})
           /\ Fork(n).root = <<"fork", n>>
<1>1. PICK added, removed : added = <<>> /\ removed = {}
    OBVIOUS
<1>2. PICK seal : Fork(n) = [UnsealedHeader(n, "fork", added, removed)
                                EXCEPT !.aggregated_seal = seal]
    BY <1>1 DEF Fork, Commit
<1>3. IsBlock(Fork(n), n, "fork", added, removed)
    <2>1. added \in Seq(Electable)
        BY <1>1
    <2>2. IsBlock([UnsealedHeader(n, "fork", added, removed)
                        EXCEPT !.aggregated_seal = seal],
                  n, "fork", added, removed)
        BY <2>1, SealedIsBlock
    <2> QED BY <1>2, <2>2
<1>4. IsBlock(Fork(n), n, "fork", <<>>, {})
    BY <1>1, <1>3
<1> QED BY <1>3, <1>4, RootOf

(* and of whatever relayers hand in.                                       *)
LEMMA RelayedIs ==
    ASSUME ChainInv, NEW n \in 1..Tip, NEW header \in Relayed(n)
    PROVE  \E branch, added, removed :
                /\ IsBlock(header, n, branch, added, removed)
                /\ header.root = <<branch, n>>
<1>1. CASE header = SealedBlock(n)
    BY <1>1, SealedBlockIs
<1>2. CASE header \in Abandoned(n)
    <2>1. n \in 1..Tip + 1
        BY DEF ChainInv
    <2>2. PICK added, removed : IsBlock(header, n, "abandoned", added, removed)
        BY <1>2, <2>1, AbandonedLacksQuorum
    <2> QED BY <2>2, RootOf
<1>3. CASE header = Fork(n)
    BY <1>3, ForkIs
<1> QED BY <1>1, <1>2, <1>3 DEF Relayed

(* verify_header lets nothing pass but a later header whose seal is good.  *)
LEMMA PassedHeader ==
    ASSUME NEW config, NEW snapshot, NEW header, NEW now,
           verify_header(config, snapshot, header, now) = "Ok"
    PROVE  /\ ~ (header.number > MaxU64)
           /\ ~ (header.number <= snapshot.number)
           /\ verify_aggregated_seal(hash(header), snapshot.validators,
                                     header.aggregated_seal) = "Ok"
<1>1. /\ ~ (header.number > MaxU64)
      /\ ~ (header.number <= snapshot.number)
      /\ verify_header_seal(snapshot, header) = "Ok"
    BY DEF verify_header
<1>2. verify_header_seal(snapshot, header) = "Ok"
        => verify_aggregated_seal(hash(header), snapshot.validators,
                                  header.aggregated_seal) = "Ok"
    BY DEF verify_header_seal
<1> QED BY <1>1, <1>2

(* Nor does insert_header, for a client that looks at all of them.         *)
LEMMA InsertedPassed ==
    ASSUME Checking, NEW snapshot, NEW header, NEW now, header.number # 0,
           insert_header(Data, snapshot, header, now).res = "Ok"
    PROVE  /\ InsertVerdict(Data, snapshot, header, now) = "Ok"
           /\ verify_header(Data, snapshot, header, now) = "Ok"
<1> DEFINE outcome == insert_header(Data, snapshot, header, now)
           verdict == InsertVerdict(Data, snapshot, header, now)
<1>1. verdict = verify_header(Data, snapshot, header, now)
    BY DEF InsertVerdict, Checking
<1>2. ~ (header.number > MaxU64)
    BY DEF insert_header, Outcome
<1>3. ASSUME verdict # "Ok" PROVE FALSE
    <2>1. outcome = Outcome(verdict, snapshot)
        BY <1>2, <1>3, InsertRefused
    <2> HIDE DEF outcome, verdict
    <2>2. outcome.res = verdict
        BY <2>1 DEF Outcome
    <2>3. outcome.res = "Ok"
        BY DEF outcome
    <2> QED BY <1>3, <2>2, <2>3
<1> QED BY <1>1, <1>3

(* Between the block of a trusted state and the end of the next block's    *)
(* epoch, the set does not change.                                         *)
LEMMA SameSet ==
    ASSUME ChainInv, NEW s \in 1..Tip, NEW n \in 1..Tip, ~ (n <= s),
           n <= get_epoch_last_block_number(get_epoch_number(s + 1, EpochSize),
                                            EpochSize)
    PROVE  SetAfter(n - 1) = SetAfter(s)
<1>1. /\ s \in Nat /\ n \in Int /\ s \in 0..Tip /\ n - 1 \in s..Tip
      /\ EpochSize \in Nat \ {0}
    BY ChainAssumption DEF ChainInv
<1>2. \A m \in s + 1..n - 1 : m % EpochSize # 0
    BY <1>1, BoundaryIsNext
<1> QED BY <1>1, <1>2, SetsInEpoch

(* What an update makes of a header that was stored. *)
LEMMA StoredIsOf ==
    ASSUME NEW header, NEW n, header.number = n, NEW outcome,
           outcome = Outcome("Ok", SnapshotOf(header, SetAfter(n))),
           NEW state,
           state = [snapshot |-> outcome.snapshot,
                    timestamp |-> header.time, root |-> header.root]
    PROVE  IsOf(state, header)
<1>1. PICK stored : stored = SnapshotOf(header, SetAfter(n))
    OBVIOUS
<1>2. /\ state.snapshot = stored /\ state.timestamp = header.time
      /\ state.root = header.root
    BY <1>1 DEF Outcome
<1>3. /\ stored.number = n /\ stored.hash = hash(header)
      /\ stored.validators = SetAfter(n)
    BY <1>1, SnapshotFields
<1> QED BY <1>2, <1>3 DEF IsOf

(* What an update stores is of the chain, if what it starts from is.       *)
LEMMA AcceptedIsCertified ==
    ASSUME KeptInv, Checking, NEW snapshot, NEW s \in 1..Tip,
           snapshot.number = s, snapshot.validators = SetAfter(s),
           NEW n \in 1..Tip, NEW header \in Relayed(n),
           n <= get_epoch_last_block_number(get_epoch_number(s + 1, EpochSize),
                                            EpochSize),
           NEW now, NEW state,
           insert_header(Data, snapshot, header, now).res = "Ok",
           state = [snapshot |->
                        insert_header(Data, snapshot, header, now).snapshot,
                    timestamp |-> header.time, root |-> header.root]
    PROVE  Certified(state)
<1> DEFINE outcome == insert_header(Data, snapshot, header, now)
<1>1. ChainInv /\ n \in Nat /\ n # 0 /\ Data.epoch_size = EpochSize
        /\ n - 1 \in 0..Tip /\ n \in 0..Tip /\ n \in 1..Tip + 1
    BY HostAssumption DEF KeptInv, ChainInv
<1>2. PICK branch, added, removed :
        IsBlock(header, n, branch, added, removed)
    BY <1>1, RelayedIs
<1>3. header.number = n
    BY <1>2 DEF IsBlock
<1>4. /\ InsertVerdict(Data, snapshot, header, now) = "Ok"
      /\ verify_header(Data, snapshot, header, now) = "Ok"
    BY <1>1, <1>3, InsertedPassed
<1>5. /\ ~ (n > MaxU64) /\ ~ (n <= s)
      /\ verify_aggregated_seal(hash(header), snapshot.validators,
                                header.aggregated_seal) = "Ok"
    BY <1>3, <1>4, PassedHeader
<1>6. SetAfter(n - 1) = SetAfter(s)
    BY <1>1, <1>5, SameSet
<1>7. header \notin Abandoned(n)
    BY <1>1, <1>5, <1>6, AbandonedLacksQuorum
<1>8. CASE header = SealedBlock(n)
    <2>1. header \in Finalised(n)
        BY <1>1, <1>8, SealedBlockIsFinalised
    <2>2. outcome = Outcome("Ok", SnapshotOf(header, SetAfter(n)))
        BY <1>1, <1>4, <1>5, <1>6, <2>1, FinalisedInserted
    <2>3. IsOf(state, header)
        BY <1>3, <2>2, StoredIsOf
    <2> QED BY <1>8, <2>3 DEF Certified
<1>9. CASE n \in Forks /\ header = Fork(n)
    <2>1. n % EpochSize # 0
        BY <1>9, HostAssumption
    <2>2. SetAfter(n) = SetAfter(n - 1)
        <3>1. n \in n - 1..Tip /\ \A m \in (n - 1) + 1..n : m = n
            BY <1>1
        <3> QED BY <1>1, <2>1, <3>1, SetsInEpoch
    <2>3. PICK set : set = SetAfter(n)
        OBVIOUS
    <2>4. /\ snapshot.validators = set /\ set \in ValidatorSets
          /\ UniqueAddress(set)
        BY <1>1, <1>6, <2>2, <2>3, SetType
    <2>5. PICK joins, leaves : joins = <<>> /\ leaves = {}
        OBVIOUS
    <2>6. Members(set, leaves) \o joins = set
        <3>1. set \in Seq(Electable)
            BY <2>4 DEF ValidatorSets
        <3>2. Members(set, {}) = set
            BY <3>1, AllStay
        <3>3. set \o <<>> = set
            BY <3>1
        <3> QED BY <2>5, <3>2, <3>3
    <2>7. Fits(snapshot.validators, n, joins, leaves)
        <3>1. joins \in Seq(Electable) /\ leaves \in SUBSET (0..Len(set) - 1)
            BY <2>5
        <3> QED BY <2>1, <2>4, <2>5, <2>6, <3>1 DEF Fits, ValidatorSets
    <2>8. IsBlock(header, n, "fork", joins, leaves)
        BY <1>9, <2>5, ForkIs
    <2>9. outcome = Outcome("Ok", SnapshotOf(header,
                        Members(snapshot.validators, leaves) \o joins))
        BY <1>1, <1>4, <1>5, <2>7, <2>8, InsertAccepted
    <2>10. outcome = Outcome("Ok", SnapshotOf(header, SetAfter(n)))
        BY <2>3, <2>4, <2>6, <2>9
    <2>11. IsOf(state, header)
        BY <1>3, <2>10, StoredIsOf
    <2> QED BY <1>9, <2>11 DEF Certified
<1> QED BY <1>7, <1>8, <1>9 DEF Relayed

-----------------------------------------------------------------------------
(* Every call that stores a state stores one of the chain's. *)

(* A block of the chain, as clients are created from it. *)
LEMMA BlockIsKnown ==
    ASSUME ChainInv, NEW n \in 1..Tip
    PROVE  Known(ConsensusStateOf(SealedBlock(n), SetAfter(n)))
<1>1. PICK header : header = SealedBlock(n)
    OBVIOUS
<1>2. PICK state : state = ConsensusStateOf(header, SetAfter(n))
    OBVIOUS
<1>3. /\ header.root = <<"final", n>> /\ header.number = n
    BY <1>1, SealedBlockIs DEF IsBlock
<1>4. PICK stored : stored = SnapshotOf(header, SetAfter(n))
    OBVIOUS
<1>5. /\ state.snapshot = stored /\ state.timestamp = header.time
      /\ state.root = header.root
    BY <1>2, <1>4 DEF ConsensusStateOf
<1>6. /\ stored.number = header.number /\ stored.hash = hash(header)
      /\ stored.validators = SetAfter(n)
    BY <1>4, SnapshotFields
<1>7. IsOf(state, header)
    BY <1>3, <1>5, <1>6 DEF IsOf
<1> QED BY <1>1, <1>2, <1>3, <1>5, <1>7 DEF Known, Certified, IsRoot

(* A client is created with the state of a block.                          *)
LEMMA CreateKeeps ==
    ASSUME HostInv, KeptInv, NEW client, NEW n \in 1..Tip, NEW height,
           Create(client, n, height)
    PROVE  \E state : Keeps(client, height, state) /\ Known(state)
<1>0. PICK me : me = [data |-> Data, frozen |-> FALSE,
                      frozen_height |-> NoHeight, latest_height |-> height]
    OBVIOUS
<1>1. me.latest_height = height
    BY <1>0
<1>2. PICK state : state = ConsensusStateOf(SealedBlock(n), SetAfter(n))
    OBVIOUS
<1>3. PICK outcome : outcome = init_contract(env, EmptyStore, state, me)
    OBVIOUS
<1>4. client \notin Live /\ Keep(client, outcome, height)
    BY <1>0, <1>2, <1>3 DEF Create
<1>5. outcome = Done(set_consensus_meta(env, EmptyStore, height), me, state)
    <2>1. outcome.res = "Ok"
        BY <1>4 DEF Keep
    <2> QED BY <1>1, <1>3, <2>1 DEF init_contract, Failed
<1>6. /\ outcome.store = set_consensus_meta(env, StoreOf(client), height)
      /\ outcome.consensus_state = state
    BY <1>4, <1>5 DEF Done, StoreOf
<1>7. Keeps(client, height, state)
    BY <1>4, <1>6, KeepKeeps
<1> QED BY <1>2, <1>7, BlockIsKnown DEF KeptInv

(* An update keeps the state of a block (mod.rs:525-588): what the check   *)
(* of its header lets pass is a header that a quorum sealed.               *)
LEMMA UpdateKeeps ==
    ASSUME HostInv, KeptInv, NEW client \in Live,
           NEW trusted \in Readable(client), NEW n \in 1..Tip,
           NEW header \in Relayed(n), NEW height,
           Update(client, trusted, header, height)
    PROVE  \E state : Keeps(client, height, state) /\ Known(state)
<1>1. PICK last : last = StateAt(client, trusted)
    OBVIOUS
<1>2. PICK me : me = clients[client] /\ me.data = Data
    BY DEF HostInv, Sound, IsClient, ClientStateType
<1>3. PICK outcome :
        outcome = check_header_and_update_state(env, stores[client], me,
                        last, header, height)
    OBVIOUS
<1>4. PICK inserted :
        inserted = insert_header(Data, last.snapshot, header, env.time)
    OBVIOUS
<1>5. PICK state : state = [snapshot |-> inserted.snapshot,
                            timestamp |-> header.time, root |-> header.root]
    OBVIOUS
<1>6. /\ Keep(client, outcome, height)
      /\ header.number
            <= get_epoch_last_block_number(
                get_epoch_number(last.snapshot.number + 1, EpochSize),
                EpochSize)
    BY <1>1, <1>2, <1>3 DEF Update
<1>7. /\ inserted.res = "Ok"
      /\ outcome = Done(set_consensus_meta(env, stores[client], height), me,
                        state)
    <2>1. outcome.res = "Ok"
        BY <1>6 DEF Keep
    <2> QED BY <1>2, <1>3, <1>4, <1>5, <2>1
            DEF check_header_and_update_state, Failed
<1>8. /\ outcome.store = set_consensus_meta(env, StoreOf(client), height)
      /\ outcome.consensus_state = state
    BY <1>7 DEF Done, StoreOf
<1>9. Keeps(client, height, state)
    BY <1>6, <1>8, KeepKeeps
<1>10. ChainInv /\ Known(last)
    BY <1>1 DEF KeptInv, Readable
<1>11. PICK branch, added, removed :
        /\ IsBlock(header, n, branch, added, removed)
        /\ header.root = <<branch, n>>
    BY <1>10, RelayedIs
<1>12. IsRoot(state.root) /\ header.number = n
    BY <1>5, <1>11 DEF IsRoot, IsBlock
<1>13. ASSUME Checking PROVE Certified(state)
    <2>1. PICK s \in 1..Tip : /\ last.snapshot.number = s
                              /\ last.snapshot.validators = SetAfter(s)
        <3>1. PICK s \in 1..Tip : \/ IsOf(last, SealedBlock(s))
                                  \/ IsOf(last, Fork(s))
            BY <1>10, <1>13 DEF Known, Certified
        <3>2. SealedBlock(s).number = s /\ Fork(s).number = s
            BY <1>10, SealedBlockIs, ForkIs DEF IsBlock
        <3> QED BY <3>1, <3>2 DEF IsOf
    <2>2. n <= get_epoch_last_block_number(
                    get_epoch_number(s + 1, EpochSize), EpochSize)
        BY <1>6, <1>12, <2>1
    <2>3. PICK snapshot : snapshot = last.snapshot
        OBVIOUS
    <2>4. PICK now : now = env.time
        OBVIOUS
    <2>5. /\ insert_header(Data, snapshot, header, now).res = "Ok"
          /\ state = [snapshot |->
                        insert_header(Data, snapshot, header, now).snapshot,
                      timestamp |-> header.time, root |-> header.root]
        BY <1>4, <1>5, <1>7, <2>3, <2>4
    <2> QED BY <1>13, <2>1, <2>2, <2>3, <2>5, AcceptedIsCertified
<1> QED BY <1>9, <1>12, <1>13 DEF Known

(* Of a chain of one proof, verify_membership (types/ibc.rs) asks that it  *)
(* is of the root, the last key and the value.                             *)
LEMMA OneProof ==
    ASSUME NEW r, NEW path, NEW value, NEW root, NEW keys, NEW v,
           Len(keys) \in Nat \ {0}
    PROVE  verify_membership(ProofUnder(r, path, value), root, keys, v) = "Ok"
            <=> /\ r # NoRoot /\ r = root
                /\ keys[Len(keys)] = path /\ value = v
<1> DEFINE proofs == ProofUnder(r, path, value)
           fails(k) == ProofVerdict(proofs, keys, v, k) # "Ok"
           first == CHOOSE k \in DOMAIN proofs :
                        fails(k) /\ \A j \in 1..k - 1 : ~ fails(j)
<1>1. PICK proof : proof = [kind |-> "exist", spec |-> specs[1], key |-> path,
                            value |-> value, root |-> r]
    OBVIOUS
<1>2. /\ proof.kind = "exist" /\ proof.spec = specs[1] /\ proof.key = path
      /\ proof.value = value /\ proof.root = r
    BY <1>1
<1>3. proofs = <<proof>>
    BY <1>1 DEF ProofUnder
<1>4. DOMAIN proofs = {1} /\ proofs[1] = proof /\ Len(proofs) = 1
    BY <1>3
<1>5. Len(keys) + 1 - 1 = Len(keys) /\ 1 - 1 = 0 /\ ~ (1 > Len(keys))
        /\ ~ (1 > Len(specs))
    BY DEF specs
<1> HIDE DEF proofs
<1>6. Subroot(proofs, v, 0) = v /\ Subroot(proofs, v, 1) = r
    BY <1>2, <1>4 DEF Subroot
<1>7. ProofVerdict(proofs, keys, v, 1) = "Ok"
        <=> r # NoRoot /\ keys[Len(keys)] = path /\ value = v
    <2>1. ProofVerdict(proofs, keys, v, 1)
            = IF r = NoRoot THEN "IncompleteProof"
              ELSE IF ics23_verify_membership(proof, specs[1], r,
                                              keys[Len(keys)], v)
              THEN "Ok" ELSE "InvalidProof"
        BY <1>2, <1>4, <1>5, <1>6 DEF ProofVerdict, get_exist_proof
    <2>2. ics23_verify_membership(proof, specs[1], r, keys[Len(keys)], v)
            <=> path = keys[Len(keys)] /\ value = v
        BY <1>2 DEF ics23_verify_membership
    <2> QED BY <2>1, <2>2
<1>8. CASE fails(1)
    <2>1. fails(1) /\ \A j \in 1..1 - 1 : ~ fails(j)
        BY <1>8
    <2>2. first \in DOMAIN proofs
        <3> HIDE DEF fails
        <3> QED BY <1>4, <2>1
    <2>3. first = 1
        <3> HIDE DEF first
        <3> QED BY <1>4, <2>2
    <2>4. verify_membership(proofs, root, keys, v)
            = ProofVerdict(proofs, keys, v, 1)
        BY <1>4, <1>8, <2>3, Zenon DEF verify_membership
    <2> QED BY <1>7, <1>8, <2>4 DEF proofs
<1>9. CASE ~ fails(1)
    <2>1. ~ \E k \in DOMAIN proofs : fails(k)
        <3> HIDE DEF fails
        <3> QED BY <1>4, <1>9
    <2>2. verify_membership(proofs, root, keys, v)
            = IF r # root THEN "WrongRoot" ELSE "Ok"
        BY <1>4, <1>6, <2>1, Zenon DEF verify_membership
    <2> QED BY <1>7, <1>9, <2>2 DEF proofs
<1> QED BY <1>8, <1>9

(* A proof of the consensus state that an upgrade brings in.               *)
StateProven(me, proof, last, state) ==
    verify_membership(proof, last.root,
        construct_upgrade_merkle_path(me.data.upgrade_path,
            UpgradedClientConsensusState(me.latest_height.revision_number)),
        Json(state)) = "Ok"

(* What the chain committed to for the consensus state of an upgrade is    *)
(* one of its states, whatever proof is given for it.                      *)
LEMMA ProvenIsCommitted ==
    ASSUME NEW me, me.data = Data, NEW last, NEW state,
           NEW proof \in UpgradeProofs(me, last),
           StateProven(me, proof, last, state)
    PROVE  state \in UpgradeStates
<1> DEFINE revision == me.latest_height.revision_number
           wanted == UpgradedClientConsensusState(revision)
           clientValues == {<<UpgradedClientState(revision), Json(c)>> :
                                c \in UpgradedClients(me)}
           stateValues == {<<wanted, Json(s)>> : s \in UpgradeStates}
<1>1. PICK keys : keys = construct_upgrade_merkle_path(me.data.upgrade_path,
                                                       wanted)
    OBVIOUS
<1>2. Len(keys) \in Nat \ {0} /\ keys[Len(keys)] = wanted
    <2>1. PICK path : path = Data.upgrade_path
        OBVIOUS
    <2>2. PICK key : key = wanted
        OBVIOUS
    <2>3. path \in Seq(STRING \cup {key}) /\ key \in STRING \cup {key}
        BY <2>1, HostAssumption
    <2>4. keys = Append(path, key)
        BY <1>1, <2>1, <2>2 DEF construct_upgrade_merkle_path
    <2>5. Len(keys) = Len(path) + 1 /\ keys[Len(path) + 1] = key
            /\ Len(path) \in Nat
        BY <2>3, <2>4
    <2> QED BY <2>2, <2>5
<1>3. PICK v \in clientValues \cup stateValues :
        proof = ProofUnder(last.root, v[1], v[2])
    BY DEF UpgradeProofs
<1>4. PICK path, value : path = v[1] /\ value = v[2]
    OBVIOUS
<1>5. path = wanted /\ value = Json(state)
    <2>1. verify_membership(ProofUnder(last.root, path, value), last.root,
                            keys, Json(state)) = "Ok"
        BY <1>1, <1>3, <1>4 DEF StateProven
    <2> HIDE DEF wanted
    <2> QED BY <1>2, <2>1, OneProof
<1>6. v \notin clientValues
    <2>1. ASSUME NEW c, v = <<UpgradedClientState(revision), Json(c)>>
          PROVE  FALSE
        <3>1. path = UpgradedClientState(revision)
            BY <1>4, <2>1
        <3> QED BY <1>5, <3>1
                DEF UpgradedClientState, UpgradedClientConsensusState
    <2> QED BY <2>1
<1>7. PICK s \in UpgradeStates : v = <<wanted, Json(s)>>
    BY <1>3, <1>6
<1>8. Json(s) = Json(state)
    BY <1>4, <1>5, <1>7
<1>9. s = state
    BY <1>8 DEF Json
<1> QED BY <1>7, <1>9

(* An upgrade keeps a state that a kept one proves (mod.rs:656-704).       *)
LEMMA UpgradeKeeps ==
    ASSUME HostInv, KeptInv, NEW client \in Live, NEW trusted,
           Upgrade(client, trusted)
    PROVE  \E height, state : Keeps(client, height, state) /\ Known(state)
<1>1. PICK last : last = StateAt(client, trusted)
    OBVIOUS
<1>2. PICK me : me = clients[client] /\ me.data = Data
    BY DEF HostInv, Sound, IsClient, ClientStateType
<1>3. PICK new_client, state, proof_1, proof_2 :
        /\ proof_1 \in UpgradeProofs(me, last)
        /\ Keep(client,
                verify_upgrade_and_update_state(env, stores[client], me,
                    new_client, state, proof_1, proof_2, last),
                new_client.latest_height)
    BY <1>1, <1>2 DEF Upgrade
<1>4. PICK outcome :
        outcome = verify_upgrade_and_update_state(env, stores[client], me,
                        new_client, state, proof_1, proof_2, last)
    OBVIOUS
<1>5. PICK height : height = new_client.latest_height
    OBVIOUS
<1>6. /\ StateProven(me, proof_1, last, state)
      /\ outcome = Done(set_consensus_meta(env, stores[client], height),
                        new_client, state)
    <2>1. outcome.res = "Ok"
        BY <1>3, <1>4 DEF Keep
    <2>2. is_expired(env.time, last.timestamp, me.data) # "Ok"
        BY DEF is_expired
    <2> QED BY <1>4, <1>5, <2>1, <2>2
            DEF verify_upgrade_and_update_state, Failed, StateProven
<1>7. /\ outcome.store = set_consensus_meta(env, StoreOf(client), height)
      /\ outcome.consensus_state = state
    BY <1>6 DEF Done, StoreOf
<1>8. Keeps(client, height, state)
    BY <1>3, <1>4, <1>5, <1>7, KeepKeeps
<1>9. state \in UpgradeStates
    BY <1>2, <1>3, <1>6, ProvenIsCommitted
<1>10. Known(state)
    BY <1>9, BlockIsKnown DEF UpgradeStates, KeptInv
<1> QED BY <1>8, <1>10

(* A substitution keeps a state that the other client kept.                *)
LEMMA SubstituteKeeps ==
    ASSUME HostInv, KeptInv, NEW client \in Live, NEW other \in Live,
           client # other, NEW latest, Substitute(client, other, latest)
    PROVE  \E height, state : Keeps(client, height, state) /\ Known(state)
<1>1. PICK height : height = clients[other].latest_height
    OBVIOUS
<1>2. PICK outcome :
        outcome = check_substitute_client_state(env, stores[client],
                        stores[other], clients[client], clients[other],
                        StateAt(client, latest), height)
    OBVIOUS
<1>3. /\ outcome.res = "Ok"
      /\ clients' = Put(clients, client, outcome.client_state)
      /\ stores' = Put(stores, client, outcome.store)
      /\ submitted' = Put(submitted, client,
                          Put(submitted[client], height, env))
      /\ UNCHANGED <<chain, sets, env>>
    BY <1>1, <1>2 DEF Substitute
<1>4. /\ IsStore(stores[client]) /\ IsStore(stores[other])
      /\ height \in DOMAIN stores[other].consensusStates
      /\ DOMAIN stores = Live /\ DOMAIN submitted = Live
    BY <1>1 DEF HostInv, KeptInv, Sound
<1>5. PICK bytes : bytes = stores[other].consensusStates[height]
    OBVIOUS
<1>6. PICK copied : copied = set_consensus_state(stores[client], height, bytes)
    OBVIOUS
<1>7. PICK store : store = set_consensus_meta(env, copied, height)
    OBVIOUS
<1>8. outcome.store = store
    <2>1. PICK me, target, before, theirs, read :
            /\ me = clients[client] /\ target = clients[other]
            /\ before = stores[client] /\ theirs = stores[other]
            /\ read = StateAt(client, latest)
        OBVIOUS
    <2>2. Substitutes(env, before, theirs, me, target, read, height, outcome)
        BY <1>1, <1>2, <1>3, <1>4, <2>1 DEF Substitutes
    <2>3. outcome = Done(Copied(env, before, theirs, height),
                         Recovered(me, height), <<>>)
        BY <2>2, SubstituteDone
    <2>4. outcome = Done(Copied(env, stores[client], stores[other], height),
                         Recovered(clients[client], height), <<>>)
        BY <2>1, <2>3
    <2>5. Copied(env, stores[client], stores[other], height) = store
        BY <1>5, <1>6, <1>7 DEF Copied
    <2> QED BY <2>4, <2>5 DEF Done
<1>9. /\ IsStore(copied) /\ Wrote(stores[client], copied, height)
      /\ copied.consensusStates[height].state = bytes.state
    <2>1. IsEntry(bytes)
        BY <1>4, <1>5 DEF IsStore
    <2> QED BY <1>4, <1>6, <2>1, ContractWritesOne
<1>10. copied.processed = stores[client].processed
    BY <1>4, <1>6 DEF set_consensus_state, IsStore
<1>11. /\ store.consensusStates = copied.consensusStates
       /\ store.processed = Put(copied.processed, height, Noted(env))
    BY <1>7, <1>9, MetaLeavesStates, MetaNotes
<1>12. /\ Live' = Live \cup {client}
       /\ DOMAIN submitted' = DOMAIN submitted \cup {client}
       /\ stores'[client] = store
       /\ submitted'[client] = Put(BlocksOf(client), height, env)
    BY <1>3, <1>8 DEF Put, Live, BlocksOf
<1>13. \A c \in Live \ {client} :
        stores'[c] = stores[c] /\ submitted'[c] = submitted[c]
    BY <1>3, <1>4 DEF Put
<1>14. StoreOf(client) = stores[client]
    BY DEF StoreOf
<1>15. Wrote(StoreOf(client), stores'[client], height)
    BY <1>9, <1>11, <1>12, <1>14 DEF Wrote
<1>16. Keeps(client, height, bytes.state)
    BY <1>3, <1>9, <1>10, <1>11, <1>12, <1>13, <1>14, <1>15 DEF Keeps
<1>17. Known(bytes.state)
    BY <1>4, <1>5 DEF KeptInv, StateAt
<1> QED BY <1>16, <1>17

(* A growing chain leaves what was of the chain on it. *)
LEMMA GrowthKeepsKnown ==
    ASSUME ChainInv, Grow, NEW state, Known(state) PROVE Known(state)'
<1>0. PICK t : t = Tip
    OBVIOUS
<1>1. /\ t \in Nat /\ Tip' = t + 1
      /\ \A n \in 0..t : Block(n)' = Block(n)
      /\ \A n \in 0..t : SetAfter(n)' = SetAfter(n)
    BY <1>0, GrowKeeps
<1>2. ASSUME Certified(state) PROVE Certified(state)'
    <2>1. PICK n \in 1..t : \/ IsOf(state, SealedBlock(n))
                            \/ n \in Forks /\ IsOf(state, Fork(n))
        BY <1>0, <1>2 DEF Certified
    <2>2. n \in 0..t /\ n - 1 \in 0..t /\ n \in 1..t + 1
        BY <1>1
    <2>3. /\ Block(n)' = Block(n) /\ SetAfter(n)' = SetAfter(n)
          /\ SetAfter(n - 1)' = SetAfter(n - 1)
        BY <1>1, <2>2
    <2>4. SealedBlock(n)' = SealedBlock(n) /\ Fork(n)' = Fork(n)
        BY <2>3 DEF SealedBlock, Fork
    <2>5. SealedBlock(n).number = n /\ Fork(n).number = n
        BY <1>0, SealedBlockIs, ForkIs DEF IsBlock
    <2>6. /\ IsOf(state, SealedBlock(n)) => IsOf(state, SealedBlock(n))'
          /\ IsOf(state, Fork(n)) => IsOf(state, Fork(n))'
        BY <2>3, <2>4, <2>5 DEF IsOf
    <2>7. n \in 1..Tip'
        BY <1>1, <2>2
    <2> QED BY <2>1, <2>6, <2>7 DEF Certified
<1> QED BY <1>2 DEF Known, Checking

(* Each step stores a known state, or leaves the stores alone. *)
LEMMA KeptSteps ==
    ASSUME HostInv, KeptInv, Next
    PROVE  \/ Grow /\ UNCHANGED hostVars
           \/ NextBlock
           \/ UNCHANGED <<chain, sets, env, stores, submitted>>
           \/ \E client, height, state :
                    Keeps(client, height, state) /\ Known(state)
<1>1. CASE ChainGrows
    BY <1>1 DEF ChainGrows
<1>2. CASE NextBlock
    BY <1>2
<1>3. ASSUME NEW client, NEW number \in 1..Tip, NEW height,
             Create(client, number, height)
      PROVE  \E c, h, state : Keeps(c, h, state) /\ Known(state)
    BY <1>3, CreateKeeps
<1>4. ASSUME NEW client \in Live, NEW trusted \in Readable(client),
             NEW number \in 1..Tip, NEW header \in Relayed(number),
             NEW height, Update(client, trusted, header, height)
      PROVE  \E c, h, state : Keeps(c, h, state) /\ Known(state)
    BY <1>4, UpdateKeeps
<1>5. ASSUME NEW client, NEW trusted_1, NEW trusted_2, NEW misbehaviour,
             SubmitMisbehaviour(client, trusted_1, trusted_2, misbehaviour)
      PROVE  UNCHANGED <<chain, sets, env, stores, submitted>>
    BY <1>5 DEF SubmitMisbehaviour
<1>6. ASSUME NEW client \in Live, NEW trusted, Upgrade(client, trusted)
      PROVE  \E c, h, state : Keeps(c, h, state) /\ Known(state)
    BY <1>6, UpgradeKeeps
<1>7. ASSUME NEW client \in Live, NEW other \in Live, client # other,
             NEW latest, Substitute(client, other, latest)
      PROVE  \E c, h, state : Keeps(c, h, state) /\ Known(state)
    BY <1>7, SubstituteKeeps
<1> QED BY <1>1, <1>2, <1>3, <1>4, <1>5, <1>6, <1>7 DEF Next

(* Nothing is kept at first.                                               *)
LEMMA InitKept == Init => KeptInv
<1> SUFFICES ASSUME Init PROVE KeptInv
    OBVIOUS
<1>1. ChainInv
    BY ChainInitially DEF Init
<1>2. env \in [time : 0..MaxTime, height : 1..MaxHeight]
    BY HostAssumption DEF Init
<1>3. Live = {} /\ DOMAIN submitted = {}
    BY DEF Init, Live
<1> QED BY <1>1, <1>2, <1>3 DEF KeptInv

(* A store that is as it was, on a chain where what was known still is.    *)
LEMMA SameStores ==
    ASSUME KeptInv, UNCHANGED <<stores, submitted>>, Live' = Live, ChainInv',
           env' \in [time : 0..MaxTime, height : 1..MaxHeight],
           \A state : Known(state) => Known(state)'
    PROVE  KeptInv'
<1>1. ASSUME NEW c \in Live', NEW h \in DOMAIN stores'[c].consensusStates
      PROVE  Known(StateAt(c, h))'
    <2>1. PICK kept : kept = StateAt(c, h)
        OBVIOUS
    <2>2. Known(kept)'
        BY <2>1 DEF KeptInv
    <2>3. StateAt(c, h)' = kept
        BY <2>1 DEF StateAt
    <2> QED BY <2>2, <2>3
<1> QED BY <1>1 DEF KeptInv

(* Every step keeps the states known, and their metadata right.            *)
LEMMA KeptPreserved == HostInv /\ KeptInv /\ [Next]_vars => KeptInv'
<1> SUFFICES ASSUME HostInv, KeptInv, [Next]_vars PROVE KeptInv'
    OBVIOUS
<1>0. DOMAIN submitted = Live
    BY DEF KeptInv
<1>1. CASE Grow /\ UNCHANGED hostVars
    <2>1. ChainInv'
        BY <1>1, ChainPreserved DEF KeptInv
    <2>2. \A state : Known(state) => Known(state)'
        BY <1>1, GrowthKeepsKnown DEF KeptInv
    <2>3. /\ UNCHANGED <<stores, submitted>> /\ Live' = Live
          /\ env' \in [time : 0..MaxTime, height : 1..MaxHeight]
        BY <1>1 DEF hostVars, Live, KeptInv
    <2> QED BY <2>1, <2>2, <2>3, SameStores
<1>2. CASE UNCHANGED <<chain, sets>> /\ UNCHANGED <<stores, submitted>>
            /\ Live' = Live
            /\ env' \in [time : 0..MaxTime, height : 1..MaxHeight]
    <2>1. ChainInv'
        BY <1>2 DEF KeptInv, ChainInv, Follows, Tip, Block, SetAfter
    <2>2. ASSUME NEW state PROVE Certified(state)' = Certified(state)
        BY <1>2 DEF Certified, IsOf, SealedBlock, Fork, Block, SetAfter, Tip
    <2>3. \A state : Known(state) => Known(state)'
        BY <2>2 DEF Known, Checking
    <2> QED BY <1>2, <2>1, <2>3, SameStores
<1>3. CASE NextBlock
    <2>1. env' \in [time : 0..MaxTime, height : 1..MaxHeight]
        <3>1. PICK elapsed \in BlockTimes :
                /\ env.time + elapsed <= MaxTime
                /\ env' = [time |-> env.time + elapsed,
                           height |-> env.height + 1]
            BY <1>3 DEF NextBlock
        <3>2. PICK time, height : time = env.time /\ height = env.height
            OBVIOUS
        <3>3. /\ time \in 0..MaxTime /\ height \in 1..MaxHeight
              /\ height < MaxHeight /\ elapsed \in Nat
              /\ MaxTime \in Nat /\ MaxHeight \in Nat
            BY <1>3, <3>2, HostAssumption DEF NextBlock, KeptInv
        <3>4. time + elapsed \in 0..MaxTime /\ height + 1 \in 1..MaxHeight
            BY <3>1, <3>2, <3>3
        <3> QED BY <3>1, <3>2, <3>4
    <2> QED BY <1>2, <1>3, <2>1 DEF NextBlock, Live
<1>4. CASE UNCHANGED <<chain, sets, env, stores, submitted>>
    <2>1. Live' = Live
        <3>1. DOMAIN stores = Live
            BY DEF HostInv
        <3>2. HostInv'
            BY InvPreserved
        <3> QED BY <1>4, <3>1, <3>2 DEF HostInv
    <2> QED BY <1>2, <1>4, <2>1 DEF KeptInv
<1>5. CASE UNCHANGED vars
    BY <1>4, <1>5 DEF vars
<1> QED BY <1>1, <1>3, <1>4, <1>5, KeptSteps, KeepsInv

(* The inductive invariant holds: see KeptInv.                             *)
LEMMA AlwaysKept == Spec => []KeptInv
<1>1. Init => HostInv /\ KeptInv
    BY InitSound, InitKept
<1>2. HostInv /\ KeptInv /\ [Next]_vars => (HostInv /\ KeptInv)'
    BY InvPreserved, KeptPreserved
<1> QED BY <1>1, <1>2, PTL DEF Spec

-----------------------------------------------------------------------------
(* A certified state is of the fork if it has the fork's root, and of the  *)
(* finalised block otherwise.                                              *)
LEMMA CertifiedFollows ==
    ASSUME ChainInv, NEW state, Certified(state)
    PROVE  LET number == state.snapshot.number
               header == IF number \in Forks /\ state.root = Fork(number).root
                         THEN Fork(number) ELSE SealedBlock(number)
           IN  /\ number <= Tip
               /\ state.root = header.root
               /\ state.timestamp = header.time
               /\ state.snapshot.hash = hash(header)
               /\ state.snapshot.validators = SetAfter(number)
<1>1. PICK n \in 1..Tip : \/ IsOf(state, SealedBlock(n))
                          \/ n \in Forks /\ IsOf(state, Fork(n))
    BY DEF Certified
<1>2. n <= Tip
    BY DEF ChainInv
<1>3. /\ SealedBlock(n).number = n /\ SealedBlock(n).root = <<"final", n>>
      /\ Fork(n).number = n /\ Fork(n).root = <<"fork", n>>
    BY SealedBlockIs, ForkIs DEF IsBlock
<1>4. state.snapshot.number = n
    BY <1>1, <1>3 DEF IsOf
<1> DEFINE header == IF n \in Forks /\ state.root = Fork(n).root
                     THEN Fork(n) ELSE SealedBlock(n)
<1>5. IsOf(state, header)
    <2>1. CASE IsOf(state, SealedBlock(n))
        <3>1. state.root # Fork(n).root
            BY <1>3, <2>1 DEF IsOf
        <3> QED BY <2>1, <3>1
    <2>2. CASE n \in Forks /\ IsOf(state, Fork(n))
        <3>1. state.root = Fork(n).root
            BY <2>2 DEF IsOf
        <3> QED BY <2>2, <3>1
    <2> QED BY <1>1, <2>1, <2>2
<1>6. header.number = n
    BY <1>3
<1> HIDE DEF header
<1>7. /\ state.root = header.root /\ state.timestamp = header.time
      /\ state.snapshot.hash = hash(header)
      /\ state.snapshot.validators = SetAfter(n)
    BY <1>5, <1>6 DEF IsOf
<1> QED BY <1>2, <1>4, <1>7 DEF header

(* Whichever states it is updated from and whatever heights relayers name, *)
(* each state that a client which looks at every header keeps is of a      *)
(* block that a quorum committed to, with the set in force after it        *)
(* (mod.rs:404-588, state.rs:28-188).                                      *)
THEOREM StatesAlwaysFollow ==
    ASSUME Checking PROVE Spec => []StatesFollowChain
<1>1. ASSUME KeptInv PROVE StatesFollowChain
    <2>1. ASSUME NEW client \in Live,
                 NEW h \in DOMAIN stores[client].consensusStates
          PROVE  Certified(StateAt(client, h))
        BY <1>1 DEF KeptInv, Known
    <2>2. ChainInv
        BY <1>1 DEF KeptInv
    <2> QED BY <2>1, <2>2, CertifiedFollows DEF StatesFollowChain
<1> QED BY <1>1, AlwaysKept, PTL

-----------------------------------------------------------------------------
(* verify_delay_period_passed (mod.rs:1261-1341), for a state noted in the *)
(* block `since`.                                                          *)
LEMMA DelayPassed ==
    ASSUME NEW e \in [time : 0..MaxTime, height : 1..MaxHeight],
           NEW since \in [time : 0..MaxTime, height : 1..MaxHeight],
           NEW store, NEW h \in DOMAIN store.processed,
           store.processed[h] = Noted(since),
           NEW time \in Delays, NEW blocks \in Delays
    PROVE  verify_delay_period_passed(e, store, h, time, blocks) = "Ok"
            <=> /\ e.time >= since.time + time
                /\ e.height >= since.height + blocks
<1>1. PICK a, b, s, n : /\ a = e.time /\ b = e.height
                        /\ s = since.time /\ n = since.height
    OBVIOUS
<1>2. /\ a \in Nat /\ b \in Nat /\ s \in Nat /\ n \in Nat
      /\ time \in Nat /\ blocks \in Nat /\ MaxU64 \in Nat
      /\ s + time <= MaxU64 /\ n + blocks <= MaxU64
    <2>1. /\ a \in 0..MaxTime /\ s \in 0..MaxTime
          /\ b \in 1..MaxHeight /\ n \in 1..MaxHeight
        BY <1>1
    <2>2. /\ MaxTime \in Nat /\ MaxHeight \in Nat
          /\ time \in Nat /\ blocks \in Nat /\ MaxU64 \in Nat
          /\ MaxTime + time <= MaxU64 /\ MaxHeight + blocks <= MaxU64
        BY HostAssumption, DelaysFitU64
    <2> QED BY <2>1, <2>2
<1>3. PICK processed : processed = store.processed[h]
    OBVIOUS
<1>4. /\ processed.time = s
      /\ processed.height = [revision_number |-> 0, revision_height |-> n]
    BY <1>1, <1>3 DEF Noted, get_self_height
<1>5. PICK valid : valid = [processed.height EXCEPT
                                !.revision_height = @ + blocks]
    OBVIOUS
<1>6. valid.revision_number = 0 /\ valid.revision_height = n + blocks
    BY <1>4, <1>5
<1>7. Higher(valid, get_self_height(b)) <=> n + blocks > b
    BY <1>6 DEF Higher, get_self_height
<1>8. verify_delay_period_passed(e, store, h, time, blocks)
        = IF s + time > MaxU64 THEN "Panic"
          ELSE IF a < s + time THEN "TooEarly"
          ELSE IF n + blocks > MaxU64 THEN "Panic"
          ELSE IF Higher(valid, get_self_height(b)) THEN "TooEarly" ELSE "Ok"
    BY <1>1, <1>3, <1>4, <1>5, <1>6, Zenon DEF verify_delay_period_passed
<1>9. verify_delay_period_passed(e, store, h, time, blocks) = "Ok"
        <=> a >= s + time /\ b >= n + blocks
    BY <1>2, <1>7, <1>8
<1> QED BY <1>1, <1>9

(* What a packet query asks beside the delay: the root, the path and the   *)
(* value (types/ibc.rs).                                                   *)
LEMMA PacketVerdict ==
    ASSUME NEW root, NEW msg, NEW path, NEW value, NEW prefix,
           IsRoot(root), prefix # EmptyPrefix,
           msg.commitment_prefix = prefix,
           msg.proof = ProofUnder(root, path, value)
    PROVE  Verdict(msg, path, value) = "Ok"
            <=> root = msg.consensus_state.root
<1>1. PICK keys : keys = <<prefix, path>>
    OBVIOUS
<1>2. Len(keys) = 2 /\ Len(keys) \in Nat \ {0} /\ keys[Len(keys)] = path
    BY <1>1
<1>3. apply_prefix(prefix, <<path>>) = [res |-> "Ok", key_path |-> keys]
    BY <1>1 DEF apply_prefix
<1>4. Verdict(msg, path, value)
        = verify_membership(msg.proof, msg.consensus_state.root, keys, value)
    BY <1>3 DEF Verdict
<1>5. root # NoRoot
    BY DEF IsRoot, NoRoot
<1>6. verify_membership(ProofUnder(root, path, value),
                        msg.consensus_state.root, keys, value) = "Ok"
        <=> root # NoRoot /\ root = msg.consensus_state.root
    <2>1. PICK against : against = msg.consensus_state.root
        OBVIOUS
    <2>2. verify_membership(ProofUnder(root, path, value), against, keys,
                            value) = "Ok"
            <=> /\ root # NoRoot /\ root = against
                /\ keys[Len(keys)] = path /\ value = value
        BY <1>2, OneProof
    <2> QED BY <1>2, <2>1, <2>2
<1> QED BY <1>4, <1>5, <1>6

(* A packet is accepted exactly when it is proven under the root of the    *)
(* state that is kept at the height, and that very state has been there    *)
(* for the time and the blocks of the delay (mod.rs:372-377,1253-1341).    *)
THEOREM PacketsAlwaysWait == Spec => []PacketsWait
<1>1. ASSUME KeptInv PROVE PacketsWait
    <2> SUFFICES ASSUME NEW client \in Live, NEW h \in Readable(client)
                 PROVE  LET state == StateAt(client, h)
                            since == submitted[client][h]
                            path == <<"commitments", "channel-0", 1>>
                            roots ==
                                {StateAt(client, k).root :
                                        k \in Readable(client)}
                                \cup {<<branch, state.snapshot.number>> :
                                        branch \in {"final", "fork",
                                                    "abandoned"}}
                        IN  /\ ProcessedTime(stores[client], h)
                                = [res |-> "Ok", time |-> since.time]
                            /\ \A time, blocks \in Delays, root \in roots :
                                verify_packet_commitment(env, stores[client],
                                    [height |-> h,
                                     commitment_prefix |-> <<"ibc">>,
                                     proof |-> ProofUnder(root, path,
                                                    Bytes("packet")),
                                     channel |-> "channel-0", sequence |-> 1,
                                     commitment_bytes |-> "packet",
                                     delay_time_period |-> time,
                                     delay_block_period |-> blocks,
                                     consensus_state |-> state]) = "Ok"
                                <=> /\ root = state.root
                                    /\ env.time >= since.time + time
                                    /\ env.height >= since.height + blocks
        BY Zenon DEF PacketsWait
    <2> DEFINE state == StateAt(client, h)
               since == submitted[client][h]
               store == stores[client]
               path == <<"commitments", "channel-0", 1>>
               roots == {StateAt(client, k).root : k \in Readable(client)}
                            \cup {<<branch, state.snapshot.number>> :
                                    branch \in {"final", "fork", "abandoned"}}
               value == Bytes("packet")
               message(time, blocks, root) ==
                    [height |-> h, commitment_prefix |-> <<"ibc">>,
                     proof |-> ProofUnder(root, path, value),
                     channel |-> "channel-0", sequence |-> 1,
                     commitment_bytes |-> "packet",
                     delay_time_period |-> time,
                     delay_block_period |-> blocks,
                     consensus_state |-> state]
    <2>1. /\ h \in DOMAIN store.processed /\ store.processed[h] = Noted(since)
          /\ since \in [time : 0..MaxTime, height : 1..MaxHeight]
          /\ env \in [time : 0..MaxTime, height : 1..MaxHeight]
        BY <1>1 DEF KeptInv, Readable
    <2>2. ASSUME NEW root \in roots PROVE IsRoot(root)
        <3>1. \A k \in Readable(client) : IsRoot(StateAt(client, k).root)
            BY <1>1 DEF KeptInv, Readable, Known
        <3> QED BY <3>1 DEF IsRoot
    <2>3. ProcessedTime(store, h) = [res |-> "Ok", time |-> since.time]
        BY <2>1 DEF ProcessedTime, Noted
    <2>4. ASSUME NEW time \in Delays, NEW blocks \in Delays,
                 NEW root \in roots
          PROVE  verify_packet_commitment(env, store,
                        message(time, blocks, root)) = "Ok"
                    <=> /\ root = state.root
                        /\ env.time >= since.time + time
                        /\ env.height >= since.height + blocks
        <3>1. PICK msg, prefix :
                msg = message(time, blocks, root) /\ prefix = <<"ibc">>
            OBVIOUS
        <3>2. /\ msg.height = h /\ msg.commitment_prefix = prefix
              /\ msg.proof = ProofUnder(root, path, value)
              /\ msg.channel = "channel-0" /\ msg.sequence = 1
              /\ msg.commitment_bytes = "packet"
              /\ msg.delay_time_period = time
              /\ msg.delay_block_period = blocks
              /\ msg.consensus_state = state
            <4> HIDE DEF state, path, value
            <4> QED BY <3>1
        <3>3. prefix # EmptyPrefix
            BY <3>1 DEF EmptyPrefix
        <3> HIDE DEF path, value, store, since, state, roots, message
        <3>4. Verdict(msg, path, value) = "Ok" <=> root = state.root
            BY <2>2, <3>2, <3>3, PacketVerdict
        <3>5. verify_delay_period_passed(env, store, h, time, blocks) = "Ok"
                <=> /\ env.time >= since.time + time
                    /\ env.height >= since.height + blocks
            BY <2>1, DelayPassed
        <3>6. verify_packet_commitment(env, store, msg)
                = IF verify_delay_period_passed(env, store, h, time, blocks)
                        # "Ok"
                  THEN verify_delay_period_passed(env, store, h, time, blocks)
                  ELSE Verdict(msg, path, value)
            BY <3>2, Zenon
               DEF verify_packet_commitment, DelayedVerdict, path, value
        <3> QED BY <3>1, <3>4, <3>5, <3>6
    <2> QED BY <2>3, <2>4
<1> QED BY <1>1, AlwaysKept, PTL

-----------------------------------------------------------------------------
(* Evidence of misbehaviour. *)

(* The chain has one set: it ends within its first epoch, or elects        *)
(* nobody.                                                                 *)
OneSet == MaxNumber < EpochSize \/ (MaxJoin = 0 /\ MaxLeave = 0)

(* No block of such a chain changes the set. *)
LEMMA NobodyIsElected ==
    ASSUME ChainInv, OneSet, NEW n \in 1..Tip
    PROVE  SetAfter(n) = SetAfter(n - 1)
<1>1. PICK set : set = SetAfter(n - 1)
    OBVIOUS
<1>2. /\ n - 1 \in 0..Tip /\ n \in Nat /\ n <= MaxNumber /\ Tip \in Nat
      /\ EpochSize \in Nat \ {0} /\ MaxNumber \in Nat
    BY ChainAssumption DEF ChainInv
<1>3. set \in ValidatorSets /\ UniqueAddress(set) /\ set \in Seq(Electable)
    BY <1>1, <1>2, SetType DEF ValidatorSets
<1>4. PICK diff \in Changes(n, set) :
        SetAfter(n) = Members(set, diff.removed) \o diff.added
    BY <1>1 DEF ChainInv, Follows
<1>5. CASE n % EpochSize # 0
    BY <1>1, <1>3, <1>4, <1>5, ChangeOf
<1>6. CASE n % EpochSize = 0
    <2>1. MaxJoin = 0 /\ MaxLeave = 0
        <3>1. ASSUME MaxNumber < EpochSize PROVE FALSE
            <4>1. n \in 1..EpochSize - 1
                BY <1>2, <3>1
            <4>2. n % EpochSize = n
                BY <1>2, <4>1
            <4> QED BY <1>6, <4>1, <4>2
        <3> QED BY <3>1 DEF OneSet
    <2>2. /\ diff.removed \in SUBSET (0..Len(set) - 1)
          /\ Cardinality(diff.removed) <= 0
          /\ diff.added \in SeqOf(Candidates, 0)
        BY <1>4, <1>6, <2>1 DEF Changes, Elections
    <2>3. diff.added = <<>>
        BY <2>2 DEF SeqOf
    <2>4. diff.removed = {}
        <3>1. PICK l : l = Len(set) - 1
            OBVIOUS
        <3>2. l \in Int
            BY <1>3, <3>1
        <3>3. IsFiniteSet(0..l)
            BY <3>2, FS_Interval
        <3>4. PICK removed : removed = diff.removed
            OBVIOUS
        <3>5. IsFiniteSet(removed)
            BY <2>2, <3>1, <3>3, <3>4, FS_Subset
        <3>6. Cardinality(removed) \in Nat
            BY <3>5, FS_CardinalityType
        <3>7. Cardinality(removed) = 0
            BY <2>2, <3>4, <3>6
        <3> QED BY <3>4, <3>5, <3>7, FS_EmptySet
    <2>5. Members(set, {}) = set /\ set \o <<>> = set
        BY <1>3, AllStay
    <2> QED BY <1>1, <1>4, <2>3, <2>4, <2>5
<1> QED BY <1>5, <1>6

(* So all of its blocks have the same set. *)
LEMMA SameSetAlways ==
    ASSUME ChainInv, OneSet, NEW n \in 0..Tip
    PROVE  SetAfter(n) = GenesisSet
<1> DEFINE Changed == {m \in 0..Tip : SetAfter(m) # GenesisSet}
<1>0. Tip \in Nat /\ SetAfter(0) = GenesisSet
    BY DEF ChainInv
<1> SUFFICES ASSUME Changed # {} PROVE FALSE
    OBVIOUS
<1>1. Changed \in SUBSET Nat
    BY <1>0
<1>2. PICK m \in Changed : \A y \in Changed : m <= y
    <2> HIDE DEF Changed
    <2> QED BY <1>1, LeastNatural
<1>3. m \in 1..Tip /\ m - 1 \in 0..Tip /\ ~ (m <= m - 1)
    <2>1. m # 0 /\ m \in 0..Tip
        BY <1>0, <1>2
    <2> QED BY <1>0, <2>1
<1>4. m - 1 \notin Changed
    <2> HIDE DEF Changed
    <2> QED BY <1>2, <1>3
<1>5. SetAfter(m - 1) = GenesisSet
    BY <1>3, <1>4
<1>6. SetAfter(m) = SetAfter(m - 1)
    BY <1>3, NobodyIsElected
<1> QED BY <1>2, <1>5, <1>6

(* A trusted state that evidence about block n is checked against has the  *)
(* set that sealed block n.                                                *)
InForce(client, trusted, n) ==
    StateAt(client, trusted).snapshot.validators = SetAfter(n - 1)

(* A trusted state of block n's own epoch: the next block would be of it.  *)
OfItsEpoch(client, trusted, n) ==
    get_epoch_number(n, EpochSize)
        = get_epoch_number(StateAt(client, trusted).snapshot.number + 1,
                           EpochSize)

(* What a client keeps is of a block of the chain, with the set after it.  *)
LEMMA StateOfBlock ==
    ASSUME KeptInv, Checking, NEW client \in Live,
           NEW trusted \in Readable(client)
    PROVE  \E s \in 1..Tip :
            /\ StateAt(client, trusted).snapshot.number = s
            /\ StateAt(client, trusted).snapshot.validators = SetAfter(s)
<1>1. PICK state : state = StateAt(client, trusted)
    OBVIOUS
<1>2. Certified(state)
    BY <1>1 DEF KeptInv, Readable, Known
<1>3. PICK s \in 1..Tip : \/ IsOf(state, SealedBlock(s))
                          \/ IsOf(state, Fork(s))
    BY <1>2 DEF Certified
<1>4. SealedBlock(s).number = s /\ Fork(s).number = s
    BY SealedBlockIs, ForkIs DEF KeptInv, IsBlock
<1> QED BY <1>1, <1>3, <1>4 DEF IsOf

(* Two blocks of one epoch are preceded by the same set.                   *)
LEMMA OneSetPerEpoch ==
    ASSUME ChainInv, NEW h \in 0..Tip, NEW k \in 0..Tip,
           get_epoch_number(h + 1, EpochSize)
                = get_epoch_number(k + 1, EpochSize)
    PROVE  SetAfter(h) = SetAfter(k)
<1>1. /\ Tip \in Nat /\ EpochSize \in Nat \ {0}
      /\ h \in Nat /\ k \in Nat
    BY ChainAssumption DEF ChainInv
<1>2. ASSUME NEW a \in 0..Tip, NEW b \in a..Tip,
             get_epoch_number(a + 1, EpochSize)
                = get_epoch_number(b + 1, EpochSize)
      PROVE  SetAfter(b) = SetAfter(a)
    <2>1. PICK e, size : /\ e = get_epoch_number(b + 1, EpochSize)
                         /\ size = EpochSize
        OBVIOUS
    <2>2. a \in Nat /\ b \in Nat /\ size \in Nat \ {0}
        BY <1>1, <2>1
    <2>3. e \in Nat \ {0} /\ \E p \in 1..size : b + 1 = (e - 1) * size + p
        BY <2>1, <2>2, EpochOf
    <2>4. b + 1 <= e * size
        <3>1. PICK p \in 1..size : b + 1 = (e - 1) * size + p
            BY <2>3
        <3>2. (e - 1) * size = e * size - size /\ e * size \in Int
            BY <2>2, <2>3
        <3> QED BY <2>2, <3>1, <3>2
    <2>5. get_epoch_last_block_number(e, size) = e * size
        BY <2>3 DEF get_epoch_last_block_number
    <2>6. b + 1 <= get_epoch_last_block_number(
                        get_epoch_number(a + 1, EpochSize), EpochSize)
        BY <1>2, <2>1, <2>4, <2>5
    <2>7. \A m \in a + 1..b : m % EpochSize # 0
        <3>1. b + 1 \in Int /\ (b + 1) - 1 = b
            BY <2>2
        <3> QED BY <1>1, <2>2, <2>6, <3>1, BoundaryIsNext
    <2> QED BY <2>7, SetsInEpoch
<1>3. CASE h <= k
    <2>1. k \in h..Tip
        BY <1>1, <1>3
    <2> QED BY <1>2, <2>1
<1>4. CASE k <= h
    <2>1. h \in k..Tip
        BY <1>1, <1>4
    <2> QED BY <1>2, <2>1
<1> QED BY <1>1, <1>3, <1>4

(* A trusted state of the block's own epoch has the set that sealed it, so *)
(* has every trusted state of a chain with one set.                        *)
LEMMA WhoseSetIsInForce ==
    ASSUME KeptInv, Checking, NEW client \in Live,
           NEW trusted \in Readable(client), NEW n \in 1..Tip,
           OneSet \/ OfItsEpoch(client, trusted, n)
    PROVE  InForce(client, trusted, n)
<1>1. PICK s \in 1..Tip :
        /\ StateAt(client, trusted).snapshot.number = s
        /\ StateAt(client, trusted).snapshot.validators = SetAfter(s)
    BY StateOfBlock
<1>2. ChainInv /\ s \in 0..Tip /\ n - 1 \in 0..Tip /\ (n - 1) + 1 = n
    BY DEF KeptInv, ChainInv
<1>3. SetAfter(s) = SetAfter(n - 1)
    <2>1. CASE OneSet
        BY <1>2, <2>1, SameSetAlways
    <2>2. CASE OfItsEpoch(client, trusted, n)
        <3>1. get_epoch_number(s + 1, EpochSize)
                = get_epoch_number((n - 1) + 1, EpochSize)
            BY <1>1, <1>2, <2>2 DEF OfItsEpoch
        <3> QED BY <1>2, <3>1, OneSetPerEpoch
    <2> QED BY <2>1, <2>2
<1> QED BY <1>1, <1>3 DEF InForce

(* A header whose seal passes against a state with the set that seals its  *)
(* number is no abandoned proposal.                                        *)
LEMMA SealedByTheSet ==
    ASSUME ChainInv, NEW state, NEW n \in 1..Tip, NEW header \in Relayed(n),
           state.snapshot.validators = SetAfter(n - 1),
           check_misbehaviour_header(state, header) = "Ok"
    PROVE  header = SealedBlock(n) \/ (n \in Forks /\ header = Fork(n))
<1>1. n \in 1..Tip + 1
    BY DEF ChainInv
<1>2. verify_aggregated_seal(hash(header), state.snapshot.validators,
                             header.aggregated_seal) = "Ok"
    BY DEF check_misbehaviour_header, verify_header_seal
<1>3. header \notin Abandoned(n)
    BY <1>1, <1>2, AbandonedLacksQuorum
<1> QED BY <1>3 DEF Relayed

OnlyByFork(me) ==
    me.frozen => \E n \in Forks : me.frozen_height = get_self_height(n)

(* check_misbehaviour (mod.rs:590-652) needs a fork, where labels are      *)
(* numbers.                                                                *)
LEMMA MisbehaviourNeedsFork ==
    ASSUME HostInv, KeptInv, LabelIsNumber, NEW client \in Live,
           NEW trusted_1, NEW trusted_2, NEW n1 \in 1..Tip, NEW n2 \in 1..Tip,
           InForce(client, trusted_1, n1), InForce(client, trusted_2, n2),
           NEW header_1 \in Relayed(n1), NEW header_2 \in Relayed(n2),
           NEW height_1 \in LabelsOf(n1), NEW height_2 \in LabelsOf(n2),
           NEW evidence,
           evidence = [header_1 |-> header_1, height_1 |-> height_1,
                       header_2 |-> header_2, height_2 |-> height_2],
           SubmitMisbehaviour(client, trusted_1, trusted_2, evidence)
    PROVE  \E n \in Forks : evidence.height_1 = get_self_height(n)
<1>1. PICK state_1, state_2 : /\ state_1 = StateAt(client, trusted_1)
                              /\ state_2 = StateAt(client, trusted_2)
    OBVIOUS
<1>2. /\ state_1.snapshot.validators = SetAfter(n1 - 1)
      /\ state_2.snapshot.validators = SetAfter(n2 - 1)
      /\ ChainInv
    BY <1>1 DEF KeptInv, InForce
<1>3. check_misbehaviour(clients[client], evidence, state_1, state_2).res
        = "Ok"
    BY <1>1 DEF SubmitMisbehaviour
<1>4. /\ evidence.height_1 = evidence.height_2
      /\ evidence.header_1.root # evidence.header_2.root
      /\ check_misbehaviour_header(state_1, evidence.header_1) = "Ok"
      /\ check_misbehaviour_header(state_2, evidence.header_2) = "Ok"
    BY <1>3 DEF check_misbehaviour, Failed
<1>5. /\ evidence.header_1 = header_1 /\ evidence.header_2 = header_2
      /\ evidence.height_1 = height_1 /\ evidence.height_2 = height_2
    OBVIOUS
<1>6. height_1 = get_self_height(n1) /\ height_2 = get_self_height(n2)
    BY DEF LabelsOf
<1>7. n1 = n2
    BY <1>4, <1>5, <1>6 DEF get_self_height
<1>8. \/ header_1 = SealedBlock(n1)
      \/ n1 \in Forks /\ header_1 = Fork(n1)
    BY <1>2, <1>4, <1>5, SealedByTheSet
<1>9. \/ header_2 = SealedBlock(n1)
      \/ n1 \in Forks /\ header_2 = Fork(n1)
    BY <1>2, <1>4, <1>5, <1>7, SealedByTheSet
<1>10. n1 \in Forks
    BY <1>4, <1>5, <1>8, <1>9
<1> QED BY <1>5, <1>6, <1>10

(* If the client that moves was frozen by a fork, all were.                *)
LEMMA MovesByFork ==
    ASSUME HostInv, FrozenByForkOnly, NEW client, NEW me, NEW store,
           Moves(client, me, store), OnlyByFork(me)
    PROVE  FrozenByForkOnly'
<1>1. ASSUME NEW other \in Live' PROVE OnlyByFork(clients'[other])
    <2>1. CASE other = client
        BY <2>1 DEF Moves
    <2>2. CASE other # client
        <3>1. other \in Live /\ clients'[other] = clients[other]
            BY <2>2 DEF Moves, Live
        <3> QED BY <3>1 DEF FrozenByForkOnly, OnlyByFork
    <2> QED BY <2>1, <2>2
<1> QED BY <1>1 DEF FrozenByForkOnly, OnlyByFork

(* Evidence that is submitted, as Next has it. *)
AccusedOf(client, trusted, trusted_2, number_1, number_2) ==
    \E height_1 \in LabelsOf(number_1), height_2 \in LabelsOf(number_2),
       header_1 \in Relayed(number_1), header_2 \in Relayed(number_2) :
        SubmitMisbehaviour(client, trusted, trusted_2,
            [header_1 |-> header_1, height_1 |-> height_1,
             header_2 |-> header_2, height_2 |-> height_2])

Accused(client, trusted) ==
    \E trusted_2 \in Readable(client), number_1, number_2 \in 1..Tip :
        AccusedOf(client, trusted, trusted_2, number_1, number_2)

(* A client is frozen at a height at which it was not.                     *)
FreezesAnew(client) ==
    /\ clients'[client].frozen_height # NoHeight
    /\ clients'[client].frozen_height # clients[client].frozen_height

(* What freezes a client was checked against the sets in force.            *)
JudgedInForce ==
    \A client \in Live : FreezesAnew(client) =>
        \E trusted_1, trusted_2 \in Readable(client), n1, n2 \in 1..Tip :
            /\ AccusedOf(client, trusted_1, trusted_2, n1, n2)
            /\ InForce(client, trusted_1, n1)
            /\ InForce(client, trusted_2, n2)

(* What freezes a client was checked against states of its own epoch, as   *)
(* relayers hand in headers to update a client.                            *)
JudgedInEpoch ==
    \A client \in Live : FreezesAnew(client) =>
        \E trusted_1, trusted_2 \in Readable(client), n1, n2 \in 1..Tip :
            /\ AccusedOf(client, trusted_1, trusted_2, n1, n2)
            /\ OfItsEpoch(client, trusted_1, n1)
            /\ OfItsEpoch(client, trusted_2, n2)

(* Evidence of the epoch is evidence under the sets in force.              *)
LEMMA EpochIsInForce ==
    ASSUME KeptInv, Checking, JudgedInEpoch
    PROVE  JudgedInForce
BY WhoseSetIsInForce DEF JudgedInEpoch, JudgedInForce

(* What is accepted leaves a client frozen at the height of the evidence.  *)
LEMMA AccusedMoves ==
    ASSUME HostInv, NEW client \in Live,
           NEW trusted_1, NEW trusted_2, NEW n1, NEW n2,
           AccusedOf(client, trusted_1, trusted_2, n1, n2)
    PROVE  \E me : Moves(client, me, stores[client])
<1>1. PICK height_1 \in LabelsOf(n1), height_2 \in LabelsOf(n2),
           header_1 \in Relayed(n1), header_2 \in Relayed(n2) :
            SubmitMisbehaviour(client, trusted_1, trusted_2,
                [header_1 |-> header_1, height_1 |-> height_1,
                 header_2 |-> header_2, height_2 |-> height_2])
    BY DEF AccusedOf
<1>2. PICK evidence :
        evidence = [header_1 |-> header_1, height_1 |-> height_1,
                    header_2 |-> header_2, height_2 |-> height_2]
    OBVIOUS
<1>3. SubmitMisbehaviour(client, trusted_1, trusted_2, evidence)
    BY <1>1, <1>2
<1>4. evidence.height_1 \in Heights
    BY <1>2, LabelsAreHeights
<1> QED BY <1>3, <1>4, MisbehaviourStep

(* Evidence under the sets in force freezes for a fork.                    *)
LEMMA InForceByFork ==
    ASSUME HostInv, KeptInv, LabelIsNumber, NEW client \in Live,
           NEW trusted_1, NEW trusted_2, NEW n1 \in 1..Tip, NEW n2 \in 1..Tip,
           InForce(client, trusted_1, n1), InForce(client, trusted_2, n2),
           AccusedOf(client, trusted_1, trusted_2, n1, n2)
    PROVE  OnlyByFork(clients'[client])
<1>1. PICK height_1 \in LabelsOf(n1), height_2 \in LabelsOf(n2),
           header_1 \in Relayed(n1), header_2 \in Relayed(n2) :
            SubmitMisbehaviour(client, trusted_1, trusted_2,
                [header_1 |-> header_1, height_1 |-> height_1,
                 header_2 |-> header_2, height_2 |-> height_2])
    BY DEF AccusedOf
<1>2. PICK evidence :
        evidence = [header_1 |-> header_1, height_1 |-> height_1,
                    header_2 |-> header_2, height_2 |-> height_2]
    OBVIOUS
<1>3. PICK height : height = evidence.height_1
    OBVIOUS
<1>4. SubmitMisbehaviour(client, trusted_1, trusted_2, evidence)
    BY <1>1, <1>2
<1>5. PICK n \in Forks : height = get_self_height(n)
    BY <1>2, <1>3, <1>4, MisbehaviourNeedsFork
<1>6. evidence.height_1 \in Heights
    BY <1>2, LabelsAreHeights
<1>7. PICK me : me = FrozenAt(clients[client], height)
    OBVIOUS
<1>8. Moves(client, me, stores[client])
    BY <1>3, <1>4, <1>6, <1>7, MisbehaviourStep
<1>9. me.frozen_height = height
    <2>1. IsClient(clients[client])
        BY DEF HostInv, Sound
    <2> QED BY <1>7, <2>1 DEF IsClient, ClientStateType, FrozenAt
<1>10. OnlyByFork(me)
    BY <1>5, <1>9 DEF OnlyByFork
<1> QED BY <1>8, <1>10 DEF Moves

(* No step freezes a client at another height than that of a fork.         *)
LEMMA ForkSteps ==
    ASSUME HostInv, KeptInv, Checking, LabelIsNumber,
           OneSet \/ JudgedInForce, FrozenByForkOnly, [Next]_vars
    PROVE  FrozenByForkOnly'
<1>0. ASSUME NEW client, NEW me, NEW store, Moves(client, me, store),
             me.frozen_height = NoHeight
      PROVE  FrozenByForkOnly'
    <2>1. IsClient(me)
        BY <1>0 DEF Moves, Sound
    <2>2. OnlyByFork(me)
        BY <1>0, <2>1 DEF IsClient, OnlyByFork
    <2> QED BY <1>0, <2>2, MovesByFork
<1>1. CASE UNCHANGED clients
    BY <1>1 DEF FrozenByForkOnly, Live
<1>2. CASE ChainGrows \/ NextBlock \/ UNCHANGED vars
    BY <1>1, <1>2 DEF ChainGrows, NextBlock, hostVars, vars
<1>3. ASSUME NEW client \in Clients, NEW number \in 1..Tip,
             NEW height \in LabelsOf(number), Create(client, number, height)
      PROVE  FrozenByForkOnly'
    <2>1. height \in Heights
        BY LabelsAreHeights
    <2> QED BY <1>0, <1>3, <2>1, CreateStep
<1>4. ASSUME NEW client \in Live, NEW trusted, NEW header, NEW number,
             NEW height \in LabelsOf(number),
             Update(client, trusted, header, height)
      PROVE  FrozenByForkOnly'
    <2>1. height \in Heights
        BY LabelsAreHeights
    <2>2. PICK store : /\ Moves(client, clients[client], store)
                       /\ ~ clients[client].frozen
        BY <1>4, <2>1, UpdateStep
    <2>3. OnlyByFork(clients[client])
        BY <2>2 DEF OnlyByFork
    <2> QED BY <2>2, <2>3, MovesByFork
<1>5. ASSUME NEW client \in Live, NEW trusted_1 \in Readable(client),
             Accused(client, trusted_1)
      PROVE  FrozenByForkOnly'
    <2>1. PICK trusted_2 \in Readable(client), n1 \in 1..Tip, n2 \in 1..Tip :
            AccusedOf(client, trusted_1, trusted_2, n1, n2)
        BY <1>5 DEF Accused
    <2>2. PICK me : Moves(client, me, stores[client])
        BY <2>1, AccusedMoves
    <2>3. clients'[client] = me
        BY <2>2 DEF Moves
    <2>4. CASE OneSet
        <3>1. InForce(client, trusted_1, n1) /\ InForce(client, trusted_2, n2)
            BY <2>4, WhoseSetIsInForce
        <3>2. OnlyByFork(me)
            BY <2>1, <2>3, <3>1, InForceByFork
        <3> QED BY <2>2, <3>2, MovesByFork
    <2>5. CASE JudgedInForce /\ FreezesAnew(client)
        <3>1. OnlyByFork(me)
            BY <2>3, <2>5, InForceByFork DEF JudgedInForce
        <3> QED BY <2>2, <3>1, MovesByFork
    <2>6. CASE ~ FreezesAnew(client)
        <3>1. IsClient(me) /\ IsClient(clients[client])
            BY <2>2 DEF Moves, HostInv, Sound
        <3>2. OnlyByFork(clients[client])
            BY DEF FrozenByForkOnly, OnlyByFork
        <3>3. OnlyByFork(me)
            BY <2>3, <2>6, <3>1, <3>2 DEF FreezesAnew, IsClient, OnlyByFork
        <3> QED BY <2>2, <3>3, MovesByFork
    <2> QED BY <2>4, <2>5, <2>6
<1>6. ASSUME NEW client \in Live, NEW last, Upgrade(client, last)
      PROVE  FrozenByForkOnly'
    <2>1. PICK store : /\ Moves(client, Upgraded(clients[client]), store)
                       /\ ~ clients[client].frozen
        BY <1>6, UpgradeStep
    <2>2. IsClient(clients[client])
        BY DEF HostInv, Sound
    <2>3. ~ Upgraded(clients[client]).frozen
        BY <2>1, <2>2 DEF Upgraded, IsClient, ClientStateType
    <2>4. OnlyByFork(Upgraded(clients[client]))
        BY <2>3 DEF OnlyByFork
    <2> QED BY <2>1, <2>4, MovesByFork
<1>7. ASSUME NEW client \in Live, NEW other \in Live, client # other,
             NEW latest, Substitute(client, other, latest)
      PROVE  FrozenByForkOnly'
    <2>1. PICK me, store : /\ Moves(client, me, store)
                           /\ me.frozen_height = NoHeight
        BY <1>7, SubstituteStep
    <2> QED BY <1>0, <2>1
<1>8. ASSUME NEW client \in Live, NEW trusted \in Readable(client),
             \/ \E number \in 1..Tip : \E header \in Relayed(number) :
                    \E height \in LabelsOf(number) :
                        Update(client, trusted, header, height)
             \/ Accused(client, trusted)
             \/ Upgrade(client, trusted)
      PROVE  FrozenByForkOnly'
    BY <1>4, <1>5, <1>6, <1>8
<1> QED BY <1>2, <1>3, <1>7, <1>8, Zenon DEF Next, Accused, AccusedOf

(* Where relayers label headers with their numbers, and all of the chain's *)
(* blocks have the same set, a client that looks at every header is frozen *)
(* at the height of a fork only, by whatever evidence (mod.rs:590-652).    *)
THEOREM OnlyForksFreeze ==
    ASSUME Checking, LabelIsNumber, OneSet
    PROVE  Spec => []FrozenByForkOnly
<1>1. Init => FrozenByForkOnly
    BY DEF Init, FrozenByForkOnly, Live
<1>2. HostInv /\ KeptInv /\ FrozenByForkOnly /\ [Next]_vars
        => FrozenByForkOnly'
    BY ForkSteps
<1> QED BY <1>1, <1>2, AlwaysSound, AlwaysKept, PTL DEF Spec

(* The same where the set changes, if what freezes a client is evidence    *)
(* that came with trusted states of its own epoch: an abandoned proposal   *)
(* never has a quorum of the set they name (mod.rs:590-652).               *)
THEOREM OnlyForksOfEpochFreeze ==
    ASSUME Checking, LabelIsNumber
    PROVE  Spec /\ [][JudgedInEpoch]_vars => []FrozenByForkOnly
<1>1. Init => FrozenByForkOnly
    BY DEF Init, FrozenByForkOnly, Live
<1>2. HostInv /\ KeptInv /\ FrozenByForkOnly /\ [Next]_vars
        /\ [JudgedInEpoch]_vars
        => FrozenByForkOnly'
    <2>1. ASSUME UNCHANGED vars, FrozenByForkOnly
          PROVE  FrozenByForkOnly'
        BY <2>1 DEF vars, FrozenByForkOnly, Live
    <2>2. ASSUME HostInv, KeptInv, FrozenByForkOnly, [Next]_vars,
                 JudgedInEpoch
          PROVE  FrozenByForkOnly'
        BY <2>2, EpochIsInForce, ForkSteps
    <2> QED BY <2>1, <2>2
<1> QED BY <1>1, <1>2, AlwaysSound, AlwaysKept, PTL DEF Spec
=============================================================================
