---------------------------- MODULE PacketRelay -----------------------------
(***************************************************************************)
(* Packets between a Cosmos chain, which hosts the client, and the Celo    *)
(* chain it follows; both ends of the channel run ICS 4.  Neither chain    *)
(* nor the relayers are part of the repository: what they do here is what  *)
(* the queries of the contract are there for (ProofQueries.tla), and every *)
(* decision the host takes about a packet is the answer to such a query.   *)
(*                                                                         *)
(* Celo's IBC store is a tree by itself, or one under the prefix of an     *)
(* outer tree.  Relayers build chains of proofs from the stores of Celo's  *)
(* blocks, and from trees they made up.  That a consensus state the client *)
(* keeps is one of a block is the subject of HostedClients.tla; here it is *)
(* taken from the block, under any height.                                 *)
(***************************************************************************)
EXTENDS ProofQueries

CONSTANTS MaxSequence,  \* bound: packets sent each way
          Timeout,      \* the Celo time at which packets to Celo time out
          Acks,         \* what Celo may acknowledge a packet with
          Heights,      \* the heights consensus states are kept at
          Delays,       \* the delay periods of connections
          MaxBlock,     \* bound: the last block of Celo
          MaxTime,      \* bound of the host's clock
          MaxHeight     \* bound of the host's block height

(* Bounds are numbers, and no acknowledgement is mistaken for the other    *)
(* fates of a packet.                                                      *)
ASSUME RelayAssumption ==
    /\ MaxSequence \in Nat /\ Timeout \in Nat /\ MaxBlock \in Nat
    /\ MaxTime \in Nat /\ MaxHeight \in Nat /\ Delays \subseteq Nat
    /\ "sent" \notin Acks /\ "timedOut" \notin Acks

(* The host's clock and its block height are u64s. *)
ASSUME ClockIsU64 ==
    /\ MaxU64 \in Nat \ {0}
    /\ MaxTime <= MaxU64 /\ MaxHeight <= MaxU64

VARIABLES
    connection, \* its [ordered, nested, delay], which stay
    ledger,     \* ledger[n]: Celo's IBC store after block n
    env,        \* time and height of the host's block
    store,      \* the client's store
    since,      \* history: the host's block a state was stored in
    outgoing,   \* packets to Celo: "sent", "timedOut" or the ack received
    incoming    \* the packets from Celo that the host received

vars == <<connection, ledger, env, store, since, outgoing, incoming>>

Sequences == 1..MaxSequence

Channel == "channel-0"
Prefix == <<"ibc">>

Block == DOMAIN ledger
Tip == Len(ledger)

(* What a query may be asked: that `path` holds `value`, by the fields of  *)
(* its message, of which `content` is the one that is proven.              *)
Claim(variant, sequence, content, path, value) ==
    [variant |-> variant, sequence |-> sequence, content |-> content,
     path |-> path, value |-> value]

Height1 == get_self_height(1)

ClientClaim(height) ==
    Claim("VerifyClientState", 0, [latest_height |-> height],
          <<"clients", "client-0">>, Json([latest_height |-> height]))
ConsensusClaim(root) ==
    Claim("VerifyClientConsensusState", 0, [root |-> root],
          <<"consensusStates", "client-0", Height1>>, Json([root |-> root]))
ConnectionClaim(end) ==
    Claim("VerifyConnectionState", 0, end,
          <<"connections", "connection-0">>, Json(end))
ChannelClaim(end) ==
    Claim("VerifyChannelState", 0, end, <<"channelEnds", Channel>>, Json(end))
CommitmentClaim(sequence, commitment) ==
    Claim("VerifyPacketCommitment", sequence, commitment,
          <<"commitments", Channel, sequence>>, Bytes(commitment))
AckClaim(sequence, ack) ==
    Claim("VerifyPacketAcknowledgement", sequence, ack,
          <<"acks", Channel, sequence>>, Bytes(ack))
NextClaim(next) ==
    Claim("VerifyNextSequenceRecv", 0, next,
          <<"nextSequenceRecv", Channel>>, u64_to_big_endian(next))
AbsenceClaim(sequence) ==
    Claim("VerifyPacketReceiptAbsence", sequence, "",
          ReceiptPath(Channel, sequence), NoRoot)

-----------------------------------------------------------------------------
(* What relayers build: the proofs of trees.                               *)

Outer(entries) == [key \in {Prefix} |-> Root("iavl", entries)]

(* The root in the header of a block with this store. *)
StateRoot(entries) ==
    IF connection.nested THEN Root("tendermint", Outer(entries))
    ELSE Root("iavl", entries)

HonestChain(entries, path) ==
    IF connection.nested
    THEN <<Existence("iavl", entries, path),
           Existence("tendermint", Outer(entries), Prefix)>>
    ELSE <<Existence("iavl", entries, path)>>

(* The stores of the blocks that have the path, and one that has just the *)
(* claimed value there.                                                    *)
Trees(claim) ==
    {entries \in {ledger[n] : n \in Block} : claim.path \in DOMAIN entries}
        \cup {[path \in {claim.path} |-> claim.value]}

(* Chains for a claim: none, one, two or three proofs, also in the wrong   *)
(* order.  The outer proof may be of another tree than the inner one.      *)
Chains(claim) ==
    LET inner == {Existence("iavl", entries, claim.path) :
                    entries \in Trees(claim)}
        outer == {Existence("tendermint", Outer(entries), Prefix) :
                    entries \in Trees(claim)}
    IN  {<<>>} \cup {<<proof>> : proof \in inner}
            \cup {<<proof, above>> : proof \in inner, above \in outer}
            \cup {<<above, proof>> : proof \in inner, above \in outer}
            \cup {<<proof, above, above>> : proof \in inner, above \in outer}

AbsenceChains(claim) ==
    {<<>>} \cup {<<Absence("iavl", entries, claim.path)>> :
        entries \in {e \in {ledger[n] : n \in Block} \cup {<<>>} :
                        claim.path \notin DOMAIN e}}

-----------------------------------------------------------------------------
KeptHeights == DOMAIN store.consensusStates
Kept(height) == store.consensusStates[height].state

(* The host asks with the delay of its connection and the consensus state  *)
(* it keeps at the height.                                                 *)
Accepts(height, proof, claim) ==
    query(env, store, claim.variant,
        [height |-> height, proof |-> proof, commitment_prefix |-> Prefix,
         consensus_state |-> Kept(height),
         delay_time_period |-> connection.delay,
         delay_block_period |-> connection.delay,
         channel |-> Channel, sequence |-> claim.sequence,
         connection_id |-> "connection-0",
         counterparty_client_identifier |-> "client-0",
         consensus_height |-> Height1,
         counterparty_client_state |-> claim.content,
         counterparty_consensus_state |-> claim.content,
         connection_end |-> claim.content, channel_end |-> claim.content,
         commitment_bytes |-> claim.content,
         acknowledgement |-> claim.content,
         next_sequence_recv |-> claim.content]) = "Ok"

Proves(height, claim) == \E proof \in Chains(claim) :
                            Accepts(height, proof, claim)
ProvesAbsence(height, claim) == \E proof \in AbsenceChains(claim) :
                                    Accepts(height, proof, claim)

-----------------------------------------------------------------------------
Entry(entries, claim) == Put(entries, claim.path, claim.value)

GenesisStore ==
    Entry(Entry(Entry(Entry(Entry(<<>>, ClientClaim(Height1)),
        ConsensusClaim("root")), ConnectionClaim("OPEN")),
        ChannelClaim("TRYOPEN")), NextClaim(1))

Init ==
    /\ connection \in [ordered : BOOLEAN, nested : BOOLEAN, delay : Delays]
    /\ ledger = <<GenesisStore>>
    /\ env = [time |-> 0, height |-> 1]
    /\ store = EmptyStore /\ since = <<>>
    /\ outgoing = [sequence \in Sequences |-> "sent"]
    /\ incoming = {}

(* The blocks of Celo; the time of block n is n. *)
CeloBlock(entries) ==
    /\ Tip < MaxBlock
    /\ ledger' = Append(ledger, entries)
    /\ UNCHANGED <<connection, env, store, since, outgoing, incoming>>

CeloIdles == CeloBlock(ledger[Tip])

CeloOpensChannel ==
    /\ ledger[Tip][ChannelClaim("OPEN").path] # Json("OPEN")
    /\ CeloBlock(Entry(ledger[Tip], ChannelClaim("OPEN")))

CeloSends(sequence) ==
    LET claim == CommitmentClaim(sequence, "packet")
    IN  /\ sequence \notin incoming
        /\ claim.path \notin DOMAIN ledger[Tip]
        /\ CeloBlock(Entry(ledger[Tip], claim))

(* Once the host has received the packet, its commitment goes. *)
CeloClears(sequence) ==
    LET path == CommitmentClaim(sequence, "packet").path
    IN  /\ sequence \in incoming
        /\ path \in DOMAIN ledger[Tip]
        /\ CeloBlock([p \in DOMAIN ledger[Tip] \ {path} |-> ledger[Tip][p]])

Acknowledged(entries, sequence) ==
    AckClaim(sequence, "").path \in DOMAIN entries

(* A packet is received in time, and in its turn if the channel is ordered.*)
CeloReceives(sequence, ack) ==
    LET acked == Entry(ledger[Tip], AckClaim(sequence, ack))
    IN  /\ Tip + 1 < Timeout
        /\ ~ Acknowledged(ledger[Tip], sequence)
        /\ connection.ordered =>
                \A earlier \in 1..sequence - 1 :
                    Acknowledged(ledger[Tip], earlier)
        /\ CeloBlock(IF connection.ordered
                     THEN Entry(acked, NextClaim(sequence + 1))
                     ELSE Put(acked, ReceiptPath(Channel, sequence),
                              Bytes("receipt")))

-----------------------------------------------------------------------------
(* The host. *)
NextBlock ==
    /\ env.height < MaxHeight
    /\ \E elapsed \in {0, 1} :
        /\ env.time + elapsed <= MaxTime
        /\ env' = [time |-> env.time + elapsed, height |-> env.height + 1]
    /\ UNCHANGED <<connection, ledger, store, since, outgoing, incoming>>

(* The client is updated to a block, under some height. *)
Update(height, number) ==
    /\ store' = HostWrites(set_consensus_meta(env, store, height), height,
                           [root |-> StateRoot(ledger[number]),
                            timestamp |-> number])
    /\ since' = Put(since, height, env)
    /\ UNCHANGED <<connection, ledger, env, outgoing, incoming>>

Settle(sequence, outcome) ==
    /\ outgoing[sequence] = "sent"
    /\ outgoing' = [outgoing EXCEPT ![sequence] = outcome]
    /\ UNCHANGED <<connection, ledger, env, store, since, incoming>>

Acknowledge(sequence, height, ack) ==
    /\ Proves(height, AckClaim(sequence, ack))
    /\ Settle(sequence, ack)

(* At the time of the consensus state the packet had timed out, and it had *)
(* not been received: there is no receipt, or it is not its turn yet.      *)
TimeOut(sequence, height) ==
    /\ Kept(height).timestamp >= Timeout
    /\ IF connection.ordered
       THEN \E next \in 1..sequence : Proves(height, NextClaim(next))
       ELSE ProvesAbsence(height, AbsenceClaim(sequence))
    /\ Settle(sequence, "timedOut")

Receive(sequence, height) ==
    /\ sequence \notin incoming
    /\ Proves(height, CommitmentClaim(sequence, "packet"))
    /\ incoming' = incoming \cup {sequence}
    /\ UNCHANGED <<connection, ledger, env, store, since, outgoing>>

Next ==
    \/ CeloIdles
    \/ CeloOpensChannel
    \/ \E sequence \in Sequences :
        \/ CeloSends(sequence)
        \/ CeloClears(sequence)
        \/ \E ack \in Acks : CeloReceives(sequence, ack)
    \/ NextBlock
    \/ \E height \in Heights, number \in Block : Update(height, number)
    \/ \E height \in KeptHeights, sequence \in Sequences :
        \/ \E ack \in Acks : Acknowledge(sequence, height, ack)
        \/ TimeOut(sequence, height)
        \/ Receive(sequence, height)

Spec == Init /\ [][Next]_vars
-----------------------------------------------------------------------------
(* The block whose state is kept at a height, by its time. *)
StoreAt(height) == ledger[Kept(height).timestamp]

Holds(height, claim) ==
    /\ claim.path \in DOMAIN StoreAt(height)
    /\ StoreAt(height)[claim.path] = claim.value

Waited(height) ==
    /\ env.time >= since[height].time + connection.delay
    /\ env.height >= since[height].height + connection.delay

(* Whatever chain of proofs comes with a query, too short, too long or of  *)
(* trees that do not belong together, it is answered yes only if the block *)
(* whose consensus state is kept at the height holds the value at the      *)
(* path, and a query about packets only after the delay, counted from when *)
(* that state was stored (mod.rs:706-1129, ibc.rs:139-187).                *)
AcceptedIsHeld ==
    \A height \in KeptHeights :
        LET HeldIfAccepted(claim) ==
                Proves(height, claim) => Holds(height, claim)
            AndWaited(claim) ==
                Proves(height, claim) =>
                    Holds(height, claim) /\ Waited(height)
        IN  /\ \A h \in {Height1, get_self_height(2)} :
                    HeldIfAccepted(ClientClaim(h))
            /\ \A root \in {"root", "other"} :
                    HeldIfAccepted(ConsensusClaim(root))
            /\ \A end \in {"TRYOPEN", "OPEN"} :
                    /\ HeldIfAccepted(ConnectionClaim(end))
                    /\ HeldIfAccepted(ChannelClaim(end))
            /\ \A sequence \in Sequences :
                /\ AndWaited(CommitmentClaim(sequence, "packet"))
                /\ \A ack \in Acks : AndWaited(AckClaim(sequence, ack))
                /\ AndWaited(NextClaim(sequence))

(* And what a block holds is never refused for long: the chain of proofs   *)
(* from its store is accepted, once the delay has passed.                  *)
HeldIsProvable ==
    \A height \in KeptHeights :
        LET AcceptedIfHeld(claim) ==
                Holds(height, claim) =>
                    Accepts(height, HonestChain(StoreAt(height), claim.path),
                            claim)
            OnceWaited(claim) == Waited(height) => AcceptedIfHeld(claim)
        IN  /\ AcceptedIfHeld(ClientClaim(Height1))
            /\ AcceptedIfHeld(ConsensusClaim("root"))
            /\ \A end \in {"TRYOPEN", "OPEN"} :
                    /\ AcceptedIfHeld(ConnectionClaim(end))
                    /\ AcceptedIfHeld(ChannelClaim(end))
            /\ \A sequence \in Sequences :
                /\ OnceWaited(CommitmentClaim(sequence, "packet"))
                /\ \A ack \in Acks : OnceWaited(AckClaim(sequence, ack))
                /\ OnceWaited(NextClaim(sequence))

(* A packet that the host has given up for timed out, and for which it may *)
(* have refunded the sender, was not received by Celo before and never is  *)
(* (mod.rs:1012-1129).                                                     *)
TimedOutIsNeverReceived ==
    \A sequence \in Sequences :
        outgoing[sequence] = "timedOut" =>
            ~ Acknowledged(ledger[Tip], sequence)

(* What the host takes for a packet's acknowledgement is what Celo wrote   *)
(* (mod.rs:953-1010), and a packet it received was sent (mod.rs:894-951).  *)
SettledByCelo ==
    \A sequence \in Sequences :
        /\ outgoing[sequence] \in Acks =>
            \E n \in Block :
                LET claim == AckClaim(sequence, outgoing[sequence])
                IN  /\ claim.path \in DOMAIN ledger[n]
                    /\ ledger[n][claim.path] = claim.value
        /\ sequence \in incoming =>
            \E n \in Block :
                CommitmentClaim(sequence, "packet").path \in DOMAIN ledger[n]
=============================================================================
