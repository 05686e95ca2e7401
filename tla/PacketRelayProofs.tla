------------------------- MODULE PacketRelayProofs --------------------------
(***************************************************************************)
(* Whatever chains of proofs relayers build from the stores of Celo and    *)
(* from trees of their own, for every number of packets, timeout, delay    *)
(* and interleaving of the two chains: what the queries accept is so, and  *)
(* no packet is both timed out and received.                               *)
(***************************************************************************)
EXTENDS PacketRelay, StateLemmas, SequenceTheorems

(* What a proof says is so in the tree that its root is the root of: ics23 *)
(* is outside the repository, and hashes are taken to be injective.        *)
SoundProof(proof) ==
    proof.root # NoRoot =>
        \E entries :
            /\ proof.root = Root(proof.spec, entries)
            /\ IF proof.kind = "exist"
               THEN /\ proof.key \in DOMAIN entries
                    /\ proof.value = entries[proof.key]
               ELSE proof.key \notin DOMAIN entries

IsChain(proofs) ==
    /\ Len(proofs) \in Nat /\ DOMAIN proofs = 1..Len(proofs)
    /\ proofs = [k \in DOMAIN proofs |-> proofs[k]]

(* A chain of whatever length, of proofs from whatever trees.              *)
AnyChain(proofs) ==
    IsChain(proofs) /\ \A k \in DOMAIN proofs : SoundProof(proofs[k])

(* verify_membership accepts a chain, however long, only if no round of    *)
(* its loop fails and the last subroot is the root (ibc.rs:150-187).       *)
LEMMA MembershipRounds ==
    ASSUME NEW proofs, IsChain(proofs), NEW root, NEW keys, NEW value,
           verify_membership(proofs, root, keys, value) = "Ok"
    PROVE  /\ \A k \in DOMAIN proofs :
                ProofVerdict(proofs, keys, value, k) = "Ok"
           /\ Subroot(proofs, value, Len(proofs)) = root
<1> DEFINE fails(k) == ProofVerdict(proofs, keys, value, k) # "Ok"
<1> DEFINE Failing == {k \in DOMAIN proofs : fails(k)}
<1>1. ~ \E k \in DOMAIN proofs : fails(k)
    <2>1. SUFFICES ASSUME \E k \in DOMAIN proofs : fails(k) PROVE FALSE
        OBVIOUS
    <2>2. Failing \in SUBSET Nat /\ Failing # {}
        BY <2>1 DEF IsChain
    <2> HIDE DEF fails
    <2>3. PICK m \in Failing : \A k \in Failing : m <= k
        <3> HIDE DEF Failing
        <3> QED BY <2>2, LeastNatural
    <2>4. m \in DOMAIN proofs /\ fails(m)
        BY <2>3
    <2>5. \A j \in 1..m - 1 : ~ fails(j)
        <3>1. ASSUME NEW j \in 1..m - 1, fails(j) PROVE FALSE
            <4>1. j \in Failing /\ j < m
                BY <2>4, <3>1 DEF IsChain
            <4> QED BY <2>3, <2>4, <4>1 DEF IsChain
        <3> QED BY <3>1
    <2> DEFINE first == CHOOSE k \in DOMAIN proofs :
                            fails(k) /\ \A j \in 1..k - 1 : ~ fails(j)
    <2>6. fails(first)
        BY <2>4, <2>5
    <2>7. verify_membership(proofs, root, keys, value)
            = ProofVerdict(proofs, keys, value, first)
        BY <2>1, Zenon DEF verify_membership, fails
    <2> QED BY <2>6, <2>7 DEF fails
<1>2. verify_membership(proofs, root, keys, value)
        = IF Subroot(proofs, value, Len(proofs)) # root
          THEN "WrongRoot" ELSE "Ok"
    BY <1>1, Zenon DEF verify_membership
<1> QED BY <1>1, <1>2

(* Roots are injective, and those of the two specifications differ. *)
LEMMA RootsDiffer ==
    /\ \A spec_1, spec_2, e_1, e_2 :
        Root(spec_1, e_1) = Root(spec_2, e_2) => spec_1 = spec_2 /\ e_1 = e_2
    /\ "iavl" # "tendermint"
BY DEF Root

(* No value that a query proves is a root. *)
IsNoRoot(value) ==
    \A spec \in {"iavl", "tendermint"} : \A entries :
        value # Root(spec, entries)

(* JSON, byte strings and big-endian numbers are not roots.                *)
LEMMA ValuesAreNoRoots ==
    ASSUME NEW value
    PROVE  /\ IsNoRoot(Json(value)) /\ IsNoRoot(Bytes(value))
           /\ IsNoRoot(u64_to_big_endian(value))
BY DEF IsNoRoot, Json, Bytes, u64_to_big_endian, Root

(* What a round of the loop that does not fail says of its proof.          *)
LEMMA RoundOK ==
    ASSUME NEW proofs, AnyChain(proofs), NEW keys, NEW value,
           NEW k \in DOMAIN proofs,
           ProofVerdict(proofs, keys, value, k) = "Ok"
    PROVE  /\ k <= Len(keys) /\ k <= Len(specs)
           /\ proofs[k].value = Subroot(proofs, value, k - 1)
           /\ proofs[k].key = keys[Len(keys) + 1 - k]
           /\ \E entries :
                /\ proofs[k].root = Root(specs[k], entries)
                /\ proofs[k].key \in DOMAIN entries
                /\ proofs[k].value = entries[proofs[k].key]
<1>1. PICK proof : proof = proofs[k]
    OBVIOUS
<1>2. k \in Nat /\ Len(specs) = 2
    BY DEF AnyChain, IsChain, specs
<1>3. /\ proof.kind = "exist" /\ proof.root # NoRoot
      /\ ~ (k > Len(keys) \/ k > Len(specs))
      /\ proof.spec = specs[k] /\ proof.key = keys[Len(keys) + 1 - k]
      /\ proof.value = Subroot(proofs, value, k - 1)
    BY <1>1 DEF ProofVerdict, get_exist_proof, ics23_verify_membership
<1>4. SoundProof(proof)
    BY <1>1 DEF AnyChain
<1>5. k <= Len(keys) /\ k <= Len(specs)
    <2>1. PICK m : m = Len(keys)
        OBVIOUS
    <2> QED BY <1>2, <1>3, <2>1
<1> QED BY <1>1, <1>3, <1>4, <1>5 DEF SoundProof

(* Whatever chain is accepted under the root of a block, that block holds  *)
(* the value at the path: a chain that is shorter or longer than it should *)
(* be, in the wrong order, or of trees that do not belong together, is     *)
(* refused (ibc.rs:139-187).                                               *)
LEMMA ChainSound ==
    ASSUME NEW claim, NEW proof, AnyChain(proof), NEW entries,
           IsNoRoot(claim.value),
           verify_membership(proof, StateRoot(entries),
                             <<Prefix, claim.path>>, claim.value) = "Ok"
    PROVE  claim.path \in DOMAIN entries /\ entries[claim.path] = claim.value
<1> DEFINE keys == <<Prefix, claim.path>>
<1>1. PICK path, value : path = claim.path /\ value = claim.value
    OBVIOUS
<1>2. /\ \A k \in DOMAIN proof : ProofVerdict(proof, keys, value, k) = "Ok"
      /\ Subroot(proof, value, Len(proof)) = StateRoot(entries)
    BY <1>1, MembershipRounds DEF AnyChain
<1>3. /\ Len(keys) = 2 /\ keys[1] = Prefix /\ keys[2] = path
      /\ specs[1] = "iavl" /\ specs[2] = "tendermint" /\ Len(specs) = 2
    BY <1>1 DEF specs
<1> HIDE DEF keys
<1>4. Len(proof) \in Nat /\ DOMAIN proof = 1..Len(proof)
    BY DEF AnyChain, IsChain
<1>5. CASE Len(proof) = 0
    <2>1. value = StateRoot(entries)
        BY <1>2, <1>5 DEF Subroot
    <2> QED BY <1>1, <2>1 DEF StateRoot, IsNoRoot
<1>6. ASSUME Len(proof) >= 1
      PROVE  \E tree : /\ proof[1].root = Root("iavl", tree)
                       /\ path \in DOMAIN tree /\ tree[path] = value
    <2>1. 1 \in DOMAIN proof
        BY <1>4, <1>6
    <2>2. /\ proof[1].value = Subroot(proof, value, 0)
          /\ proof[1].key = keys[2]
          /\ \E tree : /\ proof[1].root = Root(specs[1], tree)
                       /\ proof[1].key \in DOMAIN tree
                       /\ proof[1].value = tree[proof[1].key]
        <3>1. 1 - 1 = 0 /\ Len(keys) + 1 - 1 = 2
            BY <1>3
        <3> QED BY <1>2, <2>1, <3>1, RoundOK
    <2> QED BY <1>3, <2>2 DEF Subroot
<1>7. CASE Len(proof) = 1
    <2>1. PICK tree : /\ proof[1].root = Root("iavl", tree)
                      /\ path \in DOMAIN tree /\ tree[path] = value
        BY <1>6, <1>7
    <2>2. Root("iavl", tree) = StateRoot(entries)
        BY <1>2, <1>7, <2>1 DEF Subroot
    <2>3. tree = entries
        BY <2>2, RootsDiffer DEF StateRoot
    <2> QED BY <1>1, <2>1, <2>3
<1>8. CASE Len(proof) = 2
    <2>1. PICK tree : /\ proof[1].root = Root("iavl", tree)
                      /\ path \in DOMAIN tree /\ tree[path] = value
        BY <1>6, <1>8
    <2>2. PICK above : /\ proof[2].root = Root("tendermint", above)
                       /\ proof[1].root = above[Prefix]
        <3>1. PICK k : k = 2
            OBVIOUS
        <3>2. k \in DOMAIN proof
            BY <1>4, <1>8, <3>1
        <3>3. /\ proof[k].value = Subroot(proof, value, k - 1)
              /\ proof[k].key = keys[Len(keys) + 1 - k]
              /\ \E above : /\ proof[k].root = Root(specs[k], above)
                            /\ proof[k].key \in DOMAIN above
                            /\ proof[k].value = above[proof[k].key]
            BY <1>2, <3>2, RoundOK
        <3>4. k - 1 = 1 /\ Len(keys) + 1 - k = 1 /\ specs[k] = "tendermint"
            BY <1>3, <3>1
        <3>5. /\ proof[2].value = Subroot(proof, value, 1)
              /\ proof[2].key = Prefix
            BY <1>3, <3>1, <3>3, <3>4, Zenon
        <3>6. PICK above : /\ proof[2].root = Root("tendermint", above)
                           /\ proof[2].value = above[proof[2].key]
            <4>1. PICK above : /\ proof[k].root = Root(specs[k], above)
                               /\ proof[k].value = above[proof[k].key]
                BY <3>3, Zenon
            <4>2. /\ proof[2].root = Root("tendermint", above)
                  /\ proof[2].value = above[proof[2].key]
                BY <3>1, <3>4, <4>1
            <4> QED BY <4>2, Zenon
        <3> QED BY <3>5, <3>6 DEF Subroot
    <2>3. Root("tendermint", above) = StateRoot(entries)
        BY <1>2, <1>8, <2>2 DEF Subroot
    <2>4. above = Outer(entries)
        BY <2>3, RootsDiffer DEF StateRoot
    <2>5. Root("iavl", tree) = Root("iavl", entries)
        BY <2>1, <2>2, <2>4 DEF Outer
    <2>6. tree = entries
        BY <2>5, RootsDiffer
    <2> QED BY <1>1, <2>1, <2>6
<1>9. CASE Len(proof) >= 3
    <2>1. 3 \in DOMAIN proof
        BY <1>4, <1>9
    <2>2. 3 <= Len(keys)
        BY <1>2, <2>1, RoundOK
    <2> QED BY <1>3, <2>2
<1> QED BY <1>4, <1>5, <1>7, <1>8, <1>9

(* Absence can only be shown in the store of the block itself, and only if *)
(* that is not below another tree (mod.rs:1059).                           *)
LEMMA AbsenceSound ==
    ASSUME NEW path, NEW proof, SoundProof(proof), NEW entries,
           ics23_verify_non_membership(proof, specs[1], StateRoot(entries),
                                       path)
    PROVE  /\ path \notin DOMAIN entries
           /\ StateRoot(entries) = Root("iavl", entries)
<1>1. /\ proof.kind = "nonexist" /\ proof.spec = "iavl"
      /\ proof.root = StateRoot(entries) /\ proof.key = path
    BY DEF ics23_verify_non_membership, specs
<1>2. StateRoot(entries) # NoRoot
    BY DEF StateRoot, Root, NoRoot
<1>3. PICK tree : /\ proof.root = Root("iavl", tree)
                  /\ path \notin DOMAIN tree
    BY <1>1, <1>2 DEF SoundProof
<1>4. tree = entries
    BY <1>1, <1>3, RootsDiffer DEF StateRoot
<1> QED BY <1>1, <1>3, <1>4

(* A proof that a tree gives for a key is sound.                           *)
LEMMA GivenIsSound ==
    ASSUME NEW spec, NEW entries, NEW key
    PROVE  /\ key \in DOMAIN entries
                => SoundProof(Existence(spec, entries, key))
           /\ key \notin DOMAIN entries
                => SoundProof(Absence(spec, entries, key))
<1>1. PICK p, a : /\ p = Existence(spec, entries, key)
                  /\ a = Absence(spec, entries, key)
    OBVIOUS
<1>2. /\ p.kind = "exist" /\ p.spec = spec /\ p.key = key
      /\ p.value = entries[key] /\ p.root = Root(spec, entries)
      /\ a.kind = "nonexist" /\ a.spec = spec /\ a.key = key
      /\ a.root = Root(spec, entries)
    BY <1>1 DEF Existence, Absence
<1>3. "nonexist" # "exist"
    OBVIOUS
<1> QED BY <1>1, <1>2, <1>3 DEF SoundProof

(* Tuples are chains.                                                      *)
LEMMA ShortChains ==
    ASSUME NEW p, NEW q, NEW r
    PROVE  IsChain(<<>>) /\ IsChain(<<p>>) /\ IsChain(<<p, q>>)
            /\ IsChain(<<p, q, r>>)
<1>1. IsChain(<<>>)
    BY DEF IsChain
<1>2. IsChain(<<p>>)
    BY DEF IsChain
<1>3. IsChain(<<p, q>>)
    BY DEF IsChain
<1>4. IsChain(<<p, q, r>>)
    BY DEF IsChain
<1> QED BY <1>1, <1>2, <1>3, <1>4

(* So are the chains that the relayers of the model build.                 *)
LEMMA ChainsAreSound ==
    ASSUME NEW claim
    PROVE  /\ \A proof \in Chains(claim) : AnyChain(proof)
           /\ \A proof \in AbsenceChains(claim) : AnyChain(proof)
<1> DEFINE inner(e) == Existence("iavl", e, claim.path)
<1> DEFINE outer(e) == Existence("tendermint", Outer(e), Prefix)
<1>1. ASSUME NEW e \in Trees(claim)
      PROVE  SoundProof(inner(e)) /\ SoundProof(outer(e))
    <2>1. claim.path \in DOMAIN e /\ Prefix \in DOMAIN Outer(e)
        BY DEF Trees, Outer
    <2> QED BY <2>1, GivenIsSound
<1>2. ASSUME NEW proof \in Chains(claim) PROVE AnyChain(proof)
    <2>1. PICK e_1 \in Trees(claim), e_2 \in Trees(claim) :
            proof \in {<<>>, <<inner(e_1)>>, <<inner(e_1), outer(e_2)>>,
                       <<outer(e_2), inner(e_1)>>,
                       <<inner(e_1), outer(e_2), outer(e_2)>>}
        <3>1. [p \in {claim.path} |-> claim.value] \in Trees(claim)
            BY DEF Trees
        <3> QED BY <3>1 DEF Chains
    <2>2. SoundProof(inner(e_1)) /\ SoundProof(outer(e_2))
        BY <1>1
    <2> HIDE DEF inner, outer
    <2>3. IsChain(proof)
        BY <2>1, ShortChains
    <2>4. \A k \in DOMAIN proof : proof[k] \in {inner(e_1), outer(e_2)}
        BY <2>1
    <2> QED BY <2>2, <2>3, <2>4 DEF AnyChain
<1>3. ASSUME NEW proof \in AbsenceChains(claim) PROVE AnyChain(proof)
    <2>1. CASE proof = <<>>
        <3>1. \A k \in DOMAIN <<>> : FALSE
            OBVIOUS
        <3>2. IsChain(<<>>)
            BY ShortChains
        <3> QED BY <2>1, <3>1, <3>2, Zenon DEF AnyChain
    <2>2. CASE proof # <<>>
        <3>1. PICK e : claim.path \notin DOMAIN e
                        /\ proof = <<Absence("iavl", e, claim.path)>>
            BY <2>2 DEF AbsenceChains
        <3>2. PICK a : a = Absence("iavl", e, claim.path)
            OBVIOUS
        <3>3. SoundProof(a)
            BY <3>1, <3>2, GivenIsSound
        <3>4. IsChain(proof)
            BY <3>1, ShortChains
        <3>5. \A k \in DOMAIN proof : proof[k] = a
            BY <3>1, <3>2
        <3> QED BY <3>3, <3>4, <3>5 DEF AnyChain
    <2> QED BY <2>1, <2>2
<1> QED BY <1>2, <1>3

-----------------------------------------------------------------------------
(* What the answer yes to a query comes to. *)

Verified(height, proof, claim) ==
    verify_membership(proof, Kept(height).root, <<Prefix, claim.path>>,
                      claim.value) = "Ok"

DelayPassed(height) ==
    verify_delay_period_passed(env, store, height, connection.delay,
                               connection.delay) = "Ok"

(* The prefix becomes the key of the outer tree.                           *)
LEMMA PrefixedPath ==
    ASSUME NEW path
    PROVE  apply_prefix(Prefix, <<path>>)
            = [res |-> "Ok", key_path |-> <<Prefix, path>>]
BY DEF apply_prefix, Prefix, EmptyPrefix

(* The prefix of the connection is never empty: it becomes the outer key. *)
LEMMA VerdictOf ==
    ASSUME NEW msg, NEW path, NEW value, msg.commitment_prefix = Prefix
    PROVE  Verdict(msg, path, value)
            = verify_membership(msg.proof, msg.consensus_state.root,
                                <<Prefix, path>>, value)
<1> DEFINE prefixed == apply_prefix(msg.commitment_prefix, <<path>>)
<1>1. prefixed.res = "Ok" /\ prefixed.key_path = <<Prefix, path>>
    <2>1. prefixed = apply_prefix(Prefix, <<path>>)
        BY Zenon
    <2>2. prefixed = [res |-> "Ok", key_path |-> <<Prefix, path>>]
        BY <2>1, PrefixedPath, Zenon
    <2> HIDE DEF prefixed
    <2> QED BY <2>2
<1>2. Verdict(msg, path, value)
        = IF prefixed.res # "Ok" THEN prefixed.res
          ELSE verify_membership(msg.proof, msg.consensus_state.root,
                                 prefixed.key_path, value)
    BY DEF Verdict
<1> HIDE DEF prefixed
<1> QED BY <1>1, <1>2

(* A query is answered yes when its own path and value are verified, and   *)
(* those about packets have seen the delay pass.                           *)
LEMMA ClientAnswer ==
    ASSUME NEW height, NEW proof, NEW h
    PROVE  Accepts(height, proof, ClientClaim(h))
            <=> Verified(height, proof, ClientClaim(h))
BY VerdictOf DEF Accepts, ClientClaim, Claim, query, verify_client_state,
                 Verified

(* VerifyClientConsensusState.                                             *)
LEMMA ConsensusAnswer ==
    ASSUME NEW height, NEW proof, NEW root
    PROVE  Accepts(height, proof, ConsensusClaim(root))
            <=> Verified(height, proof, ConsensusClaim(root))
BY VerdictOf DEF Accepts, ConsensusClaim, Claim, query,
                 verify_client_consensus_state, Verified

(* VerifyConnectionState.                                                  *)
LEMMA ConnectionAnswer ==
    ASSUME NEW height, NEW proof, NEW end
    PROVE  Accepts(height, proof, ConnectionClaim(end))
            <=> Verified(height, proof, ConnectionClaim(end))
BY VerdictOf DEF Accepts, ConnectionClaim, Claim, query,
                 verify_connection_state, Verified

(* VerifyChannelState.                                                     *)
LEMMA ChannelAnswer ==
    ASSUME NEW height, NEW proof, NEW end
    PROVE  Accepts(height, proof, ChannelClaim(end))
            <=> Verified(height, proof, ChannelClaim(end))
BY VerdictOf DEF Accepts, ChannelClaim, Claim, query, verify_channel_state,
                 Verified

(* VerifyPacketCommitment.                                                 *)
LEMMA CommitmentAnswer ==
    ASSUME NEW height, NEW proof, NEW sequence, NEW commitment
    PROVE  Accepts(height, proof, CommitmentClaim(sequence, commitment))
            <=> /\ Verified(height, proof,
                            CommitmentClaim(sequence, commitment))
                /\ DelayPassed(height)
BY VerdictOf DEF Accepts, CommitmentClaim, Claim, query,
                 verify_packet_commitment, DelayedVerdict, Verified,
                 DelayPassed

(* VerifyPacketAcknowledgement.                                            *)
LEMMA AckAnswer ==
    ASSUME NEW height, NEW proof, NEW sequence, NEW ack
    PROVE  Accepts(height, proof, AckClaim(sequence, ack))
            <=> /\ Verified(height, proof, AckClaim(sequence, ack))
                /\ DelayPassed(height)
BY VerdictOf DEF Accepts, AckClaim, Claim, query,
                 verify_packet_acknowledgment, DelayedVerdict, Verified,
                 DelayPassed

(* VerifyNextSequenceRecv.                                                 *)
LEMMA NextAnswer ==
    ASSUME NEW height, NEW proof, NEW next
    PROVE  Accepts(height, proof, NextClaim(next))
            <=> /\ Verified(height, proof, NextClaim(next))
                /\ DelayPassed(height)
BY VerdictOf DEF Accepts, NextClaim, Claim, query,
                 verify_next_sequence_recv, DelayedVerdict, Verified,
                 DelayPassed

(* The first proof decides of an absence, against the root itself.         *)
LEMMA AbsenceVerdict ==
    ASSUME NEW msg, msg.commitment_prefix = Prefix
    PROVE  verify_packet_receipt_absence(env, store, msg)
            = DelayedVerdict(env, store, msg,
                IF msg.proof = <<>> THEN "Panic"
                ELSE IF ics23_verify_non_membership(msg.proof[1], specs[1],
                            msg.consensus_state.root,
                            ReceiptPath(msg.channel, msg.sequence))
                THEN "Ok" ELSE "InvalidProof")
<1>1. PICK path : path = ReceiptPath(msg.channel, msg.sequence)
    OBVIOUS
<1>2. apply_prefix(msg.commitment_prefix, <<path>>).res = "Ok"
    <2>1. apply_prefix(msg.commitment_prefix, <<path>>)
            = [res |-> "Ok", key_path |-> <<Prefix, path>>]
        BY PrefixedPath, Zenon
    <2> QED BY <2>1
<1> QED BY <1>1, <1>2, Zenon DEF verify_packet_receipt_absence

(* VerifyPacketReceiptAbsence looks at one proof, of a chain that is not   *)
(* empty.                                                                  *)
LEMMA AbsenceAnswer ==
    ASSUME NEW height, NEW proof, NEW sequence
    PROVE  Accepts(height, proof, AbsenceClaim(sequence))
            <=> /\ DelayPassed(height)
                /\ proof # <<>>
                /\ ics23_verify_non_membership(proof[1], specs[1],
                        Kept(height).root, AbsenceClaim(sequence).path)
<1> DEFINE absent == ics23_verify_non_membership(proof[1], specs[1],
                            Kept(height).root, AbsenceClaim(sequence).path)
<1>1. AbsenceClaim(sequence).path = ReceiptPath(Channel, sequence)
    BY DEF AbsenceClaim, Claim
<1>2. PICK verdict :
        verdict = IF proof = <<>> THEN "Panic"
                  ELSE IF absent THEN "Ok" ELSE "InvalidProof"
    OBVIOUS
<1>3. PICK msg : /\ msg.commitment_prefix = Prefix /\ msg.height = height
                 /\ msg.proof = proof /\ msg.consensus_state = Kept(height)
                 /\ msg.delay_time_period = connection.delay
                 /\ msg.delay_block_period = connection.delay
                 /\ msg.channel = Channel /\ msg.sequence = sequence
                 /\ Accepts(height, proof, AbsenceClaim(sequence))
                    <=> verify_packet_receipt_absence(env, store, msg) = "Ok"
    <2>1. PICK claim : claim = AbsenceClaim(sequence)
        OBVIOUS
    <2>2. /\ claim.variant = "VerifyPacketReceiptAbsence"
          /\ claim.sequence = sequence
        BY <2>1 DEF AbsenceClaim, Claim
    <2>3. PICK msg :
            /\ msg.commitment_prefix = Prefix /\ msg.height = height
            /\ msg.proof = proof /\ msg.consensus_state = Kept(height)
            /\ msg.delay_time_period = connection.delay
            /\ msg.delay_block_period = connection.delay
            /\ msg.channel = Channel /\ msg.sequence = claim.sequence
            /\ Accepts(height, proof, claim)
                <=> query(env, store, claim.variant, msg) = "Ok"
        BY DEF Accepts
    <2>4. query(env, store, "VerifyPacketReceiptAbsence", msg)
            = verify_packet_receipt_absence(env, store, msg)
        BY DEF query
    <2> QED BY <2>1, <2>2, <2>3, <2>4
<1>4. verify_packet_receipt_absence(env, store, msg)
        = DelayedVerdict(env, store, msg, verdict)
    BY <1>1, <1>2, <1>3, AbsenceVerdict, Zenon
<1>5. DelayedVerdict(env, store, msg, verdict)
        = IF ~ DelayPassed(height)
          THEN verify_delay_period_passed(env, store, height,
                    connection.delay, connection.delay)
          ELSE verdict
    BY <1>3, Zenon DEF DelayedVerdict, DelayPassed
<1> HIDE DEF absent
<1>6. verdict = "Ok" <=> proof # <<>> /\ absent
    BY <1>2
<1> QED BY <1>3, <1>4, <1>5, <1>6, Zenon DEF DelayPassed, absent

-----------------------------------------------------------------------------
(* The ledger and the client's store. *)

LedgerOK == ledger \in Seq({ledger[n] : n \in Block})

(* A new block leaves the stores of the others. *)
LEMMA LedgerGrows ==
    ASSUME LedgerOK, NEW entries, ledger' = Append(ledger, entries)
    PROVE  /\ LedgerOK'
           /\ Tip \in Nat /\ Tip' = Tip + 1
           /\ Block = 1..Tip /\ Block' = 1..Tip + 1
           /\ \A n \in Block : ledger'[n] = ledger[n]
           /\ ledger'[Tip + 1] = entries
<1> DEFINE S == {ledger[n] : n \in Block} \cup {entries}
<1>1. ledger \in Seq(S)
    <2>1. {ledger[n] : n \in Block} \subseteq S
        OBVIOUS
    <2> HIDE DEF S
    <2> QED BY <2>1, SeqMonotonic DEF LedgerOK
<1>2. entries \in S
    OBVIOUS
<1> HIDE DEF S
<1>3. /\ ledger' \in Seq(S) /\ Tip \in Nat /\ Tip' = Tip + 1
      /\ Block = 1..Tip /\ Block' = 1..Tip + 1
      /\ \A n \in Block : ledger'[n] = ledger[n]
      /\ ledger'[Tip + 1] = entries
    BY <1>1, <1>2 DEF Block, Tip
<1>4. LedgerOK'
    <2> DEFINE R == {ledger'[n] : n \in Block'}
    <2>1. ledger' \in [1..Tip + 1 -> R]
        <3>1. ledger' \in [1..Tip + 1 -> S]
            BY <1>3, LenProperties DEF Tip
        <3>2. \A n \in 1..Tip + 1 : ledger'[n] \in R
            BY <1>3
        <3> HIDE DEF R
        <3> QED BY <3>1, <3>2
    <2>2. Tip + 1 \in Nat
        BY <1>3
    <2>3. ledger' \in Seq(R)
        <3> HIDE DEF R
        <3> QED BY <2>1, <2>2, SeqDef
    <2> QED BY <2>3 DEF LedgerOK
<1> QED BY <1>3, <1>4

(* Every consensus state that is kept is of a block, and its metadata tell *)
(* when it was stored.                                                     *)
StoreOK ==
    /\ store = [consensusStates |-> store.consensusStates,
                processed |-> store.processed]
    /\ DOMAIN store.processed = KeptHeights /\ DOMAIN since = KeptHeights
    /\ \A h \in KeptHeights :
        /\ Kept(h).timestamp \in Block
        /\ Kept(h).root = StateRoot(StoreAt(h))
        /\ since[h] \in [time : Nat, height : Nat]
        /\ store.processed[h]
            = [time |-> since[h].time,
               height |-> get_self_height(since[h].height)]

HostOK ==
    /\ connection \in [ordered : BOOLEAN, nested : BOOLEAN, delay : Nat]
    /\ env \in [time : Nat, height : Nat]

(* Heights of the host carry revision 0, so the delay in blocks is one.    *)
LEMMA DelayMeansWaited ==
    ASSUME StoreOK, HostOK, NEW h \in KeptHeights, DelayPassed(h)
    PROVE  Waited(h)
<1> DEFINE d == connection.delay
<1> DEFINE p == store.processed[h]
<1> DEFINE valid == [p.height EXCEPT !.revision_height = @ + d]
<1>1. /\ d \in Nat /\ env.time \in Nat /\ env.height \in Nat
      /\ since[h].time \in Nat /\ since[h].height \in Nat
    BY DEF StoreOK, HostOK
<1>2. p.time = since[h].time
      /\ p.height = [revision_number |-> 0,
                     revision_height |-> since[h].height]
    <2>1. p = [time |-> since[h].time,
               height |-> get_self_height(since[h].height)]
        BY DEF StoreOK
    <2> HIDE DEF p
    <2> QED BY <2>1 DEF get_self_height
<1>3. /\ ~ (env.time < p.time + d)
      /\ ~ Higher(valid, get_self_height(env.height))
    <2> HIDE DEF valid, p, d
    <2> QED BY DEF DelayPassed, verify_delay_period_passed, valid, p, d
<1>4. valid = [revision_number |-> 0, revision_height |-> since[h].height + d]
    BY <1>2
<1> HIDE DEF valid, p
<1>5. ~ (since[h].height + d > env.height)
    BY <1>3, <1>4 DEF Higher, get_self_height
<1> QED BY <1>1, <1>2, <1>3, <1>5 DEF Waited

(* What the contract verified, the block of the state that is kept holds.  *)
LEMMA VerifiedIsHeld ==
    ASSUME StoreOK, NEW h \in KeptHeights, NEW claim, IsNoRoot(claim.value),
           NEW proof, AnyChain(proof), Verified(h, proof, claim)
    PROVE  Holds(h, claim)
<1>1. PICK entries : entries = StoreAt(h)
    OBVIOUS
<1>2. Kept(h).root = StateRoot(entries)
    BY <1>1 DEF StoreOK
<1>3. verify_membership(proof, StateRoot(entries), <<Prefix, claim.path>>,
                        claim.value) = "Ok"
    BY <1>2 DEF Verified
<1>4. claim.path \in DOMAIN entries /\ entries[claim.path] = claim.value
    BY <1>3, ChainSound
<1> QED BY <1>1, <1>4 DEF Holds

-----------------------------------------------------------------------------
(* What the store of a block says of the packets that Celo received: of an *)
(* ordered channel the next one, of an unordered one their receipts.       *)
Reflects(entries) ==
    IF connection.ordered
    THEN \E next \in Nat :
            /\ NextClaim(next).path \in DOMAIN entries
            /\ entries[NextClaim(next).path] = NextClaim(next).value
            /\ \A s \in Sequences : Acknowledged(entries, s) <=> s < next
    ELSE \A s \in Sequences :
            Acknowledged(entries, s) =>
                ReceiptPath(Channel, s) \in DOMAIN entries

(* From the timeout on, no packet is received any more. *)
ReceivedInTime ==
    \A n \in Block : n >= Timeout =>
        \A s \in Sequences :
            Acknowledged(ledger[Tip], s) => Acknowledged(ledger[n], s)

TimedOutLate ==
    \A s \in Sequences :
        outgoing[s] = "timedOut" =>
            Tip >= Timeout /\ ~ Acknowledged(ledger[Tip], s)

(* The inductive invariant.  What the stores of all blocks say is          *)
(* needed, because an old state may be kept, and stored again, long after. *)
RelayInv ==
    /\ LedgerOK /\ Tip >= 1
    /\ HostOK
    /\ StoreOK
    /\ DOMAIN outgoing = Sequences
    /\ \A n \in Block : Reflects(ledger[n])
    /\ ReceivedInTime
    /\ TimedOutLate
    /\ SettledByCelo

(* What is not touched stays in order. *)
LEMMA LedgerKept ==
    ASSUME RelayInv, UNCHANGED <<connection, ledger>>
    PROVE  /\ LedgerOK' /\ (Tip >= 1)'
           /\ (\A n \in Block : Reflects(ledger[n]))'
           /\ ReceivedInTime'
<1>1. LedgerOK' /\ (Tip >= 1)'
    BY DEF RelayInv, LedgerOK, Block, Tip
<1>2. (\A n \in Block : Reflects(ledger[n]))'
    BY DEF RelayInv, Block, Reflects, Acknowledged
<1>3. ReceivedInTime'
    BY DEF RelayInv, ReceivedInTime, Block, Tip, Acknowledged
<1> QED BY <1>1, <1>2, <1>3

(* So does the client's store,                                             *)
LEMMA StoreKept ==
    ASSUME RelayInv, UNCHANGED <<connection, ledger, env, store, since>>
    PROVE  HostOK' /\ StoreOK'
<1>1. HostOK'
    BY DEF RelayInv, HostOK
<1>2. StoreOK'
    BY DEF RelayInv, StoreOK, Block, KeptHeights, Kept, StoreAt, StateRoot,
           Outer
<1> QED BY <1>1, <1>2

(* and so do the packets.                                                  *)
LEMMA PacketsKept ==
    ASSUME RelayInv, UNCHANGED <<ledger, outgoing, incoming>>
    PROVE  (DOMAIN outgoing = Sequences)' /\ TimedOutLate' /\ SettledByCelo'
<1>1. (DOMAIN outgoing = Sequences)' /\ TimedOutLate'
    BY DEF RelayInv, TimedOutLate, Tip, Acknowledged
<1>2. SettledByCelo'
    BY DEF RelayInv, SettledByCelo, Block
<1> QED BY <1>1, <1>2

(* A block preserves the invariant if its store reflects what was received *)
(* and, from the timeout on, nothing more was.                             *)
LEMMA BlockStep ==
    ASSUME RelayInv, NEW entries, CeloBlock(entries), Reflects(entries),
           \/ Tip + 1 < Timeout
           \/ \A s \in Sequences :
                Acknowledged(entries, s) <=> Acknowledged(ledger[Tip], s)
    PROVE  RelayInv'
<1>1. /\ ledger' = Append(ledger, entries)
      /\ UNCHANGED <<connection, env, store, since, outgoing, incoming>>
    BY DEF CeloBlock
<1>2. /\ LedgerOK'
      /\ Tip \in Nat /\ Tip' = Tip + 1
      /\ Block = 1..Tip /\ Block' = 1..Tip + 1
      /\ \A n \in Block : ledger'[n] = ledger[n]
      /\ ledger'[Tip + 1] = entries
    BY <1>1, LedgerGrows DEF RelayInv
<1>3. HostOK'
    BY <1>1 DEF RelayInv, HostOK
<1>4. StoreOK'
    <2>1. \A h \in KeptHeights : Kept(h).timestamp \in Block
        BY DEF RelayInv, StoreOK
    <2>2. /\ KeptHeights' = KeptHeights
          /\ \A h : Kept(h)' = Kept(h)
          /\ \A e : StateRoot(e)' = StateRoot(e)
        BY <1>1 DEF KeptHeights, Kept, StateRoot, Outer
    <2>3. \A h \in KeptHeights : StoreAt(h)' = StoreAt(h)
        BY <1>2, <2>1, <2>2 DEF StoreAt
    <2>4. ASSUME NEW h \in KeptHeights
          PROVE  Kept(h)'.root = StateRoot(StoreAt(h))'
        <3>1. PICK e : e = StoreAt(h)
            OBVIOUS
        <3>2. StoreAt(h)' = e
            BY <2>3, <3>1
        <3>3. Kept(h).root = StateRoot(e)
            BY <3>1 DEF RelayInv, StoreOK
        <3> QED BY <1>1, <2>2, <3>2, <3>3 DEF StateRoot, Outer
    <2>5. \A h \in KeptHeights : Kept(h)'.timestamp \in Block'
        BY <1>2, <2>1, <2>2
    <2>6. /\ store = [consensusStates |-> store.consensusStates,
                      processed |-> store.processed]
          /\ DOMAIN store.processed = KeptHeights
          /\ DOMAIN since = KeptHeights
          /\ \A h \in KeptHeights :
                /\ since[h] \in [time : Nat, height : Nat]
                /\ store.processed[h]
                    = [time |-> since[h].time,
                       height |-> get_self_height(since[h].height)]
        BY DEF RelayInv, StoreOK
    <2> QED BY <1>1, <2>2, <2>4, <2>5, <2>6 DEF StoreOK
<1>5. (\A n \in Block : Reflects(ledger[n]))'
    <2>1. ASSUME NEW n \in Block' PROVE Reflects(ledger[n])'
        <3>1. PICK e : e = ledger'[n]
            OBVIOUS
        <3>2. Reflects(e)
            <4>1. CASE n \in Block
                <5>1. e = ledger[n] /\ Reflects(ledger[n])
                    BY <1>2, <3>1, <4>1 DEF RelayInv
                <5> QED BY <5>1 DEF Reflects, Acknowledged
            <4>2. CASE n \notin Block
                BY <1>2, <3>1, <4>2
            <4> QED BY <4>1, <4>2
        <3> QED BY <1>1, <3>1, <3>2 DEF Reflects, Acknowledged
    <2> QED BY <2>1
<1>6. ReceivedInTime' /\ TimedOutLate'
    <2>1. Timeout \in Nat
        BY RelayAssumption
    <2>2. CASE Tip + 1 < Timeout
        <3>1. \A n \in Block' : ~ (n >= Timeout)
            BY <1>2, <2>1, <2>2
        <3>2. \A s \in Sequences : outgoing[s] # "timedOut"
            BY <1>2, <2>1, <2>2 DEF RelayInv, TimedOutLate
        <3> QED BY <1>1, <3>1, <3>2 DEF ReceivedInTime, TimedOutLate
    <2>3. CASE \A s \in Sequences :
                Acknowledged(entries, s) <=> Acknowledged(ledger[Tip], s)
        <3>1. ledger'[Tip'] = entries
            BY <1>2
        <3>2. \A n \in Block' : n \in Block \/ n = Tip'
            BY <1>2
        <3>3. Tip >= Timeout => Tip' >= Timeout
            BY <1>2, <2>1
        <3> QED BY <1>1, <1>2, <2>3, <3>1, <3>2, <3>3
                DEF RelayInv, ReceivedInTime, TimedOutLate, Acknowledged,
                    AckClaim, Claim
    <2> QED BY <2>2, <2>3
<1>7. SettledByCelo'
    <2>1. ASSUME NEW s \in Sequences, outgoing'[s] \in Acks
          PROVE  \E n \in Block' :
                    LET claim == AckClaim(s, outgoing[s])'
                    IN  /\ claim.path \in DOMAIN ledger'[n]
                        /\ ledger'[n][claim.path] = claim.value
        <3>1. PICK ack : ack = outgoing[s]
            OBVIOUS
        <3>2. PICK n \in Block :
                /\ AckClaim(s, ack).path \in DOMAIN ledger[n]
                /\ ledger[n][AckClaim(s, ack).path] = AckClaim(s, ack).value
            BY <1>1, <2>1, <3>1
               DEF RelayInv, SettledByCelo, AckClaim, Claim, Bytes
        <3>3. n \in Block' /\ ledger'[n] = ledger[n]
            BY <1>2
        <3>4. AckClaim(s, outgoing[s])' = AckClaim(s, ack)
            BY <1>1, <3>1 DEF AckClaim, Claim, Bytes
        <3> QED BY <3>2, <3>3, <3>4
    <2>2. ASSUME NEW s \in Sequences, s \in incoming'
          PROVE  \E n \in Block' :
                    CommitmentClaim(s, "packet").path \in DOMAIN ledger'[n]
        <3>1. PICK n \in Block :
                CommitmentClaim(s, "packet").path \in DOMAIN ledger[n]
            BY <1>1, <2>2 DEF RelayInv, SettledByCelo
        <3>2. n \in Block' /\ ledger'[n] = ledger[n]
            BY <1>2
        <3> QED BY <3>1, <3>2
    <2> QED BY <2>1, <2>2 DEF SettledByCelo
<1>8. Tip' >= 1 /\ DOMAIN outgoing' = Sequences
    BY <1>1, <1>2 DEF RelayInv
<1> QED BY <1>2, <1>3, <1>4, <1>5, <1>6, <1>7, <1>8 DEF RelayInv

(* A block that receives no packet. *)
LEMMA QuietBlock ==
    ASSUME RelayInv, NEW old, old = ledger[Tip],
           NEW entries, CeloBlock(entries),
           \A s : Acknowledged(entries, s) <=> Acknowledged(old, s),
           \A x : NextClaim(x).path \in DOMAIN old =>
                    /\ NextClaim(x).path \in DOMAIN entries
                    /\ entries[NextClaim(x).path] = old[NextClaim(x).path],
           \A s : ReceiptPath(Channel, s) \in DOMAIN old =>
                    ReceiptPath(Channel, s) \in DOMAIN entries
    PROVE  RelayInv'
<1>1. Reflects(old)
    <2>1. Tip \in Block
        BY LenProperties DEF RelayInv, LedgerOK, Tip, Block
    <2>2. Reflects(ledger[Tip])
        BY <2>1 DEF RelayInv
    <2> QED BY <2>2 DEF Reflects, Acknowledged
<1>2. Reflects(entries)
    BY <1>1 DEF Reflects
<1>3. \A s \in Sequences :
        Acknowledged(entries, s) <=> Acknowledged(ledger[Tip], s)
    BY DEF Acknowledged
<1> QED BY <1>2, <1>3, BlockStep

(* None of Celo's other blocks receives one. *)
LEMMA QuietSteps ==
    ASSUME RelayInv,
           \/ CeloIdles
           \/ CeloOpensChannel
           \/ \E s \in Sequences : CeloSends(s) \/ CeloClears(s)
    PROVE  RelayInv'
<1>1. PICK old : old = ledger[Tip]
    OBVIOUS
<1>2. CASE CeloIdles
    <2>1. CeloBlock(old)
        BY <1>1, <1>2 DEF CeloIdles, CeloBlock
    <2> QED BY <1>1, <2>1, QuietBlock
<1>3. ASSUME NEW path, NEW value, CeloBlock(Put(old, path, value)),
             \A s : path # AckClaim(s, "").path,
             \A x : path # NextClaim(x).path
      PROVE  RelayInv'
    <2> DEFINE entries == Put(old, path, value)
    <2>1. /\ DOMAIN entries = DOMAIN old \cup {path}
          /\ \A p \in DOMAIN old \ {path} : entries[p] = old[p]
        BY Zenon DEF Put
    <2> HIDE DEF entries
    <2>2. \A s : Acknowledged(entries, s) <=> Acknowledged(old, s)
        BY <1>3, <2>1 DEF Acknowledged
    <2>3. \A x : NextClaim(x).path \in DOMAIN old =>
                    /\ NextClaim(x).path \in DOMAIN entries
                    /\ entries[NextClaim(x).path] = old[NextClaim(x).path]
        BY <1>3, <2>1
    <2>4. \A s : ReceiptPath(Channel, s) \in DOMAIN old =>
                    ReceiptPath(Channel, s) \in DOMAIN entries
        BY <2>1
    <2>5. CeloBlock(entries)
        BY <1>3 DEF entries
    <2> QED BY <1>1, <2>2, <2>3, <2>4, <2>5, QuietBlock
<1>4. CASE CeloOpensChannel
    <2> DEFINE claim == ChannelClaim("OPEN")
    <2>1. CeloBlock(Put(old, claim.path, claim.value))
        BY <1>1, <1>4 DEF CeloOpensChannel, CeloBlock, Entry
    <2>2. /\ \A s : claim.path # AckClaim(s, "").path
          /\ \A x : claim.path # NextClaim(x).path
        BY DEF AckClaim, NextClaim, ChannelClaim, CommitmentClaim,
               ReceiptPath, Claim
    <2> HIDE DEF claim
    <2> QED BY <1>3, <2>1, <2>2
<1>5. ASSUME NEW s \in Sequences, CeloSends(s) PROVE RelayInv'
    <2> DEFINE claim == CommitmentClaim(s, "packet")
    <2>1. CeloBlock(Put(old, claim.path, claim.value))
        BY <1>1, <1>5 DEF CeloSends, CeloBlock, Entry
    <2>2. /\ \A t : claim.path # AckClaim(t, "").path
          /\ \A x : claim.path # NextClaim(x).path
        BY DEF AckClaim, NextClaim, ChannelClaim, CommitmentClaim,
               ReceiptPath, Claim
    <2> HIDE DEF claim
    <2> QED BY <1>3, <2>1, <2>2
<1>6. ASSUME NEW s \in Sequences, CeloClears(s) PROVE RelayInv'
    <2> DEFINE path == CommitmentClaim(s, "packet").path
               entries == [p \in DOMAIN old \ {path} |-> old[p]]
    <2>1. CeloBlock(entries)
        BY <1>1, <1>6 DEF CeloClears, CeloBlock
    <2>2. /\ \A t : path # AckClaim(t, "").path
          /\ \A x : path # NextClaim(x).path
          /\ \A t : path # ReceiptPath(Channel, t)
        BY DEF AckClaim, NextClaim, ChannelClaim, CommitmentClaim,
               ReceiptPath, Claim
    <2> HIDE DEF path
    <2>3. /\ DOMAIN entries = DOMAIN old \ {path}
          /\ \A p \in DOMAIN old \ {path} : entries[p] = old[p]
        OBVIOUS
    <2> HIDE DEF entries
    <2>4. \A t : Acknowledged(entries, t) <=> Acknowledged(old, t)
        BY <2>2, <2>3 DEF Acknowledged
    <2>5. \A x : NextClaim(x).path \in DOMAIN old =>
                    /\ NextClaim(x).path \in DOMAIN entries
                    /\ entries[NextClaim(x).path] = old[NextClaim(x).path]
        BY <2>2, <2>3
    <2>6. \A t : ReceiptPath(Channel, t) \in DOMAIN old =>
                    ReceiptPath(Channel, t) \in DOMAIN entries
        BY <2>2, <2>3
    <2> QED BY <1>1, <2>1, <2>4, <2>5, <2>6, QuietBlock
<1> QED BY <1>2, <1>4, <1>5, <1>6

(* Receiving keeps what the store says in step with what was acknowledged. *)
LEMMA ReceivingStep ==
    ASSUME RelayInv, NEW sequence \in Sequences, NEW ack \in Acks,
           CeloReceives(sequence, ack)
    PROVE  RelayInv'
<1>1. PICK old : old = ledger[Tip]
    OBVIOUS
<1>2. Reflects(old)
    <2>1. Tip \in Block
        BY LenProperties DEF RelayInv, LedgerOK, Tip, Block
    <2>2. Reflects(ledger[Tip])
        BY <2>1 DEF RelayInv
    <2> QED BY <1>1, <2>2 DEF Reflects, Acknowledged
<1>3. /\ Tip + 1 < Timeout
      /\ ~ Acknowledged(old, sequence)
      /\ connection.ordered =>
            \A earlier \in 1..sequence - 1 : Acknowledged(old, earlier)
    BY <1>1 DEF CeloReceives, Acknowledged
<1> DEFINE path == AckClaim(sequence, ack).path
           acked == Put(old, path, AckClaim(sequence, ack).value)
<1>4. \A s \in Sequences :
        Acknowledged(acked, s) <=> Acknowledged(old, s) \/ s = sequence
    <2>1. DOMAIN acked = DOMAIN old \cup {path}
        BY Zenon DEF Put
    <2>2. \A s : AckClaim(s, "").path = path <=> s = sequence
        BY DEF AckClaim, Claim
    <2> HIDE DEF acked, path
    <2> QED BY <2>1, <2>2 DEF Acknowledged
<1>5. CASE connection.ordered
    <2> DEFINE next == NextClaim(sequence + 1)
               entries == Put(acked, next.path, next.value)
    <2>1. CeloBlock(entries)
        BY <1>1, <1>5 DEF CeloReceives, CeloBlock, Entry
    <2>2. /\ next.path \in DOMAIN entries /\ entries[next.path] = next.value
          /\ DOMAIN entries = DOMAIN acked \cup {next.path}
        BY Zenon DEF Put
    <2>3. \A s : AckClaim(s, "").path # next.path
        BY DEF AckClaim, NextClaim, ChannelClaim, CommitmentClaim,
               ReceiptPath, Claim
    <2> HIDE DEF acked, next, entries
    <2>4. \A s \in Sequences :
            Acknowledged(entries, s) <=> Acknowledged(acked, s)
        BY <2>2, <2>3 DEF Acknowledged
    <2>5. PICK k \in Nat :
            \A s \in Sequences : Acknowledged(old, s) <=> s < k
        BY <1>2, <1>5 DEF Reflects
    <2>6. \A s \in Sequences :
            Acknowledged(entries, s) <=> s < sequence + 1
        <3>1. sequence \in Nat /\ ~ (sequence < k)
            BY <1>3, <2>5 DEF Sequences
        <3>2. ASSUME NEW s \in Sequences, s < sequence
              PROVE  Acknowledged(old, s)
            <4>1. s \in 1..sequence - 1
                BY <3>1, <3>2, RelayAssumption DEF Sequences
            <4> QED BY <1>3, <1>5, <4>1
        <3>3. \A s \in Sequences : Acknowledged(old, s) => s < sequence
            BY <2>5, <3>1, RelayAssumption DEF Sequences
        <3>4. \A s \in Sequences :
                s < sequence + 1 <=> s < sequence \/ s = sequence
            BY <3>1, RelayAssumption DEF Sequences
        <3> QED BY <1>4, <2>4, <3>2, <3>3, <3>4
    <2>7. sequence + 1 \in Nat
        BY RelayAssumption DEF Sequences
    <2>8. Reflects(entries)
        BY <1>5, <2>2, <2>6, <2>7 DEF Reflects, next
    <2> QED BY <1>3, <2>1, <2>8, BlockStep
<1>6. CASE ~ connection.ordered
    <2> DEFINE receipt == ReceiptPath(Channel, sequence)
               entries == Put(acked, receipt, Bytes("receipt"))
    <2>1. CeloBlock(entries)
        BY <1>1, <1>6 DEF CeloReceives, CeloBlock, Entry
    <2>2. DOMAIN entries = DOMAIN acked \cup {receipt}
        BY Zenon DEF Put
    <2>3. DOMAIN acked = DOMAIN old \cup {path}
        BY Zenon DEF Put
    <2>4. \A s : AckClaim(s, "").path # receipt
        BY DEF AckClaim, NextClaim, ChannelClaim, CommitmentClaim,
               ReceiptPath, Claim
    <2> HIDE DEF acked, entries, receipt
    <2>5. ASSUME NEW s \in Sequences, Acknowledged(entries, s)
          PROVE  ReceiptPath(Channel, s) \in DOMAIN entries
        <3>1. Acknowledged(acked, s)
            BY <2>2, <2>4, <2>5 DEF Acknowledged
        <3>2. CASE s = sequence
            BY <2>2, <3>2 DEF receipt
        <3>3. CASE s # sequence
            BY <1>2, <1>4, <1>6, <2>2, <2>3, <3>1, <3>3 DEF Reflects
        <3> QED BY <3>2, <3>3
    <2>6. Reflects(entries)
        BY <1>6, <2>5 DEF Reflects
    <2> QED BY <1>3, <2>1, <2>6, BlockStep
<1> QED BY <1>5, <1>6

-----------------------------------------------------------------------------
(* The host's steps. *)

(* Time passing changes nothing that is kept.                              *)
LEMMA HostStep ==
    ASSUME RelayInv, NextBlock
    PROVE  RelayInv'
<1>1. UNCHANGED <<connection, ledger, store, since, outgoing, incoming>>
    BY DEF NextBlock
<1>2. HostOK'
    BY DEF RelayInv, HostOK, NextBlock
<1>3. StoreOK'
    BY <1>1 DEF RelayInv, StoreOK, Block, KeptHeights, Kept, StoreAt,
                StateRoot, Outer
<1> QED BY <1>1, <1>2, <1>3, LedgerKept, PacketsKept DEF RelayInv

(* An update may replace a state, also by one of an older block.           *)
LEMMA UpdateStep ==
    ASSUME RelayInv, NEW height, NEW number \in Block, Update(height, number)
    PROVE  RelayInv'
<1>1. UNCHANGED <<connection, ledger, env, outgoing, incoming>>
    BY DEF Update
<1> DEFINE state == [root |-> StateRoot(ledger[number]),
                     timestamp |-> number]
           states == Put(store.consensusStates, height,
                         [readable |-> TRUE, state |-> state])
           meta == Put(store.processed, height,
                       [time |-> env.time,
                        height |-> get_self_height(env.height)])
<1>2. store' = [consensusStates |-> states, processed |-> meta]
    <2>1. store' = HostWrites(set_consensus_meta(env, store, height), height,
                              state)
        BY DEF Update
    <2>2. set_consensus_meta(env, store, height)
            = [consensusStates |-> store.consensusStates, processed |-> meta]
        <3>1. store = [consensusStates |-> store.consensusStates,
                       processed |-> store.processed]
            BY DEF RelayInv, StoreOK
        <3> QED BY <3>1 DEF set_consensus_meta
    <2> HIDE DEF meta, state
    <2> QED BY <2>1, <2>2 DEF HostWrites, states
<1>3. /\ DOMAIN states = KeptHeights \cup {height}
      /\ states[height].state = state
      /\ \A h \in KeptHeights \ {height} :
            states[h] = store.consensusStates[h]
    <2> HIDE DEF state
    <2> QED BY DEF Put, KeptHeights
<1>4. /\ DOMAIN meta = KeptHeights \cup {height}
      /\ meta[height] = [time |-> env.time,
                         height |-> get_self_height(env.height)]
      /\ \A h \in KeptHeights \ {height} : meta[h] = store.processed[h]
    BY DEF Put, RelayInv, StoreOK
<1>5. /\ DOMAIN since' = KeptHeights \cup {height}
      /\ since'[height] = env
      /\ \A h \in KeptHeights \ {height} : since'[h] = since[h]
    BY DEF Update, Put, RelayInv, StoreOK
<1>6. state.root = StateRoot(ledger[number]) /\ state.timestamp = number
    OBVIOUS
<1> HIDE DEF states, meta, state
<1>7. /\ KeptHeights' = KeptHeights \cup {height}
      /\ store'.consensusStates = states /\ store'.processed = meta
    BY <1>2, <1>3 DEF KeptHeights
<1>8. /\ Kept(height)' = state
      /\ \A h \in KeptHeights \ {height} : Kept(h)' = Kept(h)
    BY <1>3, <1>7 DEF Kept
<1>9. \A e : StateRoot(e)' = StateRoot(e)
    BY <1>1 DEF StateRoot, Outer
<1>10. ASSUME NEW h \in KeptHeights'
       PROVE  /\ Kept(h)'.timestamp \in Block'
              /\ Kept(h)'.root = StateRoot(StoreAt(h))'
              /\ since'[h] \in [time : Nat, height : Nat]
              /\ store'.processed[h]
                    = [time |-> since'[h].time,
                       height |-> get_self_height(since'[h].height)]
    <2>1. CASE h = height
        <3>1. StoreAt(h)' = ledger[number]
            BY <1>1, <1>6, <1>8, <2>1 DEF StoreAt
        <3>2. Kept(h)'.root = StateRoot(StoreAt(h))'
            BY <1>1, <1>6, <1>8, <2>1, <3>1 DEF StateRoot, Outer
        <3> QED BY <1>1, <1>4, <1>5, <1>6, <1>7, <1>8, <2>1, <3>2
                DEF RelayInv, HostOK, Block
    <2>2. CASE h # height
        <3>1. h \in KeptHeights \ {height}
            BY <1>7, <2>2
        <3>2. Kept(h)' = Kept(h) /\ StoreAt(h)' = StoreAt(h)
            BY <1>1, <1>8, <3>1 DEF StoreAt
        <3>3. Kept(h)'.root = StateRoot(StoreAt(h))'
            BY <1>1, <3>1, <3>2 DEF StateRoot, Outer, RelayInv, StoreOK
        <3> QED BY <1>1, <1>4, <1>5, <1>7, <3>1, <3>2, <3>3
                DEF RelayInv, StoreOK, Block
    <2> QED BY <2>1, <2>2
<1>11. StoreOK'
    BY <1>2, <1>4, <1>5, <1>7, <1>10 DEF StoreOK
<1>12. HostOK'
    BY <1>1 DEF RelayInv, HostOK
<1> QED BY <1>1, <1>11, <1>12, LedgerKept, PacketsKept DEF RelayInv

(* Whatever a query accepts, the block holds; what is about packets only   *)
(* after the delay.                                                        *)
LEMMA AcceptedHolds ==
    ASSUME RelayInv, NEW h \in KeptHeights, NEW claim,
           NEW proof, AnyChain(proof), Accepts(h, proof, claim),
           NEW content, NEW s,
           \/ claim = ClientClaim(content)
           \/ claim = ConsensusClaim(content)
           \/ claim = ConnectionClaim(content)
           \/ claim = ChannelClaim(content)
           \/ claim = NextClaim(content)
           \/ claim = CommitmentClaim(s, content)
           \/ claim = AckClaim(s, content)
    PROVE  /\ Holds(h, claim)
           /\ \/ claim = NextClaim(content)
              \/ claim = CommitmentClaim(s, content)
              \/ claim = AckClaim(s, content)
              => Waited(h)
<1>1. StoreOK /\ HostOK
    BY DEF RelayInv
<1>2. /\ Verified(h, proof, claim)
      /\ \/ claim = NextClaim(content)
         \/ claim = CommitmentClaim(s, content)
         \/ claim = AckClaim(s, content)
         => DelayPassed(h)
    BY ClientAnswer, ConsensusAnswer, ConnectionAnswer, ChannelAnswer,
       NextAnswer, CommitmentAnswer, AckAnswer
<1>3. IsNoRoot(claim.value)
    BY ValuesAreNoRoots
       DEF ClientClaim, ConsensusClaim, ConnectionClaim, ChannelClaim,
           NextClaim, CommitmentClaim, AckClaim, Claim
<1>4. Holds(h, claim)
    BY <1>1, <1>2, <1>3, VerifiedIsHeld
<1> QED BY <1>1, <1>2, <1>4, DelayMeansWaited

(* So it is with the chains of the relayers.                               *)
LEMMA ProvenIsHeld ==
    ASSUME RelayInv, NEW h \in KeptHeights, NEW claim, Proves(h, claim),
           NEW content, NEW s,
           \/ claim = ClientClaim(content)
           \/ claim = ConsensusClaim(content)
           \/ claim = ConnectionClaim(content)
           \/ claim = ChannelClaim(content)
           \/ claim = NextClaim(content)
           \/ claim = CommitmentClaim(s, content)
           \/ claim = AckClaim(s, content)
    PROVE  /\ Holds(h, claim)
           /\ \/ claim = NextClaim(content)
              \/ claim = CommitmentClaim(s, content)
              \/ claim = AckClaim(s, content)
              => Waited(h)
<1>1. PICK proof \in Chains(claim) : Accepts(h, proof, claim)
    BY DEF Proves
<1>2. AnyChain(proof)
    BY <1>1, ChainsAreSound
<1> QED BY <1>1, <1>2, AcceptedHolds

(* What is accepted as absent, the block does not have; it is no subtree.  *)
LEMMA AcceptedAbsent ==
    ASSUME RelayInv, NEW h \in KeptHeights, NEW s,
           NEW proof, AnyChain(proof), Accepts(h, proof, AbsenceClaim(s))
    PROVE  /\ AbsenceClaim(s).path \notin DOMAIN StoreAt(h)
           /\ Kept(h).root = Root("iavl", StoreAt(h))
           /\ Waited(h)
<1>1. StoreOK /\ HostOK
    BY DEF RelayInv
<1>2. PICK path, entries : /\ path = AbsenceClaim(s).path
                           /\ entries = StoreAt(h)
    OBVIOUS
<1>3. /\ DelayPassed(h) /\ proof # <<>>
      /\ ics23_verify_non_membership(proof[1], specs[1], Kept(h).root, path)
    BY <1>2, AbsenceAnswer
<1>4. SoundProof(proof[1])
    <2>1. CASE Len(proof) = 0
        <3>1. DOMAIN proof = {} /\ proof = [k \in DOMAIN proof |-> proof[k]]
            BY <2>1 DEF AnyChain, IsChain
        <3> QED BY <1>3, <3>1
    <2>2. CASE Len(proof) # 0
        <3>1. 1 \in DOMAIN proof
            BY <2>2 DEF AnyChain, IsChain
        <3> QED BY <3>1 DEF AnyChain
    <2> QED BY <2>1, <2>2
<1>5. Kept(h).root = StateRoot(entries)
    BY <1>1, <1>2 DEF StoreOK
<1>6. path \notin DOMAIN entries /\ StateRoot(entries) = Root("iavl", entries)
    BY <1>3, <1>4, <1>5, AbsenceSound
<1> QED BY <1>1, <1>2, <1>3, <1>5, <1>6, DelayMeansWaited

(* The host's decisions about packets rest on what was proven. *)
LEMMA AcknowledgeStep ==
    ASSUME RelayInv, NEW sequence \in Sequences, NEW h \in KeptHeights,
           NEW ack \in Acks, Acknowledge(sequence, h, ack)
    PROVE  RelayInv'
<1> DEFINE claim == AckClaim(sequence, ack)
<1>1. /\ UNCHANGED <<connection, ledger, env, store, since, incoming>>
      /\ outgoing' = [outgoing EXCEPT ![sequence] = ack]
    BY DEF Acknowledge, Settle
<1>2. PICK n \in Block :
        claim.path \in DOMAIN ledger[n] /\ ledger[n][claim.path] = claim.value
    <2>1. Holds(h, claim)
        <3>1. Proves(h, claim)
            BY DEF Acknowledge
        <3> QED BY <3>1, ProvenIsHeld
    <2>2. Kept(h).timestamp \in Block
        BY DEF RelayInv, StoreOK
    <2> HIDE DEF claim
    <2> QED BY <2>1, <2>2 DEF Holds, StoreAt
<1>3. SettledByCelo'
    <2>1. ASSUME NEW s \in Sequences, outgoing'[s] \in Acks
          PROVE  \E k \in Block :
                    LET its == AckClaim(s, outgoing'[s])
                    IN  /\ its.path \in DOMAIN ledger[k]
                        /\ ledger[k][its.path] = its.value
        <3>1. CASE s = sequence
            <4>1. outgoing'[s] = ack
                BY <1>1, <3>1 DEF RelayInv
            <4> QED BY <1>2, <3>1, <4>1
        <3>2. CASE s # sequence
            <4>1. outgoing'[s] = outgoing[s]
                BY <1>1, <3>2 DEF RelayInv
            <4> QED BY <2>1, <4>1 DEF RelayInv, SettledByCelo
        <3> QED BY <3>1, <3>2
    <2> QED BY <1>1, <2>1
            DEF RelayInv, SettledByCelo, Block, AckClaim, Claim, Bytes
<1>4. TimedOutLate' /\ DOMAIN outgoing' = Sequences
    BY <1>1, RelayAssumption DEF RelayInv, TimedOutLate, Tip, Acknowledged
<1> QED BY <1>1, <1>3, <1>4, LedgerKept, StoreKept DEF RelayInv

(* A packet that is received was sent: its commitment is in some block.    *)
LEMMA ReceiveStep ==
    ASSUME RelayInv, NEW sequence \in Sequences, NEW h \in KeptHeights,
           Receive(sequence, h)
    PROVE  RelayInv'
<1> DEFINE claim == CommitmentClaim(sequence, "packet")
<1>1. /\ UNCHANGED <<connection, ledger, env, store, since, outgoing>>
      /\ incoming' = incoming \cup {sequence}
    BY DEF Receive
<1>2. PICK n \in Block : claim.path \in DOMAIN ledger[n]
    <2>1. Holds(h, claim)
        <3>1. Proves(h, claim)
            BY DEF Receive
        <3> QED BY <3>1, ProvenIsHeld
    <2>2. Kept(h).timestamp \in Block
        BY DEF RelayInv, StoreOK
    <2> HIDE DEF claim
    <2> QED BY <2>1, <2>2 DEF Holds, StoreAt
<1>3. SettledByCelo'
    BY <1>1, <1>2 DEF RelayInv, SettledByCelo, Block
<1> QED BY <1>1, <1>3, LedgerKept, StoreKept DEF RelayInv, TimedOutLate, Tip,
                                                   Acknowledged

(* A packet is given up only for a block at or after the timeout that does *)
(* not show it received: then no block ever will.                          *)
LEMMA TimeOutStep ==
    ASSUME RelayInv, NEW sequence \in Sequences, NEW h \in KeptHeights,
           TimeOut(sequence, h)
    PROVE  RelayInv'
<1>1. /\ UNCHANGED <<connection, ledger, env, store, since, incoming>>
      /\ outgoing' = [outgoing EXCEPT ![sequence] = "timedOut"]
    BY DEF TimeOut, Settle
<1>2. PICK n \in Block : n = Kept(h).timestamp /\ n >= Timeout
    BY DEF RelayInv, StoreOK, TimeOut
<1>3. PICK entries : entries = ledger[n]
    OBVIOUS
<1>4. Reflects(entries)
    BY <1>3 DEF RelayInv, Reflects, Acknowledged
<1>5. ~ Acknowledged(entries, sequence)
    <2>1. CASE connection.ordered
        <3>1. PICK next \in 1..sequence : Proves(h, NextClaim(next))
            BY <2>1 DEF TimeOut
        <3>2. Holds(h, NextClaim(next))
            BY <3>1, ProvenIsHeld
        <3>3. entries[NextClaim(next).path] = NextClaim(next).value
            BY <1>2, <1>3, <3>2 DEF Holds, StoreAt
        <3>4. PICK k \in Nat :
                /\ entries[NextClaim(k).path] = NextClaim(k).value
                /\ \A s \in Sequences : Acknowledged(entries, s) <=> s < k
            BY <1>4, <2>1 DEF Reflects
        <3>5. k = next
            BY <3>3, <3>4 DEF NextClaim, Claim, u64_to_big_endian
        <3> QED BY <3>1, <3>4, <3>5, RelayAssumption DEF Sequences
    <2>2. CASE ~ connection.ordered
        <3> DEFINE claim == AbsenceClaim(sequence)
        <3>1. PICK proof \in AbsenceChains(claim) : Accepts(h, proof, claim)
            BY <2>2 DEF TimeOut, ProvesAbsence
        <3>2. AnyChain(proof)
            <4> HIDE DEF claim
            <4> QED BY <3>1, ChainsAreSound
        <3>3. entries = StoreAt(h)
            BY <1>2, <1>3 DEF StoreAt
        <3>4. claim.path \notin DOMAIN entries
            BY <3>1, <3>2, <3>3, AcceptedAbsent
        <3>5. claim.path = ReceiptPath(Channel, sequence)
            BY DEF AbsenceClaim, Claim
        <3> QED BY <1>4, <2>2, <3>4, <3>5 DEF Reflects
    <2> QED BY <2>1, <2>2
<1>6. Tip >= Timeout /\ ~ Acknowledged(ledger[Tip], sequence)
    <2>1. n \in Nat /\ Tip \in Nat /\ n <= Tip
        BY LenProperties DEF RelayInv, LedgerOK, Block, Tip
    <2>2. ~ Acknowledged(ledger[n], sequence)
        BY <1>3, <1>5 DEF Acknowledged
    <2> QED BY <1>2, <2>1, <2>2, RelayAssumption
            DEF RelayInv, ReceivedInTime
<1>7. TimedOutLate' /\ DOMAIN outgoing' = Sequences
    BY <1>1, <1>6 DEF RelayInv, TimedOutLate, Tip, Acknowledged
<1>8. SettledByCelo'
    <2>1. \A s \in Sequences :
            outgoing'[s] \in Acks => outgoing'[s] = outgoing[s]
        BY <1>1, RelayAssumption DEF RelayInv
    <2> QED BY <1>1, <2>1
            DEF RelayInv, SettledByCelo, Block, AckClaim, Claim, Bytes
<1> QED BY <1>1, <1>7, <1>8, LedgerKept, StoreKept DEF RelayInv

-----------------------------------------------------------------------------

(* Adding an entry adds its path only.                                     *)
LEMMA EntryAddsItsPath ==
    ASSUME NEW entries, NEW claim, NEW path, path # claim.path,
           path \notin DOMAIN entries
    PROVE  path \notin DOMAIN Entry(entries, claim)
<1>1. DOMAIN Put(entries, claim.path, claim.value)
        = DOMAIN entries \cup {claim.path}
    BY Zenon DEF Put
<1> QED BY <1>1 DEF Entry

(* Of the packets, Celo's first block says nothing. *)
LEMMA GenesisPaths ==
    ASSUME NEW s
    PROVE  AckClaim(s, "").path
            \notin DOMAIN Entry(Entry(Entry(Entry(<<>>, ClientClaim(Height1)),
                        ConsensusClaim("root")), ConnectionClaim("OPEN")),
                        ChannelClaim("TRYOPEN"))
<1> DEFINE path == AckClaim(s, "").path
           a == ClientClaim(Height1)       b == ConsensusClaim("root")
           c == ConnectionClaim("OPEN")    d == ChannelClaim("TRYOPEN")
<1>1. path # a.path /\ path # b.path /\ path # c.path /\ path # d.path
    BY DEF AckClaim, ClientClaim, ConsensusClaim, ConnectionClaim,
           ChannelClaim, Claim
<1>2. path \notin DOMAIN <<>>
    <2>1. DOMAIN <<>> = {}
        OBVIOUS
    <2> QED BY <2>1
<1> HIDE DEF path, a, b, c, d
<1>3. path \notin DOMAIN Entry(<<>>, a)
    BY <1>1, <1>2, EntryAddsItsPath
<1>4. path \notin DOMAIN Entry(Entry(<<>>, a), b)
    BY <1>1, <1>3, EntryAddsItsPath
<1>5. path \notin DOMAIN Entry(Entry(Entry(<<>>, a), b), c)
    BY <1>1, <1>4, EntryAddsItsPath
<1>6. path \notin DOMAIN Entry(Entry(Entry(Entry(<<>>, a), b), c), d)
    BY <1>1, <1>5, EntryAddsItsPath
<1> QED BY <1>6 DEF path, a, b, c, d

(* The invariant is inductive. *)
LEMMA InitRelay == Init => RelayInv
<1> SUFFICES ASSUME Init PROVE RelayInv
    OBVIOUS
<1>1. PICK genesis : genesis = GenesisStore
    OBVIOUS
<1>2. ledger = <<genesis>> /\ Tip = 1 /\ Block = {1} /\ ledger[1] = genesis
    BY <1>1 DEF Init, Tip, Block
<1>3. LedgerOK
    <2>1. genesis \in {ledger[n] : n \in Block}
        BY <1>2
    <2> DEFINE stores == {ledger[n] : n \in Block}
    <2> HIDE DEF stores
    <2>2. <<genesis>> \in Seq(stores)
        BY <2>1 DEF stores
    <2> QED BY <1>2, <2>2 DEF LedgerOK, stores
<1>4. HostOK
    BY RelayAssumption DEF Init, HostOK
<1>5. StoreOK
    <2>1. DOMAIN <<>> = {} /\ store = EmptyStore /\ since = <<>>
        BY DEF Init
    <2> QED BY <2>1 DEF StoreOK, EmptyStore, KeptHeights
<1>6. DOMAIN outgoing = Sequences /\ incoming = {}
      /\ \A s \in Sequences : outgoing[s] = "sent"
    BY DEF Init
<1>7. /\ NextClaim(1).path \in DOMAIN genesis
      /\ genesis[NextClaim(1).path] = NextClaim(1).value
      /\ \A s : ~ Acknowledged(genesis, s)
    <2> DEFINE before == Entry(Entry(Entry(Entry(<<>>, ClientClaim(Height1)),
                            ConsensusClaim("root")), ConnectionClaim("OPEN")),
                            ChannelClaim("TRYOPEN"))
               next == NextClaim(1)
    <2>1. genesis = Put(before, next.path, next.value)
        BY <1>1 DEF GenesisStore, Entry
    <2>2. \A s : AckClaim(s, "").path \notin DOMAIN before
        BY GenesisPaths
    <2>3. \A s : AckClaim(s, "").path # next.path
        BY DEF AckClaim, NextClaim, Claim
    <2> HIDE DEF before, next
    <2>4. /\ DOMAIN genesis = DOMAIN before \cup {next.path}
          /\ genesis[next.path] = next.value
        BY <2>1, Zenon DEF Put
    <2> QED BY <2>2, <2>3, <2>4 DEF Acknowledged, next
<1>8. Reflects(genesis)
    BY <1>7, RelayAssumption DEF Reflects, Sequences
<1>9. \A n \in Block : Reflects(ledger[n])
    BY <1>2, <1>8 DEF Reflects, Acknowledged
<1>10. ReceivedInTime /\ TimedOutLate /\ SettledByCelo
    BY <1>2, <1>6, RelayAssumption
       DEF ReceivedInTime, TimedOutLate, SettledByCelo
<1> QED BY <1>2, <1>3, <1>4, <1>5, <1>6, <1>9, <1>10 DEF RelayInv

(* Every step of both chains keeps the invariant.                          *)
LEMMA RelaySteps == RelayInv /\ [Next]_vars => RelayInv'
<1> SUFFICES ASSUME RelayInv, [Next]_vars PROVE RelayInv'
    OBVIOUS
<1>1. CASE \/ CeloIdles
           \/ CeloOpensChannel
           \/ \E sequence \in Sequences :
                CeloSends(sequence) \/ CeloClears(sequence)
    BY <1>1, QuietSteps
<1>2. ASSUME NEW sequence \in Sequences, NEW ack \in Acks,
             CeloReceives(sequence, ack)
      PROVE  RelayInv'
    BY <1>2, ReceivingStep
<1>3. CASE NextBlock
    BY <1>3, HostStep
<1>4. ASSUME NEW height \in Heights, NEW number \in Block,
             Update(height, number)
      PROVE  RelayInv'
    BY <1>4, UpdateStep
<1>5. ASSUME NEW height \in KeptHeights, NEW sequence \in Sequences,
             \/ \E ack \in Acks : Acknowledge(sequence, height, ack)
             \/ TimeOut(sequence, height)
             \/ Receive(sequence, height)
      PROVE  RelayInv'
    BY <1>5, AcknowledgeStep, TimeOutStep, ReceiveStep
<1>6. CASE UNCHANGED vars
    <2>1. UNCHANGED <<connection, ledger, env, store, since, outgoing,
                      incoming>>
        BY <1>6 DEF vars
    <2> QED BY <2>1, LedgerKept, StoreKept, PacketsKept DEF RelayInv
<1> QED BY <1>1, <1>2, <1>3, <1>4, <1>5, <1>6 DEF Next

(* The inductive invariant holds: see RelayInv. *)
THEOREM RelayAlwaysSound == Spec => []RelayInv
BY InitRelay, RelaySteps, PTL DEF Spec

(* For chains of proofs from whatever trees, every number of packets and   *)
(* every delay: the queries accept only what the block of the kept state   *)
(* holds, and packets only after the delay (mod.rs:706-1129,               *)
(* ibc.rs:139-187).                                                        *)
THEOREM AcceptedIsAlwaysHeld == Spec => []AcceptedIsHeld
<1>1. RelayInv => AcceptedIsHeld
    <2> SUFFICES ASSUME RelayInv, NEW height \in KeptHeights
                 PROVE  AcceptedIsHeld!(height)
        BY DEF AcceptedIsHeld
    <2>1. ASSUME NEW content, NEW s, NEW claim,
                 \/ claim = ClientClaim(content)
                 \/ claim = ConsensusClaim(content)
                 \/ claim = ConnectionClaim(content)
                 \/ claim = ChannelClaim(content),
                 Proves(height, claim)
          PROVE  Holds(height, claim)
        BY <2>1, ProvenIsHeld
    <2>2. ASSUME NEW content, NEW s, NEW claim,
                 \/ claim = NextClaim(content)
                 \/ claim = CommitmentClaim(s, content)
                 \/ claim = AckClaim(s, content),
                 Proves(height, claim)
          PROVE  Holds(height, claim) /\ Waited(height)
        BY <2>2, ProvenIsHeld
    <2> QED BY <2>1, <2>2
<1> QED BY <1>1, RelayAlwaysSound, PTL

(* No packet that was given up as timed out is ever received, whichever of *)
(* the kept states, however old, the proof is checked against              *)
(* (mod.rs:1012-1129).                                                     *)
THEOREM TimedOutNeverReceived == Spec => []TimedOutIsNeverReceived
<1>1. RelayInv => TimedOutIsNeverReceived
    BY DEF RelayInv, TimedOutLate, TimedOutIsNeverReceived
<1> QED BY <1>1, RelayAlwaysSound, PTL

(* Acknowledgements and packets that the host takes in were written by     *)
(* Celo (mod.rs:894-1010).                                                 *)
THEOREM AlwaysSettledByCelo == Spec => []SettledByCelo
<1>1. RelayInv => SettledByCelo
    BY DEF RelayInv
<1> QED BY <1>1, RelayAlwaysSound, PTL

-----------------------------------------------------------------------------
(* What a block holds can be proven to the host. *)

(* The clock that the delay is compared with has not run over.             *)
OnClock == env.time <= MaxU64 /\ env.height <= MaxU64

(* The host's clock stays a u64.                                           *)
LEMMA ClockSteps == RelayInv /\ OnClock /\ [Next]_vars => OnClock'
<1> SUFFICES ASSUME RelayInv, OnClock, [Next]_vars PROVE OnClock'
    OBVIOUS
<1>1. CASE UNCHANGED env
    BY <1>1 DEF OnClock
<1>2. CASE NextBlock
    <2>1. PICK elapsed \in {0, 1} :
            /\ env.time + elapsed <= MaxTime /\ env.height < MaxHeight
            /\ env' = [time |-> env.time + elapsed, height |-> env.height + 1]
        BY <1>2 DEF NextBlock
    <2>2. /\ env.time \in Nat /\ env.height \in Nat
          /\ MaxTime \in Nat /\ MaxHeight \in Nat /\ MaxU64 \in Nat
          /\ MaxTime <= MaxU64 /\ MaxHeight <= MaxU64
        BY RelayAssumption, ClockIsU64 DEF RelayInv, HostOK
    <2>3. env'.time = env.time + elapsed /\ env'.height = env.height + 1
        BY <2>1
    <2> QED BY <2>1, <2>2, <2>3 DEF OnClock
<1>3. CASE UNCHANGED vars
    BY <1>1, <1>3 DEF vars
<1> QED BY <1>1, <1>2, <1>3
        DEF Next, CeloIdles, CeloOpensChannel, CeloSends, CeloClears,
            CeloReceives, CeloBlock, Update, Acknowledge, TimeOut, Receive,
            Settle

(* Once the delay has passed, the two sums of verify_delay_period_passed   *)
(* are no more than the clock, and do not overflow (mod.rs:1270,1282).     *)
LEMMA WaitedMeansDelayPassed ==
    ASSUME StoreOK, HostOK, OnClock, NEW h \in KeptHeights, Waited(h)
    PROVE  DelayPassed(h)
<1>1. PICK d, s, n, a, b : /\ d = connection.delay
                           /\ s = since[h].time /\ n = since[h].height
                           /\ a = env.time /\ b = env.height
    OBVIOUS
<1>2. /\ d \in Nat /\ s \in Nat /\ n \in Nat /\ a \in Nat /\ b \in Nat
      /\ a <= MaxU64 /\ b <= MaxU64 /\ MaxU64 \in Nat
      /\ a >= s + d /\ b >= n + d
    BY <1>1, ClockIsU64 DEF StoreOK, HostOK, OnClock, Waited
<1>3. PICK p : p = store.processed[h]
    OBVIOUS
<1>4. /\ h \in DOMAIN store.processed /\ p.time = s
      /\ p.height = [revision_number |-> 0, revision_height |-> n]
    <2>1. /\ h \in DOMAIN store.processed
          /\ p = [time |-> s, height |-> get_self_height(n)]
        BY <1>1, <1>3 DEF StoreOK
    <2> QED BY <2>1 DEF get_self_height
<1>5. PICK valid : valid = [p.height EXCEPT !.revision_height = @ + d]
    OBVIOUS
<1>6. valid.revision_number = 0 /\ valid.revision_height = n + d
    BY <1>4, <1>5
<1>7. ~ Higher(valid, get_self_height(b))
    BY <1>2, <1>6 DEF Higher, get_self_height
<1>8. verify_delay_period_passed(env, store, h, d, d)
        = IF s + d > MaxU64 THEN "Panic"
          ELSE IF a < s + d THEN "TooEarly"
          ELSE IF n + d > MaxU64 THEN "Panic"
          ELSE IF Higher(valid, get_self_height(b)) THEN "TooEarly" ELSE "Ok"
    BY <1>1, <1>3, <1>4, <1>5, <1>6, Zenon DEF verify_delay_period_passed
<1>9. /\ ~ (s + d > MaxU64) /\ ~ (a < s + d) /\ ~ (n + d > MaxU64)
    BY <1>2
<1>10. verify_delay_period_passed(env, store, h, d, d) = "Ok"
    BY <1>7, <1>8, <1>9, Zenon
<1> QED BY <1>1, <1>10 DEF DelayPassed

(* The chain of proofs that the store of a block gives for a value it      *)
(* holds passes every round of the loop, and ends in the block's root      *)
(* (ibc.rs:139-187).                                                       *)
LEMMA HonestVerifies ==
    ASSUME NEW entries, NEW path \in DOMAIN entries,
           NEW value, value = entries[path]
    PROVE  verify_membership(HonestChain(entries, path), StateRoot(entries),
                             <<Prefix, path>>, value) = "Ok"
<1> DEFINE keys == <<Prefix, path>>
<1>1. PICK proofs, inner, outer :
        /\ proofs = HonestChain(entries, path)
        /\ inner = Existence("iavl", entries, path)
        /\ outer = Existence("tendermint", Outer(entries), Prefix)
    OBVIOUS
<1>2. /\ inner.kind = "exist" /\ inner.spec = "iavl" /\ inner.key = path
      /\ inner.value = value /\ inner.root = Root("iavl", entries)
      /\ outer.kind = "exist" /\ outer.spec = "tendermint"
      /\ outer.key = Prefix /\ outer.value = Root("iavl", entries)
      /\ outer.root = Root("tendermint", Outer(entries))
    BY <1>1 DEF Existence, Outer
<1>3. \A spec, tree : Root(spec, tree) # NoRoot
    BY DEF Root, NoRoot
<1>4. Len(keys) = 2 /\ Len(specs) = 2
        /\ specs[1] = "iavl" /\ specs[2] = "tendermint"
        /\ keys[1] = Prefix /\ keys[2] = path
    BY DEF specs
<1> HIDE DEF keys
<1>5. DOMAIN proofs # {} /\ proofs[1] = inner
    BY <1>1 DEF HonestChain
<1>6. ProofVerdict(proofs, keys, value, 1) = "Ok"
    BY <1>2, <1>3, <1>4, <1>5
       DEF ProofVerdict, get_exist_proof, ics23_verify_membership, Subroot
<1>7. verify_membership(proofs, StateRoot(entries), keys, value)
        = IF Subroot(proofs, value, Len(proofs)) # StateRoot(entries)
          THEN "WrongRoot" ELSE "Ok"
    <2>1. ASSUME NEW k \in DOMAIN proofs
          PROVE  ProofVerdict(proofs, keys, value, k) = "Ok"
        <3>1. CASE k = 1
            BY <1>6, <3>1
        <3>2. CASE k # 1
            <4>1. connection.nested /\ k = 2 /\ proofs[2] = outer
                BY <1>1, <3>2 DEF HonestChain
            <4> QED BY <1>2, <1>3, <1>4, <1>5, <4>1
                    DEF ProofVerdict, get_exist_proof,
                        ics23_verify_membership, Subroot
        <3> QED BY <3>1, <3>2
    <2> QED BY <2>1, Zenon DEF verify_membership
<1>8. Subroot(proofs, value, Len(proofs)) = StateRoot(entries)
    BY <1>1, <1>2 DEF HonestChain, StateRoot, Subroot
<1> QED BY <1>1, <1>7, <1>8 DEF keys

(* What the block of a kept state holds is verified under that state's     *)
(* root.                                                                   *)
LEMMA HeldIsVerified ==
    ASSUME StoreOK, NEW h \in KeptHeights, NEW claim, Holds(h, claim)
    PROVE  Verified(h, HonestChain(StoreAt(h), claim.path), claim)
<1>1. PICK entries : entries = StoreAt(h)
    OBVIOUS
<1>2. PICK path, value : path = claim.path /\ value = claim.value
    OBVIOUS
<1>3. path \in DOMAIN entries /\ value = entries[path]
    BY <1>1, <1>2 DEF Holds
<1>4. Kept(h).root = StateRoot(entries)
    BY <1>1 DEF StoreOK
<1> QED BY <1>1, <1>2, <1>3, <1>4, HonestVerifies DEF Verified

(* The other direction of AcceptedIsAlwaysHeld: the queries turn down no   *)
(* value that the block of a kept state holds, once the delay has passed,  *)
(* whether its tree is below another one or not, and whatever the delay    *)
(* (mod.rs:706-1129,1261-1294, ibc.rs:139-187).                            *)
THEOREM HeldIsAlwaysProvable == Spec => []HeldIsProvable
<1>1. RelayInv /\ OnClock => HeldIsProvable
    <2> SUFFICES ASSUME RelayInv, OnClock, NEW height \in KeptHeights
                 PROVE  HeldIsProvable!(height)
        BY DEF HeldIsProvable
    <2>1. StoreOK /\ HostOK
        BY DEF RelayInv
    <2>2. ASSUME NEW content, NEW claim,
                 \/ claim = ClientClaim(content)
                 \/ claim = ConsensusClaim(content)
                 \/ claim = ConnectionClaim(content)
                 \/ claim = ChannelClaim(content),
                 Holds(height, claim)
          PROVE  Accepts(height, HonestChain(StoreAt(height), claim.path),
                         claim)
        <3>1. PICK proof :
                proof = HonestChain(StoreAt(height), claim.path)
            OBVIOUS
        <3>2. Verified(height, proof, claim)
            BY <2>1, <2>2, <3>1, HeldIsVerified
        <3>3. Accepts(height, proof, claim)
            BY <2>2, <3>2, ClientAnswer, ConsensusAnswer, ConnectionAnswer,
               ChannelAnswer
        <3> QED BY <3>1, <3>3
    <2>3. ASSUME NEW content, NEW s, NEW claim,
                 \/ claim = NextClaim(content)
                 \/ claim = CommitmentClaim(s, content)
                 \/ claim = AckClaim(s, content),
                 Waited(height), Holds(height, claim)
          PROVE  Accepts(height, HonestChain(StoreAt(height), claim.path),
                         claim)
        <3>1. PICK proof :
                proof = HonestChain(StoreAt(height), claim.path)
            OBVIOUS
        <3>2. Verified(height, proof, claim)
            BY <2>1, <2>3, <3>1, HeldIsVerified
        <3>3. DelayPassed(height)
            BY <2>1, <2>3, WaitedMeansDelayPassed
        <3>4. Accepts(height, proof, claim)
            BY <2>3, <3>2, <3>3, NextAnswer, CommitmentAnswer, AckAnswer
        <3> QED BY <3>1, <3>4
    <2> QED BY <2>2, <2>3
<1>2. Init => OnClock
    BY ClockIsU64 DEF Init, OnClock
<1> QED BY <1>1, <1>2, ClockSteps, RelayAlwaysSound, PTL DEF Spec
-----------------------------------------------------------------------------
(* Any chain of proofs. *)

IsStateClaim(claim, content) ==
    \/ claim = ClientClaim(content)
    \/ claim = ConsensusClaim(content)
    \/ claim = ConnectionClaim(content)
    \/ claim = ChannelClaim(content)

IsPacketClaim(claim, sequence, content) ==
    \/ claim = NextClaim(content)
    \/ claim = CommitmentClaim(sequence, content)
    \/ claim = AckClaim(sequence, content)

(* AcceptedIsHeld of chains of any length, of proofs from any trees, and   *)
(* of messages with any content (mod.rs:706-1129, ibc.rs:139-187).         *)
AnyAcceptedIsHeld ==
    \A height \in KeptHeights : \A proof : AnyChain(proof) =>
        \A claim, sequence, content :
            Accepts(height, proof, claim) =>
                /\ IsStateClaim(claim, content) => Holds(height, claim)
                /\ IsPacketClaim(claim, sequence, content)
                    => Holds(height, claim) /\ Waited(height)
                /\ claim = AbsenceClaim(sequence)
                    => /\ claim.path \notin DOMAIN StoreAt(height)
                       /\ Waited(height)

(* What any chain shows, one of those of the model's relayers shows too:   *)
(* no behaviour is lost by giving relayers only Chains and AbsenceChains.  *)
ChainsAreEnough ==
    \A height \in KeptHeights : \A proof : AnyChain(proof) =>
        \A claim, sequence, content :
            Accepts(height, proof, claim) =>
                /\ \/ IsStateClaim(claim, content)
                   \/ IsPacketClaim(claim, sequence, content)
                   => Proves(height, claim)
                /\ claim = AbsenceClaim(sequence)
                    => ProvesAbsence(height, claim)

(* The queries answer yes only to what the block of the kept state holds,  *)
(* or, if they are asked for an absence, does not have, whatever chain of  *)
(* proofs comes with them (mod.rs:706-1129, ibc.rs:139-187).               *)
THEOREM AnyAcceptedIsAlwaysHeld == Spec => []AnyAcceptedIsHeld
<1>1. RelayInv => AnyAcceptedIsHeld
    <2> SUFFICES ASSUME RelayInv, NEW height \in KeptHeights,
                        NEW proof, AnyChain(proof),
                        NEW claim, NEW sequence, NEW content,
                        Accepts(height, proof, claim)
                 PROVE  /\ IsStateClaim(claim, content)
                            => Holds(height, claim)
                        /\ IsPacketClaim(claim, sequence, content)
                            => Holds(height, claim) /\ Waited(height)
                        /\ claim = AbsenceClaim(sequence)
                            => /\ claim.path \notin DOMAIN StoreAt(height)
                               /\ Waited(height)
        BY DEF AnyAcceptedIsHeld
    <2>1. ASSUME IsStateClaim(claim, content) PROVE Holds(height, claim)
        BY <2>1, AcceptedHolds DEF IsStateClaim
    <2>2. ASSUME IsPacketClaim(claim, sequence, content)
          PROVE  Holds(height, claim) /\ Waited(height)
        BY <2>2, AcceptedHolds DEF IsPacketClaim
    <2>3. ASSUME claim = AbsenceClaim(sequence)
          PROVE  /\ claim.path \notin DOMAIN StoreAt(height)
                 /\ Waited(height)
        BY <2>3, AcceptedAbsent
    <2> QED BY <2>1, <2>2, <2>3
<1> QED BY <1>1, RelayAlwaysSound, PTL

(* The chains that relayers build in the model stand for all chains: what  *)
(* a query answers yes to for any chain of proofs, it does for one of them.*)
THEOREM ChainsAreAlwaysEnough == Spec => []ChainsAreEnough
<1>1. RelayInv => ChainsAreEnough
    <2> SUFFICES ASSUME RelayInv, NEW height \in KeptHeights,
                        NEW proof, AnyChain(proof),
                        NEW claim, NEW sequence, NEW content,
                        Accepts(height, proof, claim)
                 PROVE  /\ \/ IsStateClaim(claim, content)
                           \/ IsPacketClaim(claim, sequence, content)
                           => Proves(height, claim)
                        /\ claim = AbsenceClaim(sequence)
                            => ProvesAbsence(height, claim)
        BY DEF ChainsAreEnough
    <2>1. StoreOK /\ HostOK
        BY DEF RelayInv
    <2>2. PICK entries : /\ entries = StoreAt(height)
                         /\ entries \in {ledger[n] : n \in Block}
        <3>1. PICK n : n = Kept(height).timestamp
            OBVIOUS
        <3>2. n \in Block /\ StoreAt(height) = ledger[n]
            BY <2>1, <3>1 DEF StoreOK, StoreAt
        <3> QED BY <3>2
    <2>3. ASSUME \/ IsStateClaim(claim, content)
                 \/ IsPacketClaim(claim, sequence, content)
          PROVE  Proves(height, claim)
        <3>1. Holds(height, claim)
            BY <2>3, AcceptedHolds DEF IsStateClaim, IsPacketClaim
        <3>2. PICK honest : honest = HonestChain(entries, claim.path)
            OBVIOUS
        <3>3. Verified(height, honest, claim)
            BY <2>1, <2>2, <3>1, <3>2, HeldIsVerified
        <3>4. Accepts(height, honest, claim)
            BY <2>3, <3>3, ClientAnswer, ConsensusAnswer, ConnectionAnswer,
               ChannelAnswer, NextAnswer, CommitmentAnswer, AckAnswer
               DEF IsStateClaim, IsPacketClaim
        <3>5. honest \in Chains(claim)
            <4>1. entries \in Trees(claim)
                BY <2>2, <3>1 DEF Trees, Holds
            <4> QED BY <3>2, <4>1 DEF HonestChain, Chains
        <3> QED BY <3>4, <3>5 DEF Proves
    <2>4. ASSUME claim = AbsenceClaim(sequence)
          PROVE  ProvesAbsence(height, claim)
        <3>1. PICK path : path = claim.path
            OBVIOUS
        <3>2. /\ path \notin DOMAIN entries
              /\ Kept(height).root = Root("iavl", entries)
            BY <2>2, <2>4, <3>1, AcceptedAbsent
        <3>3. PICK absence : absence = Absence("iavl", entries, path)
            OBVIOUS
        <3>4. PICK honest : honest = <<absence>>
            OBVIOUS
        <3>5. /\ honest # <<>>
              /\ ics23_verify_non_membership(honest[1], specs[1],
                        Kept(height).root, path)
            <4>1. honest[1] = absence /\ honest # <<>>
                BY <3>4
            <4> QED BY <3>2, <3>3, <4>1
                    DEF ics23_verify_non_membership, Absence, specs
        <3>6. DelayPassed(height)
            BY <2>4, AbsenceAnswer
        <3>7. Accepts(height, honest, claim)
            BY <2>4, <3>1, <3>5, <3>6, AbsenceAnswer
        <3>8. honest \in AbsenceChains(claim)
            BY <2>2, <3>1, <3>2, <3>3, <3>4 DEF AbsenceChains
        <3> QED BY <3>7, <3>8 DEF ProvesAbsence
    <2> QED BY <2>3, <2>4
<1> QED BY <1>1, RelayAlwaysSound, PTL
=============================================================================
