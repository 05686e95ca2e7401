# A verification of the Celo light client in TLA+

`celo-light-client` follows a Celo chain (Istanbul BFT with BLS-aggregated
seals) without its blocks: it keeps one *snapshot* (a block's number, time,
hash and seal, with the validator set in force after it) and moves it forward
header by header. The repository has a library that does this, an example
program that synchronises from a full node (`lightest-sync`), and an IBC light
client contract for a Cosmos chain. This directory models them in TLA+, checks
them with TLC and proves the central results with TLAPS. Paths below are
relative to the repository's root; `mod.rs` is `src/contract/mod.rs`, `main.rs`
is `examples/lightest-sync/main.rs`.

## The system

| component | state it keeps | operations | what makes it correct |
|---|---|---|---|
| epoch and quorum arithmetic (`src/istanbul.rs`) | none | number <-> epoch, first and last block, quorum size | epochs partition the blocks; two quorums share more than the faulty third |
| seal verification (`src/bls.rs`) | none | `verify_aggregated_seal` | only what a quorum of *the* set committed to is accepted |
| consensus state (`src/state.rs`, `src/types/state.rs`) | the snapshot; a borrowed configuration | `insert_header`, `verify_header`, `verify_header_seal`, `add_validators`, `remove_validators`, `Snapshot::verify` | the head only advances, each step is sealed by the set before it, nobody sits in the set twice, a failure leaves no half-taken step |
| `lightest-sync` (`main.rs`, `relayer.rs`) | the state it builds up, the latest header | fetch latest, one epoch header after another, report | what it reports about the latest header is true |
| contract, client lifecycle (`mod.rs`, `store.rs`) | nothing between calls but the store: processed time and height of each consensus state, and copies made by a substitution; the host keeps client and consensus states | create, update, misbehaviour, upgrade, substitute, status, zero custom fields | every consensus state kept is a true one; freezing only on a fork; freezing, expiry and recovery follow the configuration |
| contract, proof queries (`mod.rs`, `src/contract/types/ibc.rs`) | reads processed time and height | 8 `verify_*` queries | accepted means the block at that height holds the value, and waited for; what it holds is accepted |
| codecs (`src/types`, `src/serialization`) | none | RLP, JSON, the header hash | round trips; the hash tells headers apart; a damaged copy does no harm |

They interact by calls only: `lightest-sync` and the contract own a `State`,
which calls the arithmetic and the seal verification. The contract is called by
a host that passes in everything but the store, which the two share: the host
writes consensus states, the contract their metadata.

Hard to test here: the order in which headers arrive around an election (the
set of positions that a bitmap speaks of changes there); diffs that fail half
way (`store_epoch_header`, removals before additions); headers that are old,
repeated, sealed by other committers, or of a proposal that a round change
dropped; a clock that lags; a header that could not be fetched; the host's
choice of the consensus state a call starts from; metadata kept apart from the
state it belongs to; frozen, expired and substituted clients in any order. Packets
time out on one chain while the other receives them; proofs are of the wrong
tree, too few or too many; damaged bytes are cut, padded or dropped without
notice (`from_bytes`). There
are no threads and no persistence of its own: a release build turns overflow and
`unwrap()` into an abort (`Cargo.toml`: `overflow-checks`, `panic = 'abort'`).
`PROJECT.json` lists the hazards at their lines.

## The modules

| module | models | corresponds to |
|---|---|---|
| `Istanbul` | `src/istanbul.rs` | operators with the functions' names |
| `EpochWalk` | the reference for `Istanbul` | counts epochs block by block, without division |
| `EpochWalkProofs` | proofs about `Istanbul`, by way of `EpochWalk` | |
| `AggregatedSeal` | `src/bls.rs` | one operator per function |
| `State` | `src/state.rs`, `Snapshot` | one operator per method: configuration and snapshot in, verdict and snapshot out |
| `LibraryState` | one `State` object under any calls | variables `snapshot`, `result`; one action per public method |
| `StateLemmas`, `LibraryStateProofs` | proofs about `State`, `LibraryState`, `Codec` and `WireState` | |
| `Codec` | `src/types`, `src/serialization`, the header hash | one operator per encoder, decoder and field helper |
| `WireState` | `LibraryState` with headers and snapshot in bytes | damaged copies of headers; what reading them gives |
| `CeloChain` | the chain (external) | blocks, elections, seals, dropped proposals |
| `TrustedHead` | what a light client promises | abstract: a head and its set, moving along the chain |
| `ChainLemmas` | lemmas about `CeloChain` and what `State` makes of its headers | |
| `EpochSync` | a `State` fed by a relayer | composes `State` with `CeloChain`; implements `TrustedHead` |
| `EpochSyncProofs` | proofs about `EpochSync` | |
| `LightestSync` | `main.rs` | one action per step of `main` |
| `LightestSyncProofs` | proofs about `LightestSync` | |
| `Membership` | `src/contract/types/ibc.rs` | the loop of `verify_membership`, one round per proof; ICS-23 (external) |
| `ClientContract` | `mod.rs`, `store.rs` | one operator per handler |
| `ProofQueries` | the queries of `mod.rs` | one operator per query, and the dispatcher |
| `ClientLifecycle` | what the clients of a host promise | abstract: states by height, live or frozen, taken over |
| `HostedClients` | the contract's clients on a host | composes `ClientContract` with `CeloChain`; one action per message; implements `ClientLifecycle` |
| `HostedClientsProofs` | proofs about `HostedClients` | |
| `PacketRelay` | packets between the host and Celo | composes `ProofQueries` with both ends of a channel (external) |
| `PacketRelayProofs` | proofs about `PacketRelay`, `ProofQueries` and `Membership` | |
| `MC*` | instances for TLC | constants only |

### How the models read the code

A BLS signature is a pair of a message and the bag of keys it aggregates; it
verifies under an aggregated key exactly if message and bag are equal. Bitmaps
are sets of bit positions. A header's extra-data is taken decoded, with a field
`extra` for what decoding comes to (`Ok`, an error, or the slice panic of
`from_bytes` on short input). Its hash is the header without its aggregated
seal: injective, and blind to the seal, as in the code. Every early return is a
verdict, in the code's order; so is a panic. When additions are refused after
removals were applied, `store_epoch_header` in the model too returns an error
*and* a changed set.

`CeloChain` states what the code takes for granted about the chain: block 0
brings in the first set; only the last block of an epoch changes it; members
keep their order and new ones go to the end; time increases; a finalised header
circulates with the commits of any quorum; a dropped proposal never reached one.
`MaxJoin`, `MaxLeave` and `MaxNumber` are bounds.

In `EpochSync` the relayer never hands in a header beyond the next epoch
boundary: README.md:15 and `main.rs:99-113` go through the last header of every
epoch, and `State` itself does not test for it (a skipped boundary whose quorum
also verifies under the old set is accepted). Anything up to the boundary may be
handed in at any time, dropped proposals included. In `LibraryState` there is no
such discipline at all.

In `HostedClients` a failed call leaves no trace (the host reverts it), so an
action is a call that succeeds. The host asks for the status before it updates or
upgrades, cannot pass in a state that does not decode, and otherwise passes in
*any* state the client keeps. `latest_height` is kept exactly as the contract
returns it, which an update does not change. `submitted` is a history variable:
when the state at a height was last stored.

A tree of ICS-23 is a specification and a function from keys to values, and its
root is injective, so the root *is* the tree; roots are values of the tree above.
A proof carries the root that is computed from it. `verify_membership` is modelled
for chains of any length: none (the value itself is compared with the root), more
than there are keys or specifications (a panic), in the wrong order, or of trees
that do not belong together. The absence of a receipt is asked of the first proof
alone, against the root of the consensus state (`mod.rs:1058` regrets it), so it
can be shown only where Celo's store is not below another tree: on such channels a
packet that was never received cannot be timed out. `PacketRelay` has both.
In it, whatever the host decides about a packet (acknowledged, timed out,
received) is the answer to a query; the rest is what ICS 4 asks of two chains.

In `Codec` bytes are sequences and lengths are small. An RLP item stands for its
own encoding (the rlp crate frames without loss); a string that means nothing to
the code is a name with positions, so that cutting, padding and mixing show;
numbers are written out in a base. Digits and the bits of a bitmap are recursive
functions (`bytes_be`, `Number`, `active_bits`). The header hash stands for the bytes that are
hashed. `Read` is the bridge to `State`: what a header in bytes looks like there,
its verdict of decoding included. `WireState` checks that the hash `State` works
with and the hash over bytes tell the same headers apart.

## The runs

Passing runs:

| run | instance | shows |
|---|---|---|
| `epoch_walk` | epoch sizes 1..6, blocks 0..31 | `FormulasCount`, `BoundsEnclose`: closed formulas = counting; `EpochTurnsAfterLastBlock`: the set changes at the boundary exactly; `QuorumsIntersect`: rounding of two thirds |
| `library_state` | MaxU64 = 7, epochs of 2, two epochs, diffs that fit, clash, remove too much, re-key; five headers in bytes with every copy that has one item bent | `TypeOK`, `UniqueAddresses`, `HeadOnlyAdvances`, `SealedByPriorSet`, `FailureKeepsHead`; `SnapshotSurvives`, `HashIsOfContent`, `BentIsHarmless` |
| `epoch_sync` | 3 validators, epochs of 2, five blocks, two elections, one leaves and one joins | `OnChain`, `SetFollowsChain`, `StoredSnapshotVerifies`, `RefusalChangesNothing`, the refinement `ImplementsTrustedHead`, and `CatchesUp` under fairness |
| `lightest_sync` | 3 validators, two may join, five blocks, with and without `--fast`, requests may fail | `ReportIsRight`, `RebuildsSet` |
| `client_updates` | one client, one election, any height label, upgrade | `StatesFollowChain`, `PacketsWait`, `LatestIsKept`, the refinement `ImplementsLifecycle` |
| `client_recovery` | two clients, two forks, short trusting period | the same, and `FrozenByForkOnly` |
| `packet_relay` | two packets each way, three blocks of Celo, ordered or not, store nested or not | `AcceptedIsHeld`, `HeldIsProvable`, `TimedOutIsNeverReceived`, `SettledByCelo` |

Every property has a mutant, a plausible bug in a definition of the code, that
violates it in the same run.

Runs that find what a comment, name or message of the code says violated
(`findings` in `PROJECT.json` quote the lines):

| run | the code does |
|---|---|
| `lightest_sync_lossy` | an epoch header that cannot be fetched is skipped; the report is then made against a set that misses its diff (`main.rs:110-112`) |
| `non_epoch_unchecked` | without `verify_non_epoch_headers` an old header takes the head back behind an election and its diff is applied twice (`traits.rs:33-34`) |
| `unfreeze_flag` | `allow_update_after_misbehavior` is read the wrong way round (`mod.rs:1163`) |
| `expired_recovery` | a substitution tests the *old* state for expiry: an expired client is never recovered (`mod.rs:1202-1215`) |
| `upgrade_proofs` | each of the two upgrade proofs is checked against the other's value (`mod.rs:531-567`) |

Two more disagreements with a comment show in the model but have no run of their
own. A substitution says it copies "consensus states and processed time"
(`mod.rs:1183`), but writes the current block's time (`mod.rs:1197`) and stores
the bytes once more as JSON (`store.rs:129`), so that they no longer decode at
`mod.rs:1206`. And `mod.rs:598` says the heights of the two headers of a
misbehaviour are expected to be the same, but what is compared are the labels
that come with the headers, not the numbers in them: with `LabelIsNumber = FALSE`
two finalised headers of different blocks freeze a client without any fork.

`FrozenByForkOnly` is stated of chains whose set stays, and `client_recovery` has
one. The seals of evidence are checked against the sets of the two trusted states
that come with it, of whatever epoch (`mod.rs:590-652`); where the set changes, the
commits of an abandoned proposal can be as many as a quorum of a smaller set, and
on such an instance TLC shows the property violated. Of the two theorems below one
has the hypothesis that there is one set (`OneSet`) for that reason, the other that
evidence comes with states of its own epoch (`JudgedInEpoch`).

### Bounds, and why they are enough

*Epochs and numbers.* The least interesting epoch has two blocks (one inside, one
at the boundary); five blocks have two elections, a header between them and one
after them, and `library_state` reaches the top of u64 with `MaxU64 = 7`.
*Validators.* With three, a quorum (2) is not everybody, and with a fourth or
fifth it changes size; a validator that leaves and returns under a new key
distinguishes addresses from keys. `non_epoch_unchecked` needs six: the least
number for which one set's quorum is, position by position, also one of the next.
*Clients.* A substitution relates two clients. Two heights with forks let evidence
come in both orders, and a third has none. One clock step makes a header stored
again differ from one stored before. `client_recovery` uses symmetry of the two
clients (safety only) and no upgrade, which `client_updates` has; its one clock
step, 0 or 3, lets a state expire while a later one does not.
*Packets.* With two packets an ordered channel has a first and a second. Packets
time out at the third block: one can be received in the block before or not at
all, and one height at which states replace each other has every block at any
time. The two acknowledgements are symmetric. Chains of up to three proofs exceed the two specifications by one.
*Bytes.* An address of one byte and a hash of three can be cut and padded, base 2
makes numbers of several bytes, and bending one item at a time reaches every
branch of the decoders.

`CHECK_DEADLOCK FALSE` is in every configuration: programs end, a panic aborts,
and chain, clock and host stop at their bounds.

### Fairness

`CatchesUp` assumes weak fairness of the chain's growth, of the client's clock,
and of the relayer handing in the header after the head (`RelayNext`). The code
that relays is a loop that tries one header after another (`main.rs:99-113`);
nothing is assumed of what else is handed in between. Weak fairness of
`RelayNext` is enough although attempts may be refused: a refused attempt leaves
the snapshot as it was, and the clock catches up in the end. The chain of the
instance ends at block 5, so that "catches up for good" can be stated as one
formula, `<>[]` of the head being that block.

## What is proved

`StateLemmas` and `LibraryStateProofs` prove, for every configuration, every set
of headers, every `MaxU64` and every sequence of calls:

- `TypeCorrect`: `Spec => []TypeOK`
- `AddressesStayUnique`: `Spec => []UniqueAddresses`
- `HeadAdvances`: `Spec => HeadOnlyAdvances`
- `HeadsAreSealed`: `Spec => SealedByPriorSet`
- `FailuresKeepHead`: `Spec => FailureKeepsHead`

*Assumptions*: the five named ASSUMEs of `LibraryState`: numbers are natural
numbers, times fit u64, epoch sizes are positive, bitmaps are sets of naturals,
and no list of added validators names an address twice (`add_validators` does not
look for that, `state.rs:28-42`). TLC evaluates them in `library_state`.

*Argument*: the inductive invariant `IInv` is `TypeOK` and `UniqueAddresses`
together. Uniqueness is not inductive alone: that filtering keeps it needs the
set to be a sequence, and that an addition keeps it needs the refusal of clashes
*after* the removals. `StateLemmas` has the facts about data: the k-th kept
place exists and increases with k (`NthExists`, by counting up with the least
counterexample, not by an induction theorem), filtering yields a sequence of the
right type and keeps addresses apart (`FilteredValidators`, `FilteredUnique`),
removals and additions keep the type. `LibraryStateProofs` goes through
`insert_header` by verdict (`InsertOutcome`): refused and unchanged, refused
after removals, or accepted. `MovedHead` says what an accepted header passed;
`HeadAdvances` follows from it, and `HeadsAreSealed` from it, `SealVerdict` and
the arithmetic of `min_quorum_size`. `FailuresKeepHead` needs the other two
verdicts only: `HalfAppliedKeepsRest` says what a diff refused after its removals
leaves behind.

The same module proves, for every `State` whose headers and snapshot are bytes,
every base of at least two, every length of hashes, addresses, keys and vanity, and
numbers, bitmaps, sets and lists of every size:

- `SnapshotAlwaysSurvives`: `Spec => []SnapshotSurvives`
- `HashAlwaysOfContent`: `Spec => []HashIsOfContent`
- `BentAlwaysHarmless`: `Spec => []BentIsHarmless`

*Assumptions*: `CodecAssumption` (lengths and the base are numbers, the base at
least two), `ArraysAssumption` (addresses and keys of the client are arrays of
their length), `SealsAssumption` (the seals of the headers a `State` is given have
the types in Rust), `SentAssumption` (what is sent is a header whose extra-data is
the encoding of a struct after a whole vanity) and `SentSealsAssumption` (its seal,
if it has one, is one of that header). They are about what goes in, never about
what comes out; TLC evaluates them in `library_state`.
*Argument*: what is recursive needs its existence shown first. `RecursionExists`
does that by least counterexample for recursion to any smaller number (the library's
theorem takes an operator), and `BytesOfNumber`, `NumberIsSum` and `BitsOfNumber`
apply it. From there upward: a number comes back from its digits
(`NumberSurvives`), and bits determine a bitmap (`ActiveBitsInjective`); what is
decoded has the types in Rust, whatever the bytes (`ExtraRead`); what has the types
comes back from RLP and JSON (`SealSurvives`, `ExtraSurvives`, `HeaderSurvives`,
`ValidatorsSurvive`, `SnapshotReadBack`, `JsonSurvives`). `SnapshotSurvives` then
needs `TypeOK`: only in a reachable state are number and time u64, is the seal that
of a header, and are the validators arrays. `HashIsOfContent` needs no state: two
headers that decode have the same hash over bytes exactly if they read the same but
for the seal (`SameContent`), one that decodes never hashes as one that does not
(`HashesAgree`), and every copy decodes or is refused (`CopyWellFormed`).
`BentIsHarmless` goes through the ways to bend: the list of the extra-data or one of
its six items (`BentItems`). If the seal was left alone, it is that of the header
sent, which fits no other content (`SealsApart`); if it was bent, the rest was left
alone (`BentSeal`). `InsertedSealed` adds that an insertion that was accepted was
sealed, and so `BentOnTheWay` that the copy stands for the header.

`EpochWalkProofs` proves the arithmetic, for every epoch size, block number and
size of a validator set: `FormulasAlwaysCount` (`[]FormulasCount`),
`BoundsAlwaysEnclose` (`[]BoundsEnclose`), `EpochAlwaysTurns`
(`EpochTurnsAfterLastBlock`), `QuorumsAlwaysIntersect` (`[]QuorumsIntersect`).
The inductive invariant `Counted` says that the walk is at block
`(epoch - 1) * epoch_size + position`; `Formulas` inverts that with the
uniqueness of quotient and remainder (`Quotient`). Assumed is only that the
bounds of the walk are numbers.

`EpochSyncProofs` proves, for every chain (every epoch size, genesis set, set of
candidates and election), every quorum that seals a header, every clock and every
order of headers, of a client with both header checks on (`Checking`, as `main.rs`
configures it unless it is told to be fast):

- `HeadStaysOnChain`: `Spec => []OnChain`
- `HeldSetFollowsChain`: `Spec => []SetFollowsChain`
- `StoredAlwaysVerifies`: `Spec => []StoredSnapshotVerifies`
- `RefusalsChangeNothing`: `Spec => RefusalChangesNothing`
- `TrustedHeadImplemented`: `Spec => ImplementsTrustedHead`, the refinement

*Assumptions*: `ChainAssumption` (the genesis set is not empty and, like any set
after an election, names nobody twice), `SameEpochs` (client and chain agree on the
epoch size) and `FitsU64` (block numbers, and the clock with the skew, fit u64).
`Checking` is needed: without the check of headers inside an epoch the run
`non_epoch_unchecked` violates `SetFollowsChain`.
*Argument*: the inductive invariant `HeadInv` says that the chain is one
(`ChainInv`), that the head is a block of it, with that block's hash and the set in
force after it, and, inside an epoch, with a seal of that very set. None of the
properties is inductive alone: that a header's seal decides whether it is of the
chain holds only against the right set, and that a diff leads from one set of the
chain to the next only if the head is at the block before. `ChainLemmas` has what
this rests on. The chain keeps members by their places in increasing order, the
code filters a vector by the bits of a map: `IncreasingIsNth` and
`MembersAreFiltered` show the two equal, by counting places below a place rather
than by induction over the list. `AbandonedLacksQuorum` with `FewSealsFail`, and
`QuorumSealHolds`, say that the sum of `verify_aggregated_seal` separates abandoned
proposals from finalised headers. `BoundaryIsNext` and `SetsInEpoch` place a header
against the boundary, `FinalisedInserted` says what an accepted one leaves. `Steps`
reduces each step to: nothing, the clock, the chain, a refusal, or a block stored;
`StepsImplement` maps a block of the chain to `Extend` and a stored one to `Advance`.

`LightestSyncProofs` proves, for every chain, with and without `--fast`, whichever
fetches fail and whatever the latest header is, an abandoned proposal included:

- `ReportIsAlwaysRight`: `Spec => []ReportIsRight`
- `SetIsAlwaysRebuilt`: `Spec => []RebuildsSet`

*Assumptions*: `ChainAssumption` and `ProgramAssumption` (numbers and the skew fit
u64, and no validator's key is one that does not decode: the report is an `unwrap()`
away from the keys). *Argument*: `ProgramInv` says that, while nothing was missed,
the state is, after `epoch` turns of the loop, at the last block of the epoch
before with the set in force there (`BuiltUp`); `TurnStores` and `TurnKeepsInv` go
through a turn. Everything after the loop follows from `BuiltUp` at the last turn and from
`SetsInEpoch`: no set changes between that boundary and the latest header.

`HostedClientsProofs` proves, for every set of clients, heights, forks and
validators:

- `LatestAlwaysKept`: `Spec => []LatestIsKept`
- `LifecycleImplemented`: `Spec => ImplementsLifecycle`, the refinement
- `StatesAlwaysFollow`: `Spec => []StatesFollowChain`, if headers are checked
- `PacketsAlwaysWait`: `Spec => []PacketsWait`
- `OnlyForksFreeze`: `Spec => []FrozenByForkOnly`, if headers are checked, relayers
  label headers with their numbers, and the chain has one set (`OneSet`)
- `OnlyForksOfEpochFreeze`: `Spec /\ [][JudgedInEpoch]_vars => []FrozenByForkOnly`,
  for chains whose set changes, if headers are checked and labelled, and what
  freezes a client is evidence that came with trusted states of its own epoch

*Assumptions*: `HostAssumption` (heights are pairs of naturals, clients and chain
agree on the epoch size, forks are inside epochs), `ChainAssumption`, and for
`PacketsAlwaysWait` `DelaysFitU64`: time and height with a delay fit u64 (otherwise
the contract panics, `mod.rs:1270,1282`, and the packet is never accepted).
*Argument*: the inductive invariant `HostInv` says that every
client has a store, is frozen exactly when it has a height it is frozen at, and
keeps a state at its latest height; the refinement needs all three: the second
since the contract keeps the flag and the height apart, the third since a
substitution copies nothing if the substitute has no state at its latest height
(`mod.rs:1186-1199`). Each handler has a lemma on what it leaves (`CreateStep`, `UpdateStep`,
`UpgradeStep`, `MisbehaviourStep`, `SubstituteStep`); `EveryStep` reduces the
steps to four kinds, and each kind is an action of `ClientLifecycle`
(`CreatesMaps`, `ExtendsMaps`, `FreezesMaps`, `TakesOverMaps`).

A second invariant, `KeptInv`, is about what is kept: every state is made of a block
of the chain or of its fork, with the set in force after that block (`Certified`),
and its metadata are those of the host's block that stored it. It has to speak of
all clients and all heights at once, since an update starts from any state and a
substitution copies from another client; and the root of a state is a root even
where headers are not checked, which is all that the upgrade proofs and the
packets need. `KeptSteps` reduces each step to one state put into one store
(`CreateKeeps`, `UpdateKeeps`, `UpgradeKeeps`, `SubstituteKeeps`); in `UpdateKeeps`
a header that passes against a state of the chain is itself of the chain
(`InsertedPassed`), and `ProvenIsCommitted` turns the proof of an upgraded state into a
state that was committed. `PacketsAlwaysWait` then compares the query
with the block noted (`DelayPassed`) and the proof with the root (`PacketVerdict`).
`OnlyForksFreeze` and `OnlyForksOfEpochFreeze` share their argument: a trusted state
of a header's own epoch, or any of a chain with one set, has the set that seals that
header (`WhoseSetIsInForce`), so both headers of accepted evidence are of the
chain or its fork (`SealedByTheSet`), two different roots under one number need the
fork (`MisbehaviourNeedsFork`), and nothing else freezes (`ForkSteps`).

`PacketRelayProofs` proves, for every number of packets, timeout, delay, set of
heights and interleaving of the two chains, ordered or not, nested or not:

- `AcceptedIsAlwaysHeld`: `Spec => []AcceptedIsHeld`
- `HeldIsAlwaysProvable`: `Spec => []HeldIsProvable`
- `TimedOutNeverReceived`: `Spec => []TimedOutIsNeverReceived`
- `AlwaysSettledByCelo`: `Spec => []SettledByCelo`
- `AnyAcceptedIsAlwaysHeld`: `Spec => []AnyAcceptedIsHeld`, that is `AcceptedIsHeld`,
  and the same of an absence, for chains of any length, of proofs from any trees,
  and messages with any content
- `ChainsAreAlwaysEnough`: `Spec => []ChainsAreEnough`: what any chain of proofs shows
  one of `Chains` or `AbsenceChains` shows, so the relayers of the model decide as
  much as any could

*Assumptions*: `RelayAssumption` (bounds, times and delays are numbers, an
acknowledgement is not the name of another outcome), `ClockIsU64` (the host's clock
is one), and that roots are injective
and are no values (they are so in `Membership`, as hashes are taken to be).
*Argument*: `MembershipRounds` says what the loop of `verify_membership` has
established when it accepts, for chains of any length; `ChainSound` that only the
chain of the very store under the root passes, one of three or more proofs not
even then, and `AbsenceSound` the same of an absence. What is asked of a proof is that
what it says is so in the tree of its root (`SoundProof`); those the model's relayers
build are of this kind (`ChainsAreSound`). From there `VerifiedIsHeld` goes to the
block whose state is kept. The inductive invariant `RelayInv` ties every kept
state and its metadata to a block of Celo and to the host's block it was stored
in, and says of the store of *every* block what it reveals of the packets received
until then (`Reflects`): a state may be kept long after later blocks, and a packet
is given up on the word of an old one. `ReceivedInTime` closes the gap: from the
timeout on, no later block shows more received than that one. The other direction,
`HeldIsAlwaysProvable`, needs no bound on delays: once a delay has passed, the sums
of `verify_delay_period_passed` are at most the clock (`WaitedMeansDelayPassed`),
and `HonestVerifies` takes the chain of proofs through the loop.

Model-checked only is the liveness property `CatchesUp`, which the prover cannot
reach (fairness, ENABLED).

## Not modelled

The encoding of the contract's messages (base64, JSON), the derived RLP of the
configuration and `hexvec`: one library call each, taken to succeed; command
line, HTTP, logging, JSON schemas. BLS, Keccak, ICS-23 and the host chain are
outside the repository and modelled by what the code takes for granted.

## Plan

Done, in this order, the most important behaviour first: arithmetic, seals,
`State`; any calls (`LibraryState`) and its proofs; the chain, the abstract
promise and the refinement (`EpochSync`); the program (`LightestSync`); the
contract's lifecycle (`HostedClients`) with its abstract specification; proofs of
membership, the queries and packets (`PacketRelay`); bytes (`Codec`,
`WireState`); the proofs of the arithmetic, of the lifecycle and of the packets;
those of the client that follows the chain, of the program, of what the
clients of a host keep, and of bytes.

Next: a `State` behind the contract as the refinement of one `TrustedHead` per
consensus state.
