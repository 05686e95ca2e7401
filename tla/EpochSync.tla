----------------------------- MODULE EpochSync ------------------------------
(***************************************************************************)
(* A light client (the rules of State.tla) that follows the chain of       *)
(* CeloChain.tla through a relayer.                                        *)
(*                                                                         *)
(* The relayer knows the client's head and never hands in a header beyond  *)
(* the epoch boundary that comes next: it goes through the last header of  *)
(* every epoch, as README.md:15 asks for and the lightest-sync program     *)
(* does (examples/lightest-sync/main.rs:99-113).  Apart from that it hands *)
(* in what it likes when it likes: old headers, the same header again, the *)
(* same header sealed by other committers, proposals that were abandoned,  *)
(* headers from what the client's clock takes for the future.  The genesis *)
(* header is handed in once, to the empty client.                          *)
(***************************************************************************)
EXTENDS CeloChain

CONSTANTS Config,   \* the client's StateConfig
          MaxNow    \* bound of the client's clock

(* The client is configured with the epoch size of the chain.              *)
ASSUME SameEpochs == Config.epoch_size = EpochSize /\ MaxNow \in Nat

(* Numbers and times stay that far below 2^64.                             *)
ASSUME FitsU64 ==
    /\ MaxU64 \in Nat /\ MaxNumber < MaxU64
    /\ Config.allowed_clock_skew \in Nat
    /\ MaxNow + Config.allowed_clock_skew <= MaxU64

VARIABLES snapshot, \* the client's snapshot
          result,   \* what its last insert_header returned
          now       \* the client's clock

clientVars == <<snapshot, result, now>>
vars == <<chain, sets, snapshot, result, now>>

Synced == snapshot # EmptySnapshot

(* The last header the relayer may hand in next. *)
NextBoundary ==
    IF ~ Synced THEN 0
    ELSE get_epoch_last_block_number(
            get_epoch_number(snapshot.number + 1, EpochSize), EpochSize)

Init ==
    /\ ChainInit
    /\ snapshot = EmptySnapshot
    /\ result = "Ok"
    /\ now = 0

ChainGrows == Grow /\ UNCHANGED clientVars

Tick ==
    /\ now < MaxNow
    /\ now' = now + 1
    /\ UNCHANGED <<chain, sets, snapshot, result>>

Insert(header) ==
    LET outcome == insert_header(Config, snapshot, header, now)
    IN  /\ snapshot' = outcome.snapshot
        /\ result' = outcome.res
        /\ UNCHANGED <<chain, sets, now>>

RelayGenesis == ~ Synced /\ Insert(Block(0))

RelayFinalised(number) ==
    /\ Synced /\ number <= NextBoundary
    /\ \E header \in Finalised(number) : Insert(header)

RelayAbandoned(number) ==
    /\ Synced /\ number <= NextBoundary
    /\ \E header \in Abandoned(number) : Insert(header)

Next ==
    \/ ChainGrows
    \/ Tick
    \/ RelayGenesis
    \/ \E number \in 1..Tip : RelayFinalised(number)
    \/ \E number \in 1..Tip + 1 : RelayAbandoned(number)

(* The relayer hands in the header after the head whenever there is one. *)
RelayNext ==
    \/ RelayGenesis
    \/ Synced /\ snapshot.number < Tip /\ RelayFinalised(snapshot.number + 1)

(* Blocks keep coming, time passes, and the relayer keeps trying; nothing  *)
(* is assumed of what else it hands in meanwhile.                          *)
Fairness == WF_vars(ChainGrows) /\ WF_vars(Tick) /\ WF_vars(RelayNext)

Spec == Init /\ [][Next]_vars
FairSpec == Spec /\ Fairness
-----------------------------------------------------------------------------
(* Whatever the client has stored as its head is a finalised block: the    *)
(* proposals that never got a quorum are kept out at every height, before, *)
(* at and after a change of the set (state.rs:70-109).                     *)
OnChain ==
    Synced => /\ snapshot.number <= Tip
              /\ snapshot.hash = hash(Block(snapshot.number))

(* The set the client holds is the one in force on the chain after its     *)
(* head, in the same order: README.md:15, "the validator set for the       *)
(* current epoch is computed by [...] applying the validator set diff"     *)
(* (state.rs:28-68,174-188).                                               *)
SetFollowsChain ==
    Synced => /\ snapshot.number <= Tip
              /\ snapshot.validators = SetAfter(snapshot.number)

(* The set the client holds is one the chain has had.  "Since non-epoch    *)
(* don't affect validator set, it's acceptable to disable validation"      *)
(* (traits.rs:33-34) says this holds without verify_non_epoch_headers too. *)
HeldSetWasInForce ==
    Synced => \E n \in 0..Tip : snapshot.validators = SetAfter(n)

(* Nothing an honest chain produces makes the client panic or fail half    *)
(* way through a diff: every refusal leaves the snapshot as it was         *)
(* (state.rs:172-188).                                                     *)
RefusalChangesNothing ==
    [][/\ result' \notin {"Panic", "InvalidValidatorSetDiff"}
       /\ result' # "Ok" => UNCHANGED snapshot]_vars

(* A stored snapshot inside an epoch passes its own verify()               *)
(* (types/state.rs:155-157), the test init_contract makes of the snapshot  *)
(* a client is created from: number, hash, seal and set go together.       *)
StoredSnapshotVerifies ==
    Synced /\ ~ is_last_block_of_epoch(snapshot.number, EpochSize)
        => snapshot_verify(snapshot) = "Ok"

(* The client implements the promise of TrustedHead. *)
Promise == INSTANCE TrustedHead WITH
    ValidatorSets <- Seq(Candidates \cup ToSet(GenesisSet)) \ {<<>>},
    Size <- EpochSize,
    history <- sets,
    head <- IF Synced THEN snapshot.number ELSE -1,
    trusted <- snapshot.validators

ImplementsTrustedHead == Promise!Spec

(* The client catches up with the whole chain and stays there, however its *)
(* clock lags and whatever old headers it is handed: a header refused as   *)
(* lying in the future is accepted in a later try (state.rs:88-94), and no *)
(* later insertion takes the head back (state.rs:71-76).                   *)
CatchesUp == <>[](Synced /\ snapshot.number = MaxNumber)
=============================================================================
