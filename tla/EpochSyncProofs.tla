--------------------------- MODULE EpochSyncProofs --------------------------
(***************************************************************************)
(* Proofs about EpochSync.tla, for every epoch size, all validators and    *)
(* elections, every length of the chain and every order in which the       *)
(* relayer hands in headers: a client that looks at every header           *)
(* (`Checking`) holds a finalised block and the set in force after it.     *)
(***************************************************************************)
EXTENDS EpochSync, ChainLemmas

(* The client verifies every header it stores, as the lightest-sync        *)
(* program configures it unless it is told to be fast (main.rs:78-85).     *)
Checking == Config.verify_epoch_headers /\ Config.verify_non_epoch_headers

(* The inductive invariant: the head is a block of the chain, and its      *)
(* number, hash, set and seal go together.                                 *)
HeadInv ==
    /\ ChainInv
    /\ now \in 0..MaxNow
    /\ result \notin {"Panic", "InvalidValidatorSetDiff"}
    /\ Synced =>
        /\ snapshot.number \in 0..Tip
        /\ snapshot.hash = Block(snapshot.number)
        /\ snapshot.validators = SetAfter(snapshot.number)
        /\ snapshot.number % EpochSize # 0 => snapshot_verify(snapshot) = "Ok"

(* What a call of insert_header may do to the client: refuse the header,   *)
Refuses(outcome) ==
    /\ outcome.res \notin {"Ok", "Panic", "InvalidValidatorSetDiff"}
    /\ outcome.snapshot = snapshot

(* or store block n as its head.                                           *)
Stores(n, outcome) ==
    /\ outcome.res = "Ok"
    /\ n \in 0..Tip
    /\ IF Synced THEN /\ n > snapshot.number
                      /\ \A m \in snapshot.number + 1..n - 1 :
                            m % EpochSize # 0
       ELSE n = 0
    /\ outcome.snapshot.number = n
    /\ outcome.snapshot.hash = Block(n)
    /\ outcome.snapshot.validators = SetAfter(n)
    /\ n % EpochSize # 0 => snapshot_verify(outcome.snapshot) = "Ok"

(* The invariant holds of the empty client.                                *)
LEMMA InitialHead == Init => HeadInv
<1> SUFFICES ASSUME Init PROVE HeadInv
    OBVIOUS
<1>1. ChainInv
    BY ChainInitially DEF Init
<1>2. /\ now \in 0..MaxNow /\ ~ Synced
      /\ result \notin {"Panic", "InvalidValidatorSetDiff"}
    BY SameEpochs DEF Init, Synced
<1> QED BY <1>1, <1>2 DEF HeadInv

(* The genesis header is stored by the empty client, with the first set.   *)
LEMMA GenesisStored ==
    ASSUME HeadInv, ~ Synced
    PROVE  Stores(0, insert_header(Config, snapshot, Block(0), now))
<1> DEFINE outcome == insert_header(Config, snapshot, Block(0), now)
<1>1. snapshot = EmptySnapshot
    BY DEF Synced
<1>2. /\ ChainInv /\ Tip \in Nat /\ EpochSize \in Nat \ {0}
      /\ MaxU64 \in Nat /\ Config.epoch_size = EpochSize
    BY ChainAssumption, SameEpochs, FitsU64 DEF HeadInv, ChainInv
<1>3. /\ outcome = Outcome("Ok", SnapshotOf(Block(0), GenesisSet))
      /\ Block(0).number = 0 /\ hash(Block(0)) = Block(0)
      /\ SetAfter(0) = GenesisSet
    BY <1>1, <1>2, GenesisInserted
<1>4. /\ outcome.res = "Ok"
      /\ outcome.snapshot = SnapshotOf(Block(0), GenesisSet)
    BY <1>3 DEF Outcome
<1> HIDE DEF outcome
<1>5. 0 % EpochSize = 0
    BY <1>2
<1> QED BY <1>2, <1>3, <1>4, <1>5, SnapshotFields DEF Stores, outcome

(* No epoch ends between the head and what the relayer may hand in. *)
LEMMA WithinEpoch ==
    ASSUME HeadInv, Synced, NEW n \in 1..Tip + 1, n <= NextBoundary,
           n > snapshot.number
    PROVE  /\ \A m \in snapshot.number + 1..n - 1 : m % EpochSize # 0
           /\ SetAfter(n - 1) = snapshot.validators
<1> DEFINE h == snapshot.number
<1>1. /\ h \in 0..Tip /\ h \in Nat /\ Tip \in Nat /\ n \in Int
      /\ EpochSize \in Nat \ {0} /\ ChainInv
      /\ snapshot.validators = SetAfter(h)
    BY ChainAssumption DEF HeadInv, ChainInv
<1>2. n <= get_epoch_last_block_number(get_epoch_number(h + 1, EpochSize),
                                       EpochSize)
    BY DEF NextBoundary
<1>3. n > h
    OBVIOUS
<1> HIDE DEF h
<1>4. \A m \in h + 1..n - 1 : m % EpochSize # 0
    BY <1>1, <1>2, BoundaryIsNext
<1>5. n - 1 \in h..Tip
    BY <1>1, <1>3
<1>6. SetAfter(n - 1) = SetAfter(h)
    BY <1>1, <1>4, <1>5, SetsInEpoch
<1> QED BY <1>1, <1>4, <1>6 DEF h

(* The clock and the numbers are within what u64 holds. *)
LEMMA Readable ==
    ASSUME HeadInv, NEW n \in 0..Tip + 1
    PROVE  /\ n \in Nat /\ ~ (n > MaxU64)
           /\ ~ (/\ Config.verify_header_timestamp
                 /\ now + Config.allowed_clock_skew > MaxU64)
<1>1. Tip \in Nat /\ Tip <= MaxNumber /\ now \in 0..MaxNow
    BY DEF HeadInv, ChainInv
<1>2. MaxNumber \in Nat /\ MaxNow \in Nat
    BY ChainAssumption, SameEpochs
<1> DEFINE skew == Config.allowed_clock_skew
<1>3. skew \in Nat /\ MaxNow + skew <= MaxU64 /\ MaxU64 \in Nat
      /\ MaxNumber < MaxU64
    BY FitsU64
<1> HIDE DEF skew
<1>4. n \in Nat /\ ~ (n > MaxU64) /\ ~ (now + skew > MaxU64)
    BY <1>1, <1>2, <1>3
<1> QED BY <1>4 DEF skew

(* What the client says of a header, once it is synced: refused, or sealed *)
(* by the set it holds.                                                    *)
LEMMA HeaderVerdict ==
    ASSUME Checking, HeadInv, Synced, NEW n \in 1..Tip + 1, NEW header,
           NEW branch, NEW added, NEW removed,
           IsBlock(header, n, branch, added, removed)
    PROVE  LET verdict == InsertVerdict(Config, snapshot, header, now)
           IN  /\ verdict \notin {"Panic", "InvalidValidatorSetDiff"}
               /\ verdict = "Ok" =>
                    /\ n > snapshot.number
                    /\ verify_aggregated_seal(hash(header),
                            snapshot.validators, header.aggregated_seal)
                        = "Ok"
<1>1. header.number = n /\ header.extra = "Ok" /\ n # 0 /\ n \in 0..Tip + 1
    BY DEF IsBlock, HeadInv, ChainInv
<1>2. InsertVerdict(Config, snapshot, header, now)
        = verify_header(Config, snapshot, header, now)
    BY <1>1 DEF InsertVerdict, Checking
<1>3. snapshot.validators # <<>> /\ snapshot.number \in Nat
    <2>1. /\ snapshot.number \in 0..Tip
          /\ snapshot.validators = SetAfter(snapshot.number)
          /\ ChainInv
        BY DEF HeadInv
    <2>2. SetAfter(snapshot.number) \in ValidatorSets
        BY <2>1, SetType
    <2> QED BY <2>1, <2>2 DEF ValidatorSets
<1>4. /\ n \in Nat /\ ~ (header.number > MaxU64)
      /\ ~ (/\ Config.verify_header_timestamp
            /\ now + Config.allowed_clock_skew > MaxU64)
    BY <1>1, Readable
<1> DEFINE verdict == verify_header(Config, snapshot, header, now)
           seal == verify_aggregated_seal(hash(header), snapshot.validators,
                                          header.aggregated_seal)
<1>5. /\ verdict \notin {"Panic", "InvalidValidatorSetDiff"}
      /\ verdict = "Ok" => ~ (header.number <= snapshot.number)
                            /\ seal = "Ok"
    BY <1>1, <1>3, <1>4, VerifyHeader
<1> HIDE DEF verdict, seal
<1>6. verdict = "Ok" => n > snapshot.number
    BY <1>1, <1>3, <1>4, <1>5
<1> QED BY <1>2, <1>5, <1>6 DEF verdict, seal

(* A finalised header is refused or stored, in whatever form it comes. *)
LEMMA FinalisedStored ==
    ASSUME Checking, HeadInv, Synced, NEW n \in 1..Tip, n <= NextBoundary,
           NEW header \in Finalised(n)
    PROVE  LET outcome == insert_header(Config, snapshot, header, now)
           IN  Refuses(outcome) \/ Stores(n, outcome)
<1> DEFINE outcome == insert_header(Config, snapshot, header, now)
           verdict == InsertVerdict(Config, snapshot, header, now)
           sealed == verify_aggregated_seal(hash(header), snapshot.validators,
                                            header.aggregated_seal)
<1>1. ChainInv /\ n \in 1..Tip + 1 /\ n \in 0..Tip
    BY DEF HeadInv, ChainInv
<1>2. PICK diff \in Changes(n, SetAfter(n - 1)) :
            /\ IsBlock(header, n, "final", diff.added, diff.removed)
            /\ Block(n) = UnsealedHeader(n, "final", diff.added, diff.removed)
            /\ SetAfter(n) = Members(SetAfter(n - 1), diff.removed)
                                \o diff.added
    BY <1>1, FinalisedIsBlock
<1>3. /\ header.number = n /\ hash(header) = Block(n)
      /\ ~ (n > MaxU64) /\ n \in Nat
    BY <1>1, <1>2, Readable DEF IsBlock
<1>4. /\ verdict \notin {"Panic", "InvalidValidatorSetDiff"}
      /\ verdict = "Ok" => n > snapshot.number /\ sealed = "Ok"
    BY <1>1, <1>2, HeaderVerdict
<1>5. CASE verdict # "Ok"
    <2>1. outcome = Outcome(verdict, snapshot)
        BY <1>3, <1>5, InsertRefused
    <2> HIDE DEF outcome, verdict
    <2>2. outcome.res = verdict /\ outcome.snapshot = snapshot
        BY <2>1 DEF Outcome
    <2>3. Refuses(outcome)
        BY <1>4, <1>5, <2>2 DEF Refuses
    <2> QED BY <2>3 DEF outcome
<1>6. CASE verdict = "Ok"
    <2>1. /\ n > snapshot.number
          /\ \A m \in snapshot.number + 1..n - 1 : m % EpochSize # 0
          /\ snapshot.validators = SetAfter(n - 1)
        BY <1>1, <1>4, <1>6, WithinEpoch
    <2>2. Config.epoch_size = EpochSize
        BY SameEpochs
    <2>3. outcome = Outcome("Ok", SnapshotOf(header, SetAfter(n)))
        BY <1>1, <1>3, <1>6, <2>1, <2>2, FinalisedInserted
    <2>4. n % EpochSize # 0 => SetAfter(n) = SetAfter(n - 1)
        BY <1>1, <1>3, <1>6, <2>1, <2>2, FinalisedInserted
    <2>5. /\ outcome.res = "Ok"
          /\ outcome.snapshot = SnapshotOf(header, SetAfter(n))
        BY <2>3 DEF Outcome
    <2> DEFINE stored == outcome.snapshot
    <2>6. /\ stored.number = n /\ stored.hash = Block(n)
          /\ stored.validators = SetAfter(n)
          /\ stored.aggregated_seal = header.aggregated_seal
        BY <1>3, <2>5, SnapshotFields
    <2>7. n % EpochSize # 0 => snapshot_verify(stored) = "Ok"
        <3>1. ASSUME n % EpochSize # 0
              PROVE  stored.validators = snapshot.validators
            BY <2>1, <2>4, <2>6, <3>1
        <3>2. sealed = "Ok"
            BY <1>4, <1>6
        <3> HIDE DEF stored
        <3> QED BY <1>3, <2>6, <3>1, <3>2 DEF snapshot_verify
    <2>8. Stores(n, outcome)
        <3> HIDE DEF outcome
        <3> QED BY <1>1, <2>1, <2>5, <2>6, <2>7 DEF Stores
    <2> QED BY <2>8
<1> QED BY <1>5, <1>6

(* An abandoned proposal is refused. *)
LEMMA AbandonedRefused ==
    ASSUME Checking, HeadInv, Synced, NEW n \in 1..Tip + 1,
           n <= NextBoundary, NEW header \in Abandoned(n)
    PROVE  Refuses(insert_header(Config, snapshot, header, now))
<1> DEFINE outcome == insert_header(Config, snapshot, header, now)
           verdict == InsertVerdict(Config, snapshot, header, now)
<1>1. ChainInv /\ n \in 0..Tip + 1
    BY DEF HeadInv, ChainInv
<1>2. PICK added, removed : IsBlock(header, n, "abandoned", added, removed)
    BY <1>1, AbandonedLacksQuorum
<1>3. verify_aggregated_seal(hash(header), SetAfter(n - 1),
                             header.aggregated_seal) # "Ok"
    BY <1>1, AbandonedLacksQuorum
<1>4. /\ verdict \notin {"Panic", "InvalidValidatorSetDiff"}
      /\ verdict = "Ok" =>
            /\ n > snapshot.number
            /\ verify_aggregated_seal(hash(header), snapshot.validators,
                                      header.aggregated_seal) = "Ok"
    BY <1>2, HeaderVerdict
<1>5. verdict # "Ok"
    BY <1>3, <1>4, WithinEpoch
<1>6. header.number = n /\ ~ (header.number > MaxU64)
    BY <1>1, <1>2, Readable DEF IsBlock
<1>7. outcome = Outcome(verdict, snapshot)
    BY <1>5, <1>6, InsertRefused
<1> HIDE DEF outcome, verdict
<1>8. outcome.res = verdict /\ outcome.snapshot = snapshot
    BY <1>7 DEF Outcome
<1> QED BY <1>4, <1>5, <1>8 DEF Refuses, outcome

(* One call of insert_header. *)
Inserts(outcome) ==
    /\ snapshot' = outcome.snapshot /\ result' = outcome.res
    /\ UNCHANGED <<chain, sets, now>>

(* What each step does: the chain grows, the clock ticks, or the client    *)
(* refuses or stores a header.                                             *)
LEMMA Steps ==
    ASSUME Checking, HeadInv, Next
    PROVE  \/ Grow /\ UNCHANGED clientVars
           \/ now' \in 0..MaxNow /\ UNCHANGED <<chain, sets, snapshot, result>>
           \/ \E outcome : /\ Inserts(outcome)
                           /\ \/ Refuses(outcome)
                              \/ \E n : Stores(n, outcome)
<1>1. CASE ChainGrows
    BY <1>1 DEF ChainGrows
<1>2. CASE Tick
    <2>1. now' \in 0..MaxNow
        BY <1>2, SameEpochs DEF Tick, HeadInv
    <2> QED BY <1>2, <2>1 DEF Tick
<1>3. CASE RelayGenesis
    <2> DEFINE outcome == insert_header(Config, snapshot, Block(0), now)
    <2>1. Stores(0, outcome)
        BY <1>3, GenesisStored DEF RelayGenesis
    <2>2. Inserts(outcome)
        BY <1>3 DEF RelayGenesis, Insert, Inserts
    <2> HIDE DEF outcome
    <2> QED BY <2>1, <2>2
<1>4. ASSUME NEW number \in 1..Tip, RelayFinalised(number)
      PROVE  \E outcome : /\ Inserts(outcome)
                          /\ \/ Refuses(outcome)
                             \/ \E n : Stores(n, outcome)
    <2>1. PICK header \in Finalised(number) : Insert(header)
        BY <1>4 DEF RelayFinalised
    <2> DEFINE outcome == insert_header(Config, snapshot, header, now)
    <2>2. Synced /\ number <= NextBoundary
        BY <1>4 DEF RelayFinalised
    <2>3. Refuses(outcome) \/ Stores(number, outcome)
        BY <2>2, FinalisedStored
    <2>4. Inserts(outcome)
        BY <2>1 DEF Insert, Inserts
    <2> HIDE DEF outcome
    <2> QED BY <2>3, <2>4
<1>5. ASSUME NEW number \in 1..Tip + 1, RelayAbandoned(number)
      PROVE  \E outcome : Inserts(outcome) /\ Refuses(outcome)
    <2>1. PICK header \in Abandoned(number) : Insert(header)
        BY <1>5 DEF RelayAbandoned
    <2> DEFINE outcome == insert_header(Config, snapshot, header, now)
    <2>2. Synced /\ number <= NextBoundary
        BY <1>5 DEF RelayAbandoned
    <2>3. Refuses(outcome)
        BY <2>2, AbandonedRefused
    <2>4. Inserts(outcome)
        BY <2>1 DEF Insert, Inserts
    <2> HIDE DEF outcome
    <2> QED BY <2>3, <2>4
<1> QED BY <1>1, <1>2, <1>3, <1>4, <1>5 DEF Next

(* Stored once, a block leaves the client synced. *)
LEMMA StoredIsSynced ==
    ASSUME HeadInv, NEW outcome, NEW n, Stores(n, outcome)
    PROVE  outcome.snapshot # EmptySnapshot
<1>1. SetAfter(n) \in ValidatorSets
    BY SetType DEF HeadInv, Stores
<1>2. outcome.snapshot.validators # <<>>
    BY <1>1 DEF Stores, ValidatorSets
<1> QED BY <1>2 DEF EmptySnapshot

(* The invariant of the next state, for a head that has a name. *)
LEMMA HeadIs ==
    ASSUME ChainInv', now' \in 0..MaxNow,
           result' \notin {"Panic", "InvalidValidatorSetDiff"},
           NEW h, NEW block, NEW set,
           Synced' => /\ snapshot'.number = h /\ h \in 0..Tip'
                      /\ block = Block(h)' /\ snapshot'.hash = block
                      /\ set = SetAfter(h)' /\ snapshot'.validators = set
                      /\ h % EpochSize # 0 => snapshot_verify(snapshot') = "Ok"
    PROVE  HeadInv'
<1>1. ASSUME Synced'
      PROVE  /\ Block(snapshot.number)' = block
             /\ SetAfter(snapshot.number)' = set
    BY <1>1 DEF Block, SetAfter
<1>2. snapshot_verify(snapshot)' = snapshot_verify(snapshot')
    BY DEF snapshot_verify
<1> QED BY <1>1, <1>2 DEF HeadInv

(* Every header that is handed in, and every tick, keeps the invariant.    *)
LEMMA HeadPreserved ==
    ASSUME Checking
    PROVE  HeadInv /\ [Next]_vars => HeadInv'
<1> SUFFICES ASSUME HeadInv, [Next]_vars PROVE HeadInv'
    OBVIOUS
<1>0. PICK t, h, block, set :
        /\ t = Tip /\ h = snapshot.number
        /\ block = Block(h) /\ set = SetAfter(h)
    OBVIOUS
<1>1. CASE Grow /\ UNCHANGED clientVars
    <2>1. ChainInv'
        BY <1>1, ChainPreserved DEF HeadInv
    <2>2. /\ now' \in 0..MaxNow /\ snapshot' = snapshot
          /\ result' \notin {"Panic", "InvalidValidatorSetDiff"}
        BY <1>1 DEF clientVars, HeadInv
    <2>3. ASSUME Synced'
          PROVE  /\ snapshot'.number = h /\ h \in 0..Tip'
                 /\ block = Block(h)' /\ snapshot'.hash = block
                 /\ set = SetAfter(h)' /\ snapshot'.validators = set
                 /\ h % EpochSize # 0 => snapshot_verify(snapshot') = "Ok"
        <3>1. Synced
            BY <2>2, <2>3 DEF Synced
        <3>2. /\ h \in 0..t /\ snapshot.hash = block
              /\ snapshot.validators = set
              /\ h % EpochSize # 0 => snapshot_verify(snapshot) = "Ok"
            BY <1>0, <3>1 DEF HeadInv
        <3>3. /\ t \in Nat /\ Tip' = t + 1
              /\ \A n \in 0..t : Block(n)' = Block(n)
              /\ \A n \in 0..t : SetAfter(n)' = SetAfter(n)
            BY <1>0, <1>1, GrowKeeps DEF HeadInv
        <3>4. Block(h)' = block /\ SetAfter(h)' = set /\ h \in 0..t + 1
            BY <1>0, <3>2, <3>3
        <3> QED BY <1>0, <2>2, <3>2, <3>3, <3>4
    <2> QED BY <2>1, <2>2, <2>3, HeadIs
<1>2. CASE now' \in 0..MaxNow /\ UNCHANGED <<chain, sets, snapshot, result>>
    BY <1>2 DEF HeadInv, ChainInv, Synced, Block, SetAfter, Tip, Follows
<1>3. CASE UNCHANGED vars
    BY <1>3 DEF vars, HeadInv, ChainInv, Synced, Block, SetAfter, Tip, Follows
<1>4. ASSUME NEW outcome, Inserts(outcome), Refuses(outcome)
      PROVE  HeadInv'
    <2>1. UNCHANGED <<chain, sets, now, snapshot>>
            /\ result' \notin {"Panic", "InvalidValidatorSetDiff"}
        BY <1>4 DEF Inserts, Refuses
    <2> QED BY <2>1 DEF HeadInv, ChainInv, Synced, Block, SetAfter, Tip,
                        Follows
<1>5. ASSUME NEW outcome, NEW n, Inserts(outcome), Stores(n, outcome)
      PROVE  HeadInv'
    <2>1. /\ UNCHANGED <<chain, sets, now>>
          /\ snapshot' = outcome.snapshot /\ result' = "Ok"
        BY <1>5 DEF Inserts, Stores
    <2>2. ChainInv' /\ now' \in 0..MaxNow
        BY <2>1 DEF HeadInv, ChainInv, Block, SetAfter, Tip, Follows
    <2>3. /\ n \in 0..Tip /\ snapshot'.number = n
          /\ snapshot'.hash = Block(n) /\ snapshot'.validators = SetAfter(n)
          /\ n % EpochSize # 0 => snapshot_verify(snapshot') = "Ok"
        BY <1>5, <2>1 DEF Stores
    <2>4. Tip' = Tip /\ Block(n)' = Block(n) /\ SetAfter(n)' = SetAfter(n)
        BY <2>1 DEF Tip, Block, SetAfter
    <2>5. PICK at, after : at = Block(n) /\ after = SetAfter(n)
        OBVIOUS
    <2>6. result' \notin {"Panic", "InvalidValidatorSetDiff"}
        BY <2>1
    <2>7. /\ snapshot'.number = n /\ n \in 0..Tip'
          /\ at = Block(n)' /\ snapshot'.hash = at
          /\ after = SetAfter(n)' /\ snapshot'.validators = after
          /\ n % EpochSize # 0 => snapshot_verify(snapshot') = "Ok"
        BY <2>3, <2>4, <2>5
    <2> QED BY <2>2, <2>6, <2>7, HeadIs
<1> QED BY <1>1, <1>2, <1>3, <1>4, <1>5, Steps

(* The inductive invariant holds: see HeadInv.                             *)
LEMMA HeadAlways == ASSUME Checking PROVE Spec => []HeadInv
<1>1. HeadInv /\ [Next]_vars => HeadInv'
    BY HeadPreserved
<1> QED BY <1>1, InitialHead, PTL DEF Spec

-----------------------------------------------------------------------------
(* The head is a finalised block of the chain, whatever proposals and      *)
(* forms of headers the relayer hands in (state.rs:70-109).                *)
THEOREM HeadStaysOnChain == ASSUME Checking PROVE Spec => []OnChain
<1>1. HeadInv => OnChain
    <2> SUFFICES ASSUME HeadInv, Synced
                 PROVE  /\ snapshot.number <= Tip
                        /\ snapshot.hash = hash(Block(snapshot.number))
        BY DEF OnChain
    <2>1. /\ snapshot.number \in 0..Tip /\ ChainInv /\ Tip \in Nat
          /\ snapshot.hash = Block(snapshot.number)
        BY DEF HeadInv, ChainInv
    <2> QED BY <2>1, BlockHash
<1> QED BY <1>1, HeadAlways, PTL

(* The set the client builds up from the diffs is the one in force on the  *)
(* chain after its head, member by member (state.rs:28-68,174-188).        *)
THEOREM HeldSetFollowsChain ==
    ASSUME Checking PROVE Spec => []SetFollowsChain
<1>1. HeadInv => SetFollowsChain
    BY DEF HeadInv, ChainInv, SetFollowsChain
<1> QED BY <1>1, HeadAlways, PTL

(* Inside an epoch the stored number, hash, seal and set go together       *)
(* (types/state.rs:155-157).                                               *)
THEOREM StoredAlwaysVerifies ==
    ASSUME Checking PROVE Spec => []StoredSnapshotVerifies
<1>1. HeadInv => StoredSnapshotVerifies
    <2> SUFFICES ASSUME HeadInv, Synced,
                    ~ is_last_block_of_epoch(snapshot.number, EpochSize)
                 PROVE  snapshot_verify(snapshot) = "Ok"
        BY DEF StoredSnapshotVerifies
    <2>1. snapshot.number \in Nat /\ EpochSize \in Nat \ {0}
        BY ChainAssumption DEF HeadInv, ChainInv
    <2>2. snapshot.number % EpochSize # 0
        <3> DEFINE h == snapshot.number
        <3>1. ~ is_last_block_of_epoch(h, EpochSize) /\ h \in Nat
            BY <2>1
        <3> HIDE DEF h
        <3>2. h % EpochSize # 0
            BY <2>1, <3>1, LastDivides
        <3> QED BY <3>2 DEF h
    <2> QED BY <2>2 DEF HeadInv
<1> QED BY <1>1, HeadAlways, PTL

(* No header of an honest chain makes the client panic or fail half way    *)
(* through a diff, and no refusal changes the snapshot (state.rs:172-188). *)
THEOREM RefusalsChangeNothing ==
    ASSUME Checking PROVE Spec => RefusalChangesNothing
<1> DEFINE Harmless ==
            /\ result' \notin {"Panic", "InvalidValidatorSetDiff"}
            /\ result' # "Ok" => UNCHANGED snapshot
<1>1. ASSUME HeadInv, [Next]_vars PROVE Harmless
    <2>1. result \notin {"Panic", "InvalidValidatorSetDiff"}
        BY <1>1 DEF HeadInv
    <2>2. CASE UNCHANGED <<snapshot, result>>
        BY <2>1, <2>2
    <2>3. ASSUME NEW outcome, Inserts(outcome),
                 Refuses(outcome) \/ \E n : Stores(n, outcome)
          PROVE  Harmless
        BY <2>3 DEF Inserts, Refuses, Stores
    <2> QED BY <1>1, <2>2, <2>3, Steps DEF vars, clientVars
<1>2. HeadInv /\ [Next]_vars => [Harmless]_vars
    BY <1>1
<1> QED BY <1>2, HeadAlways, PTL DEF Spec, RefusalChangesNothing

-----------------------------------------------------------------------------
(* The refinement of TrustedHead. *)

(* Every step of the chain and of the client is one of its promise, or     *)
(* changes nothing of what the promise is about.                           *)
LEMMA StepsImplement ==
    ASSUME Checking, HeadInv, [Next]_vars
    PROVE  [Promise!Next]_Promise!trustVars
<1>1. CASE Grow /\ UNCHANGED clientVars
    <2>1. PICK t : t = Tip
        OBVIOUS
    <2>2. /\ t \in Nat /\ Tip' = t + 1
          /\ sets' \in Seq(ValidatorSets) /\ Len(chain') = Len(sets')
          /\ \A n \in 0..t : SetAfter(n)' = SetAfter(n)
          /\ UniqueAddress(SetAfter(t + 1)')
          /\ Follows(t + 1)'
        BY <1>1, <2>1, GrowKeeps DEF HeadInv
    <2>3. /\ Len(sets) = t + 1 /\ Len(sets') = t + 2
          /\ sets \in Seq(ValidatorSets)
        BY <2>1, <2>2 DEF HeadInv, ChainInv, Tip
    <2>4. \A n \in DOMAIN sets : sets'[n] = sets[n]
        <3>1. ASSUME NEW n \in 1..t + 1 PROVE sets'[n] = sets[n]
            <4>1. n - 1 \in 0..t /\ (n - 1) + 1 = n
                BY <2>2
            <4>2. SetAfter(n - 1)' = SetAfter(n - 1)
                BY <2>2, <4>1
            <4> QED BY <4>1, <4>2 DEF SetAfter
        <3> QED BY <2>3, <3>1
    <2>5. sets'[t + 2] \in ValidatorSets
        BY <2>2, <2>3
    <2>6. (t + 1) % EpochSize # 0 => sets'[t + 2] = sets[t + 1]
        <3> SUFFICES ASSUME (t + 1) % EpochSize # 0
                     PROVE  sets'[t + 2] = sets[t + 1]
            OBVIOUS
        <3>1. PICK set : set = sets[t + 1]
            OBVIOUS
        <3>2. /\ set \in ValidatorSets /\ UniqueAddress(set)
              /\ SetAfter((t + 1) - 1)' = set
              /\ SetAfter(t + 1)' = sets'[t + 2]
            <4>1. t \in 0..Tip /\ t + 1 \in 1..Len(sets) /\ (t + 1) - 1 = t
                    /\ (t + 1) + 1 = t + 2
                BY <2>1, <2>2, <2>3
            <4>2. SetAfter(t) = set
                BY <3>1 DEF SetAfter
            <4>3. set \in ValidatorSets /\ UniqueAddress(set)
                BY <4>1, <4>2, SetType DEF HeadInv
            <4>4. SetAfter((t + 1) - 1)' = SetAfter(t)'
                    /\ SetAfter(t + 1)' = sets'[t + 2]
                BY <4>1 DEF SetAfter
            <4>5. SetAfter(t)' = SetAfter(t)
                BY <2>1, <2>2, <4>1
            <4> QED BY <4>2, <4>3, <4>4, <4>5
        <3>3. PICK diff \in Changes(t + 1, set) :
                SetAfter(t + 1)' = Members(set, diff.removed) \o diff.added
            BY <2>2, <3>2 DEF Follows
        <3>4. Members(set, diff.removed) \o diff.added = set
            BY <3>2, <3>3, ChangeOf
        <3> QED BY <3>1, <3>2, <3>3, <3>4
    <2>7. UNCHANGED <<IF Synced THEN snapshot.number ELSE -1,
                      snapshot.validators>>
        BY <1>1 DEF clientVars, Synced
    <2>8. Promise!Extend
        <3>1. Seq(Candidates \cup ToSet(GenesisSet)) \ {<<>>} = ValidatorSets
            BY DEF ValidatorSets, Electable
        <3>2. (t + 1) + 1 = t + 2
            BY <2>2
        <3> QED BY <2>3, <2>4, <2>5, <2>6, <2>7, <3>1, <3>2
                DEF Promise!Extend
    <2> QED BY <2>8 DEF Promise!Next
<1>2. CASE UNCHANGED <<sets, snapshot>>
    BY <1>2 DEF Promise!trustVars, Synced
<1>3. ASSUME NEW outcome, Inserts(outcome), Refuses(outcome)
      PROVE  UNCHANGED <<sets, snapshot>>
    BY <1>3 DEF Inserts, Refuses
<1>4. ASSUME NEW outcome, NEW n, Inserts(outcome), Stores(n, outcome)
      PROVE  Promise!Advance
    <2> DEFINE head == IF Synced THEN snapshot.number ELSE -1
    <2>1. Synced'
        BY <1>4, StoredIsSynced DEF Inserts, Synced
    <2>2. /\ snapshot'.number = n /\ snapshot'.validators = sets[n + 1]
          /\ UNCHANGED sets
        BY <1>4 DEF Inserts, Stores, SetAfter
    <2>3. head' = n
        BY <2>1, <2>2
    <2>4. n \in 0..Len(sets) - 1
        BY <1>4 DEF Stores, HeadInv, ChainInv, Tip
    <2>5. /\ head < n
          /\ head = -1 => n = 0
          /\ \A m \in head + 1..n - 1 : m % EpochSize # 0
        <3>1. CASE Synced
            <4>1. snapshot.number \in Nat
                BY <3>1 DEF HeadInv
            <4> QED BY <1>4, <2>4, <3>1, <4>1 DEF Stores
        <3>2. CASE ~ Synced
            BY <1>4, <3>2 DEF Stores
        <3> QED BY <3>1, <3>2
    <2> HIDE DEF head
    <2> QED BY <2>2, <2>3, <2>4, <2>5 DEF Promise!Advance, head
<1> QED BY <1>1, <1>2, <1>3, <1>4, Steps DEF vars, Promise!Next

(* The client and the chain keep the promise of TrustedHead: one trusted   *)
(* block at a time, only forward, and past the end of no epoch that was    *)
(* not trusted first.                                                      *)
THEOREM TrustedHeadImplemented ==
    ASSUME Checking PROVE Spec => ImplementsTrustedHead
<1>1. Init => Promise!Init
    <2> SUFFICES ASSUME Init PROVE Promise!Init
        OBVIOUS
    <2>1. Len(sets) = 1 /\ sets[1] = GenesisSet
        BY DEF Init, ChainInit
    <2>2. GenesisSet \in Seq(Candidates \cup ToSet(GenesisSet)) \ {<<>>}
        BY ChainAssumption DEF Electable
    <2>3. ~ Synced /\ snapshot.validators = <<>>
        BY DEF Init, Synced, EmptySnapshot
    <2> QED BY <2>1, <2>2, <2>3 DEF Promise!Init
<1>2. HeadInv /\ [Next]_vars => [Promise!Next]_Promise!trustVars
    BY StepsImplement
<1> QED BY <1>1, <1>2, HeadAlways, PTL
        DEF Spec, ImplementsTrustedHead, Promise!Spec
=============================================================================
