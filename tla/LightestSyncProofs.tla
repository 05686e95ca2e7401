------------------------- MODULE LightestSyncProofs -------------------------
(***************************************************************************)
(* Proofs about LightestSync.tla, for every epoch size, all validators and *)
(* elections, and every length of the chain: when no epoch's header was    *)
(* missed, what the program reports is right, and it does not panic.       *)
(***************************************************************************)
EXTENDS LightestSync, ChainLemmas

Running == pc \in {"sync", "report", "done"}

(* The latest header is a form of a block of the chain, or a proposal that *)
(* was abandoned at its height.                                            *)
Fetched ==
    /\ current.number \in 1..Tip
    /\ current \in Finalised(current.number) \cup Abandoned(current.number)

(* After `epoch` turns of the loop the state has got to the end of the     *)
(* epoch before.                                                           *)
At(h) ==
    /\ h \in 0..Tip
    /\ snapshot.number = h /\ snapshot.timestamp = h
    /\ snapshot.validators = SetAfter(h)

BuiltUp ==
    IF epoch = 0 THEN snapshot = EmptySnapshot
    ELSE At((epoch - 1) * EpochSize)

(* The inductive invariant. *)
ProgramInv ==
    /\ ChainInv
    /\ fast \in BOOLEAN
    /\ pc \in {"fetch_latest", "sync", "report", "done", "panicked"}
    /\ epoch \in Nat
    /\ pc = "fetch_latest" => /\ current = Block(0) /\ epoch = 0
                              /\ snapshot = EmptySnapshot /\ missed = {}
    /\ pc = "panicked" => missed # {} \/ current = Block(0)
    /\ Running => Fetched /\ epoch <= current_epoch_number
    /\ Running /\ missed = {} => BuiltUp
    /\ pc \in {"report", "done"} => epoch = current_epoch_number
    /\ pc = "done" /\ missed = {} => (verdict = "Ok" <=> SealedByQuorum)

(* The invariant holds of the program as it starts.                        *)
LEMMA InitialProgram == Init => ProgramInv
<1> SUFFICES ASSUME Init PROVE ProgramInv
    OBVIOUS
<1>1. ChainInv
    BY ChainInitially DEF Init
<1>2. /\ pc = "fetch_latest" /\ fast \in BOOLEAN /\ epoch = 0
      /\ current = Block(0) /\ snapshot = EmptySnapshot /\ missed = {}
    BY DEF Init
<1> QED BY <1>1, <1>2 DEF ProgramInv, Running

(* Where the latest header's epoch begins and ends. *)
LEMMA CurrentEpoch ==
    ASSUME ChainInv, Fetched, NEW n, n = current.number,
           NEW e, e = current_epoch_number, NEW start,
           start = (e - 1) * EpochSize
    PROVE  /\ e \in Nat \ {0} /\ EpochSize \in Nat \ {0}
           /\ n \in 1..Tip /\ Tip \in Nat /\ start \in 0..Tip
           /\ start < n /\ n <= e * EpochSize
<1>1. EpochSize \in Nat \ {0} /\ n \in 1..Tip /\ Tip \in Nat
    BY ChainAssumption DEF Fetched, ChainInv
<1>2. PICK h \in Nat : n = h + 1
    <2>1. n - 1 \in Nat /\ n = (n - 1) + 1
        BY <1>1
    <2> QED BY <2>1
<1>3. e = get_epoch_number(h + 1, EpochSize)
    BY <1>2 DEF current_epoch_number
<1>4. /\ e \in Nat \ {0}
      /\ \E p \in 1..EpochSize : h + 1 = (e - 1) * EpochSize + p
    BY <1>1, <1>3, EpochOf
<1>5. PICK p \in 1..EpochSize : n = start + p
    BY <1>2, <1>4
<1>6. start \in Nat /\ e * EpochSize = start + EpochSize
    BY <1>1, <1>4
<1>7. start < n /\ n <= start + EpochSize /\ start \in 0..Tip
    BY <1>1, <1>5, <1>6
<1> QED BY <1>1, <1>4, <1>6, <1>7

(* The times and numbers of the headers are in what u64 holds. *)
LEMMA ClockFits ==
    ASSUME ChainInv, NEW n \in 0..Tip, NEW t \in Clock
    PROVE  /\ n \in Nat /\ ~ (n > MaxU64) /\ MaxU64 \in Nat
           /\ ~ (t + state_config.allowed_clock_skew > MaxU64)
           /\ ~ (n > t + state_config.allowed_clock_skew)
<1>1. state_config.allowed_clock_skew = AllowedClockSkew
    BY DEF state_config
<1>2. /\ AllowedClockSkew \in Nat /\ MaxU64 \in Nat /\ MaxNumber \in Nat
      /\ MaxNumber + 2 * AllowedClockSkew <= MaxU64
    BY ProgramAssumption, ChainAssumption
<1>3. Tip \in Nat /\ Tip <= MaxNumber
    BY DEF ChainInv
<1>4. /\ t \in Int /\ t >= Tip - AllowedClockSkew
      /\ t <= Tip + AllowedClockSkew
    BY <1>2, <1>3 DEF Clock
<1> QED BY <1>1, <1>2, <1>3, <1>4

(* To a client at the start of an epoch a later header of that epoch       *)
(* stands or falls with its seal under the set in force.                   *)
LEMMA VerdictInEpoch ==
    ASSUME ChainInv, NEW e \in Nat \ {0}, NEW h, h = (e - 1) * EpochSize,
           At(h), NEW n \in 1..Tip, h < n, n <= e * EpochSize,
           NEW header, header.number = n, header.time = n,
           header.extra = "Ok", NEW t \in Clock
    PROVE  /\ SetAfter(n - 1) = snapshot.validators
           /\ verify_header(state_config, snapshot, header, t)
                = verify_aggregated_seal(hash(header), SetAfter(n - 1),
                                         header.aggregated_seal)
<1>1. EpochSize \in Nat \ {0} /\ Tip \in Nat /\ n \in 0..Tip /\ h \in 0..Tip
    BY ChainAssumption DEF At, ChainInv
<1>2. \A m \in h + 1..n - 1 : m % EpochSize # 0
    <2>1. n \in Int /\ n <= e * EpochSize
        BY <1>1
    <2> QED BY <1>1, <2>1, InsideEpoch
<1>3. n - 1 \in h..Tip
    BY <1>1
<1>4. SetAfter(n - 1) = SetAfter(h)
    BY <1>1, <1>2, <1>3, SetsInEpoch
<1>5. snapshot.validators = SetAfter(n - 1)
    BY <1>4 DEF At
<1>6. /\ ~ (header.number > MaxU64)
      /\ ~ (t + state_config.allowed_clock_skew > MaxU64)
      /\ ~ (header.time > t + state_config.allowed_clock_skew)
    BY <1>1, ClockFits
<1>7. ~ (header.number <= snapshot.number)
        /\ ~ (header.time <= snapshot.timestamp)
    BY <1>1 DEF At
<1>8. verify_header(state_config, snapshot, header, t)
        = verify_aggregated_seal(hash(header), snapshot.validators,
                                 header.aggregated_seal)
    BY <1>6, <1>7, VerifyLater
<1> QED BY <1>5, <1>8

(* What a turn of the loop does while no epoch was missed. *)
LEMMA TurnStores ==
    ASSUME ProgramInv, pc = "sync", missed = {},
           epoch < current_epoch_number,
           NEW header \in Finalised(get_epoch_last_block_number(epoch,
                                                                EpochSize)),
           NEW t \in Clock, NEW k, k = epoch * EpochSize
    PROVE  LET outcome == insert_header(state_config, snapshot, header, t)
           IN  /\ k \in 0..Tip /\ outcome.res = "Ok"
               /\ outcome.snapshot.number = k
               /\ outcome.snapshot.timestamp = k
               /\ outcome.snapshot.validators = SetAfter(k)
<1> DEFINE outcome == insert_header(state_config, snapshot, header, t)
<1>0. PICK n, e, start, p :
            /\ n = current.number /\ e = current_epoch_number
            /\ start = (e - 1) * EpochSize /\ p = epoch
    OBVIOUS
<1>1. /\ ChainInv /\ Fetched /\ BuiltUp /\ p \in Nat /\ p < e
      /\ k = p * EpochSize
    BY <1>0 DEF ProgramInv, Running
<1>2. /\ e \in Nat \ {0} /\ EpochSize \in Nat \ {0} /\ Tip \in Nat
      /\ start \in 0..Tip
    BY <1>0, <1>1, CurrentEpoch
<1>3. header \in Finalised(k)
    BY <1>0, <1>1, <1>2 DEF get_epoch_last_block_number
<1>4. state_config.epoch_size = EpochSize
    BY DEF state_config
<1>5. CASE p = 0
    <2>1. k = 0 /\ snapshot = EmptySnapshot /\ k \in 0..Tip
        BY <1>0, <1>1, <1>2, <1>5 DEF BuiltUp
    <2>2. header = Block(0) /\ MaxU64 \in Nat
        BY <1>3, <2>1, ProgramAssumption DEF Finalised
    <2>3. /\ outcome = Outcome("Ok", SnapshotOf(Block(0), GenesisSet))
          /\ Block(0).number = 0 /\ Block(0).time = 0
          /\ SetAfter(0) = GenesisSet
        BY <1>1, <1>4, <2>1, <2>2, GenesisInserted
    <2>4. /\ outcome.res = "Ok"
          /\ outcome.snapshot = SnapshotOf(Block(0), GenesisSet)
        BY <2>3 DEF Outcome
    <2> HIDE DEF outcome
    <2> QED BY <2>1, <2>3, <2>4, SnapshotFields DEF outcome
<1>6. CASE p # 0
    <2>1. p \in Nat \ {0} /\ p <= e - 1 /\ epoch = p
        BY <1>0, <1>1, <1>2, <1>6
    <2>2. PICK h : h = (p - 1) * EpochSize
        OBVIOUS
    <2>3. /\ h \in Nat /\ k = h + EpochSize /\ k <= start
        <3>1. p - 1 \in Nat /\ p * EpochSize = (p - 1) * EpochSize + EpochSize
            BY <1>2, <2>1
        <3>2. p * EpochSize <= (e - 1) * EpochSize
            BY <1>2, <2>1
        <3>3. h \in Nat
            BY <1>2, <2>2, <3>1
        <3> QED BY <1>0, <1>1, <2>2, <3>1, <3>2, <3>3
    <2>4. k \in 1..Tip /\ k \in 0..Tip /\ h < k /\ k <= p * EpochSize
        BY <1>1, <1>2, <2>3
    <2>5. At(h)
        BY <1>1, <2>1, <2>2, <1>6 DEF BuiltUp
    <2>6. PICK diff \in Changes(k, SetAfter(k - 1)) :
            /\ IsBlock(header, k, "final", diff.added, diff.removed)
        BY <1>1, <1>3, <2>4, FinalisedIsBlock
    <2>7. header.number = k /\ header.time = k /\ header.extra = "Ok"
        BY <2>6 DEF IsBlock
    <2>8. /\ SetAfter(k - 1) = snapshot.validators
          /\ verify_header(state_config, snapshot, header, t)
                = verify_aggregated_seal(hash(header), SetAfter(k - 1),
                                         header.aggregated_seal)
        BY <1>1, <2>1, <2>2, <2>4, <2>5, <2>7, VerdictInEpoch
    <2>9. verify_aggregated_seal(hash(header), SetAfter(k - 1),
                                 header.aggregated_seal) = "Ok"
        BY <1>1, <1>3, <2>4, ProgramAssumption, FinalisedVerifies
    <2>10. InsertVerdict(state_config, snapshot, header, t) = "Ok"
        BY <2>8, <2>9 DEF InsertVerdict
    <2>11. ~ (k > MaxU64)
        BY <1>1, <2>4, ClockFits
    <2>12. outcome = Outcome("Ok", SnapshotOf(header, SetAfter(k)))
        BY <1>1, <1>3, <1>4, <2>4, <2>8, <2>10, <2>11, FinalisedInserted
    <2>13. /\ outcome.res = "Ok"
           /\ outcome.snapshot = SnapshotOf(header, SetAfter(k))
        BY <2>12 DEF Outcome
    <2> HIDE DEF outcome
    <2> QED BY <2>4, <2>7, <2>13, SnapshotFields DEF outcome
<1> QED BY <1>5, <1>6

(* The verdict on the latest header, while no epoch was missed. *)
LEMMA VerdictIsRight ==
    ASSUME ProgramInv, pc = "report", missed = {}, NEW t \in Clock
    PROVE  LET answer == verify_header(state_config, snapshot, current, t)
           IN  /\ answer # "Panic"
               /\ answer = "Ok" <=> SealedByQuorum
<1> DEFINE answer == verify_header(state_config, snapshot, current, t)
<1>0. PICK n, e, start :
            /\ n = current.number /\ e = current_epoch_number
            /\ start = (e - 1) * EpochSize
    OBVIOUS
<1>1. /\ ChainInv /\ Fetched /\ BuiltUp /\ epoch = e
    BY <1>0 DEF ProgramInv, Running
<1>2. /\ e \in Nat \ {0} /\ EpochSize \in Nat \ {0}
      /\ n \in 1..Tip /\ Tip \in Nat /\ start \in 0..Tip
      /\ start < n /\ n <= e * EpochSize
    BY <1>0, <1>1, CurrentEpoch
<1>3. At(start)
    <2>1. epoch # 0
        BY <1>1, <1>2
    <2> QED BY <1>0, <1>1, <2>1 DEF BuiltUp
<1>4. current \in Finalised(n) \cup Abandoned(n)
    BY <1>0, <1>1 DEF Fetched
<1>5. current.number = n /\ current.time = n /\ current.extra = "Ok"
    <2>1. CASE current \in Finalised(n)
        <3>1. PICK diff \in Changes(n, SetAfter(n - 1)) :
                IsBlock(current, n, "final", diff.added, diff.removed)
            BY <1>1, <1>2, <2>1, FinalisedIsBlock
        <3> QED BY <3>1 DEF IsBlock
    <2>2. CASE current \in Abandoned(n)
        <3>1. n \in 1..Tip + 1
            BY <1>2
        <3>2. PICK added, removed :
                IsBlock(current, n, "abandoned", added, removed)
            BY <1>1, <2>2, <3>1, AbandonedLacksQuorum
        <3> QED BY <3>2 DEF IsBlock
    <2> QED BY <1>4, <2>1, <2>2
<1> DEFINE seal == verify_aggregated_seal(hash(current), SetAfter(n - 1),
                                          current.aggregated_seal)
<1>6. SetAfter(n - 1) = snapshot.validators /\ answer = seal
    BY <1>0, <1>1, <1>2, <1>3, <1>5, VerdictInEpoch
<1>7. seal = "Ok" <=> current \in Finalised(n)
    <2>1. ASSUME current \in Finalised(n) PROVE seal = "Ok"
        BY <1>1, <1>2, <2>1, ProgramAssumption, FinalisedVerifies
    <2>2. ASSUME current \in Abandoned(n) PROVE seal # "Ok"
        <3>1. n \in 1..Tip + 1
            BY <1>2
        <3> QED BY <1>1, <2>2, <3>1, AbandonedLacksQuorum
    <2> HIDE DEF seal
    <2> QED BY <1>4, <2>1, <2>2
<1>8. SealedByQuorum <=> current \in Finalised(n)
    BY <1>0 DEF SealedByQuorum
<1>9. answer # "Panic"
    <2>1. n - 1 \in 0..Tip /\ n \in 0..Tip
        BY <1>2
    <2>2. SetAfter(n - 1) \in ValidatorSets
        BY <1>1, <2>1, SetType
    <2>3. snapshot.validators # <<>>
        BY <1>6, <2>2 DEF ValidatorSets
    <2>4. /\ ~ (current.number > MaxU64)
          /\ ~ (t + state_config.allowed_clock_skew > MaxU64)
        BY <1>1, <1>5, <2>1, ClockFits
    <2> QED BY <1>5, <2>3, <2>4, VerifyHeader
<1> HIDE DEF seal, answer
<1> QED BY <1>6, <1>7, <1>8, <1>9 DEF answer

(* The chain may grow meanwhile: what was fetched and built up stays so. *)
LEMMA WorldMoves ==
    ASSUME ChainInv, Grow, UNCHANGED programVars
    PROVE  /\ (current = Block(0)) => (current' = Block(0)')
           /\ Fetched => Fetched' /\ (SealedByQuorum' <=> SealedByQuorum)
           /\ BuiltUp => BuiltUp'
           /\ current_epoch_number' = current_epoch_number
<1>1. PICK t, n, e : t = Tip /\ n = current.number /\ e = epoch
    OBVIOUS
<1>2. /\ t \in Nat /\ Tip' = t + 1
      /\ \A m \in 0..t : Block(m)' = Block(m)
      /\ \A m \in 0..t : SetAfter(m)' = SetAfter(m)
    BY <1>1, GrowKeeps
<1>3. UNCHANGED <<current, epoch, snapshot>>
    BY DEF programVars
<1>4. Block(0)' = Block(0)
    <2>1. 0 \in 0..t
        BY <1>2
    <2> QED BY <1>2, <2>1
<1>5. ASSUME Fetched
      PROVE  Fetched' /\ (SealedByQuorum' <=> SealedByQuorum)
    <2>1. n \in 1..t
        BY <1>1, <1>5 DEF Fetched
    <2>2. n \in 0..t /\ n - 1 \in 0..t /\ n \in 1..t + 1
        BY <1>2, <2>1
    <2>3. Block(n)' = Block(n) /\ SetAfter(n - 1)' = SetAfter(n - 1)
        BY <1>2, <2>2
    <2>4. Finalised(n)' = Finalised(n)
        BY <1>4, <2>3 DEF Finalised
    <2>5. Abandoned(n)' = Abandoned(n)
        BY <2>3 DEF Abandoned
    <2>6. /\ Finalised(current.number)' = Finalised(n)'
          /\ Abandoned(current.number)' = Abandoned(n)'
        BY <1>1, <1>3 DEF Finalised, Abandoned, Block, SetAfter
    <2>7. Fetched'
        BY <1>1, <1>2, <1>3, <1>5, <2>2, <2>4, <2>5, <2>6 DEF Fetched
    <2>8. SealedByQuorum' <=> SealedByQuorum
        <3>1. SealedByQuorum <=> current \in Finalised(n)
            BY <1>1 DEF SealedByQuorum
        <3>2. SealedByQuorum' <=> current' \in Finalised(current.number)'
            BY DEF SealedByQuorum
        <3> QED BY <1>3, <2>4, <2>6, <3>1, <3>2
    <2> QED BY <2>7, <2>8
<1>6. ASSUME BuiltUp PROVE BuiltUp'
    <2>1. CASE e = 0
        BY <1>1, <1>3, <1>6, <2>1 DEF BuiltUp
    <2>2. CASE e # 0
        <3>1. PICK h : h = (e - 1) * EpochSize
            OBVIOUS
        <3>2. At(h)
            BY <1>1, <1>6, <2>2, <3>1 DEF BuiltUp
        <3>3. h \in 0..t /\ h \in 0..t + 1 /\ SetAfter(h)' = SetAfter(h)
            BY <1>1, <1>2, <3>2 DEF At
        <3>4. At(h)'
            BY <1>2, <1>3, <3>2, <3>3 DEF At
        <3>5. At((epoch - 1) * EpochSize)' <=> At(h)'
            BY <1>1, <1>3, <3>1 DEF At, SetAfter
        <3> QED BY <1>1, <1>3, <2>2, <3>4, <3>5 DEF BuiltUp
    <2> QED BY <2>1, <2>2
<1> QED BY <1>3, <1>4, <1>5, <1>6 DEF current_epoch_number

(* What the steps of the program alone leave as it is. *)
LEMMA WorldStays ==
    ASSUME UNCHANGED <<chain, sets, fast>>
    PROVE  /\ ChainInv' <=> ChainInv
           /\ Tip' = Tip /\ Block(0)' = Block(0)
           /\ fast' = fast
           /\ UNCHANGED current =>
                /\ Fetched' <=> Fetched
                /\ SealedByQuorum' <=> SealedByQuorum
                /\ current_epoch_number' = current_epoch_number
           /\ UNCHANGED <<epoch, snapshot>> => (BuiltUp' <=> BuiltUp)
<1>1. /\ ChainInv' <=> ChainInv
      /\ Tip' = Tip /\ Block(0)' = Block(0)
    BY DEF ChainInv, Tip, Block, SetAfter, Follows
<1>2. ASSUME UNCHANGED current
      PROVE  /\ Fetched' <=> Fetched
             /\ SealedByQuorum' <=> SealedByQuorum
             /\ current_epoch_number' = current_epoch_number
    <2>1. /\ Finalised(current.number)' = Finalised(current.number)
          /\ Abandoned(current.number)' = Abandoned(current.number)
        BY <1>2 DEF Finalised, Abandoned, Block, SetAfter
    <2>2. Fetched' <=> Fetched
        BY <1>1, <1>2, <2>1 DEF Fetched
    <2>3. SealedByQuorum' <=> SealedByQuorum
        BY <1>2, <2>1 DEF SealedByQuorum
    <2> QED BY <1>2, <2>2, <2>3 DEF current_epoch_number
<1>3. ASSUME UNCHANGED <<epoch, snapshot>> PROVE BuiltUp' <=> BuiltUp
    BY <1>3 DEF BuiltUp, At, SetAfter, Tip
<1> QED BY <1>1, <1>2, <1>3

(* Fetching the latest header, or failing to, keeps it,                    *)
LEMMA FetchKeepsInv == ProgramInv /\ FetchLatest => ProgramInv'
<1> SUFFICES ASSUME ProgramInv, FetchLatest PROVE ProgramInv'
    OBVIOUS
<1>1. PICK n : n = Tip
    OBVIOUS
<1>2. /\ n \in 1..Tip /\ ChainInv /\ UNCHANGED <<chain, sets, fast>>
      /\ current' \in Finalised(n) \cup Abandoned(n)
      /\ UNCHANGED <<epoch, snapshot, missed>>
      /\ epoch = 0 /\ snapshot = EmptySnapshot
      /\ pc' = "sync"
    BY <1>1 DEF ProgramInv, FetchLatest, ChainInv, world
<1>3. current'.number = n
    <2>1. CASE current' \in Finalised(n)
        <3>1. PICK diff \in Changes(n, SetAfter(n - 1)) :
                IsBlock(current', n, "final", diff.added, diff.removed)
            BY <1>2, <2>1, FinalisedIsBlock
        <3> QED BY <3>1 DEF IsBlock
    <2>2. CASE current' \in Abandoned(n)
        <3>1. n \in 1..Tip + 1
            BY <1>2 DEF ChainInv
        <3>2. PICK added, removed :
                IsBlock(current', n, "abandoned", added, removed)
            BY <1>2, <2>2, <3>1, AbandonedLacksQuorum
        <3> QED BY <3>2 DEF IsBlock
    <2> QED BY <1>2, <2>1, <2>2
<1>4. /\ Finalised(current.number)' = Finalised(n)
      /\ Abandoned(current.number)' = Abandoned(n)
    BY <1>2, <1>3 DEF Finalised, Abandoned, Block, SetAfter
<1>5. ChainInv' /\ Tip' = Tip /\ fast' \in BOOLEAN
    BY <1>2, WorldStays DEF ProgramInv
<1>6. Fetched'
    BY <1>2, <1>3, <1>4, <1>5 DEF Fetched
<1>7. BuiltUp'
    BY <1>2 DEF BuiltUp
<1>8. current_epoch_number' \in Nat
    <2>1. PICK m, e, start : /\ m = current'.number
                             /\ e = current_epoch_number'
                             /\ start = (e - 1) * EpochSize
        OBVIOUS
    <2>2. EpochSize \in Nat \ {0} /\ m \in Nat \ {0}
        BY <1>2, <1>3, <2>1, ChainAssumption DEF ChainInv
    <2>3. PICK h \in Nat : m = h + 1
        <3>1. m - 1 \in Nat /\ m = (m - 1) + 1
            BY <2>2
        <3> QED BY <3>1
    <2>4. e = get_epoch_number(h + 1, EpochSize)
        BY <2>1, <2>3 DEF current_epoch_number
    <2> QED BY <2>1, <2>2, <2>4, EpochOf
<1>9. epoch' \in Nat /\ epoch' <= current_epoch_number'
    BY <1>2, <1>8
<1> QED BY <1>2, <1>5, <1>6, <1>7, <1>9 DEF ProgramInv, Running

(* so does a turn of the loop, with all of its fetches,                    *)
LEMMA TurnKeepsInv == ProgramInv /\ SyncEpoch => ProgramInv'
<1> SUFFICES ASSUME ProgramInv, SyncEpoch PROVE ProgramInv'
    OBVIOUS
<1>1. PICK header \in Finalised(get_epoch_last_block_number(epoch,
                                                            EpochSize)),
           t \in Clock :
        LET outcome == insert_header(state_config, snapshot, header, t)
        IN  /\ snapshot' = outcome.snapshot
            /\ pc' = IF outcome.res = "Panic" THEN "panicked" ELSE pc
    BY DEF SyncEpoch
<1>2. PICK p, e, k : /\ p = epoch /\ e = current_epoch_number
                     /\ k = p * EpochSize
    OBVIOUS
<1>3. /\ pc = "sync" /\ p < e /\ p \in Nat /\ epoch' = p + 1
      /\ UNCHANGED <<chain, sets, fast, current, missed>>
      /\ ChainInv /\ Fetched /\ fast \in BOOLEAN
    BY <1>2 DEF SyncEpoch, ProgramInv, Running, world
<1>4. e \in Nat
    <2>1. PICK n, start : /\ n = current.number
                          /\ start = (e - 1) * EpochSize
        OBVIOUS
    <2> QED BY <1>2, <1>3, <2>1, CurrentEpoch
<1>5. /\ ChainInv' /\ fast' \in BOOLEAN /\ Fetched' /\ Tip' = Tip
      /\ current_epoch_number' = e
    BY <1>2, <1>3, WorldStays
<1>6. epoch' \in Nat /\ epoch' <= current_epoch_number'
    BY <1>3, <1>4, <1>5
<1>7. pc' \in {"sync", "panicked"}
    BY <1>1, <1>3
<1>8. ASSUME missed = {}
      PROVE  pc' = "sync" /\ BuiltUp'
    <2> DEFINE outcome == insert_header(state_config, snapshot, header, t)
    <2>1. /\ k \in 0..Tip /\ outcome.res = "Ok"
          /\ outcome.snapshot.number = k
          /\ outcome.snapshot.timestamp = k
          /\ outcome.snapshot.validators = SetAfter(k)
        BY <1>2, <1>3, <1>8, TurnStores
    <2>2. snapshot' = outcome.snapshot /\ pc' = "sync"
        BY <1>1, <1>3, <2>1
    <2> HIDE DEF outcome
    <2>3. At(k)'
        BY <1>3, <1>5, <2>1, <2>2 DEF At, SetAfter
    <2>4. (epoch' - 1) * EpochSize = k /\ epoch' # 0
        BY <1>2, <1>3
    <2>5. At((epoch - 1) * EpochSize)' <=> At(k)'
        BY <2>4 DEF At, SetAfter
    <2> QED BY <2>2, <2>3, <2>4, <2>5 DEF BuiltUp
<1> QED BY <1>3, <1>5, <1>6, <1>7, <1>8 DEF ProgramInv, Running

(* and so does every step.                                                 *)
LEMMA ProgramPreserved == ProgramInv /\ [Next]_vars => ProgramInv'
<1> SUFFICES ASSUME ProgramInv, [Next]_vars PROVE ProgramInv'
    OBVIOUS
<1>1. CASE ChainGrows
    <2>1. ChainInv'
        BY <1>1, ChainPreserved DEF ChainGrows, ProgramInv
    <2>2. /\ (current = Block(0)) => (current' = Block(0)')
          /\ Fetched => Fetched' /\ (SealedByQuorum' <=> SealedByQuorum)
          /\ BuiltUp => BuiltUp'
          /\ current_epoch_number' = current_epoch_number
        BY <1>1, WorldMoves DEF ChainGrows, ProgramInv
    <2>3. UNCHANGED <<fast, pc, current, epoch, snapshot, missed, verdict>>
        BY <1>1 DEF ChainGrows, programVars
    <2> QED BY <2>1, <2>2, <2>3 DEF ProgramInv, Running
<1>2. CASE FetchLatest
    BY <1>2, FetchKeepsInv
<1>3. CASE FetchLatestFails
    <2>1. UNCHANGED <<chain, sets, fast>>
        BY <1>3 DEF FetchLatestFails, world
    <2>2. ChainInv' /\ fast' \in BOOLEAN /\ Block(0)' = Block(0)
        BY <2>1, WorldStays DEF ProgramInv
    <2>3. /\ pc' = "panicked" /\ current' = Block(0)
          /\ epoch' \in Nat
        BY <1>3 DEF FetchLatestFails, ProgramInv
    <2> QED BY <2>2, <2>3 DEF ProgramInv, Running
<1>4. CASE SyncEpoch
    BY <1>4, TurnKeepsInv
<1>5. CASE SkipEpoch
    <2>1. /\ UNCHANGED <<chain, sets, fast, pc, current>>
          /\ epoch' = epoch + 1 /\ missed' # {} /\ pc = "sync"
          /\ epoch < current_epoch_number
        BY <1>5 DEF SkipEpoch, world
    <2>2. /\ ChainInv' /\ fast' \in BOOLEAN /\ Fetched' /\ Fetched /\ ChainInv
          /\ current_epoch_number' = current_epoch_number
        BY <2>1, WorldStays DEF ProgramInv, Running
    <2>3. epoch' \in Nat /\ epoch' <= current_epoch_number'
        <3>1. PICK n, e, start : /\ n = current.number
                                 /\ e = current_epoch_number
                                 /\ start = (e - 1) * EpochSize
            OBVIOUS
        <3>2. e \in Nat
            BY <2>2, <3>1, CurrentEpoch
        <3> QED BY <2>1, <2>2, <3>1, <3>2 DEF ProgramInv
    <2> QED BY <2>1, <2>2, <2>3 DEF ProgramInv, Running
<1>6. CASE EndOfLoop
    <2>1. /\ UNCHANGED <<chain, sets, fast, current, epoch, snapshot, missed>>
          /\ pc = "sync" /\ pc' = "report"
          /\ epoch >= current_epoch_number
        BY <1>6 DEF EndOfLoop, world
    <2>2. /\ ChainInv' /\ fast' \in BOOLEAN /\ Fetched' /\ Fetched /\ ChainInv
          /\ current_epoch_number' = current_epoch_number
          /\ BuiltUp' <=> BuiltUp
        BY <2>1, WorldStays DEF ProgramInv, Running
    <2>3. epoch' = current_epoch_number' /\ epoch' <= current_epoch_number'
        <3>1. PICK n, e, start : /\ n = current.number
                                 /\ e = current_epoch_number
                                 /\ start = (e - 1) * EpochSize
            OBVIOUS
        <3>2. e \in Nat
            BY <2>2, <3>1, CurrentEpoch
        <3> QED BY <2>1, <2>2, <3>1, <3>2 DEF ProgramInv, Running
    <2> QED BY <2>1, <2>2, <2>3 DEF ProgramInv, Running
<1>7. CASE Report
    <2>1. PICK t \in Clock :
            verdict' = verify_header(state_config, snapshot, current, t)
        BY <1>7 DEF Report
    <2>2. /\ UNCHANGED <<chain, sets, fast, current, epoch, snapshot, missed>>
          /\ pc = "report"
          /\ pc' = IF verdict' = "Panic" THEN "panicked" ELSE "done"
        BY <1>7 DEF Report, world
    <2>3. /\ ChainInv' /\ fast' \in BOOLEAN /\ Fetched'
          /\ current_epoch_number' = current_epoch_number
          /\ SealedByQuorum' <=> SealedByQuorum
          /\ BuiltUp' <=> BuiltUp
        BY <2>2, WorldStays DEF ProgramInv, Running
    <2>4. missed = {} =>
            pc' = "done" /\ (verdict' = "Ok" <=> SealedByQuorum)
        BY <2>1, <2>2, VerdictIsRight
    <2> QED BY <2>2, <2>3, <2>4 DEF ProgramInv, Running
<1>8. CASE UNCHANGED vars
    <2>1. /\ UNCHANGED <<chain, sets, fast>>
          /\ UNCHANGED <<pc, current, epoch, snapshot, missed, verdict>>
        BY <1>8 DEF vars, programVars
    <2>2. /\ ChainInv' /\ fast' \in BOOLEAN /\ Block(0)' = Block(0)
          /\ Fetched' <=> Fetched
          /\ current_epoch_number' = current_epoch_number
          /\ SealedByQuorum' <=> SealedByQuorum
          /\ BuiltUp' <=> BuiltUp
        BY <2>1, WorldStays DEF ProgramInv
    <2> QED BY <2>1, <2>2 DEF ProgramInv, Running
<1> QED BY <1>1, <1>2, <1>3, <1>4, <1>5, <1>6, <1>7, <1>8 DEF Next

(* The inductive invariant holds: see ProgramInv.                          *)
LEMMA AlwaysBuilt == Spec => []ProgramInv
<1> QED BY InitialProgram, ProgramPreserved, PTL DEF Spec

-----------------------------------------------------------------------------
(* When no epoch's header was missed, the program reports the latest       *)
(* header as valid exactly if two thirds of the set in force signed it     *)
(* (main.rs:99-119).                                                       *)
THEOREM ReportIsAlwaysRight == Spec => []ReportIsRight
<1>1. ProgramInv => ReportIsRight
    BY DEF ProgramInv, ReportIsRight
<1> QED BY <1>1, AlwaysBuilt, PTL

(* Then it does not panic either, and before it reports it holds the set   *)
(* in force at the latest header (state.rs:28-68,126-188).                 *)
THEOREM SetIsAlwaysRebuilt == Spec => []RebuildsSet
<1>1. ProgramInv => RebuildsSet
    <2> SUFFICES ASSUME ProgramInv PROVE RebuildsSet
        OBVIOUS
    <2>1. pc = "panicked" => missed # {} \/ current = Block(0)
        BY DEF ProgramInv
    <2>2. ASSUME pc = "report", missed = {}
          PROVE  snapshot.validators = SetInForce
        <3>0. PICK n, e, start :
                /\ n = current.number /\ e = current_epoch_number
                /\ start = (e - 1) * EpochSize
            OBVIOUS
        <3>1. /\ ChainInv /\ Fetched /\ BuiltUp /\ epoch = e
            BY <2>2, <3>0 DEF ProgramInv, Running
        <3>2. /\ e \in Nat \ {0} /\ EpochSize \in Nat \ {0}
              /\ n \in 1..Tip /\ Tip \in Nat /\ start \in 0..Tip
              /\ start < n /\ n <= e * EpochSize
            BY <3>0, <3>1, CurrentEpoch
        <3>3. snapshot.validators = SetAfter(start)
            <4>1. epoch # 0
                BY <3>1, <3>2
            <4> QED BY <3>0, <3>1, <4>1 DEF BuiltUp, At
        <3>4. \A m \in start + 1..n - 1 : m % EpochSize # 0
            <4>1. n \in Int
                BY <3>2
            <4> QED BY <3>0, <3>2, <4>1, InsideEpoch
        <3>5. n - 1 \in start..Tip
            BY <3>2
        <3>6. SetAfter(n - 1) = SetAfter(start)
            BY <3>1, <3>2, <3>4, <3>5, SetsInEpoch
        <3> QED BY <3>0, <3>3, <3>6 DEF SetInForce
    <2> QED BY <2>1, <2>2 DEF RebuildsSet
<1> QED BY <1>1, AlwaysBuilt, PTL
=============================================================================
