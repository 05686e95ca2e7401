------------------------- MODULE LibraryStateProofs -------------------------
(***************************************************************************)
(* Theorems of LibraryState and, after them, of WireState: for every       *)
(* configuration, every set of headers and arguments, every width of the   *)
(* integers, and every base, length and number that is encoded.            *)
(***************************************************************************)
EXTENDS WireState, StateLemmas, SequenceTheorems

(* What it takes to pass verify_header. *)
LEMMA HeaderVerdict ==
    ASSUME NEW s, NEW header \in Headers, NEW now
    PROVE  /\ verify_header(Config, s, header, now) \in Results
           /\ verify_header(Config, s, header, now) = "Ok" =>
                /\ ~ (header.number <= s.number)
                /\ Config.verify_header_timestamp =>
                        ~ (header.time <= s.timestamp)
                /\ header.extra = "Ok"
                /\ QuorumSigned(hash(header), s.validators,
                                header.aggregated_seal)
<1> DEFINE verdict == verify_header(Config, s, header, now)
           sealed == verify_aggregated_seal(hash(header), s.validators,
                                            header.aggregated_seal)
           wide == header.number > MaxU64
           old == header.number <= s.number
           early == /\ Config.verify_header_timestamp
                    /\ header.time <= s.timestamp
           overflow == /\ Config.verify_header_timestamp
                       /\ now + Config.allowed_clock_skew > MaxU64
           future == /\ Config.verify_header_timestamp
                     /\ header.time > now + Config.allowed_clock_skew
<1>1. verdict = IF wide THEN "Panic" ELSE IF old THEN "HeightNotGreater"
                ELSE IF early THEN "TimestampNotGreater"
                ELSE IF overflow THEN "Panic"
                ELSE IF future THEN "TimestampInFuture"
                ELSE IF header.extra # "Ok" THEN header.extra ELSE sealed
    BY Zenon DEF verify_header, verify_header_seal
<1>2. header.extra \in {"Ok", "RlpDecodeError", "Panic"}
    BY HeadersAssumption
<1>3. /\ sealed \in SealVerdicts
      /\ sealed = "Ok" => QuorumSigned(hash(header), s.validators,
                                       header.aggregated_seal)
    BY SealVerdict
<1>4. ~ early => (Config.verify_header_timestamp =>
                        ~ (header.time <= s.timestamp))
    BY Zenon DEF early
<1>5. ~ old => ~ (header.number <= s.number)
    BY Zenon DEF old
<1> HIDE DEF wide, old, early, overflow, future, sealed, verdict
<1>6. verdict \in Results
    BY <1>1, <1>2, <1>3 DEF Results, SealVerdicts
<1>7. verdict = "Ok" =>
        ~ old /\ ~ early /\ header.extra = "Ok" /\ sealed = "Ok"
    BY <1>1, <1>2
<1>8. QED
    BY <1>3, <1>4, <1>5, <1>6, <1>7 DEF verdict

(* Was a header verified before it was stored? *)
Verified(header, now) ==
    LET flag == IF is_last_block_of_epoch(header.number, Config.epoch_size)
                THEN Config.verify_epoch_headers
                ELSE Config.verify_non_epoch_headers
    IN  flag /\ header.number # 0
            => verify_header(Config, snapshot, header, now) = "Ok"

(* The diff of a header, as store_epoch_header applies it. *)
Removal(header) ==
    remove_validators(snapshot.validators, header.removed_validators)

Addition(header) ==
    add_validators(Removal(header).validators, AddedValidators(header))

(* The ways an insertion can end. *)
Failed(outcome) ==
    /\ outcome.snapshot = snapshot
    /\ outcome.res \in Results \ {"Ok"}

HalfApplied(outcome, header) ==
    /\ is_last_block_of_epoch(header.number, Config.epoch_size)
    /\ Len(header.added_validators) = Len(header.added_validators_public_keys)
    /\ Removal(header).ok
    /\ ~ Addition(header).ok
    /\ outcome.res = "InvalidValidatorSetDiff"
    /\ outcome.snapshot =
        [snapshot EXCEPT !.validators = Removal(header).validators]

Stored(outcome, header) ==
    /\ header.number \in U64
    /\ outcome.res = "Ok"
    /\ \/ outcome.snapshot = SnapshotOf(header, snapshot.validators)
       \/ /\ Len(header.added_validators)
                = Len(header.added_validators_public_keys)
          /\ outcome.snapshot = SnapshotOf(header, Addition(header).validators)

(* Every insertion ends in one of three ways. *)
LEMMA InsertOutcome ==
    ASSUME NEW header \in Headers, NEW now
    PROVE  LET outcome == insert_header(Config, snapshot, header, now)
           IN  \/ Failed(outcome)
               \/ HalfApplied(outcome, header) /\ Verified(header, now)
               \/ Stored(outcome, header) /\ Verified(header, now)
<1> DEFINE outcome == insert_header(Config, snapshot, header, now)
           boundary == is_last_block_of_epoch(header.number, Config.epoch_size)
           checked == verify_header(Config, snapshot, header, now)
           verdict(flag) == IF flag /\ header.number # 0 THEN checked ELSE "Ok"
           added == Len(header.added_validators)
           keys == Len(header.added_validators_public_keys)
           goal == \/ Failed(outcome)
                   \/ HalfApplied(outcome, header) /\ Verified(header, now)
                   \/ Stored(outcome, header) /\ Verified(header, now)
<1>1. /\ checked \in Results
      /\ header.extra \in {"Ok", "RlpDecodeError", "Panic"}
      /\ header.number \in Nat
    BY HeaderVerdict, HeadersAssumption
<1>2. CASE header.number > MaxU64
    <2>1. outcome = Outcome("Panic", snapshot)
        BY <1>2 DEF insert_header
    <2>2. outcome.snapshot = snapshot /\ outcome.res = "Panic"
        BY <2>1 DEF Outcome
    <2>3. QED
        BY <2>2 DEF Failed, Results
<1>3. CASE ~ (header.number > MaxU64) /\ ~ boundary
    <2> DEFINE v == verdict(Config.verify_non_epoch_headers)
    <2>1. outcome =
            IF v # "Ok" THEN Outcome(v, snapshot)
            ELSE IF header.extra # "Ok" THEN Outcome(header.extra, snapshot)
            ELSE Outcome("Ok", SnapshotOf(header, snapshot.validators))
        BY <1>3, Zenon DEF insert_header, store_non_epoch_header
    <2>2. v \in Results
        BY <1>1 DEF Results
    <2>3. header.number \in U64
        BY <1>1, <1>3, MaxU64Assumption DEF U64
    <2>4. v = "Ok" => Verified(header, now)
        BY <1>3, Zenon DEF Verified
    <2> HIDE DEF v, outcome
    <2>5. CASE v # "Ok"
        <3>1. outcome.snapshot = snapshot /\ outcome.res = v
            BY <2>1, <2>5 DEF Outcome
        <3>2. QED
            BY <3>1, <2>2, <2>5 DEF Failed, outcome
    <2>6. CASE v = "Ok" /\ header.extra # "Ok"
        <3>1. outcome.snapshot = snapshot /\ outcome.res = header.extra
            BY <2>1, <2>6 DEF Outcome
        <3>2. QED
            BY <3>1, <1>1, <2>6 DEF Failed, Results, outcome
    <2>7. CASE v = "Ok" /\ header.extra = "Ok"
        <3>1. /\ outcome.snapshot = SnapshotOf(header, snapshot.validators)
              /\ outcome.res = "Ok"
            BY <2>1, <2>7 DEF Outcome
        <3>2. QED
            BY <3>1, <2>3, <2>4, <2>7, Zenon DEF Stored, outcome
    <2>8. QED
        BY <2>5, <2>6, <2>7
<1>4. CASE ~ (header.number > MaxU64) /\ boundary
    <2> DEFINE v == verdict(Config.verify_epoch_headers)
               halved == [snapshot EXCEPT !.validators =
                                            Removal(header).validators]
    <2>1. outcome =
            IF v # "Ok" THEN Outcome(v, snapshot)
            ELSE IF header.extra # "Ok" THEN Outcome(header.extra, snapshot)
            ELSE IF added # keys \/ ~ Removal(header).ok
            THEN Outcome("InvalidValidatorSetDiff", snapshot)
            ELSE IF ~ Addition(header).ok
            THEN Outcome("InvalidValidatorSetDiff", halved)
            ELSE Outcome("Ok", SnapshotOf(header, Addition(header).validators))
        BY <1>4, Zenon
           DEF insert_header, store_epoch_header, Removal, Addition
    <2>2. v \in Results
        BY <1>1 DEF Results
    <2>3. header.number \in U64
        BY <1>1, <1>4, MaxU64Assumption DEF U64
    <2>4. v = "Ok" => Verified(header, now)
        BY <1>4, Zenon DEF Verified
    <2> HIDE DEF v, outcome, halved, added, keys
    <2>5. CASE v # "Ok"
        <3>1. outcome.snapshot = snapshot /\ outcome.res = v
            BY <2>1, <2>5 DEF Outcome
        <3>2. QED
            BY <3>1, <2>2, <2>5 DEF Failed, outcome
    <2>6. CASE v = "Ok" /\ header.extra # "Ok"
        <3>1. outcome.snapshot = snapshot /\ outcome.res = header.extra
            BY <2>1, <2>6 DEF Outcome
        <3>2. QED
            BY <3>1, <1>1, <2>6 DEF Failed, Results, outcome
    <2>7. CASE /\ v = "Ok" /\ header.extra = "Ok"
               /\ added # keys \/ ~ Removal(header).ok
        <3>1. /\ outcome.snapshot = snapshot
              /\ outcome.res = "InvalidValidatorSetDiff"
            BY <2>1, <2>7 DEF Outcome
        <3>2. QED
            BY <3>1 DEF Failed, Results, outcome
    <2>8. CASE /\ v = "Ok" /\ header.extra = "Ok" /\ added = keys
               /\ Removal(header).ok /\ ~ Addition(header).ok
        <3>1. /\ outcome.snapshot = halved
              /\ outcome.res = "InvalidValidatorSetDiff"
            BY <2>1, <2>8 DEF Outcome
        <3>2. QED
            BY <3>1, <1>4, <2>4, <2>8, Zenon
               DEF HalfApplied, outcome, halved, added, keys
    <2>9. CASE /\ v = "Ok" /\ header.extra = "Ok" /\ added = keys
               /\ Removal(header).ok /\ Addition(header).ok
        <3>1. /\ outcome.snapshot
                    = SnapshotOf(header, Addition(header).validators)
              /\ outcome.res = "Ok"
            BY <2>1, <2>9 DEF Outcome
        <3>2. QED
            BY <3>1, <2>3, <2>4, <2>9, Zenon DEF Stored, outcome, added, keys
    <2>10. QED
        BY <2>5, <2>6, <2>7, <2>8, <2>9
<1>5. QED
    BY <1>2, <1>3, <1>4

-----------------------------------------------------------------------------
(* The validators a header adds are well formed and each named once.       *)
LEMMA AddedTypes ==
    ASSUME NEW header \in Headers,
           Len(header.added_validators)
                = Len(header.added_validators_public_keys)
    PROVE  /\ AddedValidators(header) \in Seq(Validator)
           /\ UniqueAddress(AddedValidators(header))
           /\ Addresses(AddedValidators(header)) =
                {header.added_validators[i] :
                    i \in DOMAIN header.added_validators}
<1> DEFINE addresses == header.added_validators
           keys == header.added_validators_public_keys
           added == AddedValidators(header)
<1>1. addresses \in Seq(Address) /\ keys \in Seq(PublicKey)
    BY HeadersAssumption
<1>2. \A i, j \in DOMAIN addresses : addresses[i] = addresses[j] => i = j
    BY AddedOnceAssumption
<1>3. added = [i \in DOMAIN addresses |->
                [address |-> addresses[i], public_key |-> keys[i]]]
    BY DEF AddedValidators
<1>4. Len(addresses) = Len(keys)
    OBVIOUS
<1> HIDE DEF addresses, keys, added
<1>5. /\ DOMAIN added = DOMAIN addresses
      /\ \A i \in DOMAIN addresses : added[i].address = addresses[i]
    BY <1>3
<1>6. added \in Seq(Validator)
    <2>1. DOMAIN addresses = 1..Len(addresses) /\ Len(addresses) \in Nat
        BY <1>1
    <2>2. ASSUME NEW i \in 1..Len(addresses)
          PROVE  [address |-> addresses[i], public_key |-> keys[i]]
                    \in Validator
        <3>1. addresses[i] \in Address
            BY <1>1
        <3>2. keys[i] \in PublicKey
            BY <1>1, <1>4
        <3>3. QED
            BY <3>1, <3>2 DEF Validator
    <2>3. added \in [1..Len(addresses) -> Validator]
        BY <1>3, <2>1, <2>2
    <2>4. QED
        BY <2>1, <2>3
<1>7. UniqueAddress(added)
    BY <1>2, <1>5 DEF UniqueAddress
<1>8. Addresses(added) = {addresses[i] : i \in DOMAIN addresses}
    BY <1>5 DEF Addresses
<1>9. QED
    BY <1>6, <1>7, <1>8 DEF addresses, added

IInv == TypeOK /\ UniqueAddresses

(* What removal and addition of a header's diff leave behind. *)
LEMMA DiffTypes ==
    ASSUME IInv, NEW header \in Headers
    PROVE  /\ Removal(header).validators \in Seq(Validator)
           /\ UniqueAddress(Removal(header).validators)
           /\ Len(header.added_validators)
                    = Len(header.added_validators_public_keys) =>
                /\ Addition(header).validators \in Seq(Validator)
                /\ UniqueAddress(Addition(header).validators)
<1>1. snapshot.validators \in Seq(Validator)
    BY DEF IInv, TypeOK
<1>2. UniqueAddress(snapshot.validators)
    BY DEF IInv, UniqueAddresses
<1>3. /\ Removal(header).validators \in Seq(Validator)
      /\ UniqueAddress(Removal(header).validators)
    BY <1>1, <1>2, RemoveKeepsType DEF Removal
<1>4. ASSUME Len(header.added_validators)
                = Len(header.added_validators_public_keys)
      PROVE  /\ Addition(header).validators \in Seq(Validator)
             /\ UniqueAddress(Addition(header).validators)
    <2>1. /\ AddedValidators(header) \in Seq(Validator)
          /\ UniqueAddress(AddedValidators(header))
        BY <1>4, AddedTypes
    <2>2. QED
        BY <1>3, <2>1, AddKeepsType DEF Addition
<1>5. QED
    BY <1>3, <1>4

(* Storing a header keeps the invariant. *)
LEMMA StoredTypes ==
    ASSUME NEW header \in Headers, header.number \in U64,
           NEW validators \in Seq(Validator), UniqueAddress(validators),
           snapshot' = SnapshotOf(header, validators), result' \in Results
    PROVE  IInv'
<1>1. header.time \in U64
    BY HeadersAssumption
<1>2. /\ snapshot' = [number |-> header.number, timestamp |-> header.time,
                      validators |-> validators, hash |-> hash(header),
                      aggregated_seal |-> header.aggregated_seal]
    BY DEF SnapshotOf
<1>3. hash(header) \in {<<>>} \cup {hash(h) : h \in Headers}
    OBVIOUS
<1>4. header.aggregated_seal
        \in {NoSeal} \cup {h.aggregated_seal : h \in Headers}
    OBVIOUS
<1>5. TypeOK'
    BY <1>1, <1>2, <1>3, <1>4 DEF TypeOK
<1>6. snapshot'.validators = validators
    BY <1>2
<1>7. QED
    BY <1>5, <1>6 DEF IInv, UniqueAddresses

(* Replacing the validators alone keeps the invariant. *)
LEMMA ReplacedTypes ==
    ASSUME IInv, NEW validators \in Seq(Validator), UniqueAddress(validators),
           snapshot' = [snapshot EXCEPT !.validators = validators],
           result' \in Results
    PROVE  IInv'
<1>1. snapshot'.validators = validators
    BY DEF IInv, TypeOK
<1>2. TypeOK'
    BY DEF IInv, TypeOK
<1>3. QED
    BY <1>1, <1>2 DEF IInv, UniqueAddresses

(* The empty state satisfies the invariant.                                *)
LEMMA InitIInv == Init => IInv
<1> SUFFICES ASSUME Init PROVE IInv
    OBVIOUS
<1>1. snapshot.validators = <<>>
    BY DEF Init, EmptySnapshot
<1>2. UniqueAddresses
    BY <1>1 DEF UniqueAddresses, UniqueAddress
<1>3. TypeOK
    BY MaxU64Assumption DEF Init, EmptySnapshot, TypeOK, U64, Results
<1>4. QED
    BY <1>2, <1>3 DEF IInv

(* Every method keeps it.                                                  *)
LEMMA NextIInv == IInv /\ [Next]_vars => IInv'
<1> SUFFICES ASSUME IInv, [Next]_vars PROVE IInv'
    OBVIOUS
<1>0. /\ snapshot.validators \in Seq(Validator)
      /\ UniqueAddress(snapshot.validators)
    BY DEF IInv, TypeOK, UniqueAddresses
<1>1. ASSUME snapshot' = snapshot, result' \in Results
      PROVE  IInv'
    BY <1>1 DEF IInv, TypeOK, UniqueAddresses
<1>2. ASSUME NEW header \in Headers, NEW now \in Timestamps,
             InsertHeader(header, now)
      PROVE  IInv'
    <2> DEFINE outcome == insert_header(Config, snapshot, header, now)
    <2>1. snapshot' = outcome.snapshot /\ result' = outcome.res
        BY <1>2 DEF InsertHeader
    <2>2. \/ Failed(outcome)
          \/ HalfApplied(outcome, header)
          \/ Stored(outcome, header)
        BY InsertOutcome
    <2> HIDE DEF outcome
    <2>3. CASE Failed(outcome)
        BY <1>1, <2>1, <2>3 DEF Failed
    <2>4. CASE HalfApplied(outcome, header)
        <3>1. /\ snapshot' = [snapshot EXCEPT !.validators =
                                                Removal(header).validators]
              /\ result' \in Results
            BY <2>1, <2>4 DEF HalfApplied, Results
        <3>2. QED
            BY <3>1, DiffTypes, ReplacedTypes
    <2>5. CASE Stored(outcome, header)
        <3>1. header.number \in U64 /\ result' \in Results
            BY <2>1, <2>5 DEF Stored, Results
        <3>2. CASE snapshot' = SnapshotOf(header, snapshot.validators)
            BY <1>0, <3>1, <3>2, StoredTypes
        <3>3. CASE /\ Len(header.added_validators)
                        = Len(header.added_validators_public_keys)
                   /\ snapshot'
                        = SnapshotOf(header, Addition(header).validators)
            BY <3>1, <3>3, DiffTypes, StoredTypes
        <3>4. QED
            BY <2>1, <2>5, <3>2, <3>3 DEF Stored
    <2>6. QED
        BY <2>2, <2>3, <2>4, <2>5
<1>3. ASSUME NEW header \in Headers, NEW now \in Timestamps,
             VerifyHeader(header, now)
      PROVE  IInv'
    BY <1>1, <1>3, HeaderVerdict DEF VerifyHeader
<1>4. ASSUME NEW header \in Headers, VerifyHeaderSeal(header)
      PROVE  IInv'
    <2>1. verify_header_seal(snapshot, header) \in Results
        <3>1. header.extra \in {"Ok", "RlpDecodeError", "Panic"}
            BY HeadersAssumption
        <3>2. QED
            BY <3>1, SealVerdict
               DEF verify_header_seal, SealVerdicts, Results
    <2>2. QED
        BY <1>1, <1>4, <2>1 DEF VerifyHeaderSeal
<1>5. ASSUME NEW validators \in ValidatorLists, AddValidators(validators)
      PROVE  IInv'
    <2> DEFINE addition == add_validators(snapshot.validators, validators)
    <2>1. validators \in Seq(Validator) /\ UniqueAddress(validators)
        BY ArgumentsAssumption, AddedOnceAssumption
    <2>2. /\ addition.validators \in Seq(Validator)
          /\ UniqueAddress(addition.validators)
        BY <1>0, <2>1, AddKeepsType
    <2>3. /\ snapshot' = [snapshot EXCEPT !.validators = addition.validators]
          /\ result' \in Results
        BY <1>5 DEF AddValidators, Results
    <2> HIDE DEF addition
    <2>4. QED
        BY <2>2, <2>3, ReplacedTypes
<1>6. ASSUME NEW bitmap \in Bitmaps, RemoveValidators(bitmap)
      PROVE  IInv'
    <2> DEFINE removal == remove_validators(snapshot.validators, bitmap)
    <2>1. /\ removal.validators \in Seq(Validator)
          /\ UniqueAddress(removal.validators)
        BY <1>0, RemoveKeepsType
    <2>2. /\ snapshot' = [snapshot EXCEPT !.validators = removal.validators]
          /\ result' \in Results
        BY <1>6 DEF RemoveValidators, Results
    <2> HIDE DEF removal
    <2>3. QED
        BY <2>1, <2>2, ReplacedTypes
<1>7. CASE UNCHANGED vars
    BY <1>7 DEF vars, IInv, TypeOK, UniqueAddresses
<1>8. QED
    BY <1>2, <1>3, <1>4, <1>5, <1>6, <1>7 DEF Next

(* The type invariant of the library's state, for every configuration and  *)
(* every set of headers.                                                   *)
THEOREM TypeCorrect == Spec => []TypeOK
<1>1. IInv => TypeOK
    BY DEF IInv
<1>2. QED
    BY <1>1, InitIInv, NextIInv, PTL DEF Spec

(* No sequence of calls gives one address two places in the validator set  *)
(* (state.rs:28-68), provided no single list names an address twice.       *)
THEOREM AddressesStayUnique == Spec => []UniqueAddresses
<1>1. IInv => UniqueAddresses
    BY DEF IInv
<1>2. QED
    BY <1>1, InitIInv, NextIInv, PTL DEF Spec

-----------------------------------------------------------------------------
(* When all seals are checked, a step that moves the head stores a header  *)
(* that passed verify_header, or the genesis header.                       *)
LEMMA MovedHead ==
    ASSUME IInv, [Next]_vars, HeadMoves, SealsChecked
    PROVE  \E header \in Headers :
             /\ header.number \in U64 /\ header.time \in U64
             /\ snapshot'.number = header.number
             /\ snapshot'.timestamp = header.time
             /\ snapshot'.hash = hash(header)
             /\ snapshot'.aggregated_seal = header.aggregated_seal
             /\ \/ header.number = 0
                \/ /\ ~ (header.number <= snapshot.number)
                   /\ Config.verify_header_timestamp =>
                        ~ (header.time <= snapshot.timestamp)
                   /\ QuorumSigned(hash(header), snapshot.validators,
                                   header.aggregated_seal)
<1>0. snapshot'.hash # snapshot.hash
    BY DEF HeadMoves
<1>1. ASSUME NEW validators,
             snapshot' = [snapshot EXCEPT !.validators = validators]
      PROVE  FALSE
    BY <1>0, <1>1 DEF IInv, TypeOK
<1>2. PICK header \in Headers, now \in Timestamps : InsertHeader(header, now)
    BY <1>0, <1>1
       DEF Next, vars, VerifyHeader, VerifyHeaderSeal, AddValidators,
           RemoveValidators
<1> DEFINE outcome == insert_header(Config, snapshot, header, now)
<1>3. snapshot' = outcome.snapshot
    BY <1>2 DEF InsertHeader
<1>4. \/ Failed(outcome)
      \/ HalfApplied(outcome, header)
      \/ Stored(outcome, header) /\ Verified(header, now)
    BY InsertOutcome
<1> HIDE DEF outcome
<1>5. Stored(outcome, header) /\ Verified(header, now)
    BY <1>0, <1>1, <1>3, <1>4 DEF Failed, HalfApplied
<1>6. \E validators : snapshot' = SnapshotOf(header, validators)
    BY <1>3, <1>5 DEF Stored
<1>7. /\ snapshot'.number = header.number
      /\ snapshot'.timestamp = header.time
      /\ snapshot'.hash = hash(header)
      /\ snapshot'.aggregated_seal = header.aggregated_seal
    BY <1>6 DEF SnapshotOf
<1>8. header.number \in U64 /\ header.time \in U64
    BY <1>5, HeadersAssumption DEF Stored
<1>9. header.number # 0 =>
        verify_header(Config, snapshot, header, now) = "Ok"
    BY <1>5 DEF Verified, SealsChecked
<1>10. QED
    BY <1>7, <1>8, <1>9, HeaderVerdict

(* The head moves forward, in height and in time: "assert header height is *)
(* newer than any we know" (state.rs:71) holds of insert_header, for every *)
(* stream of headers, up to the genesis block.                             *)
THEOREM HeadAdvances == Spec => HeadOnlyAdvances
<1>1. ASSUME IInv, [Next]_vars, SealsChecked, HeadMoves
      PROVE  \/ snapshot'.number = 0
             \/ /\ snapshot'.number > snapshot.number
                /\ Config.verify_header_timestamp =>
                    snapshot'.timestamp > snapshot.timestamp
    <2>1. snapshot.number \in U64 /\ snapshot.timestamp \in U64
        BY <1>1 DEF IInv, TypeOK
    <2>2. /\ snapshot'.number \in U64 /\ snapshot'.timestamp \in U64
          /\ \/ snapshot'.number = 0
             \/ /\ ~ (snapshot'.number <= snapshot.number)
                /\ Config.verify_header_timestamp =>
                    ~ (snapshot'.timestamp <= snapshot.timestamp)
        BY <1>1, MovedHead
    <2>3. QED
        BY <2>1, <2>2, MaxU64Assumption DEF U64
<1>2. IInv /\ [Next]_vars =>
        [SealsChecked /\ HeadMoves =>
            \/ snapshot'.number = 0
            \/ /\ snapshot'.number > snapshot.number
               /\ Config.verify_header_timestamp =>
                    snapshot'.timestamp > snapshot.timestamp]_vars
    BY <1>1
<1>3. QED
    BY <1>2, InitIInv, NextIInv, PTL DEF Spec, HeadOnlyAdvances

(* Every new head but the genesis block carries the commitment of two      *)
(* thirds of the set that was in force before it.                          *)
THEOREM HeadsAreSealed == Spec => SealedByPriorSet
<1>1. ASSUME IInv, [Next]_vars, SealsChecked, HeadMoves, snapshot'.number # 0
      PROVE  LET seal == snapshot'.aggregated_seal
                 signers == Signers(snapshot.validators, seal.bitmap)
             IN  /\ 3 * Cardinality(signers) >= 2 * Len(snapshot.validators)
                 /\ seal.signature =
                    [of |-> prepare_commited_seal(snapshot'.hash, seal.round),
                     by |-> aggregate(snapshot.validators, signers)]
    <2> DEFINE seal == snapshot'.aggregated_seal
               signers == Signers(snapshot.validators, seal.bitmap)
               n == Len(snapshot.validators)
               c == Cardinality(signers)
    <2>1. QuorumSigned(snapshot'.hash, snapshot.validators, seal)
        BY <1>1, MovedHead
    <2>2. snapshot.validators \in Seq(Validator)
        BY <1>1 DEF IInv, TypeOK
    <2>3. n \in Nat /\ n # 0
        BY <2>1, <2>2 DEF QuorumSigned
    <2>4. c \in Nat
        BY <2>2, SignersCount
    <2>5. ~ (c < ((2 * n) - 1 + 3) \div 3)
        BY <2>1 DEF QuorumSigned, min_quorum_size
    <2>6. seal.signature =
            [of |-> prepare_commited_seal(snapshot'.hash, seal.round),
             by |-> aggregate(snapshot.validators, signers)]
        BY <2>1 DEF QuorumSigned
    <2> HIDE DEF n, c
    <2>7. 3 * c >= 2 * n
        BY <2>3, <2>4, <2>5
    <2>8. QED
        BY <2>6, <2>7 DEF n, c
<1>2. IInv /\ [Next]_vars =>
        [SealsChecked /\ HeadMoves /\ snapshot'.number # 0 =>
            LET seal == snapshot'.aggregated_seal
                signers == Signers(snapshot.validators, seal.bitmap)
            IN  /\ 3 * Cardinality(signers) >= 2 * Len(snapshot.validators)
                /\ seal.signature =
                    [of |-> prepare_commited_seal(snapshot'.hash, seal.round),
                     by |-> aggregate(snapshot.validators, signers)]]_vars
    BY <1>1
<1>3. QED
    BY <1>2, InitIInv, NextIInv, PTL DEF Spec, SealedByPriorSet

-----------------------------------------------------------------------------
(* How much of a diff a failed insertion may leave applied. *)
OnlyRemoved ==
    \E h \in Headers :
        /\ is_last_block_of_epoch(h.number, Config.epoch_size)
        /\ \A bit \in h.removed_validators : bit < Len(snapshot.validators)
        /\ Addresses(snapshot'.validators)
             \cap {h.added_validators[i] : i \in DOMAIN h.added_validators}
                # {}
        /\ snapshot'.validators =
            filtered_validators(snapshot.validators, h.removed_validators)

HeadKept ==
    [snapshot' EXCEPT !.validators = <<>>]
        = [snapshot EXCEPT !.validators = <<>>]

(* A diff that is refused after its removals leaves exactly the survivors. *)
LEMMA HalfAppliedKeepsRest ==
    ASSUME IInv, NEW header \in Headers, NEW outcome,
           snapshot' = outcome.snapshot, HalfApplied(outcome, header)
    PROVE  /\ HeadKept
           /\ snapshot'.validators = snapshot.validators \/ OnlyRemoved
<1> DEFINE removed == header.removed_validators
           validators == snapshot.validators
           over == \E bit \in removed : bit >= Len(validators)
           filtered == filtered_validators(validators, removed)
           named == {header.added_validators[i] :
                        i \in DOMAIN header.added_validators}
           diff == AddedValidators(header)
           removal == Removal(header)
           addition == Addition(header)
<1>1. /\ is_last_block_of_epoch(header.number, Config.epoch_size)
      /\ removal.ok /\ ~ addition.ok
      /\ snapshot' = [snapshot EXCEPT !.validators = removal.validators]
    BY DEF HalfApplied
<1>2. snapshot'.validators = removal.validators
    BY <1>1 DEF IInv, TypeOK
<1>3. HeadKept
    BY <1>1 DEF HeadKept, IInv, TypeOK
<1>4. removal = IF removed = {} THEN [ok |-> TRUE, validators |-> validators]
                ELSE IF over THEN [ok |-> FALSE, validators |-> validators]
                ELSE [ok |-> TRUE, validators |-> filtered]
    BY Zenon DEF Removal, remove_validators
<1>5. Addresses(removal.validators) \cap named # {}
    <2>1. Addresses(diff) = named
        BY AddedTypes DEF HalfApplied
    <2>2. addition = IF Addresses(removal.validators) \cap Addresses(diff) # {}
                     THEN [ok |-> FALSE, validators |-> removal.validators]
                     ELSE [ok |-> TRUE,
                           validators |-> removal.validators \o diff]
        BY Zenon DEF Addition, add_validators
    <2> HIDE DEF addition, removal, diff, named
    <2>3. QED
        BY <1>1, <2>1, <2>2
<1>6. ~ over => \A bit \in removed : bit < Len(validators)
    <2>1. /\ removed \in SUBSET Nat
          /\ Len(validators) \in Nat
        BY HeadersAssumption DEF IInv, TypeOK
    <2> HIDE DEF removed, validators
    <2>2. QED
        BY <2>1 DEF over
<1>7. \/ removal.validators = validators
      \/ ~ over /\ removal.validators = filtered
    <2> HIDE DEF removal, over, filtered, validators, removed
    <2>1. QED
        BY <1>1, <1>4
<1>8. CASE ~ over /\ removal.validators = filtered
    BY <1>1, <1>2, <1>3, <1>5, <1>6, <1>8, Zenon DEF OnlyRemoved
<1>9. QED
    BY <1>2, <1>3, <1>7, <1>8

(* A refused call never leaves a step of the head half taken; what it can  *)
(* leave behind is the set without the validators the header removes       *)
(* (state.rs:174-188), and then an address the header adds is still there. *)
THEOREM FailuresKeepHead == Spec => FailureKeepsHead
<1>1. ASSUME IInv, [Next]_vars, result' # "Ok", vars' # vars
      PROVE  /\ HeadKept
             /\ snapshot'.validators = snapshot.validators \/ OnlyRemoved
    <2>1. CASE snapshot' = snapshot
        BY <2>1 DEF HeadKept
    <2>2. ASSUME NEW header \in Headers, NEW now \in Timestamps,
                 InsertHeader(header, now)
          PROVE  /\ HeadKept
                 /\ snapshot'.validators = snapshot.validators \/ OnlyRemoved
        <3> DEFINE outcome == insert_header(Config, snapshot, header, now)
        <3>1. snapshot' = outcome.snapshot /\ result' = outcome.res
            BY <2>2 DEF InsertHeader
        <3>2. \/ Failed(outcome)
              \/ HalfApplied(outcome, header)
              \/ Stored(outcome, header)
            BY InsertOutcome
        <3> HIDE DEF outcome
        <3>3. CASE Failed(outcome)
            BY <2>1, <3>1, <3>3 DEF Failed
        <3>4. CASE HalfApplied(outcome, header)
            BY <1>1, <3>1, <3>4, HalfAppliedKeepsRest
        <3>5. ~ Stored(outcome, header)
            BY <1>1, <3>1 DEF Stored
        <3>6. QED
            BY <3>2, <3>3, <3>4, <3>5
    <2>3. ASSUME NEW call, result' = IF call.ok THEN "Ok" ELSE "Refused",
                 ~ call.ok => call.validators = snapshot.validators,
                 snapshot' =
                    [snapshot EXCEPT !.validators = call.validators]
          PROVE  snapshot' = snapshot
        <3>1. call.validators = snapshot.validators
            BY <1>1, <2>3
        <3>2. QED
            BY <1>1, <2>3, <3>1 DEF IInv, TypeOK
    <2>4. ASSUME NEW validators \in ValidatorLists, AddValidators(validators)
          PROVE  snapshot' = snapshot
        <3>1. /\ snapshot.validators \in Seq(Validator)
              /\ validators \in Seq(Validator)
            BY <1>1, ArgumentsAssumption DEF IInv, TypeOK
        <3>2. ~ add_validators(snapshot.validators, validators).ok =>
                add_validators(snapshot.validators, validators).validators
                    = snapshot.validators
            BY <3>1, AddKeepsType
        <3>3. QED
            BY <2>3, <2>4, <3>2 DEF AddValidators
    <2>5. ASSUME NEW bitmap \in Bitmaps, RemoveValidators(bitmap)
          PROVE  snapshot' = snapshot
        <3>1. snapshot.validators \in Seq(Validator)
            BY <1>1 DEF IInv, TypeOK
        <3>2. ~ remove_validators(snapshot.validators, bitmap).ok =>
                remove_validators(snapshot.validators, bitmap).validators
                    = snapshot.validators
            BY <3>1, RemoveKeepsType
        <3>3. QED
            BY <2>3, <2>5, <3>2 DEF RemoveValidators
    <2>6. QED
        BY <1>1, <2>1, <2>2, <2>4, <2>5
           DEF Next, VerifyHeader, VerifyHeaderSeal
<1>2. IInv /\ [Next]_vars =>
        [result' # "Ok" =>
            /\ HeadKept
            /\ snapshot'.validators = snapshot.validators \/ OnlyRemoved]_vars
    BY <1>1
<1>3. QED
    BY <1>2, InitIInv, NextIInv, PTL
       DEF Spec, FailureKeepsHead, HeadKept, OnlyRemoved

-----------------------------------------------------------------------------
(* Numbers and their bytes (num_bigint, rlp.rs:29-43).                     *)

(* The sums in Number, one per prefix of the digits. *)
IsSums(sums, digits, base) ==
    /\ sums \in [0..Len(digits) -> Nat]
    /\ sums[0] = 0
    /\ \A n \in 1..Len(digits) : sums[n] = sums[n - 1] * base + digits[n]

(* Number is the last of its sums.                                         *)
LEMMA NumberIsSum ==
    ASSUME NEW digits \in Seq(Nat), NEW base \in Nat
    PROVE  \E sums : /\ IsSums(sums, digits, base)
                     /\ Number(digits, base) = sums[Len(digits)]
<1> DEFINE L == Len(digits)
           p == [n \in Nat |-> IF n = 0 THEN 0 ELSE n - 1]
           g == [x \in Nat \X Nat |->
                    IF x[1] \in 1..L THEN x[2] * base + digits[x[1]] ELSE 0]
           Value(v) == [n \in 0..L |-> IF n = 0 THEN 0
                                       ELSE v[n - 1] * base + digits[n]]
           value == CHOOSE v : v = Value(v)
<1>1. L \in Nat /\ \A n \in 1..L : digits[n] \in Nat
    BY LenProperties, ElementOfSeq
<1>2. p \in [Nat -> Nat] /\ \A n \in Nat : n # 0 => p[n] < n
    OBVIOUS
<1>3. g \in [Nat \X Nat -> Nat]
    <2>1. ASSUME NEW x \in Nat \X Nat
          PROVE  (IF x[1] \in 1..L THEN x[2] * base + digits[x[1]] ELSE 0)
                    \in Nat
        <3>1. x[1] \in Nat /\ x[2] \in Nat
            BY <2>1
        <3>2. x[2] * base \in Nat
            BY <3>1
        <3> QED BY <1>1, <3>1, <3>2
    <2> QED BY <2>1
<1>4. PICK f \in [Nat -> Nat] : IsRecursive(f, 0, p, g)
    <2>1. 0 \in Nat
        OBVIOUS
    <2> HIDE DEF p, g
    <2> QED BY <1>2, <1>3, <2>1, RecursionExists, Zenon
<1> DEFINE v == [n \in 0..L |-> f[n]]
<1>5. v = Value(v)
    <2>1. ASSUME NEW n \in 0..L, n # 0
          PROVE  f[n] = v[n - 1] * base + digits[n]
        <3>1. n \in Nat /\ n - 1 \in Nat /\ n - 1 \in 0..L /\ n \in 1..L
            BY <1>1, <2>1
        <3>2. p[n] = n - 1
            BY <3>1, <2>1
        <3>3. f[n] = g[<<n, f[n - 1]>>]
            <4> HIDE DEF p, g
            <4>1. f[n] = g[<<n, f[p[n]]>>]
                BY <1>4, <3>1, <2>1 DEF IsRecursive
            <4> QED BY <4>1, <3>2
        <3>4. f[n - 1] \in Nat
            BY <3>1
        <3>5. <<n, f[n - 1]>> \in Nat \X Nat
            BY <3>1, <3>4
        <3>6. g[<<n, f[n - 1]>>] = f[n - 1] * base + digits[n]
            BY <3>1, <3>5
        <3> QED BY <3>1, <3>3, <3>6
    <2>2. f[0] = 0
        BY <1>4 DEF IsRecursive
    <2> QED BY <2>1, <2>2
<1>6. value = Value(value)
    <2> HIDE DEF Value, v
    <2> QED BY <1>5
<1>7. Number(digits, base) = value[L]
    BY DEF Number
<1> HIDE DEF value
<1>8. value[0] = 0 /\ \A n \in 1..L : value[n] = value[n - 1] * base + digits[n]
    <2>1. 0 \in 0..L
        BY <1>1
    <2>2. value = Value(value)
        BY <1>6
    <2>3. value[0] = 0
        BY <2>1, <2>2
    <2>4. ASSUME NEW n \in 1..L
          PROVE  value[n] = value[n - 1] * base + digits[n]
        <3>1. n \in 0..L /\ n # 0
            BY <1>1
        <3> QED BY <2>2, <3>1
    <2> QED BY <2>3, <2>4
<1>9. \A n \in 0..L : value[n] \in Nat
    <2> DEFINE Bad == {n \in Nat : n <= L /\ value[n] \notin Nat}
    <2>1. /\ Bad \in SUBSET Nat
          /\ Bad = {} => \A n \in 0..L : value[n] \in Nat
        <3>1. \A n \in 0..L : n \in Nat /\ n <= L
            BY <1>1
        <3> QED BY <3>1
    <2> HIDE DEF Bad
    <2> SUFFICES ASSUME Bad # {} PROVE FALSE
        BY <2>1
    <2>2. PICK m \in Bad : \A y \in Bad : m <= y
        BY <2>1, LeastNatural
    <2>3. m \in Nat /\ m <= L /\ value[m] \notin Nat
        BY <2>2 DEF Bad
    <2>4. m # 0
        BY <2>3, <1>8
    <2>5. m - 1 \in Nat /\ m - 1 <= L /\ m \in 1..L /\ ~ (m <= m - 1)
        BY <2>3, <2>4, <1>1
    <2>6. value[m - 1] \in Nat
        <3>1. m - 1 \notin Bad
            BY <2>2, <2>5
        <3> QED BY <3>1, <2>5 DEF Bad
    <2>7. value[m] = value[m - 1] * base + digits[m] /\ digits[m] \in Nat
        BY <2>5, <1>8, <1>1
    <2>8. value[m - 1] * base \in Nat
        <3>1. \A c \in Nat : c * base \in Nat
            OBVIOUS
        <3> QED BY <3>1, <2>6
    <2> DEFINE x == value[m - 1] * base
               y == digits[m]
    <2>9. x + y \in Nat
        <3>1. x \in Nat /\ y \in Nat
            BY <2>7, <2>8
        <3> HIDE DEF x, y
        <3> QED BY <3>1
    <2> QED BY <2>3, <2>7, <2>9
<1>10. value \in [0..L -> Nat]
    BY <1>6, <1>9
<1> QED BY <1>7, <1>8, <1>10 DEF IsSums

(* The sums of a prefix are those of the whole. *)
LEMMA SumsAgree ==
    ASSUME NEW s, NEW t, NEW base \in Nat, NEW v, NEW w,
           Len(s) \in Nat, Len(t) \in Nat, Len(s) <= Len(t),
           \A i \in 1..Len(s) : s[i] = t[i],
           IsSums(v, s, base), IsSums(w, t, base)
    PROVE  v[Len(s)] = w[Len(s)]
<1> DEFINE D == {n \in Nat : n <= Len(s) /\ v[n] # w[n]}
<1>1. D \in SUBSET Nat /\ (Len(s) \notin D => v[Len(s)] = w[Len(s)])
    OBVIOUS
<1> HIDE DEF D
<1> SUFFICES ASSUME D # {} PROVE FALSE
    BY <1>1
<1>2. PICK m \in D : \A y \in D : m <= y
    BY <1>1, LeastNatural
<1>3. m \in Nat /\ m <= Len(s) /\ v[m] # w[m]
    BY <1>2 DEF D
<1>4. m # 0
    BY <1>3 DEF IsSums
<1>5. m - 1 \in Nat /\ m - 1 <= Len(s) /\ m \in 1..Len(s) /\ m \in 1..Len(t)
      /\ ~ (m <= m - 1)
    BY <1>3, <1>4
<1>6. v[m - 1] = w[m - 1]
    <2>1. m - 1 \notin D
        BY <1>2, <1>5
    <2> QED BY <2>1, <1>5 DEF D
<1>7. v[m] = v[m - 1] * base + s[m] /\ w[m] = w[m - 1] * base + t[m]
    BY <1>5 DEF IsSums
<1> QED BY <1>3, <1>5, <1>6, <1>7

(* Digits write a number, no digits write 0.                               *)
LEMMA NumberType ==
    ASSUME NEW digits \in Seq(Nat), NEW base \in Nat
    PROVE  /\ Number(digits, base) \in Nat
           /\ Number(<<>>, base) = 0
<1>1. PICK sums : /\ IsSums(sums, digits, base)
                  /\ Number(digits, base) = sums[Len(digits)]
    BY NumberIsSum
<1>2. Len(digits) \in 0..Len(digits)
    BY LenProperties
<1>3. <<>> \in Seq(Nat) /\ Len(<<>>) = 0
    OBVIOUS
<1>4. PICK none : IsSums(none, <<>>, base) /\ Number(<<>>, base) = none[0]
    BY NumberIsSum, <1>3
<1> QED BY <1>1, <1>2, <1>4 DEF IsSums

(* One digit more. *)
LEMMA NumberAppend ==
    ASSUME NEW digits \in Seq(Nat), NEW base \in Nat, NEW digit \in Nat
    PROVE  Number(Append(digits, digit), base)
                = Number(digits, base) * base + digit
<1> DEFINE longer == Append(digits, digit)
<1>1. /\ longer \in Seq(Nat) /\ Len(digits) \in Nat
      /\ Len(longer) = Len(digits) + 1
      /\ \A i \in 1..Len(digits) : digits[i] = longer[i]
      /\ longer[Len(digits) + 1] = digit
    BY AppendProperties, LenProperties
<1> HIDE DEF longer
<1>2. PICK v : IsSums(v, digits, base) /\ Number(digits, base) = v[Len(digits)]
    BY NumberIsSum
<1>3. PICK w : IsSums(w, longer, base) /\ Number(longer, base) = w[Len(longer)]
    BY NumberIsSum, <1>1
<1>4. v[Len(digits)] = w[Len(digits)]
    BY <1>1, <1>2, <1>3, SumsAgree
<1>5. Len(longer) \in 1..Len(longer) /\ Len(longer) - 1 = Len(digits)
    BY <1>1
<1>6. w[Len(longer)] = w[Len(digits)] * base + digit
    BY <1>1, <1>3, <1>5 DEF IsSums
<1> QED BY <1>2, <1>3, <1>4, <1>6 DEF longer

(* The bytes that mean a number.                                           *)
ByteValues == {Byte(b) : b \in 0..ByteBase - 1}

(* A byte that means a number means its own.                               *)
LEMMA ByteIs ==
    ASSUME NEW b \in 0..ByteBase - 1
    PROVE  Byte(b) \in ByteValues /\ Byte(b)[2] = b
BY DEF Byte, ByteValues

(* The recursion by which to_bytes_be is modelled has a solution: the      *)
(* bytes of a number are those of its quotient by the base, and one more.  *)
LEMMA BytesOfNumber ==
    /\ bytes_be[0] = <<>>
    /\ \A n \in Nat \ {0} :
        bytes_be[n] = Append(bytes_be[n \div ByteBase], Byte(n % ByteBase))
    /\ \A n \in Nat : bytes_be[n] \in Seq(ByteValues)
<1> DEFINE D == Seq(ByteValues)
           p == [n \in Nat |-> IF n = 0 THEN 0 ELSE n \div ByteBase]
           g == [x \in Nat \X D |-> Append(x[2], Byte(x[1] % ByteBase))]
           Value(f) == [n \in Nat |-> IF n = 0 THEN <<>>
                        ELSE Append(f[n \div ByteBase], Byte(n % ByteBase))]
<1>1. /\ ByteBase \in Nat /\ ByteBase >= 2
      /\ \A n \in Nat : /\ n \div ByteBase \in Nat
                        /\ n % ByteBase \in 0..ByteBase - 1
                        /\ n # 0 => n \div ByteBase < n
    BY CodecAssumption, Division
<1>2. p \in [Nat -> Nat] /\ \A n \in Nat : n # 0 => p[n] < n
    BY <1>1
<1>3. g \in [Nat \X D -> D]
    <2>1. ASSUME NEW x \in Nat \X D
          PROVE  Append(x[2], Byte(x[1] % ByteBase)) \in D
        <3>1. x[1] \in Nat /\ x[2] \in D
            BY <2>1
        <3>2. Byte(x[1] % ByteBase) \in ByteValues
            BY <3>1, <1>1, ByteIs
        <3> QED BY <3>1, <3>2, AppendProperties
    <2> QED BY <2>1
<1>4. PICK f \in [Nat -> D] : IsRecursive(f, <<>>, p, g)
    <2>1. <<>> \in D
        OBVIOUS
    <2> HIDE DEF D, p, g
    <2> QED BY <1>2, <1>3, <2>1, RecursionExists, Zenon
<1>5. f = Value(f)
    <2>1. ASSUME NEW n \in Nat, n # 0
          PROVE  f[n] = Append(f[n \div ByteBase], Byte(n % ByteBase))
        <3>1. p[n] = n \div ByteBase
            BY <2>1
        <3>2. f[n] = g[<<n, f[p[n]]>>]
            <4> HIDE DEF p, g, D
            <4> QED BY <1>4, <2>1 DEF IsRecursive
        <3>3. f[p[n]] \in D
            BY <1>2, <2>1
        <3>4. <<n, f[p[n]]>> \in Nat \X D
            BY <3>3
        <3> HIDE DEF D, p
        <3>5. g[<<n, f[p[n]]>>] = Append(f[p[n]], Byte(n % ByteBase))
            BY <3>4
        <3> QED BY <3>1, <3>2, <3>5
    <2>2. f[0] = <<>>
        BY <1>4 DEF IsRecursive
    <2> QED BY <2>1, <2>2
<1>6. bytes_be = Value(bytes_be)
    <2>1. bytes_be = CHOOSE h : h = Value(h)
        BY DEF bytes_be
    <2> HIDE DEF Value
    <2> QED BY <1>5, <2>1
<1>7. bytes_be[0] = <<>>
    BY <1>6
<1>8. ASSUME NEW n \in Nat \ {0}
      PROVE  bytes_be[n] = Append(bytes_be[n \div ByteBase],
                                  Byte(n % ByteBase))
    BY <1>6
<1>9. ASSUME NEW n \in Nat PROVE bytes_be[n] \in D
    <2> DEFINE Bad == {m \in Nat : bytes_be[m] \notin D}
    <2>1. Bad \in SUBSET Nat /\ (Bad = {} => bytes_be[n] \in D)
        BY <1>9
    <2> HIDE DEF Bad
    <2> SUFFICES ASSUME Bad # {} PROVE FALSE
        BY <2>1
    <2>2. PICK m \in Bad : \A y \in Bad : m <= y
        BY <2>1, LeastNatural
    <2>3. m \in Nat /\ bytes_be[m] \notin D
        BY <2>2 DEF Bad
    <2>4. m # 0
        <3>1. <<>> \in D
            OBVIOUS
        <3> QED BY <2>3, <1>7, <3>1
    <2>5. m \div ByteBase \in Nat /\ ~ (m <= m \div ByteBase)
        BY <2>3, <2>4, <1>1
    <2>6. bytes_be[m \div ByteBase] \in D
        BY <2>2, <2>5 DEF Bad
    <2>7. Byte(m % ByteBase) \in ByteValues
        BY <2>3, <1>1, ByteIs
    <2>8. bytes_be[m] = Append(bytes_be[m \div ByteBase], Byte(m % ByteBase))
        BY <1>8, <2>3, <2>4
    <2> QED BY <2>3, <2>6, <2>7, <2>8, AppendProperties
<1> QED BY <1>7, <1>8, <1>9

(* What a byte counts. *)
DigitsOf(bytes) ==
    [i \in DOMAIN bytes |->
        IF bytes[i] \in {Byte(b) : b \in 0..ByteBase - 1}
        THEN bytes[i][2] ELSE 1]

(* Every byte counts as a digit.                                           *)
LEMMA DigitsType ==
    ASSUME NEW S, NEW bytes \in Seq(S)
    PROVE  DigitsOf(bytes) \in Seq(Nat) /\ Len(DigitsOf(bytes)) = Len(bytes)
<1>1. Len(bytes) \in Nat /\ DOMAIN bytes = 1..Len(bytes)
    BY LenProperties
<1>2. ASSUME NEW i \in 1..Len(bytes)
      PROVE  (IF bytes[i] \in {Byte(b) : b \in 0..ByteBase - 1}
              THEN bytes[i][2] ELSE 1) \in Nat
    <2>1. CASE bytes[i] \in {Byte(b) : b \in 0..ByteBase - 1}
        <3>1. PICK b \in 0..ByteBase - 1 : bytes[i] = Byte(b)
            BY <2>1
        <3>2. bytes[i][2] = b /\ b \in Nat
            BY <3>1, ByteIs, CodecAssumption
        <3> QED BY <2>1, <3>2
    <2>2. CASE bytes[i] \notin {Byte(b) : b \in 0..ByteBase - 1}
        BY <2>2
    <2> QED BY <2>1, <2>2
<1>3. DigitsOf(bytes) \in [1..Len(bytes) -> Nat]
    BY <1>1, <1>2 DEF DigitsOf
<1> QED BY <1>1, <1>3

(* from_bytes_be makes a number of any bytes.                              *)
LEMMA NumberRead ==
    ASSUME NEW S, NEW bytes \in Seq(S)
    PROVE  from_bytes_be(bytes) \in Nat
<1>1. from_bytes_be(bytes) = Number(DigitsOf(bytes), ByteBase)
    BY DEF from_bytes_be, DigitsOf
<1> QED BY <1>1, DigitsType, NumberType, CodecAssumption

(* The digits of bytes with one more are theirs with one more.             *)
LEMMA DigitsAppend ==
    ASSUME NEW bytes \in Seq(ByteValues), NEW b \in 0..ByteBase - 1
    PROVE  DigitsOf(Append(bytes, Byte(b))) = Append(DigitsOf(bytes), b)
<1> DEFINE longer == Append(bytes, Byte(b))
<1>1. /\ longer \in Seq(ByteValues) /\ Len(bytes) \in Nat
      /\ Len(longer) = Len(bytes) + 1
      /\ \A i \in 1..Len(bytes) : longer[i] = bytes[i]
      /\ longer[Len(bytes) + 1] = Byte(b)
      /\ DOMAIN longer = 1..Len(bytes) + 1 /\ DOMAIN bytes = 1..Len(bytes)
    BY ByteIs, AppendProperties, LenProperties
<1> HIDE DEF longer
<1>2. /\ DigitsOf(bytes) \in Seq(Nat) /\ Len(DigitsOf(bytes)) = Len(bytes)
      /\ DigitsOf(longer) \in Seq(Nat) /\ Len(DigitsOf(longer)) = Len(longer)
    BY <1>1, DigitsType
<1>3. b \in Nat
    BY CodecAssumption
<1>4. /\ Append(DigitsOf(bytes), b) \in Seq(Nat)
      /\ Len(Append(DigitsOf(bytes), b)) = Len(bytes) + 1
      /\ \A i \in 1..Len(bytes) : Append(DigitsOf(bytes), b)[i]
                                        = DigitsOf(bytes)[i]
      /\ Append(DigitsOf(bytes), b)[Len(bytes) + 1] = b
    BY <1>2, <1>3, AppendProperties
<1>5. ASSUME NEW i \in 1..Len(longer)
      PROVE  DigitsOf(longer)[i] = Append(DigitsOf(bytes), b)[i]
    <2>1. CASE i \in 1..Len(bytes)
        <3>1. DigitsOf(longer)[i] = DigitsOf(bytes)[i]
            BY <1>1, <2>1 DEF DigitsOf
        <3> QED BY <3>1, <1>4, <2>1
    <2>2. CASE i = Len(bytes) + 1
        <3>1. longer[i] \in {Byte(c) : c \in 0..ByteBase - 1}
            BY <1>1, <2>2
        <3>2. DigitsOf(longer)[i] = longer[i][2]
            BY <3>1, <1>1, <2>2 DEF DigitsOf
        <3> QED BY <3>2, <1>1, <1>4, <2>2, ByteIs
    <2>3. i \in 1..Len(bytes) \/ i = Len(bytes) + 1
        BY <1>1
    <2> HIDE DEF longer
    <2> QED BY <2>1, <2>2, <2>3
<1> QED BY <1>1, <1>2, <1>4, <1>5, SeqEqual DEF longer

(* A number comes back from its bytes, which begin with no zero.           *)
LEMMA NumberSurvives ==
    ASSUME NEW n \in Nat
    PROVE  /\ from_bytes_be(big_int_to_rlp_compat_bytes(n)) = n
           /\ big_int_to_rlp_compat_bytes(n) \in Seq(ByteValues)
           /\ big_int_to_rlp_compat_bytes(n) # <<>>
                => big_int_to_rlp_compat_bytes(n)[1] # Byte(0)
           /\ n # 0 => big_int_to_rlp_compat_bytes(n) # <<>>
<1> DEFINE Back(m) == Number(DigitsOf(bytes_be[m]), ByteBase)
           Good(m) == /\ Back(m) = m
                      /\ m # 0 => /\ bytes_be[m] # <<>>
                                  /\ bytes_be[m][1] # Byte(0)
           Bad == {m \in Nat : ~ Good(m)}
<1>1. \A m \in Nat : bytes_be[m] \in Seq(ByteValues)
    BY BytesOfNumber
<1>2. bytes_be[0] = <<>>
    BY BytesOfNumber
<1>3. Bad \in SUBSET Nat /\ (Bad = {} => Good(n))
    OBVIOUS
<1>4. Bad = {}
    <2> HIDE DEF Bad
    <2> SUFFICES ASSUME Bad # {} PROVE FALSE
        OBVIOUS
    <2>1. PICK m \in Bad : \A y \in Bad : m <= y
        BY <1>3, LeastNatural
    <2>2. m \in Nat /\ ~ Good(m)
        BY <2>1 DEF Bad
    <2>3. m # 0
        <3> SUFFICES ASSUME m = 0 PROVE FALSE
            OBVIOUS
        <3>1. DigitsOf(<<>>) = <<>>
            <4>1. <<>> \in Seq(Nat) /\ Len(<<>>) = 0
                OBVIOUS
            <4>2. DigitsOf(<<>>) \in Seq(Nat) /\ Len(DigitsOf(<<>>)) = 0
                BY <4>1, DigitsType
            <4> QED BY <4>2, EmptySeq
        <3>2. Back(0) = 0
            <4>1. ByteBase \in Nat /\ <<>> \in Seq(Nat)
                BY CodecAssumption
            <4> QED BY <4>1, <3>1, <1>2, NumberType
        <3> QED BY <2>2, <3>2
    <2> DEFINE q == m \div ByteBase
               r == m % ByteBase
    <2>4. /\ q \in Nat /\ r \in 0..ByteBase - 1 /\ m = q * ByteBase + r
          /\ ~ (m <= q)
        <3>1. ByteBase \in Nat /\ ByteBase >= 2 /\ m \in Nat
            BY <2>2, CodecAssumption
        <3>2. /\ q \in Nat /\ r \in 0..ByteBase - 1
              /\ m = q * ByteBase + r /\ q < m
            BY <3>1, <2>3, Division
        <3> HIDE DEF q, r
        <3> QED BY <3>1, <3>2
    <2>5. bytes_be[m] = Append(bytes_be[q], Byte(r))
        BY <2>2, <2>3, BytesOfNumber
    <2> HIDE DEF q, r
    <2>6. Good(q)
        <3>1. q \notin Bad
            BY <2>1, <2>4
        <3> HIDE DEF Good
        <3> QED BY <3>1, <2>4 DEF Bad
    <2>7. Back(m) = m
        <3>1. DigitsOf(bytes_be[m]) = Append(DigitsOf(bytes_be[q]), r)
            BY <1>1, <2>4, <2>5, DigitsAppend
        <3>2. DigitsOf(bytes_be[q]) \in Seq(Nat) /\ r \in Nat
            BY <1>1, <2>4, DigitsType, CodecAssumption
        <3>3. Back(m) = Back(q) * ByteBase + r
            BY <3>1, <3>2, NumberAppend, CodecAssumption
        <3> HIDE DEF Back
        <3> QED BY <3>3, <2>6, <2>4
    <2>8. bytes_be[m] # <<>> /\ bytes_be[m][1] # Byte(0)
        <3> DEFINE s == bytes_be[q]
        <3>1. s \in Seq(ByteValues) /\ Byte(r) \in ByteValues
            BY <1>1, <2>4, ByteIs
        <3>2. /\ Append(s, Byte(r)) # <<>> /\ Len(s) \in Nat
              /\ \A i \in 1..Len(s) : Append(s, Byte(r))[i] = s[i]
              /\ Append(s, Byte(r))[Len(s) + 1] = Byte(r)
            BY <3>1, AppendProperties, LenProperties
        <3>3. CASE q = 0
            <4>1. Append(s, Byte(r))[1] = Byte(r)
                <5>1. Len(s) = 0
                    BY <3>3, <1>2
                <5> QED BY <5>1, <3>2
            <4>2. r # 0
                <5>1. q * ByteBase = 0
                    BY <3>3, CodecAssumption
                <5> QED BY <5>1, <2>3, <2>4
            <4>3. Byte(r) # Byte(0)
                BY <4>2 DEF Byte
            <4> QED BY <2>5, <3>2, <4>1, <4>3
        <3>4. CASE q # 0
            <4>1. s # <<>> /\ s[1] # Byte(0)
                BY <2>6, <3>4
            <4>2. Len(s) \in Nat \ {0}
                BY <3>1, <4>1, EmptySeq
            <4>3. Append(s, Byte(r))[1] = s[1]
                BY <3>2, <4>2
            <4> QED BY <2>5, <3>2, <4>1, <4>3
        <3> QED BY <3>3, <3>4
    <2> QED BY <2>2, <2>7, <2>8
<1>5. Good(n)
    <2> HIDE DEF Good, Bad
    <2> QED BY <1>3, <1>4
<1>6. from_bytes_be(big_int_to_rlp_compat_bytes(n)) = n
    BY <1>5 DEF from_bytes_be, big_int_to_rlp_compat_bytes, DigitsOf
<1> QED BY <1>1, <1>2, <1>5, <1>6 DEF big_int_to_rlp_compat_bytes

-----------------------------------------------------------------------------
(* Several conversions in a row.                                           *)

(* What never fails returns every value.                                   *)
LEMMA EachOk ==
    ASSUME NEW results, \A i \in DOMAIN results : results[i].res = "Ok"
    PROVE  Each(results) = Ok([i \in DOMAIN results |-> results[i].value])
BY DEF Each

(* What fails somewhere returns one of the failures.                       *)
LEMMA EachFails ==
    ASSUME NEW n \in Nat, NEW results, DOMAIN results = 1..n,
           NEW k \in 1..n, results[k].res # "Ok"
    PROVE  \E i \in 1..n : /\ Each(results) = results[i]
                           /\ results[i].res # "Ok"
<1> DEFINE Fails == {i \in Nat : i \in 1..n /\ results[i].res # "Ok"}
           First(i) == /\ results[i].res # "Ok"
                       /\ \A j \in 1..i - 1 : ~ (results[j].res # "Ok")
<1>1. Fails \in SUBSET Nat /\ Fails # {}
    OBVIOUS
<1>2. PICK m \in Fails : \A y \in Fails : m <= y
    <2> HIDE DEF Fails
    <2> QED BY <1>1, LeastNatural
<1>3. m \in 1..n /\ First(m)
    <2>1. m \in 1..n /\ results[m].res # "Ok"
        BY <1>2
    <2>2. ASSUME NEW j \in 1..m - 1 PROVE ~ (results[j].res # "Ok")
        <3>1. j \in Nat /\ j \in 1..n /\ ~ (m <= j)
            BY <2>1
        <3>2. j \notin Fails
            <4> HIDE DEF Fails
            <4> QED BY <3>1, <1>2
        <3> QED BY <3>1, <3>2
    <2> QED BY <2>1, <2>2
<1> DEFINE c == CHOOSE i \in 1..n : First(i)
<1>4. c \in 1..n /\ First(c)
    <2> HIDE DEF First
    <2> QED BY <1>3
<1>5. Each(results) = results[c]
    BY DEF Each
<1> HIDE DEF c
<1> QED BY <1>4, <1>5

(* It ends in one of the two ways.                                         *)
LEMMA EachVerdict ==
    ASSUME NEW n \in Nat, NEW results, DOMAIN results = 1..n
    PROVE  \/ /\ \A i \in 1..n : results[i].res = "Ok"
              /\ Each(results) = Ok([i \in 1..n |-> results[i].value])
           \/ \E i \in 1..n : /\ Each(results) = results[i]
                              /\ results[i].res # "Ok"
BY EachFails, EachOk

(* What succeeds has read every part.                                      *)
LEMMA EachRead ==
    ASSUME NEW n \in Nat, NEW results, DOMAIN results = 1..n,
           Each(results).res = "Ok"
    PROVE  /\ \A i \in 1..n : results[i].res = "Ok"
           /\ Each(results) = Ok([i \in 1..n |-> results[i].value])
<1>1. ASSUME NEW k \in 1..n PROVE results[k].res = "Ok"
    <2> SUFFICES ASSUME results[k].res # "Ok" PROVE FALSE
        OBVIOUS
    <2>1. PICK i \in 1..n : Each(results) = results[i] /\ results[i].res # "Ok"
        BY EachFails
    <2> QED BY <2>1
<1> QED BY <1>1, EachOk

-----------------------------------------------------------------------------
(* Sequences of any items.                                                 *)

(* A vector is a sequence of something.                                    *)
LEMMA Vectors ==
    ASSUME NEW vector
    PROVE  IsVector(vector) <=> \E S : vector \in Seq(S)
<1>1. ASSUME NEW S, vector \in Seq(S) PROVE vector \in Seq(ToSet(vector))
    <2>1. vector \in [1..Len(vector) -> S] /\ Len(vector) \in Nat
        BY <1>1, LenProperties
    <2>2. vector \in [1..Len(vector) -> ToSet(vector)]
        BY <2>1 DEF ToSet
    <2> QED BY <2>1, <2>2
<1> QED BY <1>1 DEF IsVector

(* A vector is a function on the places up to its length.                  *)
LEMMA VectorProperties ==
    ASSUME NEW vector, IsVector(vector)
    PROVE  /\ Len(vector) \in Nat /\ DOMAIN vector = 1..Len(vector)
           /\ vector = [i \in 1..Len(vector) |-> vector[i]]
BY LenProperties DEF IsVector

(* And such a function is a vector.                                        *)
LEMMA FunctionIsVector ==
    ASSUME NEW n \in Nat, NEW f, f = [i \in 1..n |-> f[i]]
    PROVE  IsVector(f) /\ Len(f) = n
<1>1. f \in [1..n -> {f[i] : i \in 1..n}]
    OBVIOUS
<1>2. f \in Seq({f[i] : i \in 1..n}) /\ Len(f) = n
    BY <1>1
<1> QED BY <1>2, Vectors

(* Vectors are equal that have the same length and items.                  *)
LEMMA VectorEqual ==
    ASSUME NEW s, NEW t, IsVector(s), IsVector(t), Len(s) = Len(t),
           \A i \in 1..Len(s) : s[i] = t[i]
    PROVE  s = t
<1>1. /\ s = [i \in 1..Len(s) |-> s[i]]
      /\ t = [i \in 1..Len(s) |-> t[i]]
    BY VectorProperties
<1>2. [i \in 1..Len(s) |-> s[i]] = [i \in 1..Len(s) |-> t[i]]
    OBVIOUS
<1> QED BY <1>1, <1>2, Zenon

(* The items of two vectors, one after the other.                          *)
LEMMA VectorConcat ==
    ASSUME NEW s, NEW t, IsVector(s), IsVector(t)
    PROVE  /\ IsVector(s \o t) /\ Len(s \o t) = Len(s) + Len(t)
           /\ \A i \in 1..Len(s) + Len(t) :
                (s \o t)[i] = IF i <= Len(s) THEN s[i] ELSE t[i - Len(s)]
<1> DEFINE S == ToSet(s) \cup ToSet(t)
<1>1. s \in Seq(S) /\ t \in Seq(S)
    <2>1. s \in Seq(ToSet(s)) /\ t \in Seq(ToSet(t))
        BY DEF IsVector
    <2>2. ToSet(s) \subseteq S /\ ToSet(t) \subseteq S
        OBVIOUS
    <2> HIDE DEF S
    <2> QED BY <2>1, <2>2, SeqMonotonic
<1> HIDE DEF S
<1> QED BY <1>1, ConcatProperties, Vectors

(* The two lists of the extra-data and its other items are six.            *)
LEMMA PairAndFour ==
    ASSUME NEW a, NEW b, NEW c, NEW d, NEW e, NEW f
    PROVE  <<a, b>> \o <<c, d, e, f>> = <<a, b, c, d, e, f>>
<1> DEFINE s == <<a, b>>
           t == <<c, d, e, f>>
           u == <<a, b, c, d, e, f>>
<1>1. /\ s = [i \in 1..2 |-> s[i]] /\ t = [i \in 1..4 |-> t[i]]
      /\ u = [i \in 1..6 |-> u[i]]
    OBVIOUS
<1>2. /\ s[1] = a /\ s[2] = b /\ t[1] = c /\ t[2] = d /\ t[3] = e /\ t[4] = f
      /\ u[1] = a /\ u[2] = b /\ u[3] = c /\ u[4] = d /\ u[5] = e /\ u[6] = f
    OBVIOUS
<1> HIDE DEF s, t, u
<1>3. /\ IsVector(s) /\ Len(s) = 2 /\ IsVector(t) /\ Len(t) = 4
      /\ IsVector(u) /\ Len(u) = 6
    BY <1>1, FunctionIsVector
<1>4. /\ IsVector(s \o t) /\ Len(s \o t) = 6
      /\ (s \o t)[1] = s[1] /\ (s \o t)[2] = s[2] /\ (s \o t)[3] = t[1]
      /\ (s \o t)[4] = t[2] /\ (s \o t)[5] = t[3] /\ (s \o t)[6] = t[4]
    <2>1. /\ IsVector(s \o t) /\ Len(s \o t) = Len(s) + Len(t)
          /\ \A i \in 1..Len(s) + Len(t) :
                (s \o t)[i] = IF i <= Len(s) THEN s[i] ELSE t[i - Len(s)]
        BY <1>3, VectorConcat, Zenon
    <2>2. \A i \in 1..6 : (s \o t)[i] = IF i <= 2 THEN s[i] ELSE t[i - 2]
        BY <2>1, <1>3
    <2> QED BY <2>1, <2>2, <1>3
<1>5. s \o t = u
    <2>1. \A i \in 1..6 : i = 1 \/ i = 2 \/ i = 3 \/ i = 4 \/ i = 5 \/ i = 6
        OBVIOUS
    <2>2. \A i \in 1..6 : (s \o t)[i] = u[i]
        BY <2>1, <1>2, <1>4
    <2> QED BY <2>2, <1>3, <1>4, VectorEqual
<1> QED BY <1>5 DEF s, t, u

(* The six arrays of a header and its other fields are ten.                *)
LEMMA SixAndFour ==
    ASSUME NEW s, s = [i \in 1..6 |-> s[i]], NEW c, NEW d, NEW e, NEW f
    PROVE  LET all == s \o <<c, d, e, f>>
           IN  /\ IsVector(all) /\ DOMAIN all = 1..10 /\ Len(all) = 10
               /\ \A i \in 1..6 : all[i] = s[i]
               /\ all[7] = c /\ all[8] = d /\ all[9] = e /\ all[10] = f
<1> DEFINE t == <<c, d, e, f>>
           all == s \o t
<1>1. t = [i \in 1..4 |-> t[i]]
    OBVIOUS
<1>2. t[1] = c /\ t[2] = d /\ t[3] = e /\ t[4] = f
    OBVIOUS
<1> HIDE DEF t
<1>3. IsVector(s) /\ Len(s) = 6 /\ IsVector(t) /\ Len(t) = 4
    BY <1>1, FunctionIsVector
<1>4. /\ IsVector(all) /\ Len(all) = 10
      /\ \A i \in 1..10 : all[i] = IF i <= 6 THEN s[i] ELSE t[i - 6]
    <2>1. /\ IsVector(s \o t) /\ Len(s \o t) = Len(s) + Len(t)
          /\ \A i \in 1..Len(s) + Len(t) :
                (s \o t)[i] = IF i <= Len(s) THEN s[i] ELSE t[i - Len(s)]
        BY <1>3, VectorConcat, Zenon
    <2> QED BY <2>1, <1>3
<1> HIDE DEF all
<1>5. /\ all[7] = t[1] /\ all[8] = t[2] /\ all[9] = t[3] /\ all[10] = t[4]
      /\ \A i \in 1..6 : all[i] = s[i]
    BY <1>4
<1>6. DOMAIN all = 1..10
    BY <1>4, VectorProperties
<1> QED BY <1>2, <1>4, <1>5, <1>6 DEF all, t

(* A whole array is read back.                                             *)
LEMMA ArrayRead ==
    ASSUME NEW data, NEW length \in Nat, IsVector(data)
    PROVE  /\ from_bytes(data, length).res = "Ok" =>
                IsArray(from_bytes(data, length).value, length)
           /\ from_bytes(data, length).res \in {"Ok", "Panic"}
           /\ Len(data) = length => from_bytes(data, length) = Ok(data)
<1>1. Len(data) \in Nat /\ data = [i \in 1..Len(data) |-> data[i]]
      /\ data \in Seq(ToSet(data))
    BY VectorProperties DEF IsVector
<1>2. ASSUME ~ (Len(data) < length)
      PROVE  /\ IsArray(SubSeq(data, 1, length), length)
             /\ Len(data) = length => SubSeq(data, 1, length) = data
    <2>1. SubSeq(data, 1, length) = [i \in 1..length |-> data[i]]
        BY <1>1, <1>2
    <2> DEFINE s == [i \in 1..length |-> data[i]]
    <2>2. s = [i \in 1..length |-> s[i]]
        OBVIOUS
    <2> HIDE DEF s
    <2>3. IsVector(s) /\ Len(s) = length
        BY <2>2, FunctionIsVector
    <2> QED BY <2>1, <2>3, <1>1 DEF IsArray, s
<1> QED BY <1>2, <1>1 DEF from_bytes, Ok, Refused

-----------------------------------------------------------------------------
(* Items, and the types in Rust of what is read from them.                 *)

(* Items of the rlp crate, lists down to a depth of three.                 *)
Depth1(item) ==
    \E vector : IsVector(vector) /\ item \in {Data(vector), List(vector)}

(* A list of such items at most. *)
Depth2(item) ==
    /\ Depth1(item)
    /\ IsList(item) => \A i \in DOMAIN item[2] : Depth1(item[2][i])

(* A list of those at most. *)
Depth3(item) ==
    /\ Depth1(item)
    /\ IsList(item) => \A i \in DOMAIN item[2] : Depth2(item[2][i])

(* What an item is, and what it holds.                                     *)
LEMMA ItemParts ==
    ASSUME NEW bytes
    PROVE  /\ ~ IsList(Data(bytes)) /\ Data(bytes)[2] = bytes
           /\ IsList(List(bytes)) /\ List(bytes)[2] = bytes
BY DEF IsList, Data, List

(* An item is made of what it holds.                                       *)
LEMMA DepthParts ==
    ASSUME NEW item, Depth1(item)
    PROVE  /\ IsVector(item[2])
           /\ item = IF IsList(item) THEN List(item[2]) ELSE Data(item[2])
BY ItemParts DEF Depth1

(* What is known further down is known further up.                         *)
LEMMA DeeperIsItem ==
    ASSUME NEW item
    PROVE  (Depth3(item) => Depth2(item)) /\ (Depth2(item) => Depth1(item))
BY DEF Depth2, Depth3

(* An item that is found is one of the list's.                             *)
LEMMA ItemRead ==
    ASSUME NEW rlp, NEW index \in Nat, Depth1(rlp)
    PROVE  /\ at(rlp, index).res \in {"Ok", "RlpDecodeError"}
           /\ at(rlp, index).res = "Ok" =>
                /\ IsList(rlp) /\ index + 1 \in DOMAIN rlp[2]
                /\ at(rlp, index).value = rlp[2][index + 1]
           /\ Depth2(rlp) /\ at(rlp, index).res = "Ok" =>
                    Depth1(at(rlp, index).value)
           /\ Depth3(rlp) /\ at(rlp, index).res = "Ok" =>
                    Depth2(at(rlp, index).value)
<1>1. Len(rlp[2]) \in Nat /\ DOMAIN rlp[2] = 1..Len(rlp[2])
    BY DepthParts, VectorProperties
<1>2. /\ at(rlp, index).res \in {"Ok", "RlpDecodeError"}
      /\ at(rlp, index).res = "Ok" =>
            /\ IsList(rlp) /\ index + 1 \in DOMAIN rlp[2]
            /\ at(rlp, index).value = rlp[2][index + 1]
    BY <1>1 DEF at, Ok, Refused
<1> QED BY <1>2 DEF Depth2, Depth3

(* Bytes that are read are bytes.                                          *)
LEMMA BytesRead ==
    ASSUME NEW rlp, NEW index \in Nat, Depth2(rlp)
    PROVE  /\ bytes_at(rlp, index).res \in {"Ok", "RlpDecodeError"}
           /\ bytes_at(rlp, index).res = "Ok" =>
                    IsVector(bytes_at(rlp, index).value)
<1>1. Depth1(rlp)
    BY DeeperIsItem
<1> DEFINE item == at(rlp, index)
<1>2. /\ item.res \in {"Ok", "RlpDecodeError"}
      /\ item.res = "Ok" => Depth1(item.value)
    BY <1>1, ItemRead
<1>3. bytes_at(rlp, index)
        = IF item.res = "Ok"
          THEN IF IsList(item.value) THEN Refused("RlpDecodeError")
               ELSE Ok(item.value[2])
          ELSE item
    BY DEF bytes_at, AndThen
<1>4. item.res = "Ok" => IsVector(item.value[2])
    BY <1>2, DepthParts
<1> HIDE DEF item
<1> QED BY <1>2, <1>3, <1>4 DEF Ok, Refused

(* A number that is read is a number.                                      *)
LEMMA BigIntRead ==
    ASSUME NEW rlp, NEW index \in Nat, Depth2(rlp)
    PROVE  /\ rlp_to_big_int(rlp, index).res \in {"Ok", "RlpDecodeError"}
           /\ rlp_to_big_int(rlp, index).res = "Ok" =>
                    rlp_to_big_int(rlp, index).value \in Nat
<1> DEFINE bytes == bytes_at(rlp, index)
<1>1. /\ bytes.res \in {"Ok", "RlpDecodeError"}
      /\ bytes.res = "Ok" => IsVector(bytes.value)
    BY BytesRead
<1>2. rlp_to_big_int(rlp, index)
        = IF bytes.res = "Ok" THEN Ok(from_bytes_be(bytes.value)) ELSE bytes
    BY DEF rlp_to_big_int, AndThen
<1> HIDE DEF bytes
<1>3. bytes.res = "Ok" => from_bytes_be(bytes.value) \in Nat
    BY <1>1, NumberRead, Vectors
<1> QED BY <1>1, <1>2, <1>3 DEF Ok

(* A seal that decodes is an IstanbulAggregatedSeal                        *)
(* (types/istanbul.rs:74-85).                                              *)
LEMMA SealRead ==
    ASSUME NEW rlp, Depth2(rlp)
    PROVE  /\ decode_seal(rlp).res \in {"Ok", "RlpDecodeError"}
           /\ decode_seal(rlp).res = "Ok" => IsSeal(decode_seal(rlp).value)
<1> DEFINE parts == <<rlp_to_big_int(rlp, 0), bytes_at(rlp, 1),
                      rlp_to_big_int(rlp, 2)>>
           all == Each(parts)
           sealOf(f) == [bitmap |-> f[1], signature |-> f[2], round |-> f[3]]
<1>1. decode_seal(rlp) = IF all.res = "Ok" THEN Ok(sealOf(all.value)) ELSE all
    BY DEF decode_seal, AndThen
<1>2. /\ parts[1].res \in {"Ok", "RlpDecodeError"}
      /\ parts[2].res \in {"Ok", "RlpDecodeError"}
      /\ parts[3].res \in {"Ok", "RlpDecodeError"}
      /\ parts[1].res = "Ok" => parts[1].value \in Nat
      /\ parts[2].res = "Ok" => IsVector(parts[2].value)
      /\ parts[3].res = "Ok" => parts[3].value \in Nat
    BY BytesRead, BigIntRead
<1>3. DOMAIN parts = 1..3
    OBVIOUS
<1> HIDE DEF parts
<1>4. CASE all.res = "Ok"
    <2>1. \A i \in 1..3 : parts[i].res = "Ok"
        BY <1>3, <1>4, EachRead
    <2>2. all = Ok([i \in 1..3 |-> parts[i].value])
        BY <1>3, <1>4, EachRead
    <2>3. sealOf(all.value) = [bitmap |-> parts[1].value,
                               signature |-> parts[2].value,
                               round |-> parts[3].value]
        BY <2>2 DEF Ok
    <2>4. IsSeal(sealOf(all.value))
        BY <1>2, <2>1, <2>3 DEF IsSeal
    <2> HIDE DEF sealOf, all
    <2> QED BY <1>1, <1>4, <2>4 DEF Ok
<1>5. CASE all.res # "Ok"
    <2>1. PICK k \in 1..3 : parts[k].res # "Ok"
        <3> SUFFICES ASSUME \A i \in 1..3 : parts[i].res = "Ok" PROVE FALSE
            OBVIOUS
        <3>1. all = Ok([i \in DOMAIN parts |-> parts[i].value])
            BY <1>3, EachOk
        <3> QED BY <3>1, <1>5 DEF Ok
    <2>2. PICK i \in 1..3 : all = parts[i] /\ parts[i].res # "Ok"
        BY <1>3, <2>1, EachFails
    <2>3. i = 1 \/ i = 2 \/ i = 3
        OBVIOUS
    <2> HIDE DEF all
    <2> QED BY <1>1, <1>2, <1>5, <2>2, <2>3
<1> QED BY <1>4, <1>5

(* So is one that is found in a list.                                      *)
LEMMA SealAtRead ==
    ASSUME NEW rlp, NEW index \in Nat, Depth3(rlp)
    PROVE  /\ seal_at(rlp, index).res \in {"Ok", "RlpDecodeError"}
           /\ seal_at(rlp, index).res = "Ok" =>
                    IsSeal(seal_at(rlp, index).value)
<1>1. Depth1(rlp)
    BY DeeperIsItem
<1> DEFINE item == at(rlp, index)
<1>2. /\ item.res \in {"Ok", "RlpDecodeError"}
      /\ item.res = "Ok" => Depth2(item.value)
    BY <1>1, ItemRead
<1>3. seal_at(rlp, index) = IF item.res = "Ok" THEN decode_seal(item.value)
                            ELSE item
    BY DEF seal_at, AndThen
<1> HIDE DEF item
<1> QED BY <1>2, <1>3, SealRead

(* Addresses and keys that decode are arrays of their length               *)
(* (rlp.rs:6-36).                                                          *)
LEMMA FieldsRead ==
    ASSUME NEW rlp, NEW index \in Nat, NEW length \in Nat, Depth3(rlp)
    PROVE  LET fields == fields_from_bytes(rlp, index, length)
           IN  /\ fields.res \in {"Ok", "RlpDecodeError", "Panic"}
               /\ fields.res = "Ok" =>
                    /\ IsVector(fields.value)
                    /\ \A i \in DOMAIN fields.value :
                            IsArray(fields.value[i], length)
<1>1. Depth1(rlp)
    BY DeeperIsItem
<1> DEFINE item == at(rlp, index)
           items == item.value[2]
           parts == [i \in DOMAIN items |->
                        rlp_field_from_bytes(items[i], length)]
           fields == fields_from_bytes(rlp, index, length)
<1>2. /\ item.res \in {"Ok", "RlpDecodeError"}
      /\ item.res = "Ok" => Depth2(item.value)
    BY <1>1, ItemRead
<1>3. fields = IF item.res = "Ok"
               THEN IF ~ IsList(item.value) THEN Ok(<<>>) ELSE Each(parts)
               ELSE item
    BY DEF fields_from_bytes, AndThen
<1>4. CASE item.res # "Ok"
    BY <1>2, <1>3, <1>4
<1>5. CASE item.res = "Ok" /\ ~ IsList(item.value)
    <2>1. fields = Ok(<<>>)
        BY <1>3, <1>5
    <2>2. IsVector(<<>>) /\ DOMAIN <<>> = {}
        <3>1. <<>> \in Seq(Nat) /\ DOMAIN <<>> = {}
            OBVIOUS
        <3> QED BY <3>1, Vectors
    <2>3. fields.res = "Ok" /\ fields.value = <<>>
        BY <2>1 DEF Ok
    <2> HIDE DEF fields
    <2> QED BY <2>2, <2>3 DEF fields
<1>6. CASE item.res = "Ok" /\ IsList(item.value)
    <2>1. IsVector(items) /\ \A i \in DOMAIN items : Depth1(items[i])
        BY <1>2, <1>6, DepthParts DEF Depth2
    <2>2. PICK n \in Nat : DOMAIN items = 1..n
        BY <2>1, VectorProperties
    <2>3. \A i \in 1..n :
            /\ parts[i].res \in {"Ok", "RlpDecodeError", "Panic"}
            /\ parts[i].res = "Ok" => IsArray(parts[i].value, length)
        <3> TAKE i \in 1..n
        <3>1. IsVector(items[i][2])
            BY <2>1, <2>2, DepthParts
        <3>2. parts[i] = IF IsList(items[i]) THEN Refused("RlpDecodeError")
                         ELSE from_bytes(items[i][2], length)
            BY <2>2 DEF rlp_field_from_bytes
        <3> HIDE DEF parts, items
        <3> QED BY <3>1, <3>2, ArrayRead DEF Refused
    <2>4. DOMAIN parts = 1..n
        BY <2>2
    <2>5. fields = Each(parts)
        BY <1>3, <1>6
    <2> HIDE DEF parts, items, fields
    <2>6. CASE fields.res = "Ok"
        <3>1. \A i \in 1..n : parts[i].res = "Ok"
            BY <2>4, <2>5, <2>6, EachRead
        <3>2. fields = Ok([i \in 1..n |-> parts[i].value])
            BY <2>4, <2>5, <2>6, EachRead
        <3> DEFINE f == [i \in 1..n |-> parts[i].value]
        <3>3. f = [i \in 1..n |-> f[i]]
            OBVIOUS
        <3>4. \A i \in DOMAIN f : IsArray(f[i], length)
            BY <2>3, <3>1
        <3>5. fields.value = f
            BY <3>2 DEF Ok
        <3> HIDE DEF f
        <3>6. IsVector(f)
            BY <3>3, FunctionIsVector
        <3> QED BY <3>4, <3>5, <3>6, <2>6 DEF fields
    <2>7. CASE fields.res # "Ok"
        <3>1. PICK k \in 1..n : parts[k].res # "Ok"
            <4> SUFFICES ASSUME \A i \in 1..n : parts[i].res = "Ok"
                         PROVE  FALSE
                OBVIOUS
            <4>1. fields = Ok([i \in DOMAIN parts |-> parts[i].value])
                BY <2>4, <2>5, EachOk
            <4> QED BY <4>1, <2>7 DEF Ok
        <3>2. PICK i \in 1..n : Each(parts) = parts[i] /\ parts[i].res # "Ok"
            BY <2>4, <3>1, EachFails
        <3> QED BY <2>3, <2>5, <2>7, <3>2 DEF fields
    <2> QED BY <2>6, <2>7
<1> QED BY <1>2, <1>4, <1>5, <1>6

(* The lengths are numbers.                                                *)
LEMMA Lengths ==
    /\ HASH_LENGTH \in Nat /\ ADDRESS_LENGTH \in Nat
    /\ BLOOM_BYTE_LENGTH \in Nat /\ PUBLIC_KEY_LENGTH \in Nat
    /\ ISTANBUL_EXTRA_VANITY_LENGTH \in Nat
BY CodecAssumption

(* What extra_from_rlp reads, in its order.                                *)
PartsOfExtra(rlp) ==
    <<fields_from_bytes(rlp, 0, ADDRESS_LENGTH),
      fields_from_bytes(rlp, 1, PUBLIC_KEY_LENGTH),
      rlp_to_big_int(rlp, 2), bytes_at(rlp, 3),
      seal_at(rlp, 4), seal_at(rlp, 5)>>

(* The struct it makes of that.                                            *)
ExtraOf(f) ==
    [added_validators |-> f[1], added_validators_public_keys |-> f[2],
     removed_validators |-> f[3], seal |-> f[4],
     aggregated_seal |-> f[5], parent_aggregated_seal |-> f[6]]

(* extra_from_rlp, its six parts seen as one list.                         *)
LEMMA ExtraDecoding ==
    ASSUME NEW bytes, Len(bytes) \in Nat
    PROVE  LET parts == PartsOfExtra(bytes[ISTANBUL_EXTRA_VANITY_LENGTH + 1])
           IN  extra_from_rlp(bytes) =
                IF Len(bytes) <= ISTANBUL_EXTRA_VANITY_LENGTH
                THEN Refused("RlpDecodeError")
                ELSE IF parts[1].res = "Panic" \/ parts[2].res = "Panic"
                THEN Refused("Panic")
                ELSE IF Each(parts).res = "Ok"
                THEN Ok(ExtraOf(Each(parts).value)) ELSE Each(parts)
<1> DEFINE rlp == bytes[ISTANBUL_EXTRA_VANITY_LENGTH + 1]
           a == fields_from_bytes(rlp, 0, ADDRESS_LENGTH)
           b == fields_from_bytes(rlp, 1, PUBLIC_KEY_LENGTH)
           c == rlp_to_big_int(rlp, 2)
           d == bytes_at(rlp, 3)
           e == seal_at(rlp, 4)
           f == seal_at(rlp, 5)
<1>1. <<a, b>> \o <<c, d, e, f>> = <<a, b, c, d, e, f>>
    <2> HIDE DEF a, b, c, d, e, f
    <2> QED BY PairAndFour
<1>2. PartsOfExtra(rlp) = <<a, b, c, d, e, f>>
    BY DEF PartsOfExtra
<1>3. (\E i \in 1..2 : <<a, b>>[i].res = "Panic")
        <=> (a.res = "Panic" \/ b.res = "Panic")
    <2> HIDE DEF a, b
    <2> QED OBVIOUS
<1>4. extra_from_rlp(bytes) =
        IF Len(bytes) <= ISTANBUL_EXTRA_VANITY_LENGTH
        THEN Refused("RlpDecodeError")
        ELSE IF \E i \in 1..2 : <<a, b>>[i].res = "Panic"
        THEN Refused("Panic")
        ELSE LET all == Each(<<a, b>> \o <<c, d, e, f>>)
             IN  IF all.res = "Ok" THEN Ok(ExtraOf(all.value)) ELSE all
    BY DEF extra_from_rlp, AndThen, ExtraOf
<1> HIDE DEF a, b, c, d, e, f
<1>5. <<a, b, c, d, e, f>>[1] = a /\ <<a, b, c, d, e, f>>[2] = b
    OBVIOUS
<1> HIDE DEF rlp
<1>6. extra_from_rlp(bytes) =
        IF Len(bytes) <= ISTANBUL_EXTRA_VANITY_LENGTH
        THEN Refused("RlpDecodeError")
        ELSE IF PartsOfExtra(rlp)[1].res = "Panic"
                    \/ PartsOfExtra(rlp)[2].res = "Panic"
        THEN Refused("Panic")
        ELSE IF Each(PartsOfExtra(rlp)).res = "Ok"
        THEN Ok(ExtraOf(Each(PartsOfExtra(rlp)).value))
        ELSE Each(PartsOfExtra(rlp))
    BY <1>1, <1>2, <1>3, <1>4, <1>5
<1> QED BY <1>6 DEF rlp

(* What decodes is an IstanbulExtra.                                       *)
LEMMA ExtraRead ==
    ASSUME NEW bytes, Len(bytes) \in Nat,
           Len(bytes) > ISTANBUL_EXTRA_VANITY_LENGTH =>
                Depth3(bytes[ISTANBUL_EXTRA_VANITY_LENGTH + 1])
    PROVE  /\ extra_from_rlp(bytes).res \in {"Ok", "RlpDecodeError", "Panic"}
           /\ extra_from_rlp(bytes).res = "Ok" =>
                /\ IsExtra(extra_from_rlp(bytes).value)
                /\ Len(bytes) > ISTANBUL_EXTRA_VANITY_LENGTH
<1> DEFINE rlp == bytes[ISTANBUL_EXTRA_VANITY_LENGTH + 1]
           parts == PartsOfExtra(rlp)
           all == Each(parts)
           extra == extra_from_rlp(bytes)
<1>1. extra = IF Len(bytes) <= ISTANBUL_EXTRA_VANITY_LENGTH
              THEN Refused("RlpDecodeError")
              ELSE IF parts[1].res = "Panic" \/ parts[2].res = "Panic"
              THEN Refused("Panic")
              ELSE IF all.res = "Ok" THEN Ok(ExtraOf(all.value)) ELSE all
    BY ExtraDecoding
<1>2. CASE Len(bytes) <= ISTANBUL_EXTRA_VANITY_LENGTH
    <2> HIDE DEF extra, parts
    <2>1. extra = Refused("RlpDecodeError")
        BY <1>1, <1>2
    <2>2. extra.res = "RlpDecodeError"
        BY <2>1 DEF Refused
    <2> QED BY <2>2 DEF extra
<1>3. CASE parts[1].res = "Panic" \/ parts[2].res = "Panic"
    <2> HIDE DEF extra, parts
    <2>1. extra.res \in {"RlpDecodeError", "Panic"}
        BY <1>1, <1>3 DEF Refused
    <2> QED BY <2>1 DEF extra
<1>4. CASE /\ ~ (Len(bytes) <= ISTANBUL_EXTRA_VANITY_LENGTH)
           /\ parts[1].res # "Panic" /\ parts[2].res # "Panic"
    <2>1. Depth3(rlp) /\ Depth2(rlp)
          /\ Len(bytes) > ISTANBUL_EXTRA_VANITY_LENGTH
        BY <1>4, Lengths, DeeperIsItem
    <2> HIDE DEF rlp
    <2>2. /\ parts[1].res \in {"Ok", "RlpDecodeError"}
          /\ parts[1].res = "Ok" =>
                /\ IsVector(parts[1].value)
                /\ \A i \in DOMAIN parts[1].value :
                        IsArray(parts[1].value[i], ADDRESS_LENGTH)
        <3>1. parts[1] = fields_from_bytes(rlp, 0, ADDRESS_LENGTH)
            BY DEF PartsOfExtra
        <3> HIDE DEF parts
        <3> QED BY <3>1, <2>1, <1>4, FieldsRead, Lengths
    <2>3. /\ parts[2].res \in {"Ok", "RlpDecodeError"}
          /\ parts[2].res = "Ok" =>
                /\ IsVector(parts[2].value)
                /\ \A i \in DOMAIN parts[2].value :
                        IsArray(parts[2].value[i], PUBLIC_KEY_LENGTH)
        <3>1. parts[2] = fields_from_bytes(rlp, 1, PUBLIC_KEY_LENGTH)
            BY DEF PartsOfExtra
        <3> HIDE DEF parts
        <3> QED BY <3>1, <2>1, <1>4, FieldsRead, Lengths
    <2>4. /\ parts[3].res \in {"Ok", "RlpDecodeError"}
          /\ parts[3].res = "Ok" => parts[3].value \in Nat
          /\ parts[4].res \in {"Ok", "RlpDecodeError"}
          /\ parts[4].res = "Ok" => IsVector(parts[4].value)
        BY <2>1, BigIntRead, BytesRead DEF PartsOfExtra
    <2>5. /\ parts[5].res \in {"Ok", "RlpDecodeError"}
          /\ parts[5].res = "Ok" => IsSeal(parts[5].value)
          /\ parts[6].res \in {"Ok", "RlpDecodeError"}
          /\ parts[6].res = "Ok" => IsSeal(parts[6].value)
        BY <2>1, SealAtRead DEF PartsOfExtra
    <2>6. DOMAIN parts = 1..6
        BY DEF PartsOfExtra
    <2> HIDE DEF parts
    <2>7. CASE /\ \A i \in 1..6 : parts[i].res = "Ok"
               /\ all = Ok([i \in 1..6 |-> parts[i].value])
        <3> DEFINE f == [i \in 1..6 |-> parts[i].value]
        <3>1. all.res = "Ok" /\ all.value = f
            BY <2>7 DEF Ok
        <3>2. extra = Ok(ExtraOf(f))
            <4> HIDE DEF all, extra, f
            <4> QED BY <1>1, <1>4, <3>1
        <3>3. /\ f[1] = parts[1].value /\ f[2] = parts[2].value
              /\ f[3] = parts[3].value /\ f[4] = parts[4].value
              /\ f[5] = parts[5].value /\ f[6] = parts[6].value
            OBVIOUS
        <3> HIDE DEF f, all, extra
        <3>4. IsExtra(ExtraOf(f))
            BY <2>2, <2>3, <2>4, <2>5, <2>7, <3>3 DEF IsExtra, ExtraOf
        <3>5. extra.res = "Ok" /\ extra.value = ExtraOf(f)
            BY <3>2 DEF Ok
        <3> QED BY <2>1, <3>4, <3>5 DEF extra
    <2>8. CASE \E i \in 1..6 : all = parts[i] /\ parts[i].res # "Ok"
        <3>1. PICK i \in 1..6 : all = parts[i] /\ parts[i].res # "Ok"
            BY <2>8
        <3>2. parts[i].res = "RlpDecodeError"
            <4>1. i = 1 \/ i = 2 \/ i = 3 \/ i = 4 \/ i = 5 \/ i = 6
                OBVIOUS
            <4> QED BY <4>1, <2>2, <2>3, <2>4, <2>5, <3>1
        <3> HIDE DEF all, extra
        <3>3. extra = all
            BY <1>1, <1>4, <3>1
        <3> QED BY <3>1, <3>2, <3>3 DEF extra
    <2> QED BY <2>6, <2>7, <2>8, EachVerdict
<1> QED BY <1>2, <1>3, <1>4

-----------------------------------------------------------------------------
(* What is written is read back (types/istanbul.rs, types/header.rs).      *)

(* What was put at a place of a list is what is read there.                *)
LEMMA DataRead ==
    ASSUME NEW items, IsVector(items), NEW index \in Nat,
           index < Len(items)
    PROVE  /\ at(List(items), index) = Ok(items[index + 1])
           /\ \A bytes : items[index + 1] = Data(bytes) =>
                bytes_at(List(items), index) = Ok(bytes)
           /\ \A n \in Nat :
                items[index + 1] = Data(big_int_to_rlp_compat_bytes(n)) =>
                /\ rlp_to_big_int(List(items), index) = Ok(n)
                /\ n <= MaxU64 => u64_at(List(items), index) = Ok(n)
           /\ \A array, length :
                /\ length \in Nat /\ IsArray(array, length)
                /\ items[index + 1] = Data(array)
                => rlp_list_field_from_bytes(List(items), index, length)
                        = Ok(array)
<1> DEFINE rlp == List(items)
           item == items[index + 1]
<1>1. at(rlp, index) = Ok(item)
    BY ItemParts DEF at
<1> HIDE DEF rlp, item
<1>2. ASSUME NEW bytes, item = Data(bytes)
      PROVE  bytes_at(rlp, index) = Ok(bytes)
    <2>1. bytes_at(rlp, index)
            = IF at(rlp, index).res = "Ok"
              THEN IF IsList(at(rlp, index).value) THEN Refused("RlpDecodeError")
                   ELSE Ok(at(rlp, index).value[2])
              ELSE at(rlp, index)
        BY DEF bytes_at, AndThen
    <2>2. at(rlp, index).res = "Ok" /\ at(rlp, index).value = Data(bytes)
        BY <1>1, <1>2 DEF Ok
    <2> QED BY <2>1, <2>2, ItemParts
<1>3. ASSUME NEW n \in Nat, item = Data(big_int_to_rlp_compat_bytes(n))
      PROVE  /\ rlp_to_big_int(rlp, index) = Ok(n)
             /\ n <= MaxU64 => u64_at(rlp, index) = Ok(n)
    <2> DEFINE bytes == big_int_to_rlp_compat_bytes(n)
               read == bytes_at(rlp, index)
    <2>1. read.res = "Ok" /\ read.value = bytes
        BY <1>2, <1>3 DEF Ok
    <2>2. /\ from_bytes_be(bytes) = n
          /\ bytes # <<>> => bytes[1] # Byte(0)
        BY NumberSurvives
    <2>3. rlp_to_big_int(rlp, index)
            = IF read.res = "Ok" THEN Ok(from_bytes_be(read.value)) ELSE read
        BY DEF rlp_to_big_int, AndThen
    <2>4. u64_at(rlp, index)
            = IF read.res = "Ok"
              THEN IF \/ read.value # <<>> /\ read.value[1] = Byte(0)
                      \/ from_bytes_be(read.value) > MaxU64
                   THEN Refused("RlpDecodeError")
                   ELSE Ok(from_bytes_be(read.value))
              ELSE read
        BY DEF u64_at, AndThen
    <2> HIDE DEF bytes, read
    <2>5. n <= MaxU64 => ~ (n > MaxU64)
        BY MaxU64Assumption
    <2> QED BY <2>1, <2>2, <2>3, <2>4, <2>5
<1>4. ASSUME NEW array, NEW length, length \in Nat, IsArray(array, length),
             item = Data(array)
      PROVE  rlp_list_field_from_bytes(rlp, index, length) = Ok(array)
    <2>1. rlp_list_field_from_bytes(rlp, index, length)
            = IF at(rlp, index).res = "Ok"
              THEN IF IsList(at(rlp, index).value) THEN Refused("RlpDecodeError")
                   ELSE from_bytes(at(rlp, index).value[2], length)
              ELSE at(rlp, index)
        BY DEF rlp_list_field_from_bytes, rlp_field_from_bytes, AndThen
    <2>2. at(rlp, index).res = "Ok" /\ at(rlp, index).value = Data(array)
        BY <1>1, <1>4 DEF Ok
    <2>3. from_bytes(array, length) = Ok(array)
        BY <1>4, ArrayRead DEF IsArray
    <2> QED BY <2>1, <2>2, <2>3, ItemParts
<1> QED BY <1>1, <1>2, <1>3, <1>4 DEF rlp, item

(* The same, item by item.                                                 *)
LEMMA BytesAt ==
    ASSUME NEW items, IsVector(items), NEW index \in Nat, NEW place,
           place = index + 1, place \in 1..Len(items),
           NEW bytes, items[place] = Data(bytes)
    PROVE  bytes_at(List(items), index) = Ok(bytes)
<1>1. index < Len(items)
    BY VectorProperties
<1> QED BY <1>1, DataRead

(* A number at a place of a list.                                          *)
LEMMA NumberAt ==
    ASSUME NEW items, IsVector(items), NEW index \in Nat, NEW place,
           place = index + 1, place \in 1..Len(items),
           NEW n \in Nat, items[place] = Data(big_int_to_rlp_compat_bytes(n))
    PROVE  /\ rlp_to_big_int(List(items), index) = Ok(n)
           /\ n <= MaxU64 => u64_at(List(items), index) = Ok(n)
<1>1. index < Len(items)
    BY VectorProperties
<1> QED BY <1>1, DataRead

(* An array at a place of a list.                                          *)
LEMMA ArrayAt ==
    ASSUME NEW items, IsVector(items), NEW index \in Nat, NEW place,
           place = index + 1, place \in 1..Len(items), NEW length \in Nat,
           NEW array, IsArray(array, length), items[place] = Data(array)
    PROVE  rlp_list_field_from_bytes(List(items), index, length) = Ok(array)
<1>1. index < Len(items)
    BY VectorProperties
<1> QED BY <1>1, DataRead

(* A list of arrays at a place of a list.                                  *)
LEMMA FieldsAt ==
    ASSUME NEW items, IsVector(items), NEW index \in Nat, NEW place,
           place = index + 1, place \in 1..Len(items),
           NEW v, IsVector(v), NEW length \in Nat,
           \A i \in DOMAIN v : IsArray(v[i], length),
           NEW data, DOMAIN data = DOMAIN v,
           \A i \in DOMAIN v : data[i] = Data(v[i]),
           items[place] = List(data)
    PROVE  fields_from_bytes(List(items), index, length) = Ok(v)
<1> DEFINE parts == [i \in DOMAIN data |-> rlp_field_from_bytes(data[i], length)]
           item == at(List(items), index)
<1>1. item = Ok(List(data))
    <2>1. index < Len(items) /\ items[index + 1] = List(data)
        BY VectorProperties
    <2> QED BY <2>1, DataRead
<1>2. item.res = "Ok" /\ IsList(item.value) /\ item.value[2] = data
    <2> HIDE DEF item
    <2> QED BY <1>1, ItemParts DEF Ok
<1>3. fields_from_bytes(List(items), index, length)
        = IF item.res = "Ok"
          THEN IF ~ IsList(item.value) THEN Ok(<<>>)
               ELSE Each([i \in DOMAIN item.value[2] |->
                            rlp_field_from_bytes(item.value[2][i], length)])
          ELSE item
    BY DEF fields_from_bytes, AndThen
<1>4. fields_from_bytes(List(items), index, length) = Each(parts)
    <2> HIDE DEF item
    <2> QED BY <1>2, <1>3
<1>5. ASSUME NEW i \in DOMAIN v
      PROVE  parts[i] = Ok(v[i])
    <2>1. parts[i] = rlp_field_from_bytes(Data(v[i]), length)
        OBVIOUS
    <2>2. from_bytes(v[i], length) = Ok(v[i])
        BY ArrayRead DEF IsArray
    <2> HIDE DEF parts
    <2> QED BY <2>1, <2>2, ItemParts DEF rlp_field_from_bytes
<1>6. DOMAIN parts = DOMAIN v
    OBVIOUS
<1> HIDE DEF parts
<1>7. \A i \in DOMAIN parts : parts[i].res = "Ok" /\ parts[i].value = v[i]
    BY <1>5, <1>6 DEF Ok
<1>8. Each(parts) = Ok([i \in DOMAIN parts |-> parts[i].value])
    BY <1>7, EachOk
<1>9. [i \in DOMAIN parts |-> parts[i].value] = v
    <2>1. v = [i \in DOMAIN v |-> v[i]]
        BY VectorProperties
    <2>2. [i \in DOMAIN parts |-> parts[i].value] = [i \in DOMAIN v |-> v[i]]
        BY <1>6, <1>7
    <2> QED BY <2>1, <2>2, Zenon
<1> QED BY <1>4, <1>8, <1>9

(* A seal comes back from the list it is written to.                       *)
LEMMA SealSurvives ==
    ASSUME NEW seal, IsSeal(seal)
    PROVE  decode_seal(encode_seal(seal)) = Ok(seal)
<1>1. PICK items :
            items = <<Data(big_int_to_rlp_compat_bytes(seal.bitmap)),
                      Data(seal.signature),
                      Data(big_int_to_rlp_compat_bytes(seal.round))>>
    OBVIOUS
<1>2. IsVector(items) /\ Len(items) = 3
    <2>1. items = [i \in 1..3 |-> items[i]]
        BY <1>1
    <2> QED BY <2>1, FunctionIsVector
<1>3. /\ items[1] = Data(big_int_to_rlp_compat_bytes(seal.bitmap))
      /\ items[2] = Data(seal.signature)
      /\ items[3] = Data(big_int_to_rlp_compat_bytes(seal.round))
    BY <1>1
<1> DEFINE rlp == List(items)
<1>4. rlp_to_big_int(rlp, 0) = Ok(seal.bitmap)
    <2>1. PICK index \in Nat, place \in 1..Len(items) :
            index = 0 /\ place = 1
        BY <1>2
    <2>2. place = index + 1
        BY <2>1
    <2>3. PICK v : v = seal.bitmap
        OBVIOUS
    <2>4. items[place] = Data(big_int_to_rlp_compat_bytes(v))
        BY <1>3, <2>1, <2>3
    <2>5. IsVector(items)
        BY <1>2
    <2>6. v \in Nat
        BY <2>3 DEF IsSeal
    <2>7. rlp_to_big_int(rlp, index) = Ok(v)
        BY <2>2, <2>4, <2>5, <2>6, NumberAt
    <2> QED BY <2>1, <2>3, <2>7
<1>5. bytes_at(rlp, 1) = Ok(seal.signature)
    <2>1. PICK index \in Nat, place \in 1..Len(items) :
            index = 1 /\ place = 2
        BY <1>2
    <2>2. place = index + 1
        BY <2>1
    <2>3. PICK v : v = seal.signature
        OBVIOUS
    <2>4. items[place] = Data(v)
        BY <1>3, <2>1, <2>3
    <2>5. IsVector(items)
        BY <1>2
    <2>6. bytes_at(rlp, index) = Ok(v)
        BY <2>2, <2>4, <2>5, BytesAt
    <2> QED BY <2>1, <2>3, <2>6
<1>6. rlp_to_big_int(rlp, 2) = Ok(seal.round)
    <2>1. PICK index \in Nat, place \in 1..Len(items) :
            index = 2 /\ place = 3
        BY <1>2
    <2>2. place = index + 1
        BY <2>1
    <2>3. PICK v : v = seal.round
        OBVIOUS
    <2>4. items[place] = Data(big_int_to_rlp_compat_bytes(v))
        BY <1>3, <2>1, <2>3
    <2>5. IsVector(items)
        BY <1>2
    <2>6. v \in Nat
        BY <2>3 DEF IsSeal
    <2>7. rlp_to_big_int(rlp, index) = Ok(v)
        BY <2>2, <2>4, <2>5, <2>6, NumberAt
    <2> QED BY <2>1, <2>3, <2>7
<1> HIDE DEF rlp
<1>7. PICK parts : parts = <<rlp_to_big_int(rlp, 0), bytes_at(rlp, 1),
                             rlp_to_big_int(rlp, 2)>>
    OBVIOUS
<1>8. /\ DOMAIN parts = 1..3 /\ \A i \in DOMAIN parts : parts[i].res = "Ok"
      /\ parts[1].value = seal.bitmap /\ parts[2].value = seal.signature
      /\ parts[3].value = seal.round
    BY <1>4, <1>5, <1>6, <1>7 DEF Ok
<1>9. PICK f : f = [i \in DOMAIN parts |-> parts[i].value]
    OBVIOUS
<1>10. Each(parts) = Ok(f)
    BY <1>8, <1>9, EachOk
<1>11. decode_seal(rlp) =
        IF Each(parts).res = "Ok"
        THEN Ok([bitmap |-> Each(parts).value[1],
                 signature |-> Each(parts).value[2],
                 round |-> Each(parts).value[3]])
        ELSE Each(parts)
    BY <1>7 DEF decode_seal, AndThen
<1>12. f[1] = seal.bitmap /\ f[2] = seal.signature /\ f[3] = seal.round
    BY <1>8, <1>9
<1>13. [bitmap |-> f[1], signature |-> f[2], round |-> f[3]] = seal
    BY <1>12 DEF IsSeal
<1>14. encode_seal(seal) = rlp
    BY <1>1 DEF encode_seal, rlp
<1>15. decode_seal(rlp) = Ok([bitmap |-> f[1], signature |-> f[2],
                              round |-> f[3]])
    BY <1>10, <1>11 DEF Ok
<1> QED BY <1>13, <1>14, <1>15

(* A seal at a place of a list.                                            *)
LEMMA SealAt ==
    ASSUME NEW items, IsVector(items), NEW index \in Nat, NEW place,
           place = index + 1, place \in 1..Len(items),
           NEW seal, IsSeal(seal), items[place] = encode_seal(seal)
    PROVE  seal_at(List(items), index) = Ok(seal)
<1> DEFINE item == at(List(items), index)
<1>1. item = Ok(encode_seal(seal))
    <2>1. index < Len(items) /\ items[index + 1] = encode_seal(seal)
        BY VectorProperties
    <2> QED BY <2>1, DataRead
<1>2. seal_at(List(items), index)
        = IF item.res = "Ok" THEN decode_seal(item.value) ELSE item
    BY DEF seal_at, AndThen
<1> HIDE DEF item
<1>3. item.res = "Ok" /\ item.value = encode_seal(seal)
    BY <1>1 DEF Ok
<1> QED BY <1>2, <1>3, SealSurvives

(* The extra-data comes back, whatever the vanity is, and the vanity too.  *)
LEMMA ExtraSurvives ==
    ASSUME NEW extra, IsExtra(extra), NEW vanity,
           IsArray(vanity, ISTANBUL_EXTRA_VANITY_LENGTH)
    PROVE  LET bytes == extra_to_rlp(extra, vanity)
           IN  /\ IsVector(bytes)
               /\ Len(bytes) = ISTANBUL_EXTRA_VANITY_LENGTH + 1
               /\ extra_from_rlp(bytes) = Ok(extra)
               /\ Vanity(bytes) = vanity
<1> DEFINE VLen == ISTANBUL_EXTRA_VANITY_LENGTH
           bytes == extra_to_rlp(extra, vanity)
<1>1. PICK items :
        items = <<List([i \in DOMAIN extra.added_validators |->
                        Data(extra.added_validators[i])]),
                  List([i \in DOMAIN extra.added_validators_public_keys |->
                        Data(extra.added_validators_public_keys[i])]),
                  Data(big_int_to_rlp_compat_bytes(extra.removed_validators)),
                  Data(extra.seal),
                  encode_seal(extra.aggregated_seal),
                  encode_seal(extra.parent_aggregated_seal)>>
    OBVIOUS
<1>2. IsVector(items) /\ Len(items) = 6
    <2>1. items = [i \in 1..6 |-> items[i]]
        BY <1>1
    <2> QED BY <2>1, FunctionIsVector
<1>3. IsVector(items)
    BY <1>2
<1> DEFINE rlp == List(items)
<1>4. fields_from_bytes(rlp, 0, ADDRESS_LENGTH) = Ok(extra.added_validators)
    <2>1. /\ 0 \in Nat /\ 1 = 0 + 1 /\ 1 \in 1..Len(items)
          /\ ADDRESS_LENGTH \in Nat
        BY <1>2, Lengths
    <2>2. PICK v : v = extra.added_validators
        OBVIOUS
    <2>3. IsVector(v) /\ \A i \in DOMAIN v : IsArray(v[i], ADDRESS_LENGTH)
        BY <2>2 DEF IsExtra
    <2>4. PICK data : data = [i \in DOMAIN v |-> Data(v[i])]
        OBVIOUS
    <2>5. /\ items[1] = List(data) /\ DOMAIN data = DOMAIN v
          /\ \A i \in DOMAIN v : data[i] = Data(v[i])
        BY <1>1, <2>2, <2>4
    <2>6. fields_from_bytes(rlp, 0, ADDRESS_LENGTH) = Ok(v)
        BY <2>1, <2>3, <2>5, <1>3, FieldsAt
    <2> QED BY <2>2, <2>6
<1>5. fields_from_bytes(rlp, 1, PUBLIC_KEY_LENGTH)
        = Ok(extra.added_validators_public_keys)
    <2>1. /\ 1 \in Nat /\ 2 = 1 + 1 /\ 2 \in 1..Len(items)
          /\ PUBLIC_KEY_LENGTH \in Nat
        BY <1>2, Lengths
    <2>2. PICK v : v = extra.added_validators_public_keys
        OBVIOUS
    <2>3. IsVector(v) /\ \A i \in DOMAIN v : IsArray(v[i], PUBLIC_KEY_LENGTH)
        BY <2>2 DEF IsExtra
    <2>4. PICK data : data = [i \in DOMAIN v |-> Data(v[i])]
        OBVIOUS
    <2>5. /\ items[2] = List(data) /\ DOMAIN data = DOMAIN v
          /\ \A i \in DOMAIN v : data[i] = Data(v[i])
        BY <1>1, <2>2, <2>4
    <2>6. fields_from_bytes(rlp, 1, PUBLIC_KEY_LENGTH) = Ok(v)
        BY <2>1, <2>3, <2>5, <1>3, FieldsAt
    <2> QED BY <2>2, <2>6
<1>6. rlp_to_big_int(rlp, 2) = Ok(extra.removed_validators)
    <2>1. /\ 2 \in Nat /\ 3 = 2 + 1 /\ 3 \in 1..Len(items)
          /\ extra.removed_validators \in Nat
        BY <1>2 DEF IsExtra
    <2>2. items[3]
            = Data(big_int_to_rlp_compat_bytes(extra.removed_validators))
        BY <1>1
    <2> QED BY <2>1, <2>2, <1>2, NumberAt
<1>7. bytes_at(rlp, 3) = Ok(extra.seal)
    <2>1. 3 \in Nat /\ 4 = 3 + 1 /\ 4 \in 1..Len(items)
        BY <1>2
    <2>2. items[4] = Data(extra.seal)
        BY <1>1
    <2> QED BY <2>1, <2>2, <1>2, BytesAt
<1>8. seal_at(rlp, 4) = Ok(extra.aggregated_seal)
    <2>1. /\ 4 \in Nat /\ 5 = 4 + 1 /\ 5 \in 1..Len(items)
          /\ IsSeal(extra.aggregated_seal)
        BY <1>2 DEF IsExtra
    <2>2. items[5] = encode_seal(extra.aggregated_seal)
        BY <1>1
    <2> QED BY <2>1, <2>2, <1>2, SealAt
<1>9. seal_at(rlp, 5) = Ok(extra.parent_aggregated_seal)
    <2>1. /\ 5 \in Nat /\ 6 = 5 + 1 /\ 6 \in 1..Len(items)
          /\ IsSeal(extra.parent_aggregated_seal)
        BY <1>2 DEF IsExtra
    <2>2. items[6] = encode_seal(extra.parent_aggregated_seal)
        BY <1>1
    <2> QED BY <2>1, <2>2, <1>2, SealAt
<1>10. bytes = vanity \o <<rlp>>
    BY <1>1 DEF extra_to_rlp
<1> HIDE DEF rlp
<1>11. /\ VLen \in Nat /\ IsVector(vanity) /\ Len(vanity) = VLen
       /\ DOMAIN vanity = 1..VLen
    BY Lengths, VectorProperties DEF IsArray
<1>12. IsVector(<<rlp>>) /\ Len(<<rlp>>) = 1
    <2>1. <<rlp>> = [i \in 1..1 |-> <<rlp>>[i]]
        OBVIOUS
    <2> QED BY <2>1, FunctionIsVector
<1>13. /\ IsVector(bytes) /\ Len(bytes) = VLen + 1
       /\ \A i \in 1..VLen + 1 :
            bytes[i] = IF i <= VLen THEN vanity[i] ELSE <<rlp>>[i - VLen]
    BY <1>10, <1>11, <1>12, VectorConcat
<1> HIDE DEF bytes
<1>14. bytes[VLen + 1] = rlp
    <2>1. bytes[VLen + 1] = <<rlp>>[VLen + 1 - VLen]
        BY <1>11, <1>13
    <2> QED BY <2>1, <1>11
<1>15. Vanity(bytes) = vanity
    <2>1. \A i \in 1..VLen : bytes[i] = vanity[i]
        BY <1>11, <1>13
    <2>2. Vanity(bytes) = [i \in 1..VLen |-> bytes[i]]
        BY <1>11, <1>13 DEF Vanity
    <2>3. vanity = [i \in 1..VLen |-> vanity[i]]
        BY <1>11, VectorProperties
    <2>4. [i \in 1..VLen |-> bytes[i]] = [i \in 1..VLen |-> vanity[i]]
        BY <2>1
    <2> QED BY <2>2, <2>3, <2>4, Zenon
<1>16. PICK parts : parts = PartsOfExtra(rlp)
    OBVIOUS
<1>17. parts = <<Ok(extra.added_validators),
                 Ok(extra.added_validators_public_keys),
                 Ok(extra.removed_validators), Ok(extra.seal),
                 Ok(extra.aggregated_seal), Ok(extra.parent_aggregated_seal)>>
    BY <1>4, <1>5, <1>6, <1>7, <1>8, <1>9, <1>16 DEF PartsOfExtra
<1>18. DOMAIN parts = 1..6 /\ \A i \in DOMAIN parts : parts[i].res = "Ok"
    BY <1>17 DEF Ok
<1>19. PICK f : f = [i \in DOMAIN parts |-> parts[i].value]
    OBVIOUS
<1>20. Each(parts) = Ok(f)
    BY <1>18, <1>19, EachOk
<1>21. extra_from_rlp(bytes) =
            IF Len(bytes) <= VLen
            THEN Refused("RlpDecodeError")
            ELSE IF parts[1].res = "Panic" \/ parts[2].res = "Panic"
            THEN Refused("Panic")
            ELSE IF Each(parts).res = "Ok"
            THEN Ok(ExtraOf(Each(parts).value)) ELSE Each(parts)
    <2>1. Len(bytes) \in Nat
        BY <1>11, <1>13
    <2> QED BY <2>1, <1>14, <1>16, ExtraDecoding
<1>22. extra_from_rlp(bytes) = Ok(ExtraOf(f))
    <2>1. /\ ~ (Len(bytes) <= VLen)
          /\ ~ (parts[1].res = "Panic") /\ ~ (parts[2].res = "Panic")
        BY <1>11, <1>13, <1>18
    <2>2. Each(parts).res = "Ok" /\ Each(parts).value = f
        BY <1>20 DEF Ok
    <2> QED BY <2>1, <2>2, <1>21
<1>23. /\ f[1] = extra.added_validators
       /\ f[2] = extra.added_validators_public_keys
       /\ f[3] = extra.removed_validators /\ f[4] = extra.seal
       /\ f[5] = extra.aggregated_seal /\ f[6] = extra.parent_aggregated_seal
    BY <1>17, <1>18, <1>19 DEF Ok
<1>24. ExtraOf(f) = extra
    BY <1>23 DEF IsExtra, ExtraOf
<1> QED BY <1>13, <1>15, <1>22, <1>24 DEF bytes

(* The fields of a header, and that they determine it.                     *)
LEMMA HeaderParts ==
    ASSUME NEW header, IsHeader(header)
    PROVE  /\ \A i \in 1..6 : /\ IsArray(header[ArrayFields[i]], ArrayLength[i])
                              /\ ArrayLength[i] \in Nat
           /\ header.number \in Nat /\ header.gas_used \in 0..MaxU64
           /\ header.time \in 0..MaxU64 /\ IsVector(header.extra)
           /\ \A f : /\ \A i \in 1..6 : f[i] = header[ArrayFields[i]]
                     /\ f[7] = header.number /\ f[8] = header.gas_used
                     /\ f[9] = header.time /\ f[10] = header.extra
                     => HeaderOf(f) = header
<1>1. \A i \in 1..6 : ArrayLength[i] \in Nat
    <2>1. \A i \in 1..6 : i = 1 \/ i = 2 \/ i = 3 \/ i = 4 \/ i = 5 \/ i = 6
        OBVIOUS
    <2> QED BY <2>1, Lengths DEF ArrayLength
<1>2. ASSUME NEW f,
             \A i \in 1..6 : f[i] = header[ArrayFields[i]],
             f[7] = header.number, f[8] = header.gas_used,
             f[9] = header.time, f[10] = header.extra
      PROVE  HeaderOf(f) = header
    <2>1. PICK s : s = [i \in 1..6 |-> header[ArrayFields[i]]]
        OBVIOUS
    <2>2. PICK g : g = s \o <<header.number, header.gas_used, header.time,
                              header.extra>>
        OBVIOUS
    <2>3. s = [i \in 1..6 |-> s[i]] /\ \A i \in 1..6 : s[i] = f[i]
        BY <2>1, <1>2
    <2>4. /\ \A i \in 1..6 : g[i] = s[i]
          /\ g[7] = header.number /\ g[8] = header.gas_used
          /\ g[9] = header.time /\ g[10] = header.extra
        BY <2>2, <2>3, SixAndFour
    <2>5. /\ f[1] = g[1] /\ f[2] = g[2] /\ f[3] = g[3] /\ f[4] = g[4]
          /\ f[5] = g[5] /\ f[6] = g[6]
        BY <2>3, <2>4
    <2>6. HeaderOf(f) = HeaderOf(g)
        BY <2>4, <2>5, <1>2 DEF HeaderOf
    <2>7. header = HeaderOf(g)
        BY <2>1, <2>2 DEF IsHeader
    <2> QED BY <2>6, <2>7
<1> QED BY <1>1, <1>2 DEF IsHeader

(* Ten conversions that all succeed, six of them of arrays.                *)
LEMMA TenRead ==
    ASSUME NEW header, IsHeader(header), NEW s, s = [i \in 1..6 |-> s[i]],
           \A i \in 1..6 : s[i] = Ok(header[ArrayFields[i]])
    PROVE  LET all == Each(s \o <<Ok(header.number), Ok(header.gas_used),
                                  Ok(header.time), Ok(header.extra)>>)
           IN  all.res = "Ok" /\ HeaderOf(all.value) = header
<1>1. PICK parts : parts = s \o <<Ok(header.number), Ok(header.gas_used),
                                  Ok(header.time), Ok(header.extra)>>
    OBVIOUS
<1>2. /\ DOMAIN parts = 1..10 /\ \A i \in 1..6 : parts[i] = s[i]
      /\ parts[7] = Ok(header.number) /\ parts[8] = Ok(header.gas_used)
      /\ parts[9] = Ok(header.time) /\ parts[10] = Ok(header.extra)
    BY <1>1, SixAndFour
<1>3. \A i \in 1..10 : parts[i].res = "Ok"
    <2>1. \A i \in 1..10 : i \in 1..6 \/ i = 7 \/ i = 8 \/ i = 9 \/ i = 10
        OBVIOUS
    <2> QED BY <2>1, <1>2 DEF Ok
<1>4. PICK f : f = [i \in 1..10 |-> parts[i].value]
    OBVIOUS
<1>5. Each(parts) = Ok(f)
    BY <1>2, <1>3, <1>4, EachOk
<1>6. /\ \A i \in 1..6 : f[i] = header[ArrayFields[i]]
      /\ f[7] = header.number /\ f[8] = header.gas_used
      /\ f[9] = header.time /\ f[10] = header.extra
    <2>1. \A i \in 1..6 : i \in 1..10
        OBVIOUS
    <2> QED BY <1>2, <1>4, <2>1 DEF Ok
<1>7. HeaderOf(f) = header
    BY <1>6, HeaderParts
<1> QED BY <1>1, <1>5, <1>7 DEF Ok

(* A header comes back from the list it is written to.                     *)
LEMMA HeaderSurvives ==
    ASSUME NEW header, IsHeader(header)
    PROVE  header_from_rlp(header_to_rlp(header)) = Ok(header)
<1>1. PICK d : d = [i \in 1..6 |-> Data(header[ArrayFields[i]])]
    OBVIOUS
<1>2. PICK items :
        items = d \o <<Data(big_int_to_rlp_compat_bytes(header.number)),
                       Data(big_int_to_rlp_compat_bytes(header.gas_used)),
                       Data(big_int_to_rlp_compat_bytes(header.time)),
                       Data(header.extra)>>
    OBVIOUS
<1>3. /\ IsVector(items) /\ Len(items) = 10
      /\ \A i \in 1..6 : items[i] = Data(header[ArrayFields[i]])
      /\ items[7] = Data(big_int_to_rlp_compat_bytes(header.number))
      /\ items[8] = Data(big_int_to_rlp_compat_bytes(header.gas_used))
      /\ items[9] = Data(big_int_to_rlp_compat_bytes(header.time))
      /\ items[10] = Data(header.extra)
    <2>1. d = [i \in 1..6 |-> d[i]]
        BY <1>1
    <2>2. /\ IsVector(items) /\ Len(items) = 10
          /\ \A i \in 1..6 : items[i] = d[i]
          /\ items[7] = Data(big_int_to_rlp_compat_bytes(header.number))
          /\ items[8] = Data(big_int_to_rlp_compat_bytes(header.gas_used))
          /\ items[9] = Data(big_int_to_rlp_compat_bytes(header.time))
          /\ items[10] = Data(header.extra)
        BY <2>1, <1>2, SixAndFour
    <2> QED BY <2>2, <1>1
<1>4. IsVector(items)
    BY <1>3
<1>5. PICK rlp : rlp = List(items)
    OBVIOUS
<1>6. header_to_rlp(header) = rlp
    BY <1>1, <1>2, <1>5 DEF header_to_rlp
<1>7. PICK s : s = [i \in 1..6 |->
                    rlp_list_field_from_bytes(rlp, i - 1, ArrayLength[i])]
    OBVIOUS
<1>8. s = [i \in 1..6 |-> s[i]]
    BY <1>7
<1>9. ASSUME NEW i \in 1..6 PROVE s[i] = Ok(header[ArrayFields[i]])
    <2>1. /\ i - 1 \in Nat /\ i = i - 1 + 1 /\ i \in 1..Len(items)
          /\ ArrayLength[i] \in Nat
        BY <1>3, HeaderParts
    <2>2. IsArray(header[ArrayFields[i]], ArrayLength[i])
        BY HeaderParts
    <2>3. items[i] = Data(header[ArrayFields[i]])
        BY <1>3
    <2>4. rlp_list_field_from_bytes(List(items), i - 1, ArrayLength[i])
            = Ok(header[ArrayFields[i]])
        BY <2>1, <2>2, <2>3, <1>4, ArrayAt
    <2> QED BY <2>4, <1>5, <1>7
<1>10. rlp_to_big_int(rlp, 6) = Ok(header.number)
    <2>1. 6 \in Nat /\ 7 = 6 + 1 /\ 7 \in 1..Len(items)
        BY <1>3
    <2>2. items[7] = Data(big_int_to_rlp_compat_bytes(header.number))
        BY <1>3
    <2>3. header.number \in Nat
        BY HeaderParts
    <2> QED BY <2>1, <2>2, <2>3, <1>4, <1>5, NumberAt
<1>11. u64_at(rlp, 7) = Ok(header.gas_used)
    <2>1. 7 \in Nat /\ 8 = 7 + 1 /\ 8 \in 1..Len(items)
        BY <1>3
    <2>2. items[8] = Data(big_int_to_rlp_compat_bytes(header.gas_used))
        BY <1>3
    <2>3. header.gas_used \in Nat /\ header.gas_used <= MaxU64
        BY HeaderParts, MaxU64Assumption
    <2> QED BY <2>1, <2>2, <2>3, <1>4, <1>5, NumberAt
<1>12. u64_at(rlp, 8) = Ok(header.time)
    <2>1. 8 \in Nat /\ 9 = 8 + 1 /\ 9 \in 1..Len(items)
        BY <1>3
    <2>2. items[9] = Data(big_int_to_rlp_compat_bytes(header.time))
        BY <1>3
    <2>3. header.time \in Nat /\ header.time <= MaxU64
        BY HeaderParts, MaxU64Assumption
    <2> QED BY <2>1, <2>2, <2>3, <1>4, <1>5, NumberAt
<1>13. bytes_at(rlp, 9) = Ok(header.extra)
    <2>1. 9 \in Nat /\ 10 = 9 + 1 /\ 10 \in 1..Len(items)
        BY <1>3
    <2>2. items[10] = Data(header.extra)
        BY <1>3
    <2> QED BY <2>1, <2>2, <1>4, <1>5, BytesAt
<1>14. PICK all : all = Each(s \o <<rlp_to_big_int(rlp, 6), u64_at(rlp, 7),
                                    u64_at(rlp, 8), bytes_at(rlp, 9)>>)
    OBVIOUS
<1>15. header_from_rlp(rlp)
        = IF all.res = "Ok" THEN Ok(HeaderOf(all.value)) ELSE all
    BY <1>7, <1>14 DEF header_from_rlp, AndThen
<1>16. all.res = "Ok" /\ HeaderOf(all.value) = header
    BY <1>8, <1>9, <1>10, <1>11, <1>12, <1>13, <1>14, TenRead
<1> QED BY <1>6, <1>15, <1>16

-----------------------------------------------------------------------------
(* The snapshot on its way to the host and back (types/state.rs:21-170).   *)

(* A finite set of numbers has a largest.                                  *)
LEMMA LargestNatural ==
    ASSUME NEW S \in SUBSET Nat, IsFiniteSet(S), S # {}
    PROVE  Max(S) \in S /\ \A y \in S : y <= Max(S)
<1> DEFINE HasMax(T) == \E m \in T : \A y \in T : m >= y
           Bad == {n \in Nat : \E T \in SUBSET Nat :
                        /\ IsFiniteSet(T) /\ T # {} /\ Cardinality(T) = n
                        /\ ~ HasMax(T)}
<1>1. Bad \in SUBSET Nat
    OBVIOUS
<1>2. Bad = {}
    <2> HIDE DEF Bad
    <2> SUFFICES ASSUME Bad # {} PROVE FALSE
        OBVIOUS
    <2>1. PICK n \in Bad : \A y \in Bad : n <= y
        BY <1>1, LeastNatural
    <2>2. PICK T \in SUBSET Nat : /\ IsFiniteSet(T) /\ T # {}
                                  /\ Cardinality(T) = n /\ ~ HasMax(T)
        BY <2>1 DEF Bad
    <2>3. PICK x \in T : TRUE
        BY <2>2
    <2> DEFINE U == T \ {x}
    <2>4. U \in SUBSET Nat /\ IsFiniteSet(U) /\ Cardinality(U) = n - 1
        BY <2>2, FS_RemoveElement
    <2>5. U # {}
        <3> SUFFICES ASSUME U = {} PROVE FALSE
            OBVIOUS
        <3>1. T = {x} /\ x \in Nat
            BY <2>3
        <3> QED BY <3>1, <2>2
    <2> HIDE DEF U
    <2>6. HasMax(U)
        <3>1. Cardinality(U) \in Nat /\ ~ (n <= n - 1)
            BY <2>1, <1>1, <2>4, FS_CardinalityType
        <3>2. n - 1 \notin Bad /\ n - 1 \in Nat
            BY <3>1, <2>1, <2>4
        <3> HIDE DEF HasMax
        <3> QED BY <3>2, <2>4, <2>5 DEF Bad
    <2>7. PICK m \in U : \A y \in U : m >= y
        BY <2>6
    <2>8. x \in Nat /\ m \in Nat /\ m \in T
        BY <2>3, <2>4, <2>7 DEF U
    <2>9. \A y \in T : y = x \/ y \in U
        BY DEF U
    <2>10. CASE m >= x
        BY <2>2, <2>7, <2>8, <2>9, <2>10
    <2>11. CASE ~ (m >= x)
        <3>1. \A y \in U : y \in Nat /\ x >= y
            BY <2>4, <2>7, <2>8, <2>11
        <3> QED BY <3>1, <2>2, <2>3, <2>8, <2>9
    <2> QED BY <2>10, <2>11
<1>3. HasMax(S)
    <2>1. Cardinality(S) \in Nat /\ Cardinality(S) \notin Bad
        BY <1>2, FS_CardinalityType
    <2> HIDE DEF HasMax
    <2> QED BY <2>1
<1>4. PICK m \in S : \A y \in S : m >= y
    BY <1>3
<1>5. Max(S) \in S /\ \A y \in S : Max(S) >= y
    BY <1>4 DEF Max
<1>6. \A y \in S : y \in Nat
    OBVIOUS
<1> QED BY <1>5, <1>6

(* The number of a bitmap is a number.                                     *)
LEMMA BitmapType ==
    ASSUME NEW bits \in SUBSET Nat, IsFiniteSet(bits)
    PROVE  BitmapOf(bits) \in Nat
<1> DEFINE length == IF bits = {} THEN 0 ELSE Max(bits) + 1
           digits == [i \in 1..length |-> IF length - i \in bits THEN 1 ELSE 0]
<1>1. length \in Nat
    <2>1. bits # {} => Max(bits) \in Nat
        BY LargestNatural
    <2> QED BY <2>1
<1> HIDE DEF length
<1>2. digits \in Seq(Nat)
    BY <1>1
<1>3. BitmapOf(bits) = Number(digits, 2)
    BY DEF BitmapOf, length
<1> HIDE DEF digits
<1> QED BY <1>2, <1>3, NumberType

(* A seal that gets into a snapshot is one that can be encoded.            *)
LEMMA WireSealType ==
    ASSUME NEW seal, seal = NoSeal \/ \E h \in Headers : seal = h.aggregated_seal
    PROVE  IsSeal(SealOnWire(seal))
<1>1. /\ seal.bitmap \in SUBSET Nat /\ IsFiniteSet(seal.bitmap)
      /\ seal.round \in Nat
    <2>1. CASE seal = NoSeal
        BY <2>1, FS_EmptySet DEF NoSeal
    <2>2. CASE \E h \in Headers : seal = h.aggregated_seal
        BY <2>2, SealsAssumption
    <2> QED BY <2>1, <2>2
<1>2. IsVector(SignatureBytes(seal.signature))
    <2>1. IsVector(<<>>)
        <3>1. <<>> \in Seq(Nat)
            OBVIOUS
        <3> QED BY <3>1, Vectors
    <2>2. ASSUME NEW x PROVE IsVector(<<x>>)
        <3>1. <<x>> \in Seq({x})
            OBVIOUS
        <3> QED BY <3>1, Vectors
    <2> QED BY <2>1, <2>2 DEF SignatureBytes
<1>3. PICK s : s = SealOnWire(seal)
    OBVIOUS
<1>4. /\ s = [bitmap |-> s.bitmap, signature |-> s.signature, round |-> s.round]
      /\ s.bitmap = BitmapOf(seal.bitmap) /\ s.round = seal.round
      /\ s.signature = SignatureBytes(seal.signature)
    BY <1>3 DEF SealOnWire
<1>5. s.bitmap \in Nat
    BY <1>1, <1>4, BitmapType
<1> QED BY <1>1, <1>2, <1>3, <1>4, <1>5 DEF IsSeal

(* A validator comes back from its RLP (types/state.rs:21-37).             *)
LEMMA ValidatorSurvives ==
    ASSUME NEW validator \in Validator
    PROVE  decode_validator(encode_validator(validator)) = Ok(validator)
<1>1. /\ validator = [address |-> validator.address,
                      public_key |-> validator.public_key]
      /\ validator.address \in Address /\ validator.public_key \in PublicKey
    BY DEF Validator
<1>2. /\ IsArray(validator.address, ADDRESS_LENGTH)
      /\ IsArray(validator.public_key, PUBLIC_KEY_LENGTH)
      /\ ADDRESS_LENGTH \in Nat /\ PUBLIC_KEY_LENGTH \in Nat
    BY <1>1, ArraysAssumption, Lengths
<1>3. PICK items : items = <<Data(validator.address), Data(validator.public_key)>>
    OBVIOUS
<1>4. IsVector(items) /\ Len(items) = 2
    <2>1. items = [i \in 1..2 |-> items[i]]
        BY <1>3
    <2> QED BY <2>1, FunctionIsVector
<1>5. PICK rlp : rlp = List(items)
    OBVIOUS
<1>6. rlp_list_field_from_bytes(rlp, 0, ADDRESS_LENGTH)
        = Ok(validator.address)
    <2>1. 0 \in Nat /\ 1 = 0 + 1 /\ 1 \in 1..Len(items)
        BY <1>4
    <2>2. items[1] = Data(validator.address)
        BY <1>3
    <2>3. /\ IsArray(validator.address, ADDRESS_LENGTH)
          /\ ADDRESS_LENGTH \in Nat /\ IsVector(items)
        BY <1>2, <1>4
    <2> QED BY <2>1, <2>2, <2>3, <1>5, ArrayAt
<1>7. rlp_list_field_from_bytes(rlp, 1, PUBLIC_KEY_LENGTH)
        = Ok(validator.public_key)
    <2>1. 1 \in Nat /\ 2 = 1 + 1 /\ 2 \in 1..Len(items)
        BY <1>4
    <2>2. items[2] = Data(validator.public_key)
        BY <1>3
    <2>3. /\ IsArray(validator.public_key, PUBLIC_KEY_LENGTH)
          /\ PUBLIC_KEY_LENGTH \in Nat /\ IsVector(items)
        BY <1>2, <1>4
    <2> QED BY <2>1, <2>2, <2>3, <1>5, ArrayAt
<1>8. PICK parts :
        parts = <<rlp_list_field_from_bytes(rlp, 0, ADDRESS_LENGTH),
                  rlp_list_field_from_bytes(rlp, 1, PUBLIC_KEY_LENGTH)>>
    OBVIOUS
<1>9. /\ DOMAIN parts = 1..2 /\ \A i \in DOMAIN parts : parts[i].res = "Ok"
      /\ parts[1].value = validator.address
      /\ parts[2].value = validator.public_key
    BY <1>6, <1>7, <1>8 DEF Ok
<1>10. PICK f : f = [i \in DOMAIN parts |-> parts[i].value]
    OBVIOUS
<1>11. Each(parts) = Ok(f)
    BY <1>9, <1>10, EachOk
<1>12. f[1] = validator.address /\ f[2] = validator.public_key
    BY <1>9, <1>10
<1>13. decode_validator(rlp)
        = IF Each(parts).res = "Ok"
          THEN Ok([address |-> Each(parts).value[1],
                   public_key |-> Each(parts).value[2]])
          ELSE Each(parts)
    BY <1>8 DEF decode_validator, AndThen
<1>14. decode_validator(rlp) = Ok([address |-> f[1], public_key |-> f[2]])
    BY <1>11, <1>13 DEF Ok
<1>15. encode_validator(validator) = rlp
    BY <1>3, <1>5 DEF encode_validator
<1> QED BY <1>1, <1>12, <1>14, <1>15

(* So does a set of validators.                                            *)
LEMMA ValidatorsSurvive ==
    ASSUME NEW validators \in Seq(Validator)
    PROVE  LET items == [i \in DOMAIN validators |->
                            encode_validator(validators[i])]
           IN  Each([i \in DOMAIN items |-> decode_validator(items[i])])
                    = Ok(validators)
<1> DEFINE items == [i \in DOMAIN validators |->
                        encode_validator(validators[i])]
<1>1. PICK parts : parts = [i \in DOMAIN items |-> decode_validator(items[i])]
    OBVIOUS
<1>2. DOMAIN validators = 1..Len(validators) /\ DOMAIN parts = DOMAIN validators
    BY <1>1, LenProperties
<1>3. ASSUME NEW i \in DOMAIN validators
      PROVE  parts[i].res = "Ok" /\ parts[i].value = validators[i]
    <2>1. validators[i] \in Validator
        BY <1>2, ElementOfSeq
    <2>2. parts[i] = decode_validator(encode_validator(validators[i]))
        BY <1>1
    <2>3. parts[i] = Ok(validators[i])
        BY <2>1, <2>2, ValidatorSurvives
    <2> QED BY <2>3 DEF Ok
<1>4. Each(parts) = Ok([i \in DOMAIN parts |-> parts[i].value])
    BY <1>2, <1>3, EachOk
<1>5. [i \in DOMAIN parts |-> parts[i].value] = validators
    <2>1. validators = [i \in DOMAIN validators |-> validators[i]]
        BY LenProperties
    <2>2. [i \in DOMAIN parts |-> parts[i].value]
            = [i \in DOMAIN validators |-> validators[i]]
        BY <1>2, <1>3
    <2> QED BY <2>1, <2>2, Zenon
<1> QED BY <1>1, <1>4, <1>5

(* The types of a snapshot in Rust (types/state.rs:94-110).                *)
IsSnapshot(s) ==
    /\ s = [number |-> s.number, timestamp |-> s.timestamp,
            validators |-> s.validators, hash |-> s.hash,
            aggregated_seal |-> s.aggregated_seal]
    /\ s.number \in U64 /\ s.timestamp \in U64
    /\ s.validators \in Seq(Validator) /\ IsArray(s.hash, HASH_LENGTH)
    /\ IsSeal(s.aggregated_seal)

(* A snapshot of the types in Rust comes back.                             *)
LEMMA SnapshotReadBack ==
    ASSUME NEW s, IsSnapshot(s)
    PROVE  snapshot_from_rlp(snapshot_to_rlp(s)) = Ok(s)
<1>1. PICK list : list = [i \in DOMAIN s.validators |->
                            encode_validator(s.validators[i])]
    OBVIOUS
<1>2. PICK items :
        items = <<Data(big_int_to_rlp_compat_bytes(s.number)),
                  Data(big_int_to_rlp_compat_bytes(s.timestamp)),
                  List(list), Data(s.hash), encode_seal(s.aggregated_seal)>>
    OBVIOUS
<1>3. IsVector(items) /\ Len(items) = 5
    <2>1. items = [i \in 1..5 |-> items[i]]
        BY <1>2
    <2> QED BY <2>1, FunctionIsVector
<1>4. IsVector(items)
    BY <1>3
<1>5. PICK rlp : rlp = List(items)
    OBVIOUS
<1>6. u64_at(rlp, 0) = Ok(s.number)
    <2>1. 0 \in Nat /\ 1 = 0 + 1 /\ 1 \in 1..Len(items)
        BY <1>3
    <2>2. items[1] = Data(big_int_to_rlp_compat_bytes(s.number))
        BY <1>2
    <2>3. s.number \in Nat /\ s.number <= MaxU64
        BY MaxU64Assumption DEF U64, IsSnapshot
    <2> QED BY <2>1, <2>2, <2>3, <1>4, <1>5, NumberAt
<1>7. u64_at(rlp, 1) = Ok(s.timestamp)
    <2>1. 1 \in Nat /\ 2 = 1 + 1 /\ 2 \in 1..Len(items)
        BY <1>3
    <2>2. items[2] = Data(big_int_to_rlp_compat_bytes(s.timestamp))
        BY <1>2
    <2>3. s.timestamp \in Nat /\ s.timestamp <= MaxU64
        BY MaxU64Assumption DEF U64, IsSnapshot
    <2> QED BY <2>1, <2>2, <2>3, <1>4, <1>5, NumberAt
<1>8. rlp_list_field_from_bytes(rlp, 3, HASH_LENGTH) = Ok(s.hash)
    <2>1. 3 \in Nat /\ 4 = 3 + 1 /\ 4 \in 1..Len(items) /\ HASH_LENGTH \in Nat
        BY <1>3, Lengths
    <2>2. items[4] = Data(s.hash) /\ IsArray(s.hash, HASH_LENGTH)
        BY <1>2 DEF IsSnapshot
    <2> QED BY <2>1, <2>2, <1>4, <1>5, ArrayAt
<1>9. seal_at(rlp, 4) = Ok(s.aggregated_seal)
    <2>1. 4 \in Nat /\ 5 = 4 + 1 /\ 5 \in 1..Len(items)
        BY <1>3
    <2>2. items[5] = encode_seal(s.aggregated_seal)
        BY <1>2
    <2>3. IsSeal(s.aggregated_seal)
        BY DEF IsSnapshot
    <2> QED BY <2>1, <2>2, <2>3, <1>4, <1>5, SealAt
<1> DEFINE validators(l) ==
                LET its == IF IsList(l) THEN l[2] ELSE <<>>
                IN  Each([i \in DOMAIN its |-> decode_validator(its[i])])
           read == at(rlp, 2)
           first == IF read.res = "Ok" THEN validators(read.value) ELSE read
<1>10. first = Ok(s.validators)
    <2>1. read = Ok(List(list))
        <3>1. 2 \in Nat /\ 2 < Len(items) /\ items[2 + 1] = List(list)
            BY <1>2, <1>3
        <3> QED BY <3>1, <1>4, <1>5, DataRead
    <2>2. read.res = "Ok" /\ read.value = List(list)
        <3> HIDE DEF read
        <3> QED BY <2>1 DEF Ok
    <2>3. validators(List(list))
            = Each([i \in DOMAIN list |-> decode_validator(list[i])])
        BY ItemParts
    <2>4. Each([i \in DOMAIN list |-> decode_validator(list[i])])
            = Ok(s.validators)
        BY <1>1, ValidatorsSurvive DEF IsSnapshot
    <2> HIDE DEF read, validators
    <2> QED BY <2>2, <2>3, <2>4
<1>11. PICK parts :
        parts = <<first, u64_at(rlp, 0), u64_at(rlp, 1),
                  rlp_list_field_from_bytes(rlp, 3, HASH_LENGTH),
                  seal_at(rlp, 4)>>
    OBVIOUS
<1>12. snapshot_from_rlp(rlp) =
        IF Each(parts).res = "Ok"
        THEN LET f == Each(parts).value
             IN  Ok([number |-> f[2], timestamp |-> f[3],
                     validators |-> f[1], hash |-> f[4],
                     aggregated_seal |-> f[5]])
        ELSE Each(parts)
    BY <1>11 DEF snapshot_from_rlp, AndThen
<1> HIDE DEF first
<1>13. /\ DOMAIN parts = 1..5 /\ \A i \in DOMAIN parts : parts[i].res = "Ok"
       /\ parts[1].value = s.validators /\ parts[2].value = s.number
       /\ parts[3].value = s.timestamp /\ parts[4].value = s.hash
       /\ parts[5].value = s.aggregated_seal
    BY <1>6, <1>7, <1>8, <1>9, <1>10, <1>11 DEF Ok
<1>14. PICK f : f = [i \in DOMAIN parts |-> parts[i].value]
    OBVIOUS
<1>15. Each(parts) = Ok(f)
    BY <1>13, <1>14, EachOk
<1>16. /\ f[1] = s.validators /\ f[2] = s.number /\ f[3] = s.timestamp
       /\ f[4] = s.hash /\ f[5] = s.aggregated_seal
    BY <1>13, <1>14
<1>17. snapshot_from_rlp(rlp)
        = Ok([number |-> f[2], timestamp |-> f[3], validators |-> f[1],
              hash |-> f[4], aggregated_seal |-> f[5]])
    <2>1. Each(parts).res = "Ok" /\ Each(parts).value = f
        BY <1>15 DEF Ok
    <2> QED BY <2>1, <1>12
<1>18. snapshot_to_rlp(s) = rlp
    BY <1>1, <1>2, <1>5 DEF snapshot_to_rlp
<1> QED BY <1>16, <1>17, <1>18 DEF IsSnapshot

(* And the snapshot of the client has those types.                         *)
LEMMA SnapshotOnWireType ==
    ASSUME TypeOK
    PROVE  SnapshotSurvives
<1>1. /\ snapshot = [number |-> snapshot.number,
                     timestamp |-> snapshot.timestamp,
                     validators |-> snapshot.validators,
                     hash |-> snapshot.hash,
                     aggregated_seal |-> snapshot.aggregated_seal]
      /\ snapshot.number \in U64 /\ snapshot.timestamp \in U64
      /\ snapshot.validators \in Seq(Validator)
      /\ \/ snapshot.aggregated_seal = NoSeal
         \/ \E h \in Headers : snapshot.aggregated_seal = h.aggregated_seal
    BY DEF TypeOK
<1>2. PICK s : s = SnapshotOnWire
    OBVIOUS
<1>3. /\ s = [number |-> s.number, timestamp |-> s.timestamp,
              validators |-> s.validators, hash |-> s.hash,
              aggregated_seal |-> s.aggregated_seal]
      /\ s.number = snapshot.number /\ s.timestamp = snapshot.timestamp
      /\ s.validators = snapshot.validators
      /\ s.hash = Opaque(snapshot.hash, HASH_LENGTH)
      /\ s.aggregated_seal = SealOnWire(snapshot.aggregated_seal)
    BY <1>1, <1>2 DEF SnapshotOnWire
<1>4. IsArray(s.hash, HASH_LENGTH)
    <2>1. s.hash = [i \in 1..HASH_LENGTH |-> <<snapshot.hash, i>>]
        BY <1>3 DEF Opaque
    <2>2. s.hash = [i \in 1..HASH_LENGTH |-> s.hash[i]]
        BY <2>1
    <2> QED BY <2>2, Lengths, FunctionIsVector DEF IsArray
<1>5. IsSeal(s.aggregated_seal)
    BY <1>1, <1>3, WireSealType
<1>6. snapshot_from_rlp(snapshot_to_rlp(s)) = Ok(s)
    <2>1. IsSnapshot(s)
        BY <1>1, <1>3, <1>4, <1>5 DEF IsSnapshot
    <2> QED BY <2>1, SnapshotReadBack
<1> QED BY <1>2, <1>6 DEF SnapshotSurvives

-----------------------------------------------------------------------------
(* The hash, taken over bytes (istanbul.rs:47-60, types/header.rs:184-190). *)

(* The lowest bit of a number, if it is set.                               *)
Odd(n) == IF n % 2 = 1 THEN {0} ELSE {}

(* The recursion by which the active bits are modelled has a solution.     *)
LEMMA BitsOfNumber ==
    \A n \in Nat : /\ active_bits[n] \in SUBSET Nat
                   /\ active_bits[n]
                        = {bit + 1 : bit \in active_bits[n \div 2]} \cup Odd(n)
<1> DEFINE D == SUBSET Nat
           p == [n \in Nat |-> IF n = 0 THEN 0 ELSE n \div 2]
           g == [x \in Nat \X D |-> {bit + 1 : bit \in x[2]} \cup Odd(x[1])]
           Value(f) == [n \in Nat |-> IF n = 0 THEN {}
                        ELSE {bit + 1 : bit \in f[n \div 2]}
                                \cup (IF n % 2 = 1 THEN {0} ELSE {})]
<1>1. \A n \in Nat : n \div 2 \in Nat /\ (n # 0 => n \div 2 < n)
    BY Division
<1>2. p \in [Nat -> Nat] /\ \A n \in Nat : n # 0 => p[n] < n
    BY <1>1
<1>3. g \in [Nat \X D -> D]
    <2>1. ASSUME NEW x \in Nat \X D
          PROVE  {bit + 1 : bit \in x[2]} \cup Odd(x[1]) \in D
        <3>1. x[2] \in D
            BY <2>1
        <3>2. {bit + 1 : bit \in x[2]} \in D
            BY <3>1
        <3>3. Odd(x[1]) \in D
            BY DEF Odd
        <3> QED BY <3>2, <3>3
    <2> QED BY <2>1
<1>4. PICK f \in [Nat -> D] : IsRecursive(f, {}, p, g)
    <2>1. {} \in D
        OBVIOUS
    <2> HIDE DEF D, p, g
    <2> QED BY <1>2, <1>3, <2>1, RecursionExists, Zenon
<1>5. f = Value(f)
    <2>1. ASSUME NEW n \in Nat, n # 0
          PROVE  f[n] = {bit + 1 : bit \in f[n \div 2]} \cup Odd(n)
        <3>1. p[n] = n \div 2
            BY <2>1
        <3>2. f[n] = g[<<n, f[p[n]]>>]
            <4> HIDE DEF p, g, D
            <4> QED BY <1>4, <2>1 DEF IsRecursive
        <3>3. f[p[n]] \in D
            BY <1>2, <2>1
        <3>4. <<n, f[p[n]]>> \in Nat \X D
            BY <3>3
        <3> HIDE DEF D, p
        <3>5. g[<<n, f[p[n]]>>] = {bit + 1 : bit \in f[p[n]]} \cup Odd(n)
            BY <3>4
        <3> QED BY <3>1, <3>2, <3>5
    <2>2. f[0] = {}
        BY <1>4 DEF IsRecursive
    <2>3. \A n \in Nat : n = 0 \/ n # 0
        OBVIOUS
    <2>4. f = [n \in Nat |-> f[n]]
        OBVIOUS
    <2>5. [n \in Nat |-> f[n]] = Value(f)
        BY <2>1, <2>2 DEF Odd
    <2> HIDE DEF Value
    <2> QED BY <2>4, <2>5
<1>6. active_bits = Value(active_bits)
    <2>1. active_bits = CHOOSE h : h = Value(h)
        BY DEF active_bits
    <2> HIDE DEF Value
    <2> QED BY <1>5, <2>1
<1>7. active_bits[0] = {}
    BY <1>6
<1>8. ASSUME NEW n \in Nat, n # 0
      PROVE  active_bits[n]
                = {bit + 1 : bit \in active_bits[n \div 2]} \cup Odd(n)
    BY <1>6, <1>8 DEF Odd
<1>9. ASSUME NEW n \in Nat PROVE active_bits[n] \in D
    <2> DEFINE Bad == {m \in Nat : active_bits[m] \notin D}
    <2>1. Bad \in SUBSET Nat /\ (Bad = {} => active_bits[n] \in D)
        BY <1>9
    <2> HIDE DEF Bad
    <2> SUFFICES ASSUME Bad # {} PROVE FALSE
        BY <2>1
    <2>2. PICK m \in Bad : \A y \in Bad : m <= y
        BY <2>1, LeastNatural
    <2>3. m \in Nat /\ active_bits[m] \notin D
        BY <2>2 DEF Bad
    <2>4. m # 0
        BY <2>3, <1>7
    <2>5. m \div 2 \in Nat /\ ~ (m <= m \div 2)
        BY <2>3, <2>4, <1>1
    <2>6. active_bits[m \div 2] \in D
        BY <2>2, <2>5 DEF Bad
    <2>7. active_bits[m]
            = {bit + 1 : bit \in active_bits[m \div 2]} \cup Odd(m)
        BY <1>8, <2>3, <2>4
    <2>8. {bit + 1 : bit \in active_bits[m \div 2]} \in D /\ Odd(m) \in D
        BY <2>6 DEF Odd
    <2> QED BY <2>3, <2>7, <2>8
<1>10. 0 \div 2 = 0 /\ Odd(0) = {}
    <2>1. 0 \div 2 = 0 /\ 0 % 2 = 0
        OBVIOUS
    <2> QED BY <2>1 DEF Odd
<1> QED BY <1>7, <1>8, <1>9, <1>10

(* A bitmap is known by its active bits.                                   *)
LEMMA ActiveBitsInjective ==
    ASSUME NEW n \in Nat, NEW m \in Nat, ActiveBits(n) = ActiveBits(m)
    PROVE  n = m
<1> DEFINE Same(k, j) == active_bits[k] = active_bits[j]
           Bad == {k \in Nat : \E j \in Nat : j < k /\ Same(k, j)}
<1>1. Bad \in SUBSET Nat
    OBVIOUS
<1>2. Bad = {}
    <2> HIDE DEF Bad
    <2> SUFFICES ASSUME Bad # {} PROVE FALSE
        OBVIOUS
    <2>1. PICK k \in Bad : \A y \in Bad : k <= y
        BY <1>1, LeastNatural
    <2>2. PICK j \in Nat : j < k /\ Same(k, j)
        BY <2>1 DEF Bad
    <2>3. k \in Nat /\ k # 0
        BY <2>1, <2>2, <1>1
    <2> DEFINE A(x) == active_bits[x \div 2]
    <2>4. \A x \in Nat :
            /\ x \div 2 \in Nat /\ x % 2 \in 0..1
            /\ x = (x \div 2) * 2 + (x % 2)
            /\ A(x) \in SUBSET Nat
            /\ active_bits[x] = {bit + 1 : bit \in A(x)} \cup Odd(x)
        BY Division, BitsOfNumber
    <2> HIDE DEF A
    <2>5. \A x \in Nat : 0 \in active_bits[x] <=> x % 2 = 1
        <3> TAKE x \in Nat
        <3>1. 0 \notin {bit + 1 : bit \in A(x)}
            BY <2>4
        <3> QED BY <3>1, <2>4 DEF Odd
    <2>6. k % 2 = j % 2
        <3> DEFINE r == k % 2
                   s == j % 2
        <3>1. r \in 0..1 /\ s \in 0..1
            BY <2>2, <2>3, <2>4
        <3>2. r = 1 <=> s = 1
            BY <2>2, <2>3, <2>5
        <3> HIDE DEF r, s
        <3>3. r = s
            BY <3>1, <3>2
        <3> QED BY <3>3 DEF r, s
    <2>7. A(k) = A(j)
        <3>1. \A x \in Nat, b \in Nat : b \in A(x) <=> b + 1 \in active_bits[x]
            <4> TAKE x \in Nat, b \in Nat
            <4>1. b + 1 \notin Odd(x)
                BY DEF Odd
            <4>2. b + 1 \in {bit + 1 : bit \in A(x)} <=> b \in A(x)
                <5>1. \A c \in A(x) : c \in Nat
                    BY <2>4
                <5>2. \A c \in A(x) : c + 1 = b + 1 => c = b
                    BY <5>1
                <5> QED BY <5>2
            <4> QED BY <4>1, <4>2, <2>4
        <3>2. A(k) \subseteq Nat /\ A(j) \subseteq Nat
            BY <2>2, <2>3, <2>4
        <3> QED BY <3>1, <3>2, <2>2, <2>3
    <2>8. k \div 2 \in Nat /\ j \div 2 \in Nat
        BY <2>2, <2>3, <2>4
    <2>9. j \div 2 < k \div 2
        <3> DEFINE a == k \div 2
                   b == j \div 2
        <3>1. a \in Nat /\ b \in Nat /\ k = a * 2 + (k % 2)
              /\ j = b * 2 + (k % 2) /\ k % 2 \in 0..1
            BY <2>2, <2>3, <2>4, <2>6
        <3> HIDE DEF a, b
        <3>2. b < a
            BY <3>1, <2>2
        <3> QED BY <3>2 DEF a, b
    <2>10. k \div 2 \in Bad
        BY <2>7, <2>8, <2>9 DEF Bad, A
    <2>11. ~ (k <= k \div 2)
        <3>1. k \div 2 < k
            BY <2>3, Division
        <3> QED BY <3>1, <2>3, <2>8
    <2> QED BY <2>1, <2>10, <2>11
<1>3. Same(n, m)
    BY DEF ActiveBits
<1>4. n \notin Bad /\ m \notin Bad
    BY <1>2
<1>5. ~ (m < n) /\ ~ (n < m)
    BY <1>3, <1>4
<1> QED BY <1>5

(* A header as the record of its fields.                                   *)
RecordOf(h) ==
    [parent_hash |-> h.parent_hash, coinbase |-> h.coinbase, root |-> h.root,
     tx_hash |-> h.tx_hash, receipt_hash |-> h.receipt_hash,
     bloom |-> h.bloom, number |-> h.number, gas_used |-> h.gas_used,
     time |-> h.time, extra |-> h.extra]

(* HeaderOf the fields of a header is that record.                         *)
LEMMA HeaderRecord ==
    ASSUME NEW h
    PROVE  HeaderOf([i \in 1..6 |-> h[ArrayFields[i]]] \o
                    <<h.number, h.gas_used, h.time, h.extra>>) = RecordOf(h)
<1>1. PICK s : s = [i \in 1..6 |-> h[ArrayFields[i]]]
    OBVIOUS
<1>2. PICK g : g = s \o <<h.number, h.gas_used, h.time, h.extra>>
    OBVIOUS
<1>3. /\ s[1] = h.parent_hash /\ s[2] = h.coinbase /\ s[3] = h.root
      /\ s[4] = h.tx_hash /\ s[5] = h.receipt_hash /\ s[6] = h.bloom
    BY <1>1 DEF ArrayFields
<1>4. s = [i \in 1..6 |-> s[i]]
    BY <1>1
<1>5. /\ \A i \in 1..6 : g[i] = s[i]
      /\ g[7] = h.number /\ g[8] = h.gas_used /\ g[9] = h.time
      /\ g[10] = h.extra
    BY <1>2, <1>4, SixAndFour
<1>6. /\ g[1] = s[1] /\ g[2] = s[2] /\ g[3] = s[3] /\ g[4] = s[4]
      /\ g[5] = s[5] /\ g[6] = s[6]
    BY <1>5
<1>7. HeaderOf(g) = RecordOf(h)
    BY <1>3, <1>5, <1>6 DEF HeaderOf, RecordOf
<1> QED BY <1>1, <1>2, <1>7

(* A header with other extra-data is a header.                             *)
LEMMA WithExtra ==
    ASSUME NEW h, IsHeader(h), NEW bytes, IsVector(bytes)
    PROVE  /\ h = RecordOf(h)
           /\ IsHeader([h EXCEPT !.extra = bytes])
           /\ [h EXCEPT !.extra = bytes]
                = [RecordOf(h) EXCEPT !.extra = bytes]
<1>1. h = RecordOf(h)
    BY HeaderRecord DEF IsHeader
<1>2. PICK k : k = [h EXCEPT !.extra = bytes]
    OBVIOUS
<1>3. /\ k = RecordOf(k)
      /\ k.parent_hash = h.parent_hash /\ k.coinbase = h.coinbase
      /\ k.root = h.root /\ k.tx_hash = h.tx_hash
      /\ k.receipt_hash = h.receipt_hash /\ k.bloom = h.bloom
      /\ k.number = h.number /\ k.gas_used = h.gas_used
      /\ k.time = h.time /\ k.extra = bytes
    BY <1>1, <1>2 DEF RecordOf
<1>4. \A i \in 1..6 : k[ArrayFields[i]] = h[ArrayFields[i]]
    <2>1. \A i \in 1..6 : i = 1 \/ i = 2 \/ i = 3 \/ i = 4 \/ i = 5 \/ i = 6
        OBVIOUS
    <2> QED BY <2>1, <1>3 DEF ArrayFields
<1>5. \A i \in 1..6 : IsArray(h[ArrayFields[i]], ArrayLength[i])
    BY DEF IsHeader
<1>6. h.number \in Nat /\ h.gas_used \in 0..MaxU64 /\ h.time \in 0..MaxU64
    BY DEF IsHeader
<1>7. k = HeaderOf([i \in 1..6 |-> k[ArrayFields[i]]] \o
                   <<k.number, k.gas_used, k.time, k.extra>>)
    BY <1>3, HeaderRecord
<1>8. \A i \in 1..6 : IsArray(k[ArrayFields[i]], ArrayLength[i])
    BY <1>4, <1>5
<1>9. IsHeader(k)
    BY <1>3, <1>6, <1>7, <1>8 DEF IsHeader
<1> QED BY <1>1, <1>2, <1>9

(* The extra-data of a header, decoded.                                    *)
ExtraIn(h) == extra_from_rlp(h.extra).value

(* A header whose extra-data decodes.                                      *)
Decodes(h) ==
    /\ IsHeader(h)
    /\ extra_from_rlp(h.extra).res = "Ok"
    /\ IsExtra(ExtraIn(h))
    /\ IsArray(Vanity(h.extra), ISTANBUL_EXTRA_VANITY_LENGTH)

(* Extra-data as it is hashed.                                             *)
Unsealed(extra) == [extra EXCEPT !.aggregated_seal = WireNoSeal]

(* The header as it is hashed.                                             *)
FilteredOf(h) == istanbul_filtered_header(h, ExtraIn(h))

(* Extra-data without its seal is extra-data.                              *)
LEMMA UnsealedType ==
    ASSUME NEW extra, IsExtra(extra)
    PROVE  /\ IsExtra(Unsealed(extra))
           /\ Unsealed(extra) =
                [added_validators |-> extra.added_validators,
                 added_validators_public_keys |->
                    extra.added_validators_public_keys,
                 removed_validators |-> extra.removed_validators,
                 seal |-> extra.seal, aggregated_seal |-> WireNoSeal,
                 parent_aggregated_seal |-> extra.parent_aggregated_seal]
<1>1. IsVector(<<>>)
    <2>1. <<>> \in Seq(Nat)
        OBVIOUS
    <2> QED BY <2>1, Vectors
<1>2. IsSeal(WireNoSeal)
    BY <1>1 DEF IsSeal, WireNoSeal
<1>3. PICK u : u = Unsealed(extra)
    OBVIOUS
<1>4. u = [added_validators |-> extra.added_validators,
           added_validators_public_keys |->
                extra.added_validators_public_keys,
           removed_validators |-> extra.removed_validators,
           seal |-> extra.seal, aggregated_seal |-> WireNoSeal,
           parent_aggregated_seal |-> extra.parent_aggregated_seal]
    BY <1>3 DEF IsExtra, Unsealed
<1>5. IsExtra(u)
    <2>1. /\ u.added_validators = extra.added_validators
          /\ u.added_validators_public_keys
                = extra.added_validators_public_keys
          /\ u.removed_validators = extra.removed_validators
          /\ u.seal = extra.seal /\ u.aggregated_seal = WireNoSeal
          /\ u.parent_aggregated_seal = extra.parent_aggregated_seal
        BY <1>4
    <2> QED BY <1>2, <1>4, <2>1 DEF IsExtra
<1> QED BY <1>3, <1>4, <1>5

(* istanbul_filtered_header gives a header that decodes again, and keeps   *)
(* all but the seal (istanbul.rs:47-60).                                   *)
LEMMA FilteredType ==
    ASSUME NEW h, Decodes(h)
    PROVE  /\ IsHeader(FilteredOf(h))
           /\ FilteredOf(h) =
                [RecordOf(h) EXCEPT !.extra = FilteredOf(h).extra]
           /\ FilteredOf(h).extra
                = extra_to_rlp(Unsealed(ExtraIn(h)), Vanity(h.extra))
           /\ extra_from_rlp(FilteredOf(h).extra) = Ok(Unsealed(ExtraIn(h)))
           /\ Vanity(FilteredOf(h).extra) = Vanity(h.extra)
<1>1. PICK bytes :
        bytes = extra_to_rlp(Unsealed(ExtraIn(h)), Vanity(h.extra))
    OBVIOUS
<1>2. /\ IsVector(bytes) /\ extra_from_rlp(bytes) = Ok(Unsealed(ExtraIn(h)))
      /\ Vanity(bytes) = Vanity(h.extra)
    BY <1>1, ExtraSurvives, UnsealedType DEF Decodes
<1>3. FilteredOf(h) = [h EXCEPT !.extra = bytes]
    BY <1>1 DEF FilteredOf, istanbul_filtered_header, Unsealed
<1>4. IsHeader(FilteredOf(h)) /\ FilteredOf(h) = [RecordOf(h) EXCEPT !.extra = bytes]
    BY <1>2, <1>3, WithExtra DEF Decodes
<1>5. FilteredOf(h).extra = bytes
    BY <1>4 DEF RecordOf
<1> QED BY <1>1, <1>2, <1>4, <1>5

(* The hash over bytes tells apart what istanbul_filtered_header does.     *)
LEMMA HashOfBytes ==
    ASSUME NEW a, Decodes(a)
    PROVE  /\ header_hash(a) = Ok(header_to_rlp(FilteredOf(a)))
           /\ \A b : Decodes(b) =>
                (header_hash(a) = header_hash(b)
                    <=> FilteredOf(a) = FilteredOf(b))
<1>1. ASSUME NEW b, Decodes(b)
      PROVE  header_hash(b) = Ok(header_to_rlp(FilteredOf(b)))
    <2>1. extra_from_rlp(b.extra).res = "Ok"
        BY <1>1 DEF Decodes
    <2> QED BY <2>1 DEF header_hash, FilteredOf, ExtraIn
<1>2. ASSUME NEW b, Decodes(b), header_hash(a) = header_hash(b)
      PROVE  FilteredOf(a) = FilteredOf(b)
    <2>1. header_to_rlp(FilteredOf(a)) = header_to_rlp(FilteredOf(b))
        BY <1>1, <1>2 DEF Ok
    <2>2. /\ header_from_rlp(header_to_rlp(FilteredOf(a))) = Ok(FilteredOf(a))
          /\ header_from_rlp(header_to_rlp(FilteredOf(b))) = Ok(FilteredOf(b))
        BY <1>2, FilteredType, HeaderSurvives
    <2> QED BY <2>1, <2>2 DEF Ok
<1> QED BY <1>1, <1>2

(* What the fields that no rule reads come to.                             *)
Others(h) == [h EXCEPT !.number = 0, !.time = 0, !.extra = <<>>]

(* A header that decodes, as State.tla takes it.                           *)
LEMMA ReadContent ==
    ASSUME NEW h, Decodes(h)
    PROVE  /\ Read(h) =
                [number |-> h.number, time |-> h.time, extra |-> "Ok",
                 added_validators |-> ExtraIn(h).added_validators,
                 added_validators_public_keys |->
                    ExtraIn(h).added_validators_public_keys,
                 removed_validators |->
                    ActiveBits(ExtraIn(h).removed_validators),
                 aggregated_seal |-> SealFromWire(ExtraIn(h).aggregated_seal),
                 root |-> <<"decoded", Others(h), Vanity(h.extra),
                            ExtraIn(h).seal,
                            ExtraIn(h).parent_aggregated_seal>>]
           /\ hash(Read(h)) =
                [number |-> h.number, time |-> h.time, extra |-> "Ok",
                 added_validators |-> ExtraIn(h).added_validators,
                 added_validators_public_keys |->
                    ExtraIn(h).added_validators_public_keys,
                 removed_validators |->
                    ActiveBits(ExtraIn(h).removed_validators),
                 aggregated_seal |-> NoSeal,
                 root |-> <<"decoded", Others(h), Vanity(h.extra),
                            ExtraIn(h).seal,
                            ExtraIn(h).parent_aggregated_seal>>]
<1>1. extra_from_rlp(h.extra).res = "Ok"
    BY DEF Decodes
<1>2. PICK e : e = ExtraIn(h)
    OBVIOUS
<1>3. Read(h) =
        [number |-> h.number, time |-> h.time, extra |-> "Ok",
         added_validators |-> e.added_validators,
         added_validators_public_keys |-> e.added_validators_public_keys,
         removed_validators |-> ActiveBits(e.removed_validators),
         aggregated_seal |-> SealFromWire(e.aggregated_seal),
         root |-> <<"decoded", Others(h), Vanity(h.extra),
                    e.seal, e.parent_aggregated_seal>>]
    BY <1>1, <1>2 DEF Read, ReadWith, ExtraIn, Others
<1>4. hash(Read(h)) =
        [number |-> h.number, time |-> h.time, extra |-> "Ok",
         added_validators |-> e.added_validators,
         added_validators_public_keys |-> e.added_validators_public_keys,
         removed_validators |-> ActiveBits(e.removed_validators),
         aggregated_seal |-> NoSeal,
         root |-> <<"decoded", Others(h), Vanity(h.extra),
                    e.seal, e.parent_aggregated_seal>>]
    BY <1>3 DEF hash
<1> QED BY <1>2, <1>3, <1>4

(* Filtered headers are the same that agree in all but the seal.           *)
LEMMA SameFields ==
    ASSUME NEW a, Decodes(a), NEW b, Decodes(b)
    PROVE  FilteredOf(a) = FilteredOf(b) <=>
            /\ Others(a) = Others(b) /\ a.number = b.number /\ a.time = b.time
            /\ Vanity(a.extra) = Vanity(b.extra)
            /\ Unsealed(ExtraIn(a)) = Unsealed(ExtraIn(b))
<1>1. /\ RecordOf(a) = a /\ RecordOf(b) = b
    <2>1. IsVector(a.extra) /\ IsVector(b.extra)
        BY DEF Decodes, IsHeader
    <2> QED BY <2>1, WithExtra DEF Decodes
<1>2. Others(a) = Others(b) /\ a.number = b.number /\ a.time = b.time
        <=> \A bytes : [RecordOf(a) EXCEPT !.extra = bytes]
                        = [RecordOf(b) EXCEPT !.extra = bytes]
    <2>1. Others(a) =
                [parent_hash |-> a.parent_hash, coinbase |-> a.coinbase,
                 root |-> a.root, tx_hash |-> a.tx_hash,
                 receipt_hash |-> a.receipt_hash, bloom |-> a.bloom,
                 number |-> 0, gas_used |-> a.gas_used, time |-> 0,
                 extra |-> <<>>]
        <3>1. Others(a) = [RecordOf(a) EXCEPT !.number = 0, !.time = 0,
                                              !.extra = <<>>]
            BY <1>1 DEF Others
        <3> QED BY <3>1 DEF RecordOf
    <2>2. Others(b) =
                [parent_hash |-> b.parent_hash, coinbase |-> b.coinbase,
                 root |-> b.root, tx_hash |-> b.tx_hash,
                 receipt_hash |-> b.receipt_hash, bloom |-> b.bloom,
                 number |-> 0, gas_used |-> b.gas_used, time |-> 0,
                 extra |-> <<>>]
        <3>1. Others(b) = [RecordOf(b) EXCEPT !.number = 0, !.time = 0,
                                              !.extra = <<>>]
            BY <1>1 DEF Others
        <3> QED BY <3>1 DEF RecordOf
    <2> DEFINE Same ==
            /\ a.parent_hash = b.parent_hash /\ a.coinbase = b.coinbase
            /\ a.root = b.root /\ a.tx_hash = b.tx_hash
            /\ a.receipt_hash = b.receipt_hash /\ a.bloom = b.bloom
            /\ a.gas_used = b.gas_used
    <2>3. Others(a) = Others(b) <=> Same
        BY <2>1, <2>2
    <2>4. ASSUME NEW bytes
          PROVE  [RecordOf(a) EXCEPT !.extra = bytes]
                    = [RecordOf(b) EXCEPT !.extra = bytes]
                 <=> Same /\ a.number = b.number /\ a.time = b.time
        BY DEF RecordOf
    <2> HIDE DEF Same
    <2> QED BY <2>3, <2>4
<1>3. ASSUME FilteredOf(a) = FilteredOf(b)
      PROVE  /\ \A bytes : [RecordOf(a) EXCEPT !.extra = bytes]
                            = [RecordOf(b) EXCEPT !.extra = bytes]
             /\ Vanity(a.extra) = Vanity(b.extra)
             /\ Unsealed(ExtraIn(a)) = Unsealed(ExtraIn(b))
    <2>1. Vanity(a.extra) = Vanity(b.extra)
        BY <1>3, FilteredType
    <2>2. Ok(Unsealed(ExtraIn(a))) = Ok(Unsealed(ExtraIn(b)))
        BY <1>3, FilteredType
    <2>3. PICK x : x = FilteredOf(a).extra
        OBVIOUS
    <2>4. [RecordOf(a) EXCEPT !.extra = x] = [RecordOf(b) EXCEPT !.extra = x]
        BY <1>3, <2>3, FilteredType
    <2>5. ASSUME NEW bytes
          PROVE  [RecordOf(a) EXCEPT !.extra = bytes]
                    = [RecordOf(b) EXCEPT !.extra = bytes]
        BY <2>4 DEF RecordOf
    <2>6. Unsealed(ExtraIn(a)) = Unsealed(ExtraIn(b))
        BY <2>2 DEF Ok
    <2> QED BY <2>1, <2>5, <2>6
<1>4. ASSUME /\ \A bytes : [RecordOf(a) EXCEPT !.extra = bytes]
                            = [RecordOf(b) EXCEPT !.extra = bytes],
             Vanity(a.extra) = Vanity(b.extra),
             Unsealed(ExtraIn(a)) = Unsealed(ExtraIn(b))
      PROVE  FilteredOf(a) = FilteredOf(b)
    <2>1. PICK x : x = FilteredOf(a).extra /\ x = FilteredOf(b).extra
        BY <1>4, FilteredType
    <2>2. /\ FilteredOf(a) = [RecordOf(a) EXCEPT !.extra = x]
          /\ FilteredOf(b) = [RecordOf(b) EXCEPT !.extra = x]
        BY <2>1, FilteredType
    <2>3. [RecordOf(a) EXCEPT !.extra = x] = [RecordOf(b) EXCEPT !.extra = x]
        BY <1>4
    <2> QED BY <2>2, <2>3
<1> QED BY <1>2, <1>3, <1>4

(* The hash of what is read tells apart what istanbul_filtered_header      *)
(* does.                                                                   *)
LEMMA SameContent ==
    ASSUME NEW a, Decodes(a), NEW b, Decodes(b)
    PROVE  hash(Read(a)) = hash(Read(b)) <=> FilteredOf(a) = FilteredOf(b)
<1>1. PICK e : e = ExtraIn(a)
    OBVIOUS
<1>2. PICK f : f = ExtraIn(b)
    OBVIOUS
<1>3. IsExtra(e) /\ IsExtra(f)
    BY <1>1, <1>2 DEF Decodes
<1>4. Unsealed(e) = Unsealed(f) <=>
        /\ e.added_validators = f.added_validators
        /\ e.added_validators_public_keys = f.added_validators_public_keys
        /\ e.removed_validators = f.removed_validators
        /\ e.seal = f.seal
        /\ e.parent_aggregated_seal = f.parent_aggregated_seal
    <2>1. PICK u : u = Unsealed(e)
        OBVIOUS
    <2>2. PICK v : v = Unsealed(f)
        OBVIOUS
    <2>3. u = [added_validators |-> e.added_validators,
               added_validators_public_keys |->
                    e.added_validators_public_keys,
               removed_validators |-> e.removed_validators,
               seal |-> e.seal, aggregated_seal |-> WireNoSeal,
               parent_aggregated_seal |-> e.parent_aggregated_seal]
        BY <1>3, <2>1, UnsealedType
    <2>4. v = [added_validators |-> f.added_validators,
               added_validators_public_keys |->
                    f.added_validators_public_keys,
               removed_validators |-> f.removed_validators,
               seal |-> f.seal, aggregated_seal |-> WireNoSeal,
               parent_aggregated_seal |-> f.parent_aggregated_seal]
        BY <1>3, <2>2, UnsealedType
    <2>5. u = v <=>
            /\ e.added_validators = f.added_validators
            /\ e.added_validators_public_keys = f.added_validators_public_keys
            /\ e.removed_validators = f.removed_validators
            /\ e.seal = f.seal
            /\ e.parent_aggregated_seal = f.parent_aggregated_seal
        BY <2>3, <2>4
    <2> QED BY <2>1, <2>2, <2>5
<1>5. ActiveBits(e.removed_validators) = ActiveBits(f.removed_validators)
        <=> e.removed_validators = f.removed_validators
    <2>1. e.removed_validators \in Nat /\ f.removed_validators \in Nat
        BY <1>3 DEF IsExtra
    <2> QED BY <2>1, ActiveBitsInjective
<1> DEFINE rootA == <<"decoded", Others(a), Vanity(a.extra), e.seal,
                      e.parent_aggregated_seal>>
           rootB == <<"decoded", Others(b), Vanity(b.extra), f.seal,
                      f.parent_aggregated_seal>>
<1>6. rootA = rootB <=>
        /\ Others(a) = Others(b) /\ Vanity(a.extra) = Vanity(b.extra)
        /\ e.seal = f.seal
        /\ e.parent_aggregated_seal = f.parent_aggregated_seal
    OBVIOUS
<1> HIDE DEF rootA, rootB
<1>7. hash(Read(a)) =
        [number |-> a.number, time |-> a.time, extra |-> "Ok",
         added_validators |-> e.added_validators,
         added_validators_public_keys |-> e.added_validators_public_keys,
         removed_validators |-> ActiveBits(e.removed_validators),
         aggregated_seal |-> NoSeal, root |-> rootA]
    BY <1>1, ReadContent DEF rootA
<1>8. hash(Read(b)) =
        [number |-> b.number, time |-> b.time, extra |-> "Ok",
         added_validators |-> f.added_validators,
         added_validators_public_keys |-> f.added_validators_public_keys,
         removed_validators |-> ActiveBits(f.removed_validators),
         aggregated_seal |-> NoSeal, root |-> rootB]
    BY <1>2, ReadContent DEF rootB
<1>9. hash(Read(a)) = hash(Read(b)) <=>
        /\ a.number = b.number /\ a.time = b.time
        /\ e.added_validators = f.added_validators
        /\ e.added_validators_public_keys = f.added_validators_public_keys
        /\ ActiveBits(e.removed_validators) = ActiveBits(f.removed_validators)
        /\ rootA = rootB
    BY <1>7, <1>8
<1> QED BY <1>1, <1>2, <1>4, <1>5, <1>6, <1>9, SameFields

-----------------------------------------------------------------------------
(* Copies with an item bent.                                               *)

(* A vector with one more item.                                            *)
LEMMA VectorAppend ==
    ASSUME NEW v, IsVector(v), NEW x
    PROVE  /\ IsVector(Append(v, x)) /\ Len(Append(v, x)) = Len(v) + 1
           /\ \A i \in 1..Len(v) : Append(v, x)[i] = v[i]
           /\ Append(v, x)[Len(v) + 1] = x
<1> DEFINE S == ToSet(v) \cup {x}
<1>1. v \in Seq(S) /\ x \in S
    <2>1. v \in Seq(ToSet(v))
        BY DEF IsVector
    <2>2. ToSet(v) \subseteq S /\ x \in S
        OBVIOUS
    <2> HIDE DEF S
    <2> QED BY <2>1, <2>2, SeqMonotonic
<1> HIDE DEF S
<1>2. /\ Append(v, x) \in Seq(S) /\ Len(Append(v, x)) = Len(v) + 1
      /\ \A i \in 1..Len(v) : Append(v, x)[i] = v[i]
      /\ Append(v, x)[Len(v) + 1] = x
    BY <1>1, AppendProperties
<1> QED BY <1>2, Vectors

(* A part of a vector.                                                     *)
LEMMA VectorParts ==
    ASSUME NEW v, IsVector(v), NEW first \in Nat, first >= 1, NEW last \in Nat,
           last <= Len(v)
    PROVE  LET part == SubSeq(v, first, last)
               length == IF first <= last THEN last - first + 1 ELSE 0
           IN  /\ IsVector(part) /\ Len(part) = length
               /\ \A i \in 1..length : /\ part[i] = v[first + i - 1]
                                       /\ first + i - 1 \in DOMAIN v
<1>1. Len(v) \in Nat /\ DOMAIN v = 1..Len(v)
    BY VectorProperties
<1>2. \A i \in first..last : v[i] \in ToSet(v)
    BY <1>1 DEF ToSet
<1> DEFINE length == IF first <= last THEN last - first + 1 ELSE 0
<1>3. /\ SubSeq(v, first, last) \in Seq(ToSet(v))
      /\ Len(SubSeq(v, first, last)) = length
      /\ \A i \in 1..last - first + 1 :
            SubSeq(v, first, last)[i] = v[first + i - 1]
    <2>1. first \in Int /\ last \in Int
        OBVIOUS
    <2> QED BY <1>2, <2>1, SubSeqProperties
<1>4. \A i \in 1..length : /\ i \in 1..last - first + 1
                           /\ first + i - 1 \in 1..Len(v)
    BY <1>1
<1>5. IsVector(SubSeq(v, first, last))
    BY <1>3, Vectors
<1> HIDE DEF length
<1>6. \A i \in 1..length : SubSeq(v, first, last)[i] = v[first + i - 1]
    BY <1>3, <1>4
<1> QED BY <1>1, <1>3, <1>4, <1>5, <1>6 DEF length

(* A vector without its first or its last item.                            *)
LEMMA VectorEnds ==
    ASSUME NEW v, IsVector(v), NEW end \in Ends(v)
    PROVE  /\ IsVector(end) /\ Len(v) >= 1 /\ Len(end) = Len(v) - 1
           /\ \A i \in DOMAIN end : \E j \in DOMAIN v : end[i] = v[j]
<1>1. Len(v) \in Nat /\ v \in Seq(ToSet(v)) /\ DOMAIN v = 1..Len(v)
    BY VectorProperties DEF IsVector
<1>2. v # <<>> /\ (end = Front(v) \/ end = Tail(v))
    BY DEF Ends
<1>3. Len(v) >= 1
    BY <1>1, <1>2, EmptySeq
<1>4. \E first \in {1, 2}, last \in {Len(v) - 1, Len(v)} :
        /\ end = SubSeq(v, first, last)
        /\ last - first + 1 = Len(v) - 1
    <2>1. CASE end = Front(v)
        BY <2>1, <1>1 DEF Front
    <2>2. CASE end = Tail(v)
        <3>1. Tail(v) = SubSeq(v, 2, Len(v))
            BY <1>1, <1>2, TailIsSubSeq
        <3> QED BY <3>1, <2>2, <1>1
    <2> QED BY <1>2, <2>1, <2>2
<1>5. PICK first \in {1, 2}, last \in {Len(v) - 1, Len(v)} :
        /\ end = SubSeq(v, first, last)
        /\ last - first + 1 = Len(v) - 1
    BY <1>4
<1>6. /\ first \in Nat /\ first >= 1 /\ last \in Nat /\ last <= Len(v)
      /\ Len(v) - 1 = IF first <= last THEN last - first + 1 ELSE 0
    <2>1. PICK n \in Nat : n = Len(v) /\ n >= 1
        BY <1>1, <1>3
    <2>2. first = 1 \/ first = 2
        BY <1>5
    <2>3. last = n - 1 \/ last = n
        BY <1>5, <2>1
    <2>4. last - first + 1 = n - 1
        BY <1>5, <2>1
    <2>5. /\ first \in Nat /\ first >= 1 /\ last \in Nat /\ last <= n
          /\ n - 1 = IF first <= last THEN last - first + 1 ELSE 0
        <3>1. n \in Nat /\ n >= 1
            BY <2>1
        <3> QED BY <3>1, <2>2, <2>3, <2>4
    <2> QED BY <2>1, <2>5
<1>7. /\ IsVector(end) /\ Len(end) = Len(v) - 1
      /\ \A i \in 1..Len(v) - 1 : /\ end[i] = v[first + i - 1]
                                  /\ first + i - 1 \in DOMAIN v
    <2>1. PICK part : part = SubSeq(v, first, last)
        OBVIOUS
    <2> DEFINE length == IF first <= last THEN last - first + 1 ELSE 0
    <2>2. /\ IsVector(part) /\ Len(part) = length
          /\ \A i \in 1..length : /\ part[i] = v[first + i - 1]
                                   /\ first + i - 1 \in DOMAIN v
        BY <1>6, <2>1, VectorParts
    <2>3. end = part /\ length = Len(v) - 1
        BY <1>5, <1>6, <2>1
    <2> HIDE DEF length
    <2> QED BY <2>2, <2>3
<1>8. DOMAIN end = 1..Len(v) - 1
    BY <1>7, VectorProperties
<1> QED BY <1>3, <1>7, <1>8

(* A vector with one item changed.                                         *)
LEMMA VectorExcept ==
    ASSUME NEW v, IsVector(v), NEW i, NEW x
    PROVE  /\ IsVector([v EXCEPT ![i] = x])
           /\ DOMAIN [v EXCEPT ![i] = x] = DOMAIN v
           /\ \A j \in DOMAIN v :
                [v EXCEPT ![i] = x][j] = IF j = i THEN x ELSE v[j]
<1>1. Len(v) \in Nat /\ DOMAIN v = 1..Len(v) /\ v = [j \in 1..Len(v) |-> v[j]]
    BY VectorProperties
<1>2. PICK w : w = [v EXCEPT ![i] = x]
    OBVIOUS
<1>3. /\ w = [j \in 1..Len(v) |-> w[j]] /\ DOMAIN w = DOMAIN v
      /\ \A j \in DOMAIN v : w[j] = IF j = i THEN x ELSE v[j]
    BY <1>1, <1>2
<1>4. IsVector(w)
    BY <1>1, <1>3, FunctionIsVector
<1> QED BY <1>2, <1>3, <1>4

(* Items that hold bytes, and lists of such items.                         *)
LEMMA DepthOf ==
    /\ \A bytes : IsVector(bytes) =>
            Depth1(Data(bytes)) /\ Depth2(Data(bytes)) /\ Depth3(Data(bytes))
    /\ \A items : IsVector(items) =>
            /\ Depth1(List(items))
            /\ (\A i \in DOMAIN items : Depth1(items[i])) => Depth2(List(items))
            /\ (\A i \in DOMAIN items : Depth2(items[i])) => Depth3(List(items))
<1>1. ASSUME NEW bytes, IsVector(bytes)
      PROVE  Depth1(Data(bytes)) /\ Depth2(Data(bytes)) /\ Depth3(Data(bytes))
    <2>1. Depth1(Data(bytes))
        BY <1>1 DEF Depth1
    <2> QED BY <2>1, ItemParts DEF Depth2, Depth3
<1>2. ASSUME NEW items, IsVector(items)
      PROVE  /\ Depth1(List(items))
             /\ (\A i \in DOMAIN items : Depth1(items[i])) => Depth2(List(items))
             /\ (\A i \in DOMAIN items : Depth2(items[i])) => Depth3(List(items))
    <2>1. Depth1(List(items))
        BY <1>2 DEF Depth1
    <2> QED BY <2>1, ItemParts DEF Depth2, Depth3
<1> QED BY <1>1, <1>2

(* Bending an item leaves the depth of what it holds.                      *)
LEMMA BentDepth ==
    ASSUME NEW item, Depth1(item), NEW new \in Bent(item)
    PROVE  /\ Depth1(new)
           /\ Depth2(item) => Depth2(new)
           /\ Depth3(item) => Depth3(new)
<1>1. /\ IsVector(item[2])
      /\ item = IF IsList(item) THEN List(item[2]) ELSE Data(item[2])
    BY DepthParts
<1>2. IsVector(<<>>) /\ DOMAIN <<>> = {}
    <2>1. <<>> \in Seq(Nat) /\ DOMAIN <<>> = {}
        OBVIOUS
    <2> QED BY <2>1, Vectors
<1>3. CASE IsList(item)
    <2>1. /\ Depth2(item) => \A i \in DOMAIN item[2] : Depth1(item[2][i])
          /\ Depth3(item) => \A i \in DOMAIN item[2] : Depth2(item[2][i])
        BY <1>3 DEF Depth2, Depth3
    <2>2. \/ new = Data(<<>>) \/ new = List(Append(item[2], Data(<<>>)))
          \/ \E items \in Ends(item[2]) : new = List(items)
        BY <1>3 DEF Bent
    <2>3. CASE new = Data(<<>>)
        BY <2>3, <1>2, DepthOf
    <2>4. CASE new = List(Append(item[2], Data(<<>>)))
        <3>1. PICK longer : longer = Append(item[2], Data(<<>>))
            OBVIOUS
        <3>2. /\ IsVector(longer) /\ Len(longer) = Len(item[2]) + 1
              /\ \A i \in 1..Len(item[2]) : longer[i] = item[2][i]
              /\ longer[Len(item[2]) + 1] = Data(<<>>)
            BY <1>1, <3>1, VectorAppend
        <3>3. /\ DOMAIN longer = 1..Len(longer)
              /\ DOMAIN item[2] = 1..Len(item[2]) /\ Len(item[2]) \in Nat
            BY <1>1, <3>2, VectorProperties
        <3>4. \A i \in DOMAIN longer : \/ i \in DOMAIN item[2]
                                       \/ i = Len(item[2]) + 1
            BY <3>2, <3>3
        <3>5. Depth1(Data(<<>>)) /\ Depth2(Data(<<>>))
            BY <1>2, DepthOf
        <3>6. /\ Depth2(item) => \A i \in DOMAIN longer : Depth1(longer[i])
              /\ Depth3(item) => \A i \in DOMAIN longer : Depth2(longer[i])
            BY <2>1, <3>2, <3>3, <3>4, <3>5
        <3> QED BY <2>4, <3>1, <3>2, <3>6, DepthOf
    <2>5. ASSUME NEW items \in Ends(item[2]), new = List(items)
          PROVE  /\ Depth1(new) /\ (Depth2(item) => Depth2(new))
                 /\ (Depth3(item) => Depth3(new))
        <3>1. /\ IsVector(items)
              /\ \A i \in DOMAIN items :
                    \E j \in DOMAIN item[2] : items[i] = item[2][j]
            BY <1>1, VectorEnds
        <3>2. /\ Depth2(item) => \A i \in DOMAIN items : Depth1(items[i])
              /\ Depth3(item) => \A i \in DOMAIN items : Depth2(items[i])
            BY <2>1, <3>1
        <3> QED BY <2>5, <3>1, <3>2, DepthOf
    <2> QED BY <2>2, <2>3, <2>4, <2>5
<1>4. CASE ~ IsList(item)
    <2>1. \/ new = List(<<>>)
          \/ \E bytes : /\ new = Data(bytes)
                        /\ \/ bytes \in Ends(item[2])
                           \/ \E b \in 0..1 : bytes = <<Byte(b)>> \o item[2]
                           \/ \E b \in 0..1 : bytes = Append(item[2], Byte(b))
        BY <1>4 DEF Bent
    <2>2. CASE new = List(<<>>)
        BY <2>2, <1>2, DepthOf
    <2>3. ASSUME NEW bytes, new = Data(bytes),
                 \/ bytes \in Ends(item[2])
                 \/ \E b \in 0..1 : bytes = <<Byte(b)>> \o item[2]
                 \/ \E b \in 0..1 : bytes = Append(item[2], Byte(b))
          PROVE  /\ Depth1(new) /\ (Depth2(item) => Depth2(new))
                 /\ (Depth3(item) => Depth3(new))
        <3>1. \A b : IsVector(<<Byte(b)>>)
            <4> TAKE b
            <4>1. <<Byte(b)>> \in Seq({Byte(b)})
                OBVIOUS
            <4> QED BY <4>1, Vectors
        <3>2. IsVector(item[2])
            BY <1>1
        <3>3. CASE bytes \in Ends(item[2])
            <4>1. IsVector(bytes)
                BY <3>2, <3>3, VectorEnds
            <4> QED BY <2>3, <4>1, DepthOf
        <3>4. ASSUME NEW b \in 0..1, bytes = <<Byte(b)>> \o item[2]
              PROVE  IsVector(bytes)
            <4>1. IsVector(<<Byte(b)>>)
                BY <3>1
            <4> QED BY <3>2, <3>4, <4>1, VectorConcat
        <3>5. ASSUME NEW b \in 0..1, bytes = Append(item[2], Byte(b))
              PROVE  IsVector(bytes)
            BY <3>2, <3>5, VectorAppend
        <3>6. IsVector(bytes)
            BY <3>2, <3>3, <3>4, <3>5, <2>3, VectorEnds
        <3> QED BY <2>3, <3>6, DepthOf
    <2> QED BY <2>1, <2>2, <2>3
<1> QED BY <1>3, <1>4

(* So does bending what a list holds.                                      *)
LEMMA BentItemDepth ==
    ASSUME NEW item, Depth2(item), NEW new \in BentItemOrBelow(item)
    PROVE  Depth2(new)
<1>1. Depth1(item)
    BY DeeperIsItem
<1>2. CASE new \in Bent(item)
    BY <1>1, <1>2, BentDepth
<1>3. ASSUME IsList(item), NEW i \in DOMAIN item[2], NEW x \in Bent(item[2][i]),
             new = List([item[2] EXCEPT ![i] = x])
      PROVE  Depth2(new)
    <2>1. IsVector(item[2]) /\ \A j \in DOMAIN item[2] : Depth1(item[2][j])
        BY <1>1, <1>3, DepthParts DEF Depth2
    <2>2. Depth1(x)
        BY <2>1, <1>3, BentDepth
    <2>3. PICK items : items = [item[2] EXCEPT ![i] = x]
        OBVIOUS
    <2>4. /\ IsVector(items) /\ DOMAIN items = DOMAIN item[2]
          /\ \A j \in DOMAIN items : items[j] = IF j = i THEN x ELSE item[2][j]
        BY <2>1, <2>3, VectorExcept
    <2>5. \A j \in DOMAIN items : Depth1(items[j])
        BY <2>1, <2>2, <2>4
    <2>6. new = List(items)
        BY <1>3, <2>3
    <2>7. Depth1(new)
        BY <2>4, <2>6 DEF Depth1
    <2> QED BY <2>5, <2>6, <2>7, ItemParts DEF Depth2
<1>4. \/ new \in Bent(item)
      \/ /\ IsList(item)
         /\ \E i \in DOMAIN item[2] : \E x \in Bent(item[2][i]) :
                new = List([item[2] EXCEPT ![i] = x])
    BY DEF BentItemOrBelow, BentBelow
<1> QED BY <1>2, <1>3, <1>4

(* The ways to bend a list of depth three.                                 *)
LEMMA BentListDepth ==
    ASSUME NEW item, Depth3(item),
           NEW new \in BentBelow(item, BentItemOrBelow)
    PROVE  /\ Depth3(new)
           /\ \/ new \in Bent(item)
              \/ /\ IsList(item)
                 /\ \E i \in DOMAIN item[2] :
                        \E x \in BentItemOrBelow(item[2][i]) :
                            new = List([item[2] EXCEPT ![i] = x])
<1>1. Depth1(item)
    BY DeeperIsItem
<1>2. CASE new \in Bent(item)
    BY <1>1, <1>2, BentDepth
<1>3. ASSUME IsList(item), NEW i \in DOMAIN item[2],
             NEW x \in BentItemOrBelow(item[2][i]),
             new = List([item[2] EXCEPT ![i] = x])
      PROVE  Depth3(new)
    <2>1. IsVector(item[2]) /\ \A j \in DOMAIN item[2] : Depth2(item[2][j])
        BY <1>1, <1>3, DepthParts DEF Depth3
    <2>2. Depth2(x)
        BY <2>1, <1>3, BentItemDepth
    <2>3. PICK items : items = [item[2] EXCEPT ![i] = x]
        OBVIOUS
    <2>4. /\ IsVector(items) /\ DOMAIN items = DOMAIN item[2]
          /\ \A j \in DOMAIN items : items[j] = IF j = i THEN x ELSE item[2][j]
        BY <2>1, <2>3, VectorExcept
    <2>5. \A j \in DOMAIN items : Depth2(items[j])
        BY <2>1, <2>2, <2>4
    <2>6. new = List(items)
        BY <1>3, <2>3
    <2>7. Depth1(new)
        BY <2>4, <2>6 DEF Depth1
    <2> QED BY <2>5, <2>6, <2>7, ItemParts DEF Depth3
<1>4. \/ new \in Bent(item)
      \/ /\ IsList(item)
         /\ \E i \in DOMAIN item[2] :
                \E x \in BentItemOrBelow(item[2][i]) :
                    new = List([item[2] EXCEPT ![i] = x])
    BY DEF BentBelow
<1> QED BY <1>2, <1>3, <1>4

(* The items of a seal.                                                    *)
LEMMA SealDepth ==
    ASSUME NEW seal, IsSeal(seal)
    PROVE  Depth2(encode_seal(seal))
<1>1. PICK items :
        items = <<Data(big_int_to_rlp_compat_bytes(seal.bitmap)),
                  Data(seal.signature),
                  Data(big_int_to_rlp_compat_bytes(seal.round))>>
    OBVIOUS
<1>2. /\ items = [i \in 1..3 |-> items[i]]
      /\ items[1] = Data(big_int_to_rlp_compat_bytes(seal.bitmap))
      /\ items[2] = Data(seal.signature)
      /\ items[3] = Data(big_int_to_rlp_compat_bytes(seal.round))
    BY <1>1
<1>3. IsVector(items) /\ Len(items) = 3
    BY <1>2, FunctionIsVector
<1>4. /\ IsVector(big_int_to_rlp_compat_bytes(seal.bitmap))
      /\ IsVector(seal.signature)
      /\ IsVector(big_int_to_rlp_compat_bytes(seal.round))
    <2>1. seal.bitmap \in Nat /\ seal.round \in Nat /\ IsVector(seal.signature)
        BY DEF IsSeal
    <2> QED BY <2>1, NumberSurvives, Vectors
<1>5. Depth1(items[1]) /\ Depth1(items[2]) /\ Depth1(items[3])
    BY <1>2, <1>4, DepthOf
<1>6. \A i \in DOMAIN items : i = 1 \/ i = 2 \/ i = 3
    BY <1>3, VectorProperties
<1>7. \A i \in DOMAIN items : Depth1(items[i])
    BY <1>5, <1>6
<1>8. encode_seal(seal) = List(items)
    BY <1>1 DEF encode_seal
<1> QED BY <1>3, <1>7, <1>8, DepthOf

(* The items of a list of arrays.                                          *)
LEMMA ArraysDepth ==
    ASSUME NEW v, IsVector(v), \A i \in DOMAIN v : IsVector(v[i])
    PROVE  Depth2(List([i \in DOMAIN v |-> Data(v[i])]))
<1>1. PICK data : data = [i \in DOMAIN v |-> Data(v[i])]
    OBVIOUS
<1>2. Len(v) \in Nat /\ DOMAIN v = 1..Len(v)
    BY VectorProperties
<1>3. data = [i \in 1..Len(v) |-> data[i]] /\ DOMAIN data = DOMAIN v
    BY <1>1, <1>2
<1>4. IsVector(data)
    BY <1>2, <1>3, FunctionIsVector
<1>5. \A i \in DOMAIN data : Depth1(data[i])
    BY <1>1, <1>3, DepthOf
<1> QED BY <1>1, <1>4, <1>5, DepthOf

(* The extra-data that is encoded ends in a list of six items.             *)
LEMMA ExtraShape ==
    ASSUME NEW extra, IsExtra(extra), NEW vanity,
           IsArray(vanity, ISTANBUL_EXTRA_VANITY_LENGTH)
    PROVE  \E payload :
            /\ extra_to_rlp(extra, vanity) = Append(vanity, payload)
            /\ extra_to_rlp(extra, vanity)[ISTANBUL_EXTRA_VANITY_LENGTH + 1]
                    = payload
            /\ Depth3(payload) /\ IsList(payload) /\ IsVector(payload[2])
            /\ Len(payload[2]) = 6
<1>1. PICK items :
        items = <<List([i \in DOMAIN extra.added_validators |->
                        Data(extra.added_validators[i])]),
                  List([i \in DOMAIN extra.added_validators_public_keys |->
                        Data(extra.added_validators_public_keys[i])]),
                  Data(big_int_to_rlp_compat_bytes(extra.removed_validators)),
                  Data(extra.seal),
                  encode_seal(extra.aggregated_seal),
                  encode_seal(extra.parent_aggregated_seal)>>
    OBVIOUS
<1>2. IsVector(items) /\ Len(items) = 6
    <2>1. items = [i \in 1..6 |-> items[i]]
        BY <1>1
    <2> QED BY <2>1, FunctionIsVector
<1>3. Depth2(items[1])
    <2>1. PICK v : v = extra.added_validators
        OBVIOUS
    <2>2. IsVector(v) /\ \A i \in DOMAIN v : IsVector(v[i])
        BY <2>1 DEF IsExtra, IsArray
    <2>3. items[1] = List([i \in DOMAIN v |-> Data(v[i])])
        BY <1>1, <2>1
    <2> QED BY <2>2, <2>3, ArraysDepth
<1>4. Depth2(items[2])
    <2>1. PICK v : v = extra.added_validators_public_keys
        OBVIOUS
    <2>2. IsVector(v) /\ \A i \in DOMAIN v : IsVector(v[i])
        BY <2>1 DEF IsExtra, IsArray
    <2>3. items[2] = List([i \in DOMAIN v |-> Data(v[i])])
        BY <1>1, <2>1
    <2> QED BY <2>2, <2>3, ArraysDepth
<1>5. Depth2(items[3]) /\ Depth2(items[4])
    <2>1. /\ IsVector(big_int_to_rlp_compat_bytes(extra.removed_validators))
          /\ IsVector(extra.seal)
        <3>1. extra.removed_validators \in Nat /\ IsVector(extra.seal)
            BY DEF IsExtra
        <3> QED BY <3>1, NumberSurvives, Vectors
    <2>2. /\ items[3]
                = Data(big_int_to_rlp_compat_bytes(extra.removed_validators))
          /\ items[4] = Data(extra.seal)
        BY <1>1
    <2> QED BY <2>1, <2>2, DepthOf
<1>6. Depth2(items[5]) /\ Depth2(items[6])
    <2>1. IsSeal(extra.aggregated_seal) /\ IsSeal(extra.parent_aggregated_seal)
        BY DEF IsExtra
    <2>2. /\ items[5] = encode_seal(extra.aggregated_seal)
          /\ items[6] = encode_seal(extra.parent_aggregated_seal)
        BY <1>1
    <2> QED BY <2>1, <2>2, SealDepth
<1>7. \A i \in DOMAIN items : i = 1 \/ i = 2 \/ i = 3 \/ i = 4 \/ i = 5 \/ i = 6
    BY <1>2, VectorProperties
<1>8. \A i \in DOMAIN items : Depth2(items[i])
    BY <1>3, <1>4, <1>5, <1>6, <1>7
<1>9. PICK payload : payload = List(items)
    OBVIOUS
<1>10. /\ Depth3(payload) /\ IsList(payload) /\ IsVector(payload[2])
       /\ Len(payload[2]) = 6
    BY <1>2, <1>8, <1>9, DepthOf, ItemParts
<1>11. extra_to_rlp(extra, vanity) = vanity \o <<payload>>
    BY <1>1, <1>9 DEF extra_to_rlp
<1>12. /\ IsVector(vanity) /\ Len(vanity) = ISTANBUL_EXTRA_VANITY_LENGTH
       /\ ISTANBUL_EXTRA_VANITY_LENGTH \in Nat
    BY Lengths DEF IsArray
<1>13. vanity \o <<payload>> = Append(vanity, payload)
    <2>1. vanity \in Seq(ToSet(vanity) \cup {payload})
        BY <1>12, SeqMonotonic DEF IsVector
    <2> QED BY <2>1, AppendIsConcat
<1>14. Append(vanity, payload)[ISTANBUL_EXTRA_VANITY_LENGTH + 1] = payload
    BY <1>12, VectorAppend
<1> QED BY <1>10, <1>11, <1>13, <1>14

(* A header whose extra-data ends in items.                                *)
WellFormed(h) ==
    /\ IsHeader(h)
    /\ Len(h.extra) > ISTANBUL_EXTRA_VANITY_LENGTH =>
            Depth3(h.extra[ISTANBUL_EXTRA_VANITY_LENGTH + 1])

(* Such a header decodes, or fails to, with the types in Rust.             *)
LEMMA WellFormedRead ==
    ASSUME NEW h, WellFormed(h)
    PROVE  /\ extra_from_rlp(h.extra).res
                \in {"Ok", "RlpDecodeError", "Panic"}
           /\ extra_from_rlp(h.extra).res = "Ok" => Decodes(h)
<1>1. IsVector(h.extra) /\ Len(h.extra) \in Nat
    <2>1. IsVector(h.extra)
        BY DEF WellFormed, IsHeader
    <2> QED BY <2>1, VectorProperties
<1>2. PICK bytes : bytes = h.extra
    OBVIOUS
<1>3. /\ extra_from_rlp(bytes).res \in {"Ok", "RlpDecodeError", "Panic"}
      /\ extra_from_rlp(bytes).res = "Ok" =>
            /\ IsExtra(extra_from_rlp(bytes).value)
            /\ Len(bytes) > ISTANBUL_EXTRA_VANITY_LENGTH
    BY <1>1, <1>2, ExtraRead DEF WellFormed
<1>4. ASSUME Len(bytes) > ISTANBUL_EXTRA_VANITY_LENGTH
      PROVE  IsArray(Vanity(bytes), ISTANBUL_EXTRA_VANITY_LENGTH)
    <2>1. PICK n \in Nat : n = ISTANBUL_EXTRA_VANITY_LENGTH
        BY Lengths
    <2>2. n <= Len(bytes)
        BY <1>1, <1>2, <1>4, <2>1
    <2>3. 1 \in Nat /\ 1 >= 1
        OBVIOUS
    <2>4. /\ IsVector(SubSeq(bytes, 1, n))
          /\ Len(SubSeq(bytes, 1, n)) = IF 1 <= n THEN n - 1 + 1 ELSE 0
        BY <1>1, <1>2, <2>2, <2>3, VectorParts
    <2>5. n = IF 1 <= n THEN n - 1 + 1 ELSE 0
        OBVIOUS
    <2> QED BY <2>1, <2>4, <2>5 DEF Vanity, IsArray
<1> QED BY <1>2, <1>3, <1>4 DEF Decodes, WellFormed, ExtraIn

(* A header that is sent decodes, and its extra-data is as it was encoded. *)
LEMMA SentShape ==
    ASSUME NEW header \in Sent
    PROVE  LET vanity == Vanity(header.extra)
               payload == header.extra[ISTANBUL_EXTRA_VANITY_LENGTH + 1]
           IN  /\ WellFormed(header) /\ Decodes(header)
               /\ Len(header.extra) = ISTANBUL_EXTRA_VANITY_LENGTH + 1
               /\ header.extra = Append(vanity, payload)
               /\ Depth3(payload) /\ IsList(payload) /\ IsVector(payload[2])
               /\ Len(payload[2]) = 6
<1>1. PICK vanity : vanity = Vanity(header.extra)
    OBVIOUS
<1>2. PICK extra : extra = extra_from_rlp(header.extra).value
    OBVIOUS
<1>3. /\ IsHeader(header) /\ IsExtra(extra)
      /\ IsArray(vanity, ISTANBUL_EXTRA_VANITY_LENGTH)
      /\ header.extra = extra_to_rlp(extra, vanity)
    BY <1>1, <1>2, SentAssumption
<1>4. PICK bytes : bytes = header.extra
    OBVIOUS
<1>5. /\ Len(bytes) = ISTANBUL_EXTRA_VANITY_LENGTH + 1
      /\ extra_from_rlp(bytes) = Ok(extra)
    BY <1>3, <1>4, ExtraSurvives
<1>6. PICK payload :
            /\ bytes = Append(vanity, payload)
            /\ bytes[ISTANBUL_EXTRA_VANITY_LENGTH + 1] = payload
            /\ Depth3(payload) /\ IsList(payload) /\ IsVector(payload[2])
            /\ Len(payload[2]) = 6
    BY <1>3, <1>4, ExtraShape
<1>7. WellFormed(header)
    BY <1>3, <1>4, <1>6 DEF WellFormed
<1>8. extra_from_rlp(header.extra).res = "Ok"
    BY <1>4, <1>5 DEF Ok
<1> QED BY <1>1, <1>4, <1>5, <1>6, <1>7, <1>8, WellFormedRead

(* The extra-data of a copy: as it was, cut short, made longer, or with    *)
(* another item after the vanity.                                          *)
LEMMA CopyShape ==
    ASSUME NEW header \in Sent, NEW copy \in Copies(header)
    PROVE  LET vanity == Vanity(header.extra)
               payload == header.extra[ISTANBUL_EXTRA_VANITY_LENGTH + 1]
           IN  /\ copy = [header EXCEPT !.extra = copy.extra]
               /\ \/ copy.extra = header.extra
                  \/ copy.extra \in {vanity, <<>>, Tail(header.extra)}
                  \/ copy.extra = Append(header.extra, Byte(0))
                  \/ \E item \in BentBelow(payload, BentItemOrBelow) :
                        copy.extra = Append(vanity, item)
<1>1. PICK extra \in {header.extra} \cup BentExtras(header.extra) :
            copy = [header EXCEPT !.extra = extra]
    BY DEF Copies
<1>2. copy.extra = extra
    <2>1. header = RecordOf(header)
        <3>1. IsHeader(header) /\ IsVector(header.extra)
            BY SentShape DEF WellFormed, IsHeader
        <3> QED BY <3>1, WithExtra
    <2>2. copy = [RecordOf(header) EXCEPT !.extra = extra]
        BY <1>1, <2>1
    <2> QED BY <2>2 DEF RecordOf
<1>3. \/ extra = header.extra
      \/ extra \in {Vanity(header.extra), <<>>, Tail(header.extra)}
      \/ extra = Append(header.extra, Byte(0))
      \/ \E item \in BentBelow(
                        header.extra[ISTANBUL_EXTRA_VANITY_LENGTH + 1],
                        BentItemOrBelow) :
            extra = Append(Vanity(header.extra), item)
    BY <1>1 DEF BentExtras
<1> QED BY <1>1, <1>2, <1>3

(* What is bent has items where items are looked for, or none.             *)
LEMMA CopyWellFormed ==
    ASSUME NEW header \in Sent, NEW copy \in Copies(header)
    PROVE  /\ WellFormed(copy)
           /\ copy = [RecordOf(header) EXCEPT !.extra = copy.extra]
<1> DEFINE Good(bytes) ==
        /\ IsVector(bytes)
        /\ Len(bytes) > ISTANBUL_EXTRA_VANITY_LENGTH =>
                Depth3(bytes[ISTANBUL_EXTRA_VANITY_LENGTH + 1])
<1>1. PICK n \in Nat : n = ISTANBUL_EXTRA_VANITY_LENGTH
    BY Lengths
<1>2. PICK vanity : vanity = Vanity(header.extra)
    OBVIOUS
<1>3. PICK payload :
            payload = header.extra[ISTANBUL_EXTRA_VANITY_LENGTH + 1]
    OBVIOUS
<1>4. PICK bytes : bytes = header.extra
    OBVIOUS
<1>5. /\ IsVector(bytes) /\ Len(bytes) = n + 1 /\ bytes[n + 1] = payload
      /\ Depth3(payload) /\ IsHeader(header)
    BY <1>1, <1>3, <1>4, SentShape DEF WellFormed, IsHeader
<1>6. IsVector(vanity) /\ Len(vanity) = n
    BY <1>1, <1>2, SentShape DEF Decodes, IsArray
<1>7. PICK extra : extra = copy.extra
    OBVIOUS
<1>8. /\ copy = [header EXCEPT !.extra = extra]
      /\ \/ extra = bytes
         \/ extra \in {vanity, <<>>, Tail(bytes)}
         \/ extra = Append(bytes, Byte(0))
         \/ \E item \in BentBelow(payload, BentItemOrBelow) :
                extra = Append(vanity, item)
    BY <1>2, <1>3, <1>4, <1>7, CopyShape
<1>9. ASSUME extra = bytes PROVE Good(extra)
    BY <1>1, <1>5, <1>9
<1>10. ASSUME extra = vanity PROVE Good(extra)
    <2>1. ~ (Len(extra) > n)
        BY <1>6, <1>10
    <2> QED BY <1>1, <1>6, <1>10, <2>1
<1>11. ASSUME extra = <<>> PROVE Good(extra)
    <2>1. <<>> \in Seq(Nat) /\ Len(<<>>) = 0
        OBVIOUS
    <2>2. ~ (Len(extra) > n)
        BY <1>11, <2>1
    <2> QED BY <1>1, <1>11, <2>1, <2>2, Vectors
<1>12. ASSUME extra = Tail(bytes) PROVE Good(extra)
    <2>1. bytes # <<>>
        BY <1>5, EmptySeq DEF IsVector
    <2>2. extra \in Ends(bytes)
        BY <1>12, <2>1 DEF Ends
    <2>3. IsVector(extra) /\ Len(extra) = n + 1 - 1
        BY <1>5, <2>2, VectorEnds
    <2>4. ~ (Len(extra) > n)
        BY <2>3
    <2> QED BY <1>1, <2>3, <2>4
<1>13. ASSUME extra = Append(bytes, Byte(0)) PROVE Good(extra)
    <2>1. /\ IsVector(extra)
          /\ \A i \in 1..Len(bytes) : extra[i] = bytes[i]
        BY <1>5, <1>13, VectorAppend
    <2>2. n + 1 \in 1..Len(bytes)
        BY <1>5
    <2>3. extra[n + 1] = payload
        BY <1>5, <2>1, <2>2
    <2> QED BY <1>1, <1>5, <2>1, <2>3
<1>14. ASSUME NEW item \in BentBelow(payload, BentItemOrBelow),
              extra = Append(vanity, item)
       PROVE  Good(extra)
    <2>1. IsVector(extra) /\ extra[n + 1] = item
        BY <1>6, <1>14, VectorAppend
    <2>2. Depth3(item)
        BY <1>5, <1>14, BentListDepth
    <2> QED BY <1>1, <2>1, <2>2
<1>15. Good(extra)
    BY <1>8, <1>9, <1>10, <1>11, <1>12, <1>13, <1>14
<1>16. IsHeader(copy) /\ copy = [RecordOf(header) EXCEPT !.extra = extra]
    BY <1>5, <1>8, <1>15, WithExtra
<1> QED BY <1>7, <1>15, <1>16 DEF WellFormed

(* The hash over bytes tells the same headers apart as the hash of what is *)
(* read.                                                                   *)
LEMMA HashesAgree ==
    ASSUME NEW header, Decodes(header), NEW copy, WellFormed(copy)
    PROVE  hash(Read(copy)) = hash(Read(header))
                <=> header_hash(copy) = header_hash(header)
<1>1. PICK read : read = extra_from_rlp(copy.extra)
    OBVIOUS
<1>2. /\ read.res \in {"Ok", "RlpDecodeError", "Panic"}
      /\ read.res = "Ok" => Decodes(copy)
    BY <1>1, WellFormedRead
<1>3. CASE read.res = "Ok"
    BY <1>2, <1>3, SameContent, HashOfBytes
<1>4. hash(Read(header)).extra = "Ok"
    BY ReadContent
<1>5. ASSUME read.res # "Ok" PROVE hash(Read(copy)) # hash(Read(header))
    <2>1. Read(copy) =
            [number |-> copy.number, time |-> copy.time,
             extra |-> read.res, added_validators |-> <<>>,
             added_validators_public_keys |-> <<>>,
             removed_validators |-> {}, aggregated_seal |-> NoSeal,
             root |-> <<"undecoded", Others(copy), copy.extra>>]
        BY <1>1, <1>5 DEF Read, ReadWith, Others
    <2>2. hash(Read(copy)).extra = read.res
        BY <2>1 DEF hash
    <2> QED BY <1>4, <1>5, <2>2
<1>6. header_hash(header) = Ok(header_to_rlp(FilteredOf(header)))
    BY HashOfBytes
<1>7. CASE read.res = "RlpDecodeError"
    <2>1. header_hash(copy) = Ok(header_to_rlp(copy))
        BY <1>1, <1>7 DEF header_hash
    <2>2. SUFFICES ASSUME header_hash(copy) = header_hash(header) PROVE FALSE
        BY <1>5, <1>7
    <2>3. header_to_rlp(copy) = header_to_rlp(FilteredOf(header))
        BY <2>1, <2>2, <1>6 DEF Ok
    <2>4. /\ header_from_rlp(header_to_rlp(copy)) = Ok(copy)
          /\ header_from_rlp(header_to_rlp(FilteredOf(header)))
                = Ok(FilteredOf(header))
        <3>1. IsHeader(copy)
            BY DEF WellFormed
        <3>2. IsHeader(FilteredOf(header))
            BY FilteredType
        <3> QED BY <3>1, <3>2, HeaderSurvives
    <2>5. Ok(copy) = Ok(FilteredOf(header))
        BY <2>3, <2>4
    <2>6. copy = FilteredOf(header)
        BY <2>5 DEF Ok
    <2>7. extra_from_rlp(FilteredOf(header).extra)
            = Ok(Unsealed(ExtraIn(header)))
        BY FilteredType
    <2>8. read = Ok(Unsealed(ExtraIn(header)))
        BY <1>1, <2>6, <2>7
    <2> QED BY <1>7, <2>8 DEF Ok
<1>8. CASE read.res = "Panic"
    <2>1. header_hash(copy) = read
        BY <1>1, <1>8 DEF header_hash
    <2>2. header_hash(header).res = "Ok"
        BY <1>6 DEF Ok
    <2> QED BY <1>5, <1>8, <2>1, <2>2
<1> QED BY <1>2, <1>3, <1>7, <1>8

-----------------------------------------------------------------------------
(* JSON (bytes.rs:1-94), and the copies that have the hash of the head.    *)

(* Bytes come back from JSON (bytes.rs:1-33).                              *)
LEMMA TextSurvives ==
    ASSUME NEW bytes, NEW lengths, Len(bytes) \in lengths
    PROVE  hexstring_deserialize(hexstring_serialize(bytes), lengths)
                = Ok(bytes)
<1>1. PICK text : text = hexstring_serialize(bytes)
    OBVIOUS
<1>2. (text.prefixed <=> bytes # <<>>) /\ text.digits = bytes
    BY <1>1 DEF hexstring_serialize
<1>3. (IF HasDigits(text) THEN text.digits ELSE <<>>) = bytes
    BY <1>2 DEF HasDigits
<1>4. hexstring_deserialize(text, lengths)
        = IF Len(bytes) \in lengths THEN Ok(bytes) ELSE Refused("JsonError")
    BY <1>3 DEF hexstring_deserialize
<1> QED BY <1>1, <1>4

(* Numbers come back from JSON, 0 as one zero byte (bytes.rs:35-94).       *)
LEMMA HexNumberSurvives ==
    ASSUME NEW n \in Nat, NEW numbers, n \in numbers
    PROVE  hexnum_deserialize(hexnum_serialize(n), numbers) = Ok(n)
<1>1. PICK digits : digits = IF n = 0 THEN <<Byte(0)>>
                             ELSE big_int_to_rlp_compat_bytes(n)
    OBVIOUS
<1>2. PICK text : text = hexnum_serialize(n)
    OBVIOUS
<1>3. text.prefixed = TRUE /\ text.digits = digits
    BY <1>1, <1>2 DEF hexnum_serialize
<1>4. digits # <<>> /\ from_bytes_be(digits) = n
    <2>1. CASE n # 0
        BY <1>1, <2>1, NumberSurvives
    <2>2. CASE n = 0
        <3>1. /\ <<>> \in Seq(ByteValues) /\ 0 \in 0..ByteBase - 1
              /\ ByteBase \in Nat
            <4>1. ByteBase \in Nat /\ ByteBase >= 2
                BY CodecAssumption
            <4>2. 0 \in 0..ByteBase - 1
                BY <4>1
            <4>3. <<>> \in Seq(ByteValues)
                OBVIOUS
            <4> QED BY <4>1, <4>2, <4>3
        <3>2. digits = Append(<<>>, Byte(0))
            BY <1>1, <2>2
        <3>3. DigitsOf(digits) = Append(DigitsOf(<<>>), 0)
            BY <3>1, <3>2, DigitsAppend
        <3>4. DigitsOf(<<>>) = <<>>
            BY DEF DigitsOf
        <3>5. <<>> \in Seq(Nat)
            OBVIOUS
        <3>6. Number(Append(<<>>, 0), ByteBase)
                = Number(<<>>, ByteBase) * ByteBase + 0
            BY <3>1, <3>5, NumberAppend
        <3>7. Number(<<>>, ByteBase) = 0
            BY <3>1, <3>5, NumberType
        <3>8. Number(Append(<<>>, 0), ByteBase) = 0
            BY <3>1, <3>6, <3>7
        <3>9. from_bytes_be(digits) = Number(DigitsOf(digits), ByteBase)
            BY DEF from_bytes_be, DigitsOf
        <3>10. digits # <<>>
            BY <1>1, <2>2
        <3> QED BY <2>2, <3>3, <3>4, <3>8, <3>9, <3>10
    <2> QED BY <2>1, <2>2
<1>5. HasDigits(text)
    BY <1>3, <1>4 DEF HasDigits
<1>6. hexnum_deserialize(text, numbers) = Ok(n)
    BY <1>3, <1>4, <1>5 DEF hexnum_deserialize
<1> QED BY <1>2, <1>6

(* A header comes back from its JSON.                                      *)
LEMMA JsonSurvives ==
    ASSUME NEW header, IsHeader(header)
    PROVE  header_from_json(header_to_json(header)) = Ok(header)
<1>1. PICK d : d = [i \in 1..6 |-> hexstring_serialize(header[ArrayFields[i]])]
    OBVIOUS
<1>2. PICK json :
        json = d \o <<hexnum_serialize(header.number),
                      hexnum_serialize(header.gas_used),
                      hexnum_serialize(header.time),
                      hexstring_serialize(header.extra)>>
    OBVIOUS
<1>3. /\ \A i \in 1..6 : json[i] = hexstring_serialize(header[ArrayFields[i]])
      /\ json[7] = hexnum_serialize(header.number)
      /\ json[8] = hexnum_serialize(header.gas_used)
      /\ json[9] = hexnum_serialize(header.time)
      /\ json[10] = hexstring_serialize(header.extra)
    <2>1. d = [i \in 1..6 |-> d[i]]
        BY <1>1
    <2>2. /\ \A i \in 1..6 : json[i] = d[i]
          /\ json[7] = hexnum_serialize(header.number)
          /\ json[8] = hexnum_serialize(header.gas_used)
          /\ json[9] = hexnum_serialize(header.time)
          /\ json[10] = hexstring_serialize(header.extra)
        BY <2>1, <1>2, SixAndFour
    <2> QED BY <2>2, <1>1
<1>4. header_to_json(header) = json
    BY <1>1, <1>2 DEF header_to_json
<1>5. PICK s : s = [i \in 1..6 |->
                    hexstring_deserialize(json[i], {ArrayLength[i]})]
    OBVIOUS
<1>6. s = [i \in 1..6 |-> s[i]]
    BY <1>5
<1>7. ASSUME NEW i \in 1..6 PROVE s[i] = Ok(header[ArrayFields[i]])
    <2>1. Len(header[ArrayFields[i]]) \in {ArrayLength[i]}
        BY HeaderParts DEF IsArray
    <2>2. hexstring_deserialize(hexstring_serialize(header[ArrayFields[i]]),
                                {ArrayLength[i]})
            = Ok(header[ArrayFields[i]])
        BY <2>1, TextSurvives
    <2> QED BY <2>2, <1>3, <1>5
<1>8. PICK u64 : u64 = 0..MaxU64
    OBVIOUS
<1>9. /\ header.number \in Nat
      /\ header.gas_used \in Nat /\ header.gas_used \in u64
      /\ header.time \in Nat /\ header.time \in u64
    BY <1>8, HeaderParts, MaxU64Assumption
<1>10. /\ hexnum_deserialize(json[7], Nat) = Ok(header.number)
       /\ hexnum_deserialize(json[8], u64) = Ok(header.gas_used)
       /\ hexnum_deserialize(json[9], u64) = Ok(header.time)
    BY <1>3, <1>9, HexNumberSurvives
<1>11. hexstring_deserialize(json[10], Nat) = Ok(header.extra)
    <2>1. Len(header.extra) \in Nat
        BY HeaderParts, VectorProperties
    <2> QED BY <2>1, <1>3, TextSurvives
<1>12. PICK all : all = Each(s \o <<hexnum_deserialize(json[7], Nat),
                                    hexnum_deserialize(json[8], u64),
                                    hexnum_deserialize(json[9], u64),
                                    hexstring_deserialize(json[10], Nat)>>)
    OBVIOUS
<1>13. header_from_json(json)
        = IF all.res = "Ok" THEN Ok(HeaderOf(all.value)) ELSE all
    BY <1>5, <1>8, <1>12 DEF header_from_json, AndThen
<1>14. all.res = "Ok" /\ HeaderOf(all.value) = header
    BY <1>6, <1>7, <1>10, <1>11, <1>12, TenRead
<1> QED BY <1>4, <1>13, <1>14

(* Which copies have the hash of the head is settled by what was sent:     *)
(* HashIsOfContent holds of every snapshot.                                *)
LEMMA HashContent == HashIsOfContent
<1> SUFFICES ASSUME NEW header \in Sent, hash(Read(header)) = snapshot.hash
             PROVE  /\ \A copy \in Copies(header) \cup Sent :
                        hash(Read(copy)) = snapshot.hash
                            <=> header_hash(copy) = header_hash(header)
                    /\ \A copy \in Copies(header) :
                        hash(Read(copy)) = snapshot.hash =>
                        /\ header_from_rlp(header_to_rlp(copy)) = Ok(copy)
                        /\ header_from_json(header_to_json(copy)) = Ok(copy)
    BY DEF HashIsOfContent
<1>1. Decodes(header)
    BY SentShape
<1>2. \A copy \in Copies(header) : WellFormed(copy)
    BY CopyWellFormed
<1>3. \A copy \in Sent : WellFormed(copy)
    BY SentShape
<1>4. \A copy \in Copies(header) \cup Sent :
        hash(Read(copy)) = hash(Read(header))
            <=> header_hash(copy) = header_hash(header)
    BY <1>1, <1>2, <1>3, HashesAgree
<1>5. \A copy \in Copies(header) :
        /\ header_from_rlp(header_to_rlp(copy)) = Ok(copy)
        /\ header_from_json(header_to_json(copy)) = Ok(copy)
    BY <1>2, HeaderSurvives, JsonSurvives DEF WellFormed
<1> QED BY <1>4, <1>5

-----------------------------------------------------------------------------
(* What insert_header makes of a bent copy (state.rs:100-199).             *)

(* The fields that decoding reads, item by item.                           *)
LEMMA ExtraFields ==
    ASSUME NEW bytes, Len(bytes) \in Nat, extra_from_rlp(bytes).res = "Ok"
    PROVE  LET parts == PartsOfExtra(bytes[ISTANBUL_EXTRA_VANITY_LENGTH + 1])
           IN  /\ \A i \in 1..6 : parts[i].res = "Ok"
               /\ extra_from_rlp(bytes).value =
                    ExtraOf([i \in 1..6 |-> parts[i].value])
<1>1. PICK parts :
        parts = PartsOfExtra(bytes[ISTANBUL_EXTRA_VANITY_LENGTH + 1])
    OBVIOUS
<1>2. PICK all : all = Each(parts)
    OBVIOUS
<1>3. PICK extra : extra = extra_from_rlp(bytes)
    OBVIOUS
<1>4. extra = IF Len(bytes) <= ISTANBUL_EXTRA_VANITY_LENGTH
              THEN Refused("RlpDecodeError")
              ELSE IF parts[1].res = "Panic" \/ parts[2].res = "Panic"
              THEN Refused("Panic")
              ELSE IF all.res = "Ok" THEN Ok(ExtraOf(all.value)) ELSE all
    BY <1>1, <1>2, <1>3, ExtraDecoding
<1>5. extra = Ok(ExtraOf(all.value)) /\ all.res = "Ok"
    <2>1. extra # Refused("RlpDecodeError") /\ extra # Refused("Panic")
        BY <1>3 DEF Refused
    <2> QED BY <1>3, <1>4, <2>1
<1>6. DOMAIN parts = 1..6
    BY <1>1 DEF PartsOfExtra
<1>7. /\ \A i \in 1..6 : parts[i].res = "Ok"
      /\ all = Ok([i \in 1..6 |-> parts[i].value])
    <2>1. 6 \in Nat
        OBVIOUS
    <2> QED BY <1>2, <1>5, <1>6, <2>1, EachRead
<1>8. all.value = [i \in 1..6 |-> parts[i].value]
    BY <1>7 DEF Ok
<1>9. extra.value = ExtraOf(all.value)
    BY <1>5 DEF Ok
<1> QED BY <1>1, <1>3, <1>7, <1>8, <1>9

(* Where the items are the same, so is what is read.                       *)
LEMMA SameItems ==
    ASSUME NEW r, NEW t
    PROVE  LET a == PartsOfExtra(r)
               b == PartsOfExtra(t)
           IN  \A i \in 1..6 : at(r, i - 1) = at(t, i - 1) => a[i] = b[i]
<1>1. PICK a : a = PartsOfExtra(r)
    OBVIOUS
<1>2. PICK b : b = PartsOfExtra(t)
    OBVIOUS
<1>3. ASSUME NEW k, NEW length, at(r, k) = at(t, k)
      PROVE  /\ fields_from_bytes(r, k, length) = fields_from_bytes(t, k, length)
             /\ bytes_at(r, k) = bytes_at(t, k)
             /\ rlp_to_big_int(r, k) = rlp_to_big_int(t, k)
             /\ seal_at(r, k) = seal_at(t, k)
    <2>1. bytes_at(r, k) = bytes_at(t, k)
        BY <1>3 DEF bytes_at
    <2>2. rlp_to_big_int(r, k) = rlp_to_big_int(t, k)
        BY <2>1 DEF rlp_to_big_int
    <2>3. seal_at(r, k) = seal_at(t, k)
        BY <1>3 DEF seal_at
    <2>4. fields_from_bytes(r, k, length) = fields_from_bytes(t, k, length)
        BY <1>3 DEF fields_from_bytes
    <2> QED BY <2>1, <2>2, <2>3, <2>4
<1>4. /\ a[1] = fields_from_bytes(r, 0, ADDRESS_LENGTH)
      /\ a[2] = fields_from_bytes(r, 1, PUBLIC_KEY_LENGTH)
      /\ a[3] = rlp_to_big_int(r, 2) /\ a[4] = bytes_at(r, 3)
      /\ a[5] = seal_at(r, 4) /\ a[6] = seal_at(r, 5)
    BY <1>1 DEF PartsOfExtra
<1>5. /\ b[1] = fields_from_bytes(t, 0, ADDRESS_LENGTH)
      /\ b[2] = fields_from_bytes(t, 1, PUBLIC_KEY_LENGTH)
      /\ b[3] = rlp_to_big_int(t, 2) /\ b[4] = bytes_at(t, 3)
      /\ b[5] = seal_at(t, 4) /\ b[6] = seal_at(t, 5)
    BY <1>2 DEF PartsOfExtra
<1>6. /\ at(r, 0) = at(t, 0) => a[1] = b[1]
      /\ at(r, 1) = at(t, 1) => a[2] = b[2]
      /\ at(r, 2) = at(t, 2) => a[3] = b[3]
      /\ at(r, 3) = at(t, 3) => a[4] = b[4]
      /\ at(r, 4) = at(t, 4) => a[5] = b[5]
      /\ at(r, 5) = at(t, 5) => a[6] = b[6]
    BY <1>3, <1>4, <1>5
<1>7. \A i \in 1..6 : at(r, i - 1) = at(t, i - 1) => a[i] = b[i]
    <2> TAKE i \in 1..6
    <2>1. i = 1 \/ i = 2 \/ i = 3 \/ i = 4 \/ i = 5 \/ i = 6
        OBVIOUS
    <2>2. /\ 1 - 1 = 0 /\ 2 - 1 = 1 /\ 3 - 1 = 2
          /\ 4 - 1 = 3 /\ 5 - 1 = 4 /\ 6 - 1 = 5
        OBVIOUS
    <2> QED BY <2>1, <2>2, <1>6
<1> QED BY <1>1, <1>2, <1>7

(* Five items are too few.                                                 *)
LEMMA TooFewItems ==
    ASSUME NEW item, at(item, 5).res # "Ok"
    PROVE  PartsOfExtra(item)[6].res # "Ok"
<1>1. PartsOfExtra(item)[6] = seal_at(item, 5)
    BY DEF PartsOfExtra
<1>2. seal_at(item, 5) = at(item, 5)
    BY DEF seal_at, AndThen
<1> QED BY <1>1, <1>2

(* A list of six items that is bent: too few are left, or all but at most  *)
(* one of the six are where they were.                                     *)
LEMMA BentItems ==
    ASSUME NEW payload, Depth3(payload), IsList(payload),
           Len(payload[2]) = 6, NEW item \in BentBelow(payload, BentItemOrBelow)
    PROVE  \/ at(item, 5).res # "Ok"
           \/ \E i \in 1..6 : \A j \in 1..6 :
                j # i => at(item, j - 1) = at(payload, j - 1)
<1>1. PICK items : items = payload[2]
    OBVIOUS
<1>2. IsVector(items) /\ Len(items) = 6 /\ payload = List(items)
    BY <1>1, DeeperIsItem, DepthParts
<1>3. DOMAIN items = 1..6
    BY <1>2, VectorProperties
<1>4. \A new, k : at(List(new), k) = IF k < Len(new) THEN Ok(new[k + 1])
                                     ELSE Refused("RlpDecodeError")
    BY ItemParts DEF at
<1>5. \A j \in 1..6 : at(payload, j - 1) = Ok(items[j])
    <2> TAKE j \in 1..6
    <2>1. j - 1 < 6 /\ j - 1 + 1 = j
        OBVIOUS
    <2> QED BY <2>1, <1>2, <1>4
<1>6. CASE item = Data(<<>>)
    <2>1. at(item, 5) = Refused("RlpDecodeError")
        BY <1>6, ItemParts DEF at
    <2> QED BY <2>1 DEF Refused
<1>7. CASE item = List(Append(items, Data(<<>>)))
    <2>1. PICK longer : longer = Append(items, Data(<<>>))
        OBVIOUS
    <2>2. Len(longer) = 7 /\ \A j \in 1..6 : longer[j] = items[j]
        <3>1. IsVector(items)
            BY <1>2
        <3>2. /\ Len(longer) = Len(items) + 1
              /\ \A j \in 1..Len(items) : longer[j] = items[j]
            BY <3>1, <2>1, VectorAppend
        <3> QED BY <3>2, <1>2
    <2>3. \A j \in 1..6 : at(item, j - 1) = Ok(longer[j])
        <3> TAKE j \in 1..6
        <3>1. j - 1 < 7 /\ j - 1 + 1 = j
            OBVIOUS
        <3> QED BY <3>1, <1>4, <1>7, <2>1, <2>2
    <2>4. 1 \in 1..6
        OBVIOUS
    <2> QED BY <1>5, <2>2, <2>3, <2>4
<1>8. ASSUME NEW fewer \in Ends(items), item = List(fewer)
      PROVE  at(item, 5).res # "Ok"
    <2>1. Len(fewer) = 5
        <3>1. IsVector(items)
            BY <1>2
        <3>2. Len(fewer) = Len(items) - 1
            BY <3>1, <1>8, VectorEnds
        <3> QED BY <3>2, <1>2
    <2>2. ~ (5 < Len(fewer))
        BY <2>1
    <2>3. at(item, 5) = Refused("RlpDecodeError")
        BY <2>2, <1>4, <1>8
    <2> QED BY <2>3 DEF Refused
<1>9. ASSUME NEW i \in DOMAIN items, NEW x, item = List([items EXCEPT ![i] = x])
      PROVE  \A j \in 1..6 : j # i => at(item, j - 1) = at(payload, j - 1)
    <2>1. PICK changed : changed = [items EXCEPT ![i] = x]
        OBVIOUS
    <2>2. /\ IsVector(changed) /\ DOMAIN changed = DOMAIN items
          /\ \A j \in DOMAIN items : changed[j] = IF j = i THEN x ELSE items[j]
        BY <1>2, <2>1, VectorExcept
    <2>3. Len(changed) = 6
        BY <1>2, <1>3, <2>2, VectorProperties
    <2>4. \A j \in 1..6 : at(item, j - 1) = Ok(changed[j])
        <3> TAKE j \in 1..6
        <3>1. j - 1 < 6 /\ j - 1 + 1 = j
            OBVIOUS
        <3> QED BY <3>1, <1>4, <1>9, <2>1, <2>3
    <2> QED BY <1>3, <1>5, <2>2, <2>4
<1>10. \/ item = Data(<<>>) \/ item = List(Append(items, Data(<<>>)))
       \/ \E fewer \in Ends(items) : item = List(fewer)
       \/ \E i \in DOMAIN items : \E x : item = List([items EXCEPT ![i] = x])
    <2>1. \/ item \in Bent(payload)
          \/ \E i \in DOMAIN items : \E x : item = List([items EXCEPT ![i] = x])
        <3>1. \/ item \in Bent(payload)
              \/ \E i \in DOMAIN payload[2] :
                    \E x \in BentItemOrBelow(payload[2][i]) :
                        item = List([payload[2] EXCEPT ![i] = x])
            BY BentListDepth
        <3> QED BY <3>1, <1>1, Zenon
    <2>2. item \in Bent(payload) =>
            \/ item = Data(<<>>) \/ item = List(Append(items, Data(<<>>)))
            \/ \E fewer \in Ends(items) : item = List(fewer)
        BY <1>1 DEF Bent
    <2> QED BY <2>1, <2>2
<1> QED BY <1>3, <1>6, <1>7, <1>8, <1>9, <1>10

(* The beginnings of vectors that begin with the same are the same.       *)
LEMMA SamePrefix ==
    ASSUME NEW v, IsVector(v), NEW w, IsVector(w), NEW n \in Nat,
           n <= Len(v), n <= Len(w), \A i \in 1..n : v[i] = w[i]
    PROVE  SubSeq(v, 1, n) = SubSeq(w, 1, n)
<1>1. 1 \in Nat /\ 1 >= 1 /\ n = IF 1 <= n THEN n - 1 + 1 ELSE 0
    OBVIOUS
<1>2. ASSUME NEW u, IsVector(u), n <= Len(u)
      PROVE  /\ IsVector(SubSeq(u, 1, n)) /\ Len(SubSeq(u, 1, n)) = n
             /\ \A i \in 1..n : SubSeq(u, 1, n)[i] = u[i]
    <2>1. /\ IsVector(SubSeq(u, 1, n))
          /\ Len(SubSeq(u, 1, n)) = IF 1 <= n THEN n - 1 + 1 ELSE 0
          /\ \A i \in 1..(IF 1 <= n THEN n - 1 + 1 ELSE 0) :
                SubSeq(u, 1, n)[i] = u[1 + i - 1]
        BY <1>1, <1>2, VectorParts
    <2>2. \A i \in 1..n : SubSeq(u, 1, n)[i] = u[1 + i - 1]
        BY <1>1, <2>1
    <2>3. \A i \in 1..n : 1 + i - 1 = i
        OBVIOUS
    <2>4. \A i \in 1..n : SubSeq(u, 1, n)[i] = u[i]
        BY <2>2, <2>3
    <2> QED BY <1>1, <2>1, <2>4
<1>3. \A i \in 1..n : SubSeq(v, 1, n)[i] = SubSeq(w, 1, n)[i]
    BY <1>2
<1> QED BY <1>2, <1>3, VectorEqual

(* Two lists of items that differ in the aggregated seal only, or not in   *)
(* the aggregated seal.                                                    *)
LEMMA SealsApart ==
    ASSUME NEW a, Len(a) \in Nat, extra_from_rlp(a).res = "Ok",
           NEW b, Len(b) \in Nat, extra_from_rlp(b).res = "Ok",
           NEW r, r = a[ISTANBUL_EXTRA_VANITY_LENGTH + 1],
           NEW t, t = b[ISTANBUL_EXTRA_VANITY_LENGTH + 1],
           NEW i \in 1..6, \A j \in 1..6 : j # i => at(r, j - 1) = at(t, j - 1)
    PROVE  LET e == extra_from_rlp(a).value
               f == extra_from_rlp(b).value
           IN  e.aggregated_seal = f.aggregated_seal \/ Unsealed(e) = Unsealed(f)
<1>1. PICK p : p = PartsOfExtra(r)
    OBVIOUS
<1>2. PICK q : q = PartsOfExtra(t)
    OBVIOUS
<1>3. \A j \in 1..6 : j # i => p[j] = q[j]
    BY <1>1, <1>2, SameItems
<1>4. extra_from_rlp(a).value = ExtraOf([j \in 1..6 |-> p[j].value])
    BY <1>1, ExtraFields
<1>5. extra_from_rlp(b).value = ExtraOf([j \in 1..6 |-> q[j].value])
    BY <1>2, ExtraFields
<1>6. PICK v : v = [j \in 1..6 |-> p[j].value]
    OBVIOUS
<1>7. PICK w : w = [j \in 1..6 |-> q[j].value]
    OBVIOUS
<1>8. \A j \in 1..6 : j # i => v[j] = w[j]
    BY <1>3, <1>6, <1>7
<1>9. CASE i # 5
    <2>1. 5 \in 1..6
        OBVIOUS
    <2>2. v[5] = w[5]
        BY <1>8, <1>9, <2>1
    <2>3. ExtraOf(v).aggregated_seal = ExtraOf(w).aggregated_seal
        BY <2>2 DEF ExtraOf
    <2> QED BY <2>3, <1>4, <1>5, <1>6, <1>7
<1>10. CASE i = 5
    <2>1. /\ v[1] = w[1] /\ v[2] = w[2] /\ v[3] = w[3] /\ v[4] = w[4]
          /\ v[6] = w[6]
        BY <1>8, <1>10
    <2>2. Unsealed(ExtraOf(v)) = Unsealed(ExtraOf(w))
        BY <2>1 DEF ExtraOf, Unsealed
    <2> QED BY <2>2, <1>4, <1>5, <1>6, <1>7
<1> QED BY <1>9, <1>10

(* What of a bent copy still decodes has the content of the header, or its *)
(* aggregated seal.                                                        *)
LEMMA BentSeal ==
    ASSUME NEW header \in Sent, NEW copy \in Copies(header), Decodes(copy)
    PROVE  \/ FilteredOf(copy) = FilteredOf(header)
           \/ ExtraIn(copy).aggregated_seal = ExtraIn(header).aggregated_seal
<1>1. PICK n \in Nat : n = ISTANBUL_EXTRA_VANITY_LENGTH
    BY Lengths
<1>2. PICK vanity : vanity = Vanity(header.extra)
    OBVIOUS
<1>3. PICK payload :
            payload = header.extra[ISTANBUL_EXTRA_VANITY_LENGTH + 1]
    OBVIOUS
<1>4. PICK bytes : bytes = header.extra
    OBVIOUS
<1>5. /\ IsVector(bytes) /\ Len(bytes) = n + 1 /\ bytes[n + 1] = payload
      /\ Depth3(payload) /\ IsList(payload) /\ Len(payload[2]) = 6
      /\ extra_from_rlp(bytes).res = "Ok"
    BY <1>1, <1>3, <1>4, SentShape DEF WellFormed, IsHeader, Decodes
<1>6. IsVector(vanity) /\ Len(vanity) = n
    BY <1>1, <1>2, SentShape DEF Decodes, IsArray
<1>7. PICK extra : extra = copy.extra
    OBVIOUS
<1>8. /\ IsVector(extra) /\ Len(extra) \in Nat
      /\ extra_from_rlp(extra).res = "Ok"
    <2>1. IsVector(extra) /\ extra_from_rlp(extra).res = "Ok"
        BY <1>7 DEF Decodes, IsHeader
    <2> QED BY <2>1, VectorProperties
<1>9. Len(extra) > n
    <2>1. Len(extra) > ISTANBUL_EXTRA_VANITY_LENGTH =>
            Depth3(extra[ISTANBUL_EXTRA_VANITY_LENGTH + 1])
        BY <1>7, CopyWellFormed DEF WellFormed
    <2> QED BY <1>1, <1>8, <2>1, ExtraRead
<1>10. \/ extra = bytes
       \/ extra \in {vanity, <<>>, Tail(bytes)}
       \/ extra = Append(bytes, Byte(0))
       \/ \E item \in BentBelow(payload, BentItemOrBelow) :
            extra = Append(vanity, item)
    BY <1>2, <1>3, <1>4, <1>7, CopyShape
<1>11. Len(bytes) \in Nat
    BY <1>1, <1>5
<1> DEFINE Apart == \/ ExtraIn(copy).aggregated_seal
                            = ExtraIn(header).aggregated_seal
                    \/ Unsealed(ExtraIn(copy)) = Unsealed(ExtraIn(header))
<1>12. ASSUME extra[n + 1] = payload PROVE Apart
    <2>1. PICK i : i = 1
        OBVIOUS
    <2>2. i \in 1..6
        BY <2>1
    <2>3. /\ payload = extra[ISTANBUL_EXTRA_VANITY_LENGTH + 1]
          /\ payload = bytes[ISTANBUL_EXTRA_VANITY_LENGTH + 1]
        BY <1>1, <1>5, <1>12
    <2>4. LET e == extra_from_rlp(extra).value
              f == extra_from_rlp(bytes).value
          IN  e.aggregated_seal = f.aggregated_seal \/ Unsealed(e) = Unsealed(f)
        BY <1>5, <1>8, <1>11, <2>2, <2>3, SealsApart
    <2> QED BY <2>4, <1>4, <1>7 DEF ExtraIn
<1>13. ASSUME extra = bytes PROVE Apart
    BY <1>5, <1>12, <1>13
<1>14. ASSUME extra \in {vanity, <<>>, Tail(bytes)} PROVE FALSE
    <2>1. CASE extra = vanity
        BY <1>6, <1>9, <2>1
    <2>2. CASE extra = <<>>
        <3>1. Len(<<>>) = 0
            OBVIOUS
        <3> QED BY <1>9, <2>2, <3>1
    <2>3. CASE extra = Tail(bytes)
        <3>1. bytes # <<>>
            BY <1>5, EmptySeq DEF IsVector
        <3>2. extra \in Ends(bytes)
            BY <2>3, <3>1 DEF Ends
        <3>3. Len(extra) = Len(bytes) - 1
            BY <1>5, <3>2, VectorEnds
        <3> QED BY <1>5, <1>9, <3>3
    <2> QED BY <1>14, <2>1, <2>2, <2>3
<1>15. ASSUME extra = Append(bytes, Byte(0)) PROVE Apart
    <2>1. \A i \in 1..Len(bytes) : extra[i] = bytes[i]
        BY <1>5, <1>15, VectorAppend
    <2>2. n + 1 \in 1..Len(bytes)
        BY <1>5
    <2> QED BY <1>5, <2>1, <2>2, <1>12
<1>16. ASSUME NEW item \in BentBelow(payload, BentItemOrBelow),
              extra = Append(vanity, item)
       PROVE  Apart
    <2>1. extra[n + 1] = item
        BY <1>6, <1>16, VectorAppend
    <2>2. item = extra[ISTANBUL_EXTRA_VANITY_LENGTH + 1]
        BY <1>1, <2>1
    <2>3. payload = bytes[ISTANBUL_EXTRA_VANITY_LENGTH + 1]
        BY <1>1, <1>5
    <2>4. PartsOfExtra(item)[6].res = "Ok"
        <3>1. \A i \in 1..6 : PartsOfExtra(item)[i].res = "Ok"
            BY <1>8, <2>2, ExtraFields
        <3>2. 6 \in 1..6
            OBVIOUS
        <3> QED BY <3>1, <3>2
    <2>5. at(item, 5).res = "Ok"
        BY <2>4, TooFewItems
    <2>6. PICK i \in 1..6 : \A j \in 1..6 :
                j # i => at(item, j - 1) = at(payload, j - 1)
        BY <1>5, <1>16, <2>5, BentItems
    <2>7. LET e == extra_from_rlp(extra).value
              f == extra_from_rlp(bytes).value
          IN  e.aggregated_seal = f.aggregated_seal \/ Unsealed(e) = Unsealed(f)
        BY <1>5, <1>8, <1>11, <2>2, <2>3, <2>6, SealsApart
    <2> QED BY <2>7, <1>4, <1>7 DEF ExtraIn
<1> HIDE DEF Apart
<1>17. Apart
    BY <1>10, <1>13, <1>14, <1>15, <1>16
<1>18. Vanity(extra) = Vanity(bytes)
    <2>1. /\ bytes = Append(vanity, payload)
          /\ \A i \in 1..n : bytes[i] = vanity[i]
        <3>1. bytes = Append(vanity, payload)
            BY <1>2, <1>3, <1>4, SentShape
        <3> QED BY <3>1, <1>6, VectorAppend
    <2>2. \A i \in 1..n : extra[i] = bytes[i]
        <3>1. ASSUME NEW x, extra = Append(vanity, x)
              PROVE  \A i \in 1..n : extra[i] = bytes[i]
            <4>1. \A i \in 1..n : extra[i] = vanity[i]
                BY <1>6, <3>1, VectorAppend
            <4> QED BY <2>1, <4>1
        <3>2. ASSUME extra = Append(bytes, Byte(0))
              PROVE  \A i \in 1..n : extra[i] = bytes[i]
            <4>1. \A i \in 1..Len(bytes) : extra[i] = bytes[i]
                BY <1>5, <3>2, VectorAppend
            <4> QED BY <1>5, <4>1
        <3> QED BY <1>10, <1>14, <3>1, <3>2
    <2>3. n <= Len(extra) /\ n <= Len(bytes)
        BY <1>5, <1>8, <1>9
    <2>4. SubSeq(extra, 1, n) = SubSeq(bytes, 1, n)
        BY <1>5, <1>8, <2>2, <2>3, SamePrefix
    <2> QED BY <1>1, <2>4 DEF Vanity
<1>19. Vanity(copy.extra) = Vanity(header.extra)
    BY <1>4, <1>7, <1>18
<1>20. /\ Others(copy) = Others(header) /\ copy.number = header.number
       /\ copy.time = header.time
    <2>1. copy = [RecordOf(header) EXCEPT !.extra = extra]
        BY <1>7, CopyWellFormed
    <2>2. header = RecordOf(header)
        <3>1. IsHeader(header) /\ IsVector(header.extra)
            BY SentShape DEF WellFormed, IsHeader
        <3> QED BY <3>1, WithExtra
    <2>3. Others(header) = [RecordOf(header) EXCEPT !.number = 0, !.time = 0,
                                                    !.extra = <<>>]
        BY <2>2 DEF Others
    <2>4. Others(copy) = [[RecordOf(header) EXCEPT !.extra = extra]
                            EXCEPT !.number = 0, !.time = 0, !.extra = <<>>]
        BY <2>1 DEF Others
    <2>5. Others(copy) = Others(header)
        BY <2>3, <2>4 DEF RecordOf
    <2>6. copy.number = header.number /\ copy.time = header.time
        BY <2>1 DEF RecordOf
    <2> QED BY <2>5, <2>6
<1>21. Unsealed(ExtraIn(copy)) = Unsealed(ExtraIn(header)) =>
            FilteredOf(copy) = FilteredOf(header)
    BY <1>19, <1>20, SentShape, SameFields
<1> QED BY <1>17, <1>21 DEF Apart

(* What insert_header stores when seals are checked has the commitment of  *)
(* a quorum of the set in force, whatever the header.                      *)
LEMMA InsertedSealed ==
    ASSUME SealsChecked, NEW h, h.number # 0, NEW now,
           insert_header(Config, snapshot, h, now).res = "Ok"
    PROVE  /\ h.extra = "Ok"
           /\ QuorumSigned(hash(h), snapshot.validators, h.aggregated_seal)
<1> DEFINE outcome == insert_header(Config, snapshot, h, now)
           checked == verify_header(Config, snapshot, h, now)
           sealed == verify_aggregated_seal(hash(h), snapshot.validators,
                                            h.aggregated_seal)
<1>1. checked = "Ok" => h.extra = "Ok" /\ sealed = "Ok"
    <2> DEFINE wide == h.number > MaxU64
               old == h.number <= snapshot.number
               early == /\ Config.verify_header_timestamp
                        /\ h.time <= snapshot.timestamp
               overflow == /\ Config.verify_header_timestamp
                           /\ now + Config.allowed_clock_skew > MaxU64
               future == /\ Config.verify_header_timestamp
                         /\ h.time > now + Config.allowed_clock_skew
    <2>1. checked = IF wide THEN "Panic" ELSE IF old THEN "HeightNotGreater"
                    ELSE IF early THEN "TimestampNotGreater"
                    ELSE IF overflow THEN "Panic"
                    ELSE IF future THEN "TimestampInFuture"
                    ELSE IF h.extra # "Ok" THEN h.extra ELSE sealed
        BY Zenon DEF verify_header, verify_header_seal
    <2> HIDE DEF wide, old, early, overflow, future, sealed, checked
    <2> QED BY <2>1
<1> HIDE DEF sealed
<1>2. checked = "Ok"
    <2>1. SUFFICES ASSUME checked # "Ok" PROVE outcome.res # "Ok"
        OBVIOUS
    <2>2. /\ Config.verify_epoch_headers /\ Config.verify_non_epoch_headers
          /\ h.number # 0
        BY DEF SealsChecked
    <2>3. \/ outcome = Outcome("Panic", snapshot)
          \/ outcome = store_epoch_header(Config, snapshot, h, now)
          \/ outcome = store_non_epoch_header(Config, snapshot, h, now)
        BY Zenon DEF insert_header
    <2>4. store_epoch_header(Config, snapshot, h, now)
            = Outcome(checked, snapshot)
        BY <2>1, <2>2, Zenon DEF store_epoch_header
    <2>5. store_non_epoch_header(Config, snapshot, h, now)
            = Outcome(checked, snapshot)
        BY <2>1, <2>2, Zenon DEF store_non_epoch_header
    <2> HIDE DEF outcome, checked
    <2> QED BY <2>1, <2>3, <2>4, <2>5 DEF Outcome
<1> QED BY <1>1, <1>2, SealVerdict DEF sealed

(* A bent copy that is stored has the content of the header: its seal was  *)
(* either left alone, and then it fits no other content, or it is the one  *)
(* item that was bent.                                                     *)
LEMMA BentOnTheWay ==
    ASSUME TypeOK
    PROVE  BentIsHarmless
<1> DEFINE now == MaxU64 - Config.allowed_clock_skew
           inserted(h) == insert_header(Config, snapshot, h, now)
<1> SUFFICES ASSUME SealsChecked, NEW header \in Sent,
                    header.number > snapshot.number,
                    NEW copy \in Copies(header),
                    inserted(Read(copy)).res = "Ok"
             PROVE  inserted(Read(copy)) = inserted(
                        [Read(header) EXCEPT
                            !.aggregated_seal = Read(copy).aggregated_seal])
    BY DEF BentIsHarmless
<1>1. PICK time : time = now
    OBVIOUS
<1>2. insert_header(Config, snapshot, Read(copy), time).res = "Ok"
    BY <1>1
<1> HIDE DEF now
<1>3. Decodes(header)
    BY SentShape
<1>4. copy.number = header.number
    <2>1. copy = [RecordOf(header) EXCEPT !.extra = copy.extra]
        BY CopyWellFormed
    <2> QED BY <2>1 DEF RecordOf
<1>5. Read(copy).number # 0
    <2>1. snapshot.number \in U64
        BY DEF TypeOK
    <2>2. header.number \in Nat
        BY <1>3 DEF Decodes, IsHeader
    <2>3. header.number # 0
        BY <2>1, <2>2, MaxU64Assumption DEF U64
    <2>4. Read(copy).number = copy.number
        BY DEF Read, ReadWith
    <2> QED BY <1>4, <2>3, <2>4
<1>6. /\ Read(copy).extra = "Ok"
      /\ QuorumSigned(hash(Read(copy)), snapshot.validators,
                      Read(copy).aggregated_seal)
    BY <1>2, <1>5, InsertedSealed
<1>7. Decodes(copy)
    <2>1. extra_from_rlp(copy.extra).res = "Ok"
        <3>1. extra_from_rlp(copy.extra).res # "Ok" =>
                Read(copy).extra = extra_from_rlp(copy.extra).res
            BY DEF Read, ReadWith
        <3> QED BY <1>6, <3>1
    <2> QED BY <2>1, CopyWellFormed, WellFormedRead
<1>8. hash(Read(copy)) = hash(Read(header))
    <2>1. CASE FilteredOf(copy) = FilteredOf(header)
        BY <1>3, <1>7, <2>1, SameContent
    <2>2. CASE ExtraIn(copy).aggregated_seal = ExtraIn(header).aggregated_seal
        <3>1. PICK seal : seal = Read(header).aggregated_seal
            OBVIOUS
        <3>2. Read(copy).aggregated_seal = seal
            <4>1. Read(copy).aggregated_seal
                    = SealFromWire(ExtraIn(copy).aggregated_seal)
                BY <1>7, ReadContent
            <4>2. Read(header).aggregated_seal
                    = SealFromWire(ExtraIn(header).aggregated_seal)
                BY <1>3, ReadContent
            <4> QED BY <2>2, <3>1, <4>1, <4>2
        <3>3. seal.signature.of
                = prepare_commited_seal(hash(Read(copy)), seal.round)
            BY <1>6, <3>2 DEF QuorumSigned
        <3>4. \/ seal.signature = NoSeal.signature
              \/ seal.signature.of =
                    prepare_commited_seal(hash(Read(header)), seal.round)
            BY <3>1, SentSealsAssumption
        <3>5. seal.signature # NoSeal.signature
            BY <3>3 DEF NoSeal, NoKeys, prepare_commited_seal
        <3> QED BY <3>3, <3>4, <3>5 DEF prepare_commited_seal
    <2> QED BY <1>7, <2>1, <2>2, BentSeal
<1>9. Read(copy) = [Read(header) EXCEPT
                        !.aggregated_seal = Read(copy).aggregated_seal]
    <2>1. PICK r : r = Read(copy)
        OBVIOUS
    <2>2. PICK t : t = Read(header)
        OBVIOUS
    <2>3. [r EXCEPT !.aggregated_seal = NoSeal]
            = [t EXCEPT !.aggregated_seal = NoSeal]
        BY <1>8, <2>1, <2>2 DEF hash
    <2>4. r = [number |-> r.number, time |-> r.time, extra |-> r.extra,
               added_validators |-> r.added_validators,
               added_validators_public_keys |->
                    r.added_validators_public_keys,
               removed_validators |-> r.removed_validators,
               aggregated_seal |-> r.aggregated_seal, root |-> r.root]
        BY <1>7, <2>1, ReadContent
    <2>5. t = [number |-> t.number, time |-> t.time, extra |-> t.extra,
               added_validators |-> t.added_validators,
               added_validators_public_keys |->
                    t.added_validators_public_keys,
               removed_validators |-> t.removed_validators,
               aggregated_seal |-> t.aggregated_seal, root |-> t.root]
        BY <1>3, <2>2, ReadContent
    <2>6. r = [t EXCEPT !.aggregated_seal = r.aggregated_seal]
        BY <2>3, <2>4, <2>5
    <2> QED BY <2>1, <2>2, <2>6
<1> QED BY <1>9, Zenon

(* In every state of the library its snapshot comes back from the bytes    *)
(* that the host keeps (types/state.rs:21-170, mod.rs:442-465): for sets   *)
(* of every size, numbers of every length, every base and array length.    *)
THEOREM SnapshotAlwaysSurvives == Spec => []SnapshotSurvives
<1>1. IInv => SnapshotSurvives
    BY SnapshotOnWireType DEF IInv
<1> QED BY <1>1, InitIInv, NextIInv, PTL DEF Spec

(* The hash over bytes is that of exactly the copies which read the same   *)
(* but for the aggregated seal, whatever headers are sent.                 *)
THEOREM HashAlwaysOfContent == Spec => []HashIsOfContent
<1>1. HashIsOfContent
    BY HashContent
<1> QED BY <1>1, PTL

(* In every state, a later header with one item of its extra-data bent is  *)
(* refused, or stored as the header itself with the seal of the copy.      *)
THEOREM BentAlwaysHarmless == Spec => []BentIsHarmless
<1>1. IInv => BentIsHarmless
    BY BentOnTheWay DEF IInv
<1> QED BY <1>1, InitIInv, NextIInv, PTL DEF Spec
=============================================================================
