-------------------------------- MODULE State -------------------------------
(***************************************************************************)
(* src/src/state.rs: the rules by which a header changes the snapshot of   *)
(* the IBFT consensus.  Each operator is one method of `State`; it takes   *)
(* the configuration and the snapshot the method finds in `self`, and      *)
(* returns the result and the snapshot it leaves there.  "Panic" is a      *)
(* result too: the callers say what a panic does to them.                  *)
(*                                                                         *)
(* A snapshot is [number, timestamp, validators, hash, aggregated_seal].   *)
(* A header is [number, time, root, extra, added_validators,               *)
(* added_validators_public_keys, removed_validators, aggregated_seal]:     *)
(* the RLP of the extra-data is taken decoded, and `extra` tells whether   *)
(* decoding succeeds ("Ok"), fails ("RlpDecodeError"), or hits the slice   *)
(* of a too short address or key ("Panic").  `root` stands for the fields  *)
(* that no rule here reads.                                                *)
(***************************************************************************)
EXTENDS AggregatedSeal

CONSTANT MaxU64     \* 2^64 - 1 in the code

Outcome(res, snapshot) == [res |-> res, snapshot |-> snapshot]

(* Snapshot::new().  The all-zero hash is the hash of no header. *)
EmptySnapshot == [number |-> 0, timestamp |-> 0, validators |-> <<>>,
                  hash |-> <<>>, aggregated_seal |-> NoSeal]

(* Mutant: what the diff removes is filtered out with the seal. *)
hash_NoRemovals(header) ==
    [header EXCEPT !.aggregated_seal = NoSeal, !.removed_validators = {}]

(* Header::hash: the hash of the header without its aggregated seal.  The  *)
(* hash of what is left is taken to be injective.  (A header whose extra   *)
(* does not decode is hashed whole, but every caller then fails to decode  *)
(* the extra.)                                                             *)
hash(header) == [header EXCEPT !.aggregated_seal = NoSeal]

-----------------------------------------------------------------------------
(* Mutant: takes bit positions as if they started at 1. *)
KeptPlaces_FromOne(n, removed_validators) ==
    {i \in 1..n : i \notin removed_validators}

(* The places, from 1, that a bitmap does not remove from n.               *)
KeptPlaces(n, removed_validators) ==
    {i \in 1..n : i - 1 \notin removed_validators}

(* The k-th of a set of numbers. *)
Nth(places, k) ==
    CHOOSE i \in places : Cardinality({j \in places : j <= i}) = k

(* enumerate().filter(..).collect(): the validators at the kept places, in *)
(* their old order.                                                        *)
filtered_validators(validators, removed_validators) ==
    LET kept == KeptPlaces(Len(validators), removed_validators)
    IN  [k \in 1..Cardinality(kept) |-> validators[Nth(kept, k)]]

(* bits() of the bitmap, the position after its highest active bit, is     *)
(* compared with the length of the set; a bitmap of 0 removes nobody.      *)
remove_validators(validators, removed_validators) ==
    IF removed_validators = {}
    THEN [ok |-> TRUE, validators |-> validators]
    ELSE IF \E bit \in removed_validators : bit >= Len(validators)
    THEN [ok |-> FALSE, validators |-> validators]
    ELSE [ok |-> TRUE,
          validators |-> filtered_validators(validators, removed_validators)]

Addresses(validators) == {validators[i].address : i \in DOMAIN validators}

(* Nobody has two places in the set. *)
UniqueAddress(validators) ==
    \A i, j \in DOMAIN validators :
        validators[i].address = validators[j].address => i = j

(* Mutant: an address that is already in the set is added again. *)
add_validators_Unchecked(validators, added) ==
    [ok |-> TRUE, validators |-> validators \o added]

(* Only clashes with the set are looked for, not clashes inside `added`.   *)
add_validators(validators, added) ==
    IF Addresses(validators) \cap Addresses(added) # {}
    THEN [ok |-> FALSE, validators |-> validators]
    ELSE [ok |-> TRUE, validators |-> validators \o added]

-----------------------------------------------------------------------------
verify_header_seal(snapshot, header) ==
    IF header.extra # "Ok" THEN header.extra
    ELSE verify_aggregated_seal(hash(header), snapshot.validators,
                                header.aggregated_seal)

(* Mutant: any height will do. *)
verify_header_AnyHeight(config, snapshot, header, current_timestamp) ==
    verify_header_seal(snapshot, header)

verify_header(config, snapshot, header, current_timestamp) ==
    IF header.number > MaxU64 THEN "Panic"
    ELSE IF header.number <= snapshot.number THEN "HeightNotGreater"
    ELSE IF /\ config.verify_header_timestamp
            /\ header.time <= snapshot.timestamp
    THEN "TimestampNotGreater"
    ELSE IF /\ config.verify_header_timestamp
            /\ current_timestamp + config.allowed_clock_skew > MaxU64
    THEN "Panic"
    ELSE IF /\ config.verify_header_timestamp
            /\ header.time > current_timestamp + config.allowed_clock_skew
    THEN "TimestampInFuture"
    ELSE verify_header_seal(snapshot, header)

(* Mutant: the stored hash covers the seal. *)
SnapshotOf_HashWhole(header, validators) ==
    [number |-> header.number, timestamp |-> header.time,
     validators |-> validators, hash |-> header,
     aggregated_seal |-> header.aggregated_seal]

(* The snapshot that a header becomes. *)
SnapshotOf(header, validators) ==
    [number |-> header.number, timestamp |-> header.time,
     validators |-> validators, hash |-> hash(header),
     aggregated_seal |-> header.aggregated_seal]

(* Mutant: the seal of the snapshot before stays. *)
store_non_epoch_header_KeepSeal(config, snapshot, header, current_timestamp) ==
    LET verdict == verify_header(config, snapshot, header, current_timestamp)
    IN  IF verdict # "Ok" THEN Outcome(verdict, snapshot)
        ELSE Outcome("Ok",
                [SnapshotOf(header, snapshot.validators)
                    EXCEPT !.aggregated_seal = snapshot.aggregated_seal])

store_non_epoch_header(config, snapshot, header, current_timestamp) ==
    LET verdict ==
            IF config.verify_non_epoch_headers /\ header.number # 0
            THEN verify_header(config, snapshot, header, current_timestamp)
            ELSE "Ok"
    IN  IF verdict # "Ok" THEN Outcome(verdict, snapshot)
        ELSE IF header.extra # "Ok" THEN Outcome(header.extra, snapshot)
        ELSE Outcome("Ok", SnapshotOf(header, snapshot.validators))

(* The validators a header adds, addresses and keys combined. *)
AddedValidators(header) ==
    [i \in DOMAIN header.added_validators |->
        [address |-> header.added_validators[i],
         public_key |-> header.added_validators_public_keys[i]]]

(* Mutant: additions are looked at before the removals are applied. *)
store_epoch_header_AddFirst(config, snapshot, header, current_timestamp) ==
    LET verdict ==
            IF config.verify_epoch_headers /\ header.number # 0
            THEN verify_header(config, snapshot, header, current_timestamp)
            ELSE "Ok"
        addition == add_validators(snapshot.validators,
                                   AddedValidators(header))
        removal == remove_validators(addition.validators,
                                     header.removed_validators)
    IN  IF verdict # "Ok" THEN Outcome(verdict, snapshot)
        ELSE IF header.extra # "Ok" THEN Outcome(header.extra, snapshot)
        ELSE IF ~addition.ok \/ ~removal.ok
        THEN Outcome("InvalidValidatorSetDiff", snapshot)
        ELSE Outcome("Ok", SnapshotOf(header, removal.validators))

(* Mutant: the head moves although the diff could not be applied. *)
store_epoch_header_HeadFirst(config, snapshot, header, current_timestamp) ==
    LET verdict ==
            IF config.verify_epoch_headers /\ header.number # 0
            THEN verify_header(config, snapshot, header, current_timestamp)
            ELSE "Ok"
        removal == remove_validators(snapshot.validators,
                                     header.removed_validators)
        addition == add_validators(removal.validators,
                                   AddedValidators(header))
    IN  IF verdict # "Ok" THEN Outcome(verdict, snapshot)
        ELSE IF header.extra # "Ok" THEN Outcome(header.extra, snapshot)
        ELSE Outcome(IF removal.ok /\ addition.ok THEN "Ok"
                     ELSE "InvalidValidatorSetDiff",
                     SnapshotOf(header, addition.validators))

(* Removals first, then additions, both on self.snapshot.validators.  When *)
(* the additions are refused the removals stay: the set is left without    *)
(* the removed validators, under the old number, time, hash and seal.      *)
store_epoch_header(config, snapshot, header, current_timestamp) ==
    LET verdict ==
            IF config.verify_epoch_headers /\ header.number # 0
            THEN verify_header(config, snapshot, header, current_timestamp)
            ELSE "Ok"
        removal == remove_validators(snapshot.validators,
                                     header.removed_validators)
        addition == add_validators(removal.validators,
                                   AddedValidators(header))
    IN  IF verdict # "Ok" THEN Outcome(verdict, snapshot)
        ELSE IF header.extra # "Ok" THEN Outcome(header.extra, snapshot)
        ELSE IF \/ Len(header.added_validators)
                     # Len(header.added_validators_public_keys)
                \/ ~removal.ok
        THEN Outcome("InvalidValidatorSetDiff", snapshot)
        ELSE IF ~addition.ok
        THEN Outcome("InvalidValidatorSetDiff",
                     [snapshot EXCEPT !.validators = removal.validators])
        ELSE Outcome("Ok", SnapshotOf(header, addition.validators))

insert_header(config, snapshot, header, current_timestamp) ==
    IF header.number > MaxU64 THEN Outcome("Panic", snapshot)
    ELSE IF is_last_block_of_epoch(header.number, config.epoch_size)
    THEN store_epoch_header(config, snapshot, header, current_timestamp)
    ELSE store_non_epoch_header(config, snapshot, header, current_timestamp)

(* Snapshot::verify (src/src/types/state.rs): the stored seal against the  *)
(* stored set.                                                             *)
snapshot_verify(snapshot) ==
    verify_aggregated_seal(snapshot.hash, snapshot.validators,
                           snapshot.aggregated_seal)
=============================================================================
