---------------------------- MODULE LibraryState ----------------------------
(***************************************************************************)
(* One `State` object of the library (src/src/state.rs) and every call its *)
(* owner may make on it, in any order: no relayer discipline, no honest    *)
(* chain.  `Headers` are the headers that may be handed in, whatever their *)
(* origin.                                                                 *)
(*                                                                         *)
(* A panic aborts the process (panic = 'abort', Cargo.toml): after result  *)
(* "Panic" nothing happens any more.                                       *)
(***************************************************************************)
EXTENDS State

CONSTANTS Address, PublicKey,
          Config,           \* the StateConfig the object borrows
          Headers,          \* the headers that may be inserted
          ValidatorLists,   \* the arguments of add_validators
          Bitmaps,          \* the arguments of remove_validators
          Timestamps        \* the values of current_timestamp

U64 == 0..MaxU64

Validator == [address : Address, public_key : PublicKey]

(* The largest u64.                                                        *)
ASSUME MaxU64Assumption == MaxU64 \in Nat

(* A StateConfig: config.rs.                                               *)
ASSUME ConfigAssumption ==
    Config \in [epoch_size : U64 \ {0}, allowed_clock_skew : U64,
                verify_epoch_headers : BOOLEAN,
                verify_non_epoch_headers : BOOLEAN,
                verify_header_timestamp : BOOLEAN]

(* `number` is an arbitrary-precision integer, `time` a u64.  The fields   *)
(* of a header that only pass through (root, the seal) are not restricted. *)
ASSUME HeadersAssumption ==
    \A h \in Headers :
        /\ h.number \in Nat
        /\ h.time \in U64
        /\ h.extra \in {"Ok", "RlpDecodeError", "Panic"}
        /\ h.added_validators \in Seq(Address)
        /\ h.added_validators_public_keys \in Seq(PublicKey)
        /\ h.removed_validators \in SUBSET Nat

(* The arguments of the other methods, by their types in Rust.             *)
ASSUME ArgumentsAssumption ==
    /\ ValidatorLists \subseteq Seq(Validator)
    /\ Bitmaps \subseteq SUBSET Nat
    /\ Timestamps \subseteq U64

(* No header and no caller adds one address twice in the same list: the    *)
(* election never does, and add_validators does not look for it.           *)
ASSUME AddedOnceAssumption ==
    /\ \A h \in Headers : \A i, j \in DOMAIN h.added_validators :
            h.added_validators[i] = h.added_validators[j] => i = j
    /\ \A l \in ValidatorLists : UniqueAddress(l)

VARIABLES snapshot,     \* self.snapshot
          result        \* what the last call returned

vars == <<snapshot, result>>

Init == snapshot = EmptySnapshot /\ result = "Ok"

InsertHeader(header, current_timestamp) ==
    LET outcome == insert_header(Config, snapshot, header, current_timestamp)
    IN  snapshot' = outcome.snapshot /\ result' = outcome.res

VerifyHeader(header, current_timestamp) ==
    /\ result' = verify_header(Config, snapshot, header, current_timestamp)
    /\ UNCHANGED snapshot

VerifyHeaderSeal(header) ==
    /\ result' = verify_header_seal(snapshot, header)
    /\ UNCHANGED snapshot

(* The two public methods return a bool; "Refused" is false. *)
AddValidators(validators) ==
    LET addition == add_validators(snapshot.validators, validators)
    IN  /\ snapshot' = [snapshot EXCEPT !.validators = addition.validators]
        /\ result' = IF addition.ok THEN "Ok" ELSE "Refused"

RemoveValidators(bitmap) ==
    LET removal == remove_validators(snapshot.validators, bitmap)
    IN  /\ snapshot' = [snapshot EXCEPT !.validators = removal.validators]
        /\ result' = IF removal.ok THEN "Ok" ELSE "Refused"

Next ==
    /\ result # "Panic"
    /\ \/ \E header \in Headers, now \in Timestamps :
            InsertHeader(header, now) \/ VerifyHeader(header, now)
       \/ \E header \in Headers : VerifyHeaderSeal(header)
       \/ \E validators \in ValidatorLists : AddValidators(validators)
       \/ \E bitmap \in Bitmaps : RemoveValidators(bitmap)

Spec == Init /\ [][Next]_vars
-----------------------------------------------------------------------------
Results == {"Ok", "Refused", "Panic", "RlpDecodeError", "HeightNotGreater",
            "TimestampNotGreater", "TimestampInFuture", "MissingSeals",
            "BlsInvalidPublicKey", "BlsInvalidSignature", "BlsVerifyError",
            "InvalidValidatorSetDiff"}

(* The hash and the seal are always those of a header that was handed in,  *)
(* and a number that does not fit u64 never gets into a snapshot           *)
(* (state.rs:112,139,191).                                                 *)
TypeOK ==
    /\ snapshot \in
        [number : U64, timestamp : U64, validators : Seq(Validator),
         hash : {<<>>} \cup {hash(h) : h \in Headers},
         aggregated_seal : {NoSeal} \cup {h.aggregated_seal : h \in Headers}]
    /\ result \in Results

(* Positions in the set are what the seal bitmaps speak of, so nobody may  *)
(* hold two: no sequence of removals, additions, epoch headers and partly  *)
(* failed epoch headers puts one address in two places (state.rs:28-68).   *)
UniqueAddresses == UniqueAddress(snapshot.validators)

SealsChecked == Config.verify_epoch_headers /\ Config.verify_non_epoch_headers

HeadMoves == snapshot'.hash # snapshot.hash

(* "assert header height is newer than any we know" (state.rs:71): whoever *)
(* hands in the headers, the head moves forward in height and in time; the *)
(* one header that can move it otherwise is the unverified genesis block.  *)
HeadOnlyAdvances ==
    [][SealsChecked /\ HeadMoves =>
        \/ snapshot'.number = 0
        \/ /\ snapshot'.number > snapshot.number
           /\ Config.verify_header_timestamp =>
                snapshot'.timestamp > snapshot.timestamp]_vars

(* A new head was committed to by two thirds of the set that was in force  *)
(* before it, the set an epoch header replaces and not the one it brings   *)
(* in: its seal is that very set's signature of that very header           *)
(* (state.rs:100-109,150-182, bls.rs:12-43).                               *)
SealedByPriorSet ==
    [][SealsChecked /\ HeadMoves /\ snapshot'.number # 0 =>
        LET seal == snapshot'.aggregated_seal
            signers == Signers(snapshot.validators, seal.bitmap)
        IN  /\ 3 * Cardinality(signers) >= 2 * Len(snapshot.validators)
            /\ seal.signature =
                [of |-> prepare_commited_seal(snapshot'.hash, seal.round),
                 by |-> aggregate(snapshot.validators, signers)]]_vars

(* A call that fails leaves number, time, hash and seal alone.  It may     *)
(* leave a smaller set behind (a diff whose removals were applied and      *)
(* whose additions were refused, state.rs:174-188): then exactly the       *)
(* survivors remain, in their old order, and nobody was added.             *)
FailureKeepsHead ==
    [][result' # "Ok" =>
        /\ [snapshot' EXCEPT !.validators = <<>>]
             = [snapshot EXCEPT !.validators = <<>>]
        /\ \/ snapshot'.validators = snapshot.validators
           \/ \E h \in Headers :
                /\ is_last_block_of_epoch(h.number, Config.epoch_size)
                /\ \A bit \in h.removed_validators :
                        bit < Len(snapshot.validators)
                /\ Addresses(snapshot'.validators)
                     \cap {h.added_validators[i] :
                             i \in DOMAIN h.added_validators} # {}
                /\ snapshot'.validators =
                    filtered_validators(snapshot.validators,
                                        h.removed_validators)]_vars
=============================================================================
