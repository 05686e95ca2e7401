--------------------------- MODULE AggregatedSeal ---------------------------
(***************************************************************************)
(* src/src/bls.rs: may a header hash, sealed by the validators a bitmap    *)
(* names, be trusted?                                                      *)
(*                                                                         *)
(* BLS is modelled by what it promises.  A signature is a pair             *)
(*     [of |-> <the message>, by |-> <the bag of keys it aggregates>]      *)
(* and verifies under an aggregated key exactly when it is a signature of  *)
(* that message by that bag: nothing is forged, and nothing that was       *)
(* signed fails to verify.  Bytes that are no signature aggregate nobody.  *)
(*                                                                         *)
(* A bitmap (an arbitrary-precision integer in the code) is the set of the *)
(* positions, from 0, of its active bits.                                  *)
(***************************************************************************)
EXTENDS Istanbul, Sequences, FiniteSets

CONSTANT BadKeys    \* public keys whose bytes do not deserialize

NoKeys == <<>>      \* the empty bag

(* IstanbulAggregatedSeal::new(): no bits, no bytes, round 0. *)
NoSeal == [bitmap |-> {}, signature |-> [of |-> <<>>, by |-> NoKeys],
           round |-> 0]

prepare_commited_seal(hash, round) == <<hash, round, "Commit">>

(* The validators whose bit is active; a bit at or past the length of the  *)
(* set names nobody and is ignored.                                        *)
Signers(validators, bitmap) == {i \in DOMAIN validators : i - 1 \in bitmap}

(* PublicKey::aggregate of the keys at those places: a key that occurs     *)
(* twice in the set counts twice.                                          *)
aggregate(validators, places) ==
    [k \in {validators[i].public_key : i \in places} |->
        Cardinality({i \in places : validators[i].public_key = k})]

(* Mutant: does not count the signers. *)
verify_aggregated_seal_NoQuorum(header_hash, validators, aggregated_seal) ==
    LET signers == Signers(validators, aggregated_seal.bitmap)
        apk == aggregate(validators, signers)
        proposal_seal ==
            prepare_commited_seal(header_hash, aggregated_seal.round)
    IN  IF validators = <<>> THEN "Panic"
        ELSE IF aggregated_seal.signature = [of |-> proposal_seal, by |-> apk]
        THEN "Ok" ELSE "BlsVerifyError"

(* The verdict.  The order of the tests is the order of the code's early   *)
(* returns; the first is the subtraction in min_quorum_size.               *)
verify_aggregated_seal(header_hash, validators, aggregated_seal) ==
    LET signers == Signers(validators, aggregated_seal.bitmap)
        apk == aggregate(validators, signers)
        signature == aggregated_seal.signature
        proposal_seal ==
            prepare_commited_seal(header_hash, aggregated_seal.round)
    IN  IF validators = <<>> THEN "Panic"
        ELSE IF \E i \in signers : validators[i].public_key \in BadKeys
        THEN "BlsInvalidPublicKey"
        ELSE IF Cardinality(signers) < min_quorum_size(Len(validators))
        THEN "MissingSeals"
        ELSE IF signature.by = NoKeys THEN "BlsInvalidSignature"
        ELSE IF signature = [of |-> proposal_seal, by |-> apk] THEN "Ok"
        ELSE "BlsVerifyError"
=============================================================================
