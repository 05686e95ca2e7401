------------------------------- MODULE Codec --------------------------------
(***************************************************************************)
(* Headers, their extra-data and snapshots as bytes: the RLP in            *)
(* src/src/types and src/src/serialization/rlp.rs, the JSON in             *)
(* src/src/serialization/bytes.rs, and the header hash, which is taken     *)
(* over bytes.                                                             *)
(*                                                                         *)
(* Bytes are sequences.  A string of bytes that means nothing here (a      *)
(* hash, a key) is Opaque(name, length); a number is written in base       *)
(* ByteBase.  An RLP item is Data(bytes) or List(items), and stands for    *)
(* its own encoding: the rlp crate frames items without loss.  The lengths *)
(* are those of the code, made small.                                      *)
(***************************************************************************)
EXTENDS State, SequencesExt

CONSTANTS ByteBase, HASH_LENGTH, ADDRESS_LENGTH, BLOOM_BYTE_LENGTH,
          PUBLIC_KEY_LENGTH, ISTANBUL_EXTRA_VANITY_LENGTH

(* Lengths are numbers, and a byte has at least two values. *)
ASSUME CodecAssumption ==
    /\ ByteBase \in Nat /\ ByteBase >= 2
    /\ {HASH_LENGTH, ADDRESS_LENGTH, BLOOM_BYTE_LENGTH, PUBLIC_KEY_LENGTH,
        ISTANBUL_EXTRA_VANITY_LENGTH} \subseteq Nat

Byte(n) == <<"byte", n>>
Opaque(name, length) == [i \in 1..length |-> <<name, i>>]

Data(bytes) == <<"data", bytes>>
List(items) == <<"list", items>>
IsList(item) == item[1] = "list"

Ok(value) == [res |-> "Ok", value |-> value]
Refused(reason) == [res |-> reason]

(* `?`: a failure is returned, anything else goes on. *)
AndThen(result, GoOn(_)) ==
    IF result.res = "Ok" THEN GoOn(result.value) ELSE result

(* `?` after each of several conversions: the first that fails decides. *)
Each(results) ==
    LET fails(i) == results[i].res # "Ok"
    IN  IF \E i \in DOMAIN results : fails(i)
        THEN results[CHOOSE i \in DOMAIN results :
                        fails(i) /\ \A j \in 1..i - 1 : ~ fails(j)]
        ELSE Ok([i \in DOMAIN results |-> results[i].value])

-----------------------------------------------------------------------------
(* Numbers: the most significant byte first, and no byte at all for 0. *)
bytes_be[val \in Nat] ==
    IF val = 0 THEN <<>>
    ELSE Append(bytes_be[val \div ByteBase], Byte(val % ByteBase))

big_int_to_rlp_compat_bytes(val) == bytes_be[val]

(* The number that digits write in a base, the first the most significant. *)
Number(digits, base) ==
    LET value[n \in 0..Len(digits)] ==
            IF n = 0 THEN 0 ELSE value[n - 1] * base + digits[n]
    IN  value[Len(digits)]

(* In a number, bytes that mean nothing count as ones. *)
from_bytes_be(bytes) ==
    Number([i \in DOMAIN bytes |->
                IF bytes[i] \in {Byte(b) : b \in 0..ByteBase - 1}
                THEN bytes[i][2] ELSE 1], ByteBase)

(* The slice of the first `length` bytes panics if there are fewer; what   *)
(* is beyond it is dropped, so that the length test after it always holds. *)
from_bytes(data, length) ==
    IF Len(data) < length THEN Refused("Panic")
    ELSE Ok(SubSeq(data, 1, length))

(* The rlp crate: an item of a list, bytes, and u64. *)
at(rlp, index) ==
    IF IsList(rlp) /\ index < Len(rlp[2]) THEN Ok(rlp[2][index + 1])
    ELSE Refused("RlpDecodeError")

bytes_at(rlp, index) ==
    AndThen(at(rlp, index), LAMBDA item :
        IF IsList(item) THEN Refused("RlpDecodeError") ELSE Ok(item[2]))

u64_at(rlp, index) ==
    AndThen(bytes_at(rlp, index), LAMBDA bytes :
        IF \/ bytes # <<>> /\ bytes[1] = Byte(0)
           \/ from_bytes_be(bytes) > MaxU64
        THEN Refused("RlpDecodeError")
        ELSE Ok(from_bytes_be(bytes)))

rlp_to_big_int(rlp, index) ==
    AndThen(bytes_at(rlp, index), LAMBDA bytes : Ok(from_bytes_be(bytes)))

rlp_field_from_bytes(rlp, length) ==
    IF IsList(rlp) THEN Refused("RlpDecodeError")
    ELSE from_bytes(rlp[2], length)

rlp_list_field_from_bytes(rlp, index, length) ==
    AndThen(at(rlp, index), LAMBDA item : rlp_field_from_bytes(item, length))

(* rlp.at(index)?.iter().map(..).collect(): bytes have no items. *)
fields_from_bytes(rlp, index, length) ==
    AndThen(at(rlp, index), LAMBDA item :
        IF ~ IsList(item) THEN Ok(<<>>)
        ELSE Each([i \in DOMAIN item[2] |->
                        rlp_field_from_bytes(item[2][i], length)]))

-----------------------------------------------------------------------------
(* IstanbulAggregatedSeal, its bitmap and round as numbers. *)
WireNoSeal == [bitmap |-> 0, signature |-> <<>>, round |-> 0]

encode_seal(seal) ==
    List(<<Data(big_int_to_rlp_compat_bytes(seal.bitmap)),
           Data(seal.signature),
           Data(big_int_to_rlp_compat_bytes(seal.round))>>)

decode_seal(rlp) ==
    AndThen(Each(<<rlp_to_big_int(rlp, 0), bytes_at(rlp, 1),
                   rlp_to_big_int(rlp, 2)>>),
        LAMBDA f : Ok([bitmap |-> f[1], signature |-> f[2], round |-> f[3]]))

seal_at(rlp, index) == AndThen(at(rlp, index), decode_seal)

(* IstanbulExtra *)
extra_to_rlp(extra, vanity) ==
    vanity \o
    <<List(<<List([i \in DOMAIN extra.added_validators |->
                    Data(extra.added_validators[i])]),
             List([i \in DOMAIN extra.added_validators_public_keys |->
                    Data(extra.added_validators_public_keys[i])]),
             Data(big_int_to_rlp_compat_bytes(extra.removed_validators)),
             Data(extra.seal),
             encode_seal(extra.aggregated_seal),
             encode_seal(extra.parent_aggregated_seal)>>)>>

(* Both lists are collected before either's failure is returned, but a     *)
(* panic does not wait.  What follows the first item is ignored.           *)
extra_from_rlp(bytes) ==
    LET rlp == bytes[ISTANBUL_EXTRA_VANITY_LENGTH + 1]
        lists == <<fields_from_bytes(rlp, 0, ADDRESS_LENGTH),
                   fields_from_bytes(rlp, 1, PUBLIC_KEY_LENGTH)>>
        others == <<rlp_to_big_int(rlp, 2), bytes_at(rlp, 3),
                    seal_at(rlp, 4), seal_at(rlp, 5)>>
    IN  IF Len(bytes) <= ISTANBUL_EXTRA_VANITY_LENGTH
        THEN Refused("RlpDecodeError")
        ELSE IF \E i \in 1..2 : lists[i].res = "Panic" THEN Refused("Panic")
        ELSE AndThen(Each(lists \o others), LAMBDA f :
                Ok([added_validators |-> f[1],
                    added_validators_public_keys |-> f[2],
                    removed_validators |-> f[3], seal |-> f[4],
                    aggregated_seal |-> f[5],
                    parent_aggregated_seal |-> f[6]]))

Vanity(extra) == SubSeq(extra, 1, ISTANBUL_EXTRA_VANITY_LENGTH)

-----------------------------------------------------------------------------
(* Header: the fields that are arrays, and their lengths. *)
ArrayFields ==
    <<"parent_hash", "coinbase", "root", "tx_hash", "receipt_hash", "bloom">>

ArrayLength ==
    <<HASH_LENGTH, ADDRESS_LENGTH, HASH_LENGTH, HASH_LENGTH, HASH_LENGTH,
      BLOOM_BYTE_LENGTH>>

HeaderOf(v) ==
    [parent_hash |-> v[1], coinbase |-> v[2], root |-> v[3],
     tx_hash |-> v[4], receipt_hash |-> v[5], bloom |-> v[6],
     number |-> v[7], gas_used |-> v[8], time |-> v[9], extra |-> v[10]]

header_to_rlp(header) ==
    List([i \in 1..6 |-> Data(header[ArrayFields[i]])] \o
         <<Data(big_int_to_rlp_compat_bytes(header.number)),
           Data(big_int_to_rlp_compat_bytes(header.gas_used)),
           Data(big_int_to_rlp_compat_bytes(header.time)),
           Data(header.extra)>>)

header_from_rlp(rlp) ==
    AndThen(Each([i \in 1..6 |->
                    rlp_list_field_from_bytes(rlp, i - 1, ArrayLength[i])]
                 \o <<rlp_to_big_int(rlp, 6), u64_at(rlp, 7),
                      u64_at(rlp, 8), bytes_at(rlp, 9)>>),
        LAMBDA f : Ok(HeaderOf(f)))

(* Mutant: the aggregated seal stays. *)
istanbul_filtered_header_Sealed(header, extra) == header

(* With keep_seal, the one way it is called. *)
istanbul_filtered_header(header, extra) ==
    [header EXCEPT !.extra =
        extra_to_rlp([extra EXCEPT !.aggregated_seal = WireNoSeal],
                     Vanity(header.extra))]

(* What is hashed stands for the hash.  A header whose extra-data does not *)
(* decode is hashed as it is.                                              *)
header_hash(header) ==
    LET extra == extra_from_rlp(header.extra)
    IN  CASE extra.res = "Ok" ->
                Ok(header_to_rlp(istanbul_filtered_header(header,
                                                          extra.value)))
          [] extra.res = "RlpDecodeError" -> Ok(header_to_rlp(header))
          [] extra.res = "Panic" -> extra

-----------------------------------------------------------------------------
(* Snapshot: the validators are decoded first, then the fields in order. *)

(* Mutant: the key goes before the address. *)
encode_validator_KeyFirst(validator) ==
    List(<<Data(validator.public_key), Data(validator.address)>>)

encode_validator(validator) ==
    List(<<Data(validator.address), Data(validator.public_key)>>)

decode_validator(rlp) ==
    AndThen(Each(<<rlp_list_field_from_bytes(rlp, 0, ADDRESS_LENGTH),
                   rlp_list_field_from_bytes(rlp, 1, PUBLIC_KEY_LENGTH)>>),
        LAMBDA f : Ok([address |-> f[1], public_key |-> f[2]]))

snapshot_to_rlp(snapshot) ==
    List(<<Data(big_int_to_rlp_compat_bytes(snapshot.number)),
           Data(big_int_to_rlp_compat_bytes(snapshot.timestamp)),
           List([i \in DOMAIN snapshot.validators |->
                    encode_validator(snapshot.validators[i])]),
           Data(snapshot.hash),
           encode_seal(snapshot.aggregated_seal)>>)

snapshot_from_rlp(rlp) ==
    LET validators(list) ==
            LET items == IF IsList(list) THEN list[2] ELSE <<>>
            IN  Each([i \in DOMAIN items |-> decode_validator(items[i])])
    IN  AndThen(Each(<<AndThen(at(rlp, 2), validators),
                       u64_at(rlp, 0), u64_at(rlp, 1),
                       rlp_list_field_from_bytes(rlp, 3, HASH_LENGTH),
                       seal_at(rlp, 4)>>),
            LAMBDA f : Ok([number |-> f[2], timestamp |-> f[3],
                           validators |-> f[1], hash |-> f[4],
                           aggregated_seal |-> f[5]]))

-----------------------------------------------------------------------------
(* JSON: a text is [prefixed, digits], prefixed if it starts with "0x".  A *)
(* byte is written as two hex digits; here digits and bytes are the same.  *)
HasDigits(text) == text.prefixed /\ text.digits # <<>>

hexstring_serialize(bytes) ==
    [prefixed |-> bytes # <<>>, digits |-> bytes]

(* T::from_hex: vectors take what there is, arrays need their own length.  *)
hexstring_deserialize(text, lengths) ==
    LET digits == IF HasDigits(text) THEN text.digits ELSE <<>>
    IN  IF Len(digits) \in lengths THEN Ok(digits) ELSE Refused("JsonError")

hexnum_serialize(value) ==
    [prefixed |-> TRUE,
     digits |-> IF value = 0 THEN <<Byte(0)>>
                ELSE big_int_to_rlp_compat_bytes(value)]

(* u64 has a largest value, BigInt (hexbigint) has none. *)
hexnum_deserialize(text, numbers) ==
    LET number == from_bytes_be(text.digits)
    IN  IF HasDigits(text) /\ number \in numbers THEN Ok(number)
        ELSE Refused("JsonError")

header_to_json(header) ==
    [i \in 1..6 |-> hexstring_serialize(header[ArrayFields[i]])] \o
    <<hexnum_serialize(header.number), hexnum_serialize(header.gas_used),
      hexnum_serialize(header.time), hexstring_serialize(header.extra)>>

header_from_json(json) ==
    LET u64 == 0..MaxU64
    IN  AndThen(Each([i \in 1..6 |->
                    hexstring_deserialize(json[i], {ArrayLength[i]})]
                  \o <<hexnum_deserialize(json[7], Nat),
                       hexnum_deserialize(json[8], u64),
                       hexnum_deserialize(json[9], u64),
                       hexstring_deserialize(json[10], Nat)>>),
            LAMBDA f : Ok(HeaderOf(f)))

-----------------------------------------------------------------------------
(* What the types in Rust say: vectors and arrays, and the structs that    *)
(* consist of them.                                                        *)
IsVector(vector) == vector \in Seq(ToSet(vector))
IsArray(array, length) == IsVector(array) /\ Len(array) = length

IsSeal(seal) ==
    /\ seal = [bitmap |-> seal.bitmap, signature |-> seal.signature,
               round |-> seal.round]
    /\ seal.bitmap \in Nat /\ seal.round \in Nat /\ IsVector(seal.signature)

IsExtra(extra) ==
    /\ extra = [added_validators |-> extra.added_validators,
                added_validators_public_keys |->
                    extra.added_validators_public_keys,
                removed_validators |-> extra.removed_validators,
                seal |-> extra.seal,
                aggregated_seal |-> extra.aggregated_seal,
                parent_aggregated_seal |-> extra.parent_aggregated_seal]
    /\ IsVector(extra.added_validators)
    /\ \A i \in DOMAIN extra.added_validators :
            IsArray(extra.added_validators[i], ADDRESS_LENGTH)
    /\ IsVector(extra.added_validators_public_keys)
    /\ \A i \in DOMAIN extra.added_validators_public_keys :
            IsArray(extra.added_validators_public_keys[i], PUBLIC_KEY_LENGTH)
    /\ extra.removed_validators \in Nat
    /\ IsVector(extra.seal)
    /\ IsSeal(extra.aggregated_seal) /\ IsSeal(extra.parent_aggregated_seal)

IsHeader(header) ==
    /\ header = HeaderOf([i \in 1..6 |-> header[ArrayFields[i]]] \o
                         <<header.number, header.gas_used, header.time,
                           header.extra>>)
    /\ \A i \in 1..6 : IsArray(header[ArrayFields[i]], ArrayLength[i])
    /\ header.number \in Nat
    /\ header.gas_used \in 0..MaxU64 /\ header.time \in 0..MaxU64
    /\ IsVector(header.extra)
=============================================================================
