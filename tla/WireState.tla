----------------------------- MODULE WireState ------------------------------
(***************************************************************************)
(* A `State` (LibraryState.tla) whose headers and snapshot are bytes on    *)
(* their way in and out: what Codec.tla makes of them, and of copies in    *)
(* which one item of the extra-data was dropped, added, shortened,         *)
(* lengthened or given the other type.                                     *)
(***************************************************************************)
EXTENDS LibraryState, Codec

CONSTANT Sent   \* headers as they are sent, with the extra-data in bytes

(* Bitmaps: big integers in the code, sets of positions in State.tla. *)
active_bits[number \in Nat] ==
    IF number = 0 THEN {}
    ELSE {bit + 1 : bit \in active_bits[number \div 2]}
            \cup (IF number % 2 = 1 THEN {0} ELSE {})

ActiveBits(number) == active_bits[number]

BitmapOf(bits) ==
    LET length == IF bits = {} THEN 0 ELSE Max(bits) + 1
    IN  Number([i \in 1..length |-> IF length - i \in bits THEN 1 ELSE 0], 2)

SignatureBytes(signature) ==
    IF signature = NoSeal.signature THEN <<>>
    ELSE << <<"signature", signature>> >>

(* Bytes that begin with no signature are no signature. *)
SignatureIn(bytes) ==
    IF bytes # <<>> /\ bytes[1][1] = "signature" THEN bytes[1][2]
    ELSE NoSeal.signature

SealOnWire(seal) ==
    [bitmap |-> BitmapOf(seal.bitmap),
     signature |-> SignatureBytes(seal.signature), round |-> seal.round]

SealFromWire(seal) ==
    [bitmap |-> ActiveBits(seal.bitmap),
     signature |-> SignatureIn(seal.signature), round |-> seal.round]

(* A header in bytes as State.tla takes it: `extra` is what decoding comes *)
(* to, `root` the fields that no rule reads.                               *)
ReadWith(header, decoded) ==
    LET extra == decoded.value
        others == [header EXCEPT !.number = 0, !.time = 0, !.extra = <<>>]
        base == [number |-> header.number, time |-> header.time,
                 extra |-> decoded.res, added_validators |-> <<>>,
                 added_validators_public_keys |-> <<>>,
                 removed_validators |-> {}, aggregated_seal |-> NoSeal,
                 root |-> <<"undecoded", others, header.extra>>]
    IN  IF decoded.res # "Ok" THEN base
        ELSE [base EXCEPT
                !.added_validators = extra.added_validators,
                !.added_validators_public_keys =
                    extra.added_validators_public_keys,
                !.removed_validators = ActiveBits(extra.removed_validators),
                !.aggregated_seal = SealFromWire(extra.aggregated_seal),
                !.root = <<"decoded", others, Vanity(header.extra),
                           extra.seal, extra.parent_aggregated_seal>>]

Read(header) == ReadWith(header, extra_from_rlp(header.extra))

(* The addresses and keys of the client are arrays of bytes. *)
ASSUME ArraysAssumption ==
    /\ \A address \in Address : IsArray(address, ADDRESS_LENGTH)
    /\ \A key \in PublicKey : IsArray(key, PUBLIC_KEY_LENGTH)

(* The seals of the headers are IstanbulAggregatedSeals. *)
ASSUME SealsAssumption ==
    \A h \in Headers :
        LET seal == h.aggregated_seal
        IN  /\ seal = [bitmap |-> seal.bitmap, signature |-> seal.signature,
                       round |-> seal.round]
            /\ seal.bitmap \in SUBSET Nat /\ IsFiniteSet(seal.bitmap)
            /\ seal.round \in Nat

(* A header is sent as a node of Celo encodes it. *)
ASSUME SentAssumption ==
    \A header \in Sent :
        LET vanity == Vanity(header.extra)
            extra == extra_from_rlp(header.extra).value
        IN  /\ IsHeader(header) /\ IsExtra(extra)
            /\ IsArray(vanity, ISTANBUL_EXTRA_VANITY_LENGTH)
            /\ header.extra = extra_to_rlp(extra, vanity)

(* Its seal, if it has one, is a seal of that header. *)
ASSUME SentSealsAssumption ==
    \A header \in Sent :
        LET seal == Read(header).aggregated_seal
        IN  \/ seal.signature = NoSeal.signature
            \/ seal.signature.of =
                    prepare_commited_seal(hash(Read(header)), seal.round)

(* The snapshot with its hash and seal in bytes. *)
SnapshotOnWire ==
    [snapshot EXCEPT !.hash = Opaque(@, HASH_LENGTH),
                     !.aggregated_seal = SealOnWire(@)]

-----------------------------------------------------------------------------
(* Copies with one item bent: of the list itself, of its items, of theirs. *)
Ends(seq) == IF seq = <<>> THEN {} ELSE {Front(seq), Tail(seq)}

Bent(item) ==
    IF IsList(item)
    THEN {Data(<<>>), List(Append(item[2], Data(<<>>)))}
            \cup {List(items) : items \in Ends(item[2])}
    ELSE {List(<<>>)} \cup
            {Data(bytes) : bytes \in Ends(item[2]) \cup
                {<<Byte(b)>> \o item[2] : b \in 0..1} \cup
                {Append(item[2], Byte(b)) : b \in 0..1}}

BentBelow(item, Change(_)) ==
    IF ~ IsList(item) THEN Bent(item)
    ELSE Bent(item) \cup
            UNION {{List([item[2] EXCEPT ![i] = new]) :
                        new \in Change(item[2][i])} : i \in DOMAIN item[2]}

BentItemOrBelow(item) == BentBelow(item, Bent)

BentExtras(extra) ==
    LET vanity == Vanity(extra)
        payload == extra[ISTANBUL_EXTRA_VANITY_LENGTH + 1]
    IN  {vanity, <<>>, Tail(extra), Append(extra, Byte(0))} \cup
        {Append(vanity, item) : item \in BentBelow(payload, BentItemOrBelow)}

Copies(header) ==
    {[header EXCEPT !.extra = extra] :
        extra \in {header.extra} \cup BentExtras(header.extra)}

-----------------------------------------------------------------------------
(* The snapshot in every state of the client, an empty set and the zero    *)
(* numbers of a new one included, comes back as it was from the bytes in   *)
(* which the contract hands it to the host (types/state.rs:21-170,         *)
(* mod.rs:442-465).                                                        *)
SnapshotSurvives ==
    snapshot_from_rlp(snapshot_to_rlp(SnapshotOnWire)) = Ok(SnapshotOnWire)

(* The hash of the head, taken over bytes, is that of exactly those copies *)
(* of the header which read the same but for the aggregated seal, and RLP  *)
(* and JSON give every such copy back as it was (header.rs:89-164,         *)
(* istanbul.rs:47-60, bytes.rs:1-94).                                      *)
HashIsOfContent ==
    LET isHead(header) == hash(Read(header)) = snapshot.hash
    IN  \A header \in Sent : isHead(header) =>
            /\ \A copy \in Copies(header) \cup Sent :
                    isHead(copy) <=> header_hash(copy) = header_hash(header)
            /\ \A copy \in Copies(header) : isHead(copy) =>
                /\ header_from_rlp(header_to_rlp(copy)) = Ok(copy)
                /\ header_from_json(header_to_json(copy)) = Ok(copy)

(* A bent copy of a later header is refused, or is taken for the header    *)
(* itself, with the seal that is in the copy.  (Zeros before a number,     *)
(* bytes after an address, items after the last are not noticed; and a     *)
(* seal whose bits are moved may fit a set that the header's own did not.) *)
(* No clock lags here (state.rs:100-199, rlp.rs:6-36).                     *)
BentIsHarmless ==
    LET now == MaxU64 - Config.allowed_clock_skew
        inserted(header) == insert_header(Config, snapshot, header, now)
    IN  SealsChecked =>
            \A header \in Sent : header.number > snapshot.number =>
                \A copy \in Copies(header) :
                    LET bent == Read(copy)
                    IN  inserted(bent).res = "Ok" =>
                            inserted(bent) = inserted(
                                [Read(header) EXCEPT
                                    !.aggregated_seal = bent.aggregated_seal])
=============================================================================
