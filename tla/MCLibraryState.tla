--------------------------- MODULE MCLibraryState ---------------------------
(***************************************************************************)
(* A small universe of headers for LibraryState: every block number of two *)
(* epochs of two blocks (and one number past u64), diffs that fit, that    *)
(* remove too much, that re-key and that clash, and seals by quorums and   *)
(* by less than a quorum of each set a client can have reached.  Some of   *)
(* them are sent in bytes.                                                 *)
(***************************************************************************)
EXTENDS WireState

V(address, key) ==
    [address |-> Opaque(address, ADDRESS_LENGTH),
     public_key |-> Opaque(key, PUBLIC_KEY_LENGTH)]
A == V("a", "ka")   B == V("b", "kb")   B2 == V("b", "kb2")
C == V("c", "kc")   Bad == V("d", "bad")

MCAddress == Addresses(<<A, B, C, Bad>>)
MCPublicKey == {v.public_key : v \in {A, B, B2, C, Bad}}
MCBadKeys == {Bad.public_key}

MCConfig == [epoch_size |-> 2, allowed_clock_skew |-> 1,
             verify_epoch_headers |-> TRUE, verify_non_epoch_headers |-> TRUE,
             verify_header_timestamp |-> TRUE]

(* A diff: addresses and keys added, positions removed. *)
Diff(added, removed) ==
    [added |-> [i \in DOMAIN added |-> added[i].address],
     keys |-> [i \in DOMAIN added |-> added[i].public_key],
     removed |-> removed]

NoDiff == Diff(<<>>, {})

Diffs == {NoDiff,
          Diff(<<B2>>, {1}),        \* B gets a new key
          Diff(<<C>>, {}),          \* C joins
          Diff(<<B2>>, {0}),        \* B is still there: refused half way
          Diff(<<C>>, {0, 2}),      \* fits three validators, not two
          Diff(<<>>, {0, 1}),       \* nobody may be left
          Diff(<<Bad>>, {0}),       \* a key that is no key
          [NoDiff EXCEPT !.added = <<C.address>>]}    \* an address without a key

(* In bytes, with other fields that are the same in all headers. *)
OnWire(header) ==
    [parent_hash |-> Opaque("parent", HASH_LENGTH),
     coinbase |-> Opaque("coinbase", ADDRESS_LENGTH),
     root |-> Opaque("root", HASH_LENGTH),
     tx_hash |-> Opaque("transactions", HASH_LENGTH),
     receipt_hash |-> Opaque("receipts", HASH_LENGTH),
     bloom |-> Opaque("bloom", BLOOM_BYTE_LENGTH),
     number |-> header.number, gas_used |-> 0, time |-> header.time,
     extra |-> extra_to_rlp(
        [added_validators |-> header.added_validators,
         added_validators_public_keys |-> header.added_validators_public_keys,
         removed_validators |-> BitmapOf(header.removed_validators),
         seal |-> Opaque("proposer", 2),
         aggregated_seal |-> SealOnWire(header.aggregated_seal),
         parent_aggregated_seal |-> WireNoSeal],
        Opaque("vanity", ISTANBUL_EXTRA_VANITY_LENGTH))]

WithRoot(root, number, time, diff) ==
    [number |-> number, time |-> time, root |-> root, extra |-> "Ok",
     added_validators |-> diff.added,
     added_validators_public_keys |-> diff.keys,
     removed_validators |-> diff.removed, aggregated_seal |-> NoSeal]

(* As reading such bytes gives the fields that no rule reads. *)
OtherFields ==
    LET header == OnWire(WithRoot("", 0, 0, NoDiff))
    IN  <<"decoded", [header EXCEPT !.extra = <<>>], Vanity(header.extra),
          Opaque("proposer", 2), WireNoSeal>>

Unsealed(number, time, diff) == WithRoot(OtherFields, number, time, diff)

(* `set` has the signers at `places` commit to the header. *)
SealedBy(header, set, places) ==
    [header EXCEPT !.aggregated_seal =
        [bitmap |-> {i - 1 : i \in places},
         signature |->
            [of |-> prepare_commited_seal(hash(header), 1),
             by |-> aggregate(set, places)],
         round |-> 1]]

Sealed(header) ==
    UNION {{SealedBy(header, set, places) :
                places \in {1..n : n \in 0..Len(set)}} :
              set \in {<<A, B>>, <<A, B2>>, <<A, B, C>>}}

Genesis == Unsealed(0, 0, Diff(<<A, B>>, {}))

Proposals ==
    {Unsealed(n, n, NoDiff) : n \in {1, 3, 4}}
    \cup {Unsealed(2, 2, diff) : diff \in Diffs}
    \cup {Unsealed(4, 4, Diff(<<C>>, {1})), Unsealed(3, 1, NoDiff)}

MCSent ==
    {OnWire(Genesis), OnWire(SealedBy(Unsealed(1, 1, NoDiff), <<A, B>>, {1, 2})),
     OnWire(SealedBy(Unsealed(3, 3, NoDiff), <<A, B>>, {1, 2}))}
    \cup {OnWire(SealedBy(Unsealed(2, 2, diff), <<A, B>>, {1, 2})) :
            diff \in {Diff(<<C>>, {}), Diff(<<B2>>, {1})}}

(* A copy of a header whose extra-data comes to `verdict`. *)
Undecodable(header, verdict) ==
    CHOOSE copy \in {Read(w) : w \in Copies(OnWire(header))} :
        copy.extra = verdict

MCHeaders ==
    {Genesis, Unsealed(9, 5, NoDiff),
     Undecodable(Unsealed(2, 2, Diff(<<C>>, {})), "RlpDecodeError"),
     Undecodable(Unsealed(2, 2, Diff(<<C>>, {})), "Panic")}
    \cup UNION {Sealed(header) : header \in Proposals}

MCValidatorLists == {<<C>>, <<B2, C>>}
MCBitmaps == {{}, {0}, {2}}
MCMaxU64 == 7
MCTimestamps == {1, 4, 7}
=============================================================================
