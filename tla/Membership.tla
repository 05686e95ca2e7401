----------------------------- MODULE Membership -----------------------------
(***************************************************************************)
(* src/src/contract/types/ibc.rs: what a chain of ICS-23 commitment proofs *)
(* says about a key path.                                                  *)
(*                                                                         *)
(* The ics23 crate is outside the repository.  A tree is a specification   *)
(* (how it hashes) and a function from keys to values; its root is taken   *)
(* to be injective, so the root is the tree.  A proof is                   *)
(* [kind, spec, key, value, root]: `root` is what calculate_existence_root *)
(* computes from it, NoRoot if the proof is incomplete.  A proof of        *)
(* absence has no value.  Keys, values and roots are byte strings in the   *)
(* code; a value may be a root, and roots are the values of the tree above.*)
(***************************************************************************)
EXTENDS Integers, Sequences

Root(spec, entries) == <<spec, entries>>
NoRoot == <<"none">>

(* The proofs that a tree can give for a key. *)
Existence(spec, entries, key) ==
    [kind |-> "exist", spec |-> spec, key |-> key, value |-> entries[key],
     root |-> Root(spec, entries)]
Absence(spec, entries, key) ==
    [kind |-> "nonexist", spec |-> spec, key |-> key, value |-> NoRoot,
     root |-> Root(spec, entries)]

(* ics23::verify_membership and ics23::verify_non_membership *)
ics23_verify_membership(proof, spec, root, key, value) ==
    /\ proof.kind = "exist"
    /\ proof.spec = spec /\ proof.root = root
    /\ proof.key = key /\ proof.value = value

ics23_verify_non_membership(proof, spec, root, key) ==
    /\ proof.kind = "nonexist"
    /\ proof.spec = spec /\ proof.root = root /\ proof.key = key

-----------------------------------------------------------------------------
(* vec![ics23::iavl_spec(), ics23::tendermint_spec()], of every handler    *)
specs == <<"iavl", "tendermint">>

EmptyPrefix == <<>>

(* Merkle paths are sequences of keys, the outermost tree's first. *)
apply_prefix(prefix, path) ==
    IF prefix = EmptyPrefix THEN [res |-> "EmptyPrefix"]
    ELSE [res |-> "Ok", key_path |-> <<prefix>> \o path]

get_exist_proof(proof) == proof.kind = "exist"

(* `subroot`, and what the next proof has to have as its value, after the  *)
(* first k proofs.                                                         *)
Subroot(proofs, value, k) == IF k = 0 THEN value ELSE proofs[k].root

(* Mutant: the keys are taken from the front. *)
ProofVerdict_KeysInOrder(proofs, keys, value, k) ==
    IF ~ get_exist_proof(proofs[k]) THEN "NotAnExistenceProof"
    ELSE IF proofs[k].root = NoRoot THEN "IncompleteProof"
    ELSE IF k > Len(keys) \/ k > Len(specs) THEN "Panic"
    ELSE IF ics23_verify_membership(proofs[k], specs[k], proofs[k].root,
                                    keys[k], Subroot(proofs, value, k - 1))
    THEN "Ok" ELSE "InvalidProof"

(* One round of the loop.  Keys are taken from the back; the index of the  *)
(* key underflows, and that of the spec runs past the end, when there are  *)
(* more proofs than keys or specs.                                         *)
ProofVerdict(proofs, keys, value, k) ==
    IF ~ get_exist_proof(proofs[k]) THEN "NotAnExistenceProof"
    ELSE IF proofs[k].root = NoRoot THEN "IncompleteProof"
    ELSE IF k > Len(keys) \/ k > Len(specs) THEN "Panic"
    ELSE IF ics23_verify_membership(proofs[k], specs[k], proofs[k].root,
                                    keys[Len(keys) + 1 - k],
                                    Subroot(proofs, value, k - 1))
    THEN "Ok" ELSE "InvalidProof"

(* Mutant: the last subroot is not compared with the root. *)
verify_membership_AnyRoot(proofs, root, keys, value) ==
    IF \A k \in DOMAIN proofs : ProofVerdict(proofs, keys, value, k) = "Ok"
    THEN "Ok" ELSE "InvalidProof"

(* The first round that fails decides.  How many proofs there are is not   *)
(* compared with how many keys there are.                                  *)
verify_membership(proofs, root, keys, value) ==
    LET fails(k) == ProofVerdict(proofs, keys, value, k) # "Ok"
        first == CHOOSE k \in DOMAIN proofs :
                    fails(k) /\ \A j \in 1..k - 1 : ~ fails(j)
    IN  IF \E k \in DOMAIN proofs : fails(k)
        THEN ProofVerdict(proofs, keys, value, first)
        ELSE IF Subroot(proofs, value, Len(proofs)) # root
        THEN "WrongRoot"
        ELSE "Ok"
=============================================================================
