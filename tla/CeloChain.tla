----------------------------- MODULE CeloChain ------------------------------
(***************************************************************************)
(* The chain the client follows: Celo validators running IBFT.  It is not  *)
(* part of the repository; this is what the client's code, its README and  *)
(* its tests take for granted about it:                                    *)
(*   - block 0 brings in the first validator set and nobody seals it;      *)
(*   - the last block of an epoch carries the difference between the set   *)
(*     that seals it and the set of the next epoch, other blocks carry     *)
(*     none (README.md:15, state.rs:114-120);                              *)
(*   - members keep their order, new ones go to the end, and the set never *)
(*     becomes empty; a member may leave and come back under a new key in  *)
(*     the same diff;                                                      *)
(*   - block time increases strictly;                                      *)
(*   - a finalised header has a quorum of commits of the set in force, and *)
(*     may circulate with the commits of any quorum; a proposal that a     *)
(*     round change abandoned never gathered one.                          *)
(***************************************************************************)
EXTENDS State, SequencesExt

CONSTANTS EpochSize,
          GenesisSet,       \* the validators of block 0, in order
          Candidates,       \* the validators that may be elected later
          MaxJoin,          \* bound: how many join at one epoch's end
          MaxLeave,         \* bound: how many leave at one epoch's end
          MaxNumber         \* bound: the last block produced

(* Who is ever elected: an address with a key. *)
Electable == ToSet(GenesisSet) \cup Candidates

(* Who is elected has an address and a key, and the genesis set lists      *)
(* nobody twice.                                                           *)
ASSUME ChainAssumption ==
    /\ EpochSize \in Nat \ {0} /\ MaxNumber \in Nat
    /\ MaxJoin \in Nat /\ MaxLeave \in Nat
    /\ GenesisSet \in Seq(Electable) \ {<<>>} /\ UniqueAddress(GenesisSet)
    /\ \A v \in Electable :
            v = [address |-> v.address, public_key |-> v.public_key]

VARIABLES chain,    \* chain[n + 1] is the finalised header number n, unsealed
          sets      \* sets[n + 1] is the set in force after it

chainVars == <<chain, sets>>

Block(number) == chain[number + 1]
SetAfter(number) == sets[number + 1]
Tip == Len(chain) - 1

(* `branch` tells the headers of one number apart by their roots. *)
UnsealedHeader(number, branch, added, removed) ==
    [number |-> number, time |-> number, root |-> <<branch, number>>,
     extra |-> "Ok",
     added_validators |-> [i \in DOMAIN added |-> added[i].address],
     added_validators_public_keys |->
        [i \in DOMAIN added |-> added[i].public_key],
     removed_validators |-> removed, aggregated_seal |-> NoSeal]

(* The members whose position is not removed, in order: their places are   *)
(* the one increasing list of all the places that stay.                    *)
Members(set, removed) ==
    LET stays == {i \in DOMAIN set : i - 1 \notin removed}
        places == CHOOSE f \in [1..Cardinality(stays) -> stays] :
                    \A j, k \in DOMAIN f : j < k => f[j] < f[k]
    IN  [k \in DOMAIN places |-> set[places[k]]]

(* The diffs an election may put at the end of an epoch. *)
Elections(set) ==
    {diff \in [removed : {R \in SUBSET (0..Len(set) - 1) :
                              Cardinality(R) <= MaxLeave},
               added : SeqOf(Candidates, MaxJoin)] :
        LET next == Members(set, diff.removed) \o diff.added
        IN  next # <<>> /\ UniqueAddress(next)}

(* What block `number` may do to the set that seals it. *)
Changes(number, set) ==
    IF number % EpochSize = 0 THEN Elections(set)
    ELSE {[removed |-> {}, added |-> <<>>]}

ChainInit ==
    /\ chain = <<UnsealedHeader(0, "final", GenesisSet, {})>>
    /\ sets = <<GenesisSet>>

Grow ==
    LET number == Tip + 1
        set == SetAfter(Tip)
    IN  /\ number <= MaxNumber
        /\ \E diff \in Changes(number, set) :
            /\ chain' = Append(chain, UnsealedHeader(number, "final",
                                            diff.added, diff.removed))
            /\ sets' = Append(sets, Members(set, diff.removed) \o diff.added)

Commit(header, set, committers) ==
    [header EXCEPT !.aggregated_seal =
        [bitmap |-> {i - 1 : i \in committers},
         signature |-> [of |-> prepare_commited_seal(hash(header), 1),
                        by |-> aggregate(set, committers)],
         round |-> 1]]

IsQuorum(committers, set) == 3 * Cardinality(committers) >= 2 * Len(set)

(* A header with the commits of a quorum of the set, any quorum. *)
QuorumSealed(header, set) ==
    {Commit(header, set, committers) :
        committers \in {S \in SUBSET DOMAIN set : IsQuorum(S, set)}}

(* A header that one commit more would have given a quorum. *)
AlmostSealed(header, set) ==
    {Commit(header, set, committers) :
        committers \in {S \in SUBSET DOMAIN set :
            /\ ~ IsQuorum(S, set)
            /\ \E i \in DOMAIN set \ S : IsQuorum(S \cup {i}, set)}}

(* The forms in which finalised header `number` circulates. *)
Finalised(number) ==
    IF number = 0 THEN {Block(0)}
    ELSE QuorumSealed(Block(number), SetAfter(number - 1))

(* Proposals for a height that got commits before the round was changed.   *)
(* At the end of an epoch they carry a diff too.                           *)
Proposals(number, set) ==
    UNION {AlmostSealed(UnsealedHeader(number, "abandoned", <<>>, removed),
                        set) :
            removed \in IF number % EpochSize = 0 THEN {{0}, {}} ELSE {{}}}

Abandoned(number) == Proposals(number, SetAfter(number - 1))
=============================================================================
