---------------------------- MODULE ChainLemmas -----------------------------
(***************************************************************************)
(* What holds of the chain of CeloChain.tla in every state, for every      *)
(* epoch size and all validators, and what the rules of State.tla make of  *)
(* its headers: the lemmas that the proofs about the machines composed     *)
(* with the chain cite.                                                    *)
(***************************************************************************)
EXTENDS CeloChain, StateLemmas

(* f lists numbers in increasing order. *)
Increasing(f) == \A j, k \in DOMAIN f : j < k => f[j] < f[k]

(* How many places there are up to one. *)
Rank(K, m) == Cardinality({j \in K : j <= m})

(* What is kept up to a number is kept up to a larger one.                 *)
LEMMA UpToGrows ==
    ASSUME NEW K \in SUBSET Nat, NEW x \in Nat, NEW y \in Nat, x <= y
    PROVE  {j \in K : j <= x} \in SUBSET {j \in K : j <= y}
<1>1. ASSUME NEW j \in K, j <= x PROVE j <= y
    <2>1. j \in Nat
        OBVIOUS
    <2> QED BY <1>1, <2>1
<1> QED BY <1>1

(* Two places that the same number of places lie below are the same. *)
LEMMA CountIsInjective ==
    ASSUME NEW n \in Nat, NEW K \in SUBSET (1..n), NEW a \in K, NEW b \in K,
           Rank(K, a) = Rank(K, b)
    PROVE  a = b
<1> DEFINE UpTo(m) == {j \in K : j <= m}
<1>1. \A j \in K : j \in Nat
    OBVIOUS
<1>2. ASSUME NEW x \in K, NEW y \in K, x < y,
             Cardinality(UpTo(x)) = Cardinality(UpTo(y))
      PROVE  FALSE
    <2>1. UpTo(x) \in SUBSET UpTo(y)
        <3>1. K \in SUBSET Nat /\ x \in Nat /\ y \in Nat /\ x <= y
            BY <1>1, <1>2
        <3> QED BY <3>1, UpToGrows
    <2>2. y \in UpTo(y) /\ y \notin UpTo(x)
        BY <1>1, <1>2
    <2>3. IsFiniteSet(UpTo(y))
        BY <1>1, CountUpTo
    <2> QED BY <1>2, <2>1, <2>2, <2>3, FS_Subset
<1> HIDE DEF UpTo
<1>3. ~ (a < b) /\ ~ (b < a)
    BY <1>2 DEF UpTo, Rank
<1> QED BY <1>1, <1>3

(* Nth lists the members of a set of places in increasing order. *)
LEMMA NthIncreases ==
    ASSUME NEW n \in Nat, NEW K \in SUBSET (1..n)
    PROVE  LET f == [k \in 1..Cardinality(K) |-> Nth(K, k)]
           IN  f \in [1..Cardinality(K) -> K] /\ Increasing(f)
<1> DEFINE c == Cardinality(K)
           f == [k \in 1..c |-> Nth(K, k)]
           UpTo(m) == {j \in K : j <= m}
<1>1. c \in Nat /\ \A m \in Nat : IsFiniteSet(UpTo(m))
    BY CountUpTo
<1>2. \A k \in 1..c : Nth(K, k) \in K /\ Cardinality(UpTo(Nth(K, k))) = k
    BY NthExists
<1>3. \A j \in K : j \in Nat
    OBVIOUS
<1>4. ASSUME NEW j \in 1..c, NEW k \in 1..c, j < k
      PROVE  Nth(K, j) < Nth(K, k)
    <2> DEFINE x == Nth(K, k)
               y == Nth(K, j)
    <2>a. x \in Nat /\ y \in Nat
        BY <1>2, <1>3
    <2> SUFFICES ASSUME x <= y
                 PROVE  FALSE
        <3> HIDE DEF x, y
        <3>1. y < x \/ x <= y
            BY <2>a
        <3> QED BY <3>1 DEF x, y
    <2>0. x \in Nat /\ y \in Nat /\ x <= y
        BY <2>a
    <2> HIDE DEF x, y
    <2>1. UpTo(x) \in SUBSET UpTo(y)
        <3>1. K \in SUBSET Nat
            BY <1>3
        <3> QED BY <2>0, <3>1, UpToGrows
    <2>2. Cardinality(UpTo(x)) <= Cardinality(UpTo(y))
        BY <1>1, <2>0, <2>1, FS_Subset
    <2>3. k <= j
        BY <1>2, <2>2 DEF x, y
    <2> QED BY <1>1, <1>4, <2>3
<1> HIDE DEF c
<1>5. f \in [1..c -> K]
    BY <1>2
<1>6. Increasing(f)
    BY <1>4 DEF Increasing
<1> QED BY <1>5, <1>6 DEF c

(* Only Nth does: an increasing list of all of them. *)
LEMMA IncreasingIsNth ==
    ASSUME NEW n \in Nat, NEW K \in SUBSET (1..n),
           NEW f \in [1..Cardinality(K) -> K], Increasing(f),
           NEW k \in 1..Cardinality(K)
    PROVE  f[k] = Nth(K, k)
<1> DEFINE c == Cardinality(K)
<1>1. IsFiniteSet(K) /\ c \in Nat /\ \A j \in K : j \in Nat
    BY CountUpTo
<1>2. /\ IsFiniteSet(1..c) /\ Cardinality(1..c) = c
      /\ IsFiniteSet(1..k) /\ Cardinality(1..k) = k /\ k \in Nat
    BY <1>1, FS_Interval
<1>3. f \in Injection(1..c, K)
    <2>1. \A i, j \in 1..c : i # j => f[i] # f[j]
        <3> SUFFICES ASSUME NEW i \in 1..c, NEW j \in 1..c, i < j
                     PROVE  f[i] # f[j]
            BY <1>1
        <3>1. f[i] < f[j] /\ f[i] \in Nat /\ f[j] \in Nat
            BY <1>1 DEF Increasing
        <3> QED BY <3>1
    <2> QED BY <2>1 DEF Injection, IsInjective
<1>4. f \in Surjection(1..c, K)
    BY <1>1, <1>2, <1>3, FS_Injection
<1>5. Cardinality({j \in K : j <= f[k]}) = k
    <2> DEFINE below == {j \in K : j <= f[k]}
               g == [i \in 1..k |-> f[i]]
    <2>1. \A i \in 1..k : f[i] \in below
        <3> SUFFICES ASSUME NEW i \in 1..k PROVE f[i] \in below
            OBVIOUS
        <3>1. i \in 1..c /\ i <= k
            BY <1>1, <1>2
        <3>2. f[i] \in K /\ f[k] \in K
            BY <3>1
        <3>3. i < k \/ i = k
            BY <1>2, <3>1
        <3>4. i \in DOMAIN f /\ k \in DOMAIN f /\ f[i] \in Nat /\ f[k] \in Nat
            BY <1>1, <3>1, <3>2
        <3>5. f[i] <= f[k]
            <4>1. i < k => f[i] < f[k]
                BY <3>4 DEF Increasing
            <4> QED BY <3>3, <3>4, <4>1
        <3> QED BY <3>2, <3>5
    <2>2. \A j \in below : \E i \in 1..k : f[i] = j
        <3> SUFFICES ASSUME NEW j \in K, j <= f[k]
                     PROVE  \E i \in 1..k : f[i] = j
            OBVIOUS
        <3>1. PICK i \in 1..c : f[i] = j
            BY <1>4 DEF Surjection
        <3>2. ~ (k < i)
            <4>1. i \in DOMAIN f /\ k \in DOMAIN f
                  /\ f[i] \in Nat /\ f[k] \in Nat
                BY <1>1, <3>1
            <4>2. k < i => f[k] < f[i]
                BY <4>1 DEF Increasing
            <4> QED BY <3>1, <4>1, <4>2
        <3> QED BY <1>1, <1>2, <3>1, <3>2
    <2> HIDE DEF below
    <2>3. g \in [1..k -> below]
        BY <2>1
    <2>4. \A i, j \in 1..k : i # j => g[i] # g[j]
        <3>1. 1..k \subseteq 1..c
            BY <1>1, <1>2
        <3> QED BY <1>3, <3>1 DEF Injection, IsInjective
    <2>5. g \in Bijection(1..k, below)
        BY <2>2, <2>3, <2>4 DEF Bijection, Injection, Surjection, IsInjective
    <2>6. ExistsBijection(1..k, below)
        BY <2>5 DEF ExistsBijection
    <2> QED BY <1>2, <2>6, FS_CountingElements DEF below
<1>6. f[k] \in K
    OBVIOUS
<1>7. Nth(K, k) \in K /\ Cardinality({j \in K : j <= Nth(K, k)}) = k
    BY NthExists
<1> DEFINE a == f[k]
           b == Nth(K, k)
<1>8. /\ a \in K /\ b \in K
      /\ Rank(K, a) = Rank(K, b)
    BY <1>5, <1>6, <1>7 DEF Rank
<1> HIDE DEF a, b
<1>9. a = b
    BY <1>8, CountIsInjective
<1> QED BY <1>9 DEF a, b

(* filter() keeps the members that an increasing list of the places that   *)
(* stay has, whatever the positions (state.rs:51-68).                      *)
LEMMA MembersAreFiltered ==
    ASSUME NEW V, NEW set \in Seq(V), NEW removed
    PROVE  Members(set, removed) = filtered_validators(set, removed)
<1> DEFINE n == Len(set)
           K == {i \in DOMAIN set : i - 1 \notin removed}
           Lists == [1..Cardinality(K) -> K]
           listed(f) == \A j, k \in DOMAIN f : j < k => f[j] < f[k]
           places == CHOOSE f \in Lists : listed(f)
<1>1. n \in Nat /\ DOMAIN set = 1..n
    OBVIOUS
<1>2. K \in SUBSET (1..n) /\ K = KeptPlaces(n, removed)
    BY <1>1 DEF KeptPlaces
<1> HIDE DEF K
<1>3. \E f \in Lists : listed(f)
    BY <1>1, <1>2, NthIncreases DEF Increasing
<1>4. places \in Lists /\ Increasing(places)
    <2> HIDE DEF Lists, listed
    <2>1. places \in Lists /\ listed(places)
        BY <1>3
    <2> QED BY <2>1 DEF Increasing, listed
<1> HIDE DEF places
<1>5. \A k \in 1..Cardinality(K) : places[k] = Nth(K, k)
    BY <1>1, <1>2, <1>4, IncreasingIsNth
<1>6. Members(set, removed) = [k \in 1..Cardinality(K) |-> set[places[k]]]
    BY <1>4 DEF Members, places, K
<1>7. filtered_validators(set, removed)
        = [k \in 1..Cardinality(K) |-> set[Nth(K, k)]]
    BY <1>2 DEF filtered_validators
<1> QED BY <1>5, <1>6, <1>7

(* Without removals everybody stays in place. *)
LEMMA AllStay ==
    ASSUME NEW V, NEW set \in Seq(V)
    PROVE  Members(set, {}) = set
<1> DEFINE n == Len(set)
           K == KeptPlaces(n, {})
           f == [k \in 1..n |-> k]
<1>1. n \in Nat /\ DOMAIN set = 1..n /\ set = [k \in 1..n |-> set[k]]
    OBVIOUS
<1>2. K = 1..n
    BY DEF KeptPlaces
<1>3. Cardinality(K) = n
    BY <1>1, <1>2, FS_Interval
<1> HIDE DEF K, n
<1>4. f \in [1..Cardinality(K) -> K] /\ Increasing(f)
    BY <1>2, <1>3 DEF Increasing
<1>5. \A k \in 1..n : f[k] = Nth(K, k)
    <2> HIDE DEF f
    <2> QED BY <1>1, <1>2, <1>3, <1>4, IncreasingIsNth
<1>6. filtered_validators(set, {}) = [k \in 1..n |-> set[Nth(K, k)]]
    BY <1>3 DEF filtered_validators, K, n
<1>7. \A k \in 1..n : Nth(K, k) = k
    BY <1>5
<1> QED BY <1>1, <1>6, <1>7, MembersAreFiltered

-----------------------------------------------------------------------------
(* The chain. *)

Headers == {UnsealedHeader(n, "final", added, removed) :
                n \in Nat, added \in Seq(Electable), removed \in SUBSET Nat}

ValidatorSets == Seq(Electable) \ {<<>>}

(* Block n changes the set that seals it as it says. *)
Follows(n) ==
    \E diff \in Changes(n, SetAfter(n - 1)) :
        /\ Block(n) = UnsealedHeader(n, "final", diff.added, diff.removed)
        /\ SetAfter(n) = Members(SetAfter(n - 1), diff.removed) \o diff.added

ChainInv ==
    /\ chain \in Seq(Headers) /\ sets \in Seq(ValidatorSets)
    /\ Len(chain) = Len(sets) /\ Tip \in Nat /\ Tip <= MaxNumber
    /\ Block(0) = UnsealedHeader(0, "final", GenesisSet, {})
    /\ SetAfter(0) = GenesisSet
    /\ \A n \in 0..Tip : UniqueAddress(SetAfter(n))
    /\ \A n \in 1..Tip : Follows(n)

(* What a block with a diff looks like is a header.                        *)
LEMMA IsHeader ==
    ASSUME NEW n \in Nat, NEW added \in Seq(Electable),
           NEW removed \in SUBSET Nat
    PROVE  UnsealedHeader(n, "final", added, removed) \in Headers
<1> DEFINE Lists == Seq(Electable)
           Bitmaps == SUBSET Nat
<1>1. added \in Lists /\ removed \in Bitmaps
    OBVIOUS
<1>2. Headers = {UnsealedHeader(m, "final", a, r) :
                    m \in Nat, a \in Lists, r \in Bitmaps}
    BY DEF Headers
<1> HIDE DEF Lists, Bitmaps
<1> QED BY <1>1, <1>2

(* What a change of a set amounts to. *)
LEMMA ChangeOf ==
    ASSUME NEW n, NEW set \in ValidatorSets, UniqueAddress(set),
           NEW diff \in Changes(n, set)
    PROVE  /\ diff.added \in Seq(Electable)
           /\ diff.removed \in SUBSET (0..Len(set) - 1)
           /\ Members(set, diff.removed) \o diff.added \in ValidatorSets
           /\ UniqueAddress(Members(set, diff.removed) \o diff.added)
           /\ n % EpochSize # 0 =>
                    /\ diff.added = <<>> /\ diff.removed = {}
                    /\ Members(set, diff.removed) \o diff.added = set
<1> DEFINE next == Members(set, diff.removed) \o diff.added
<1>0. set \in Seq(Electable) /\ set # <<>>
    BY DEF ValidatorSets
<1>1. CASE n % EpochSize = 0
    <2>1. /\ diff.removed \in SUBSET (0..Len(set) - 1)
          /\ diff.added \in SeqOf(Candidates, MaxJoin)
          /\ next # <<>> /\ UniqueAddress(next)
        BY <1>1 DEF Changes, Elections
    <2>2. diff.added \in Seq(Electable)
        <3>1. PICK m \in 0..MaxJoin : diff.added \in [1..m -> Candidates]
            BY <2>1 DEF SeqOf
        <3>2. m \in Nat
            BY ChainAssumption
        <3>3. diff.added \in [1..m -> Electable]
            BY <3>1 DEF Electable
        <3> QED BY <3>2, <3>3
    <2>3. Members(set, diff.removed) \in Seq(Electable)
        BY <1>0, MembersAreFiltered, FilteredValidators
    <2>4. next \in ValidatorSets
        BY <2>1, <2>2, <2>3 DEF ValidatorSets
    <2> HIDE DEF next
    <2> QED BY <1>1, <2>1, <2>2, <2>4 DEF next
<1>2. CASE n % EpochSize # 0
    <2>1. diff.added = <<>> /\ diff.removed = {}
        BY <1>2 DEF Changes
    <2>2. Members(set, {}) = set
        BY <1>0, AllStay
    <2>3. set \o <<>> = set
        BY <1>0
    <2>4. next = set /\ next \in ValidatorSets
        BY <2>1, <2>2, <2>3
    <2>5. diff.added \in Seq(Electable)
        BY <2>1
    <2> HIDE DEF next
    <2> QED BY <1>2, <2>1, <2>4, <2>5 DEF next
<1> QED BY <1>1, <1>2

(* The chain starts with its genesis block.                                *)
LEMMA ChainInitially == ChainInit => ChainInv
<1> SUFFICES ASSUME ChainInit PROVE ChainInv
    OBVIOUS
<1>1. GenesisSet \in ValidatorSets /\ UniqueAddress(GenesisSet)
    BY ChainAssumption DEF ValidatorSets
<1>2. UnsealedHeader(0, "final", GenesisSet, {}) \in Headers
    BY <1>1, IsHeader DEF ValidatorSets
<1>3. PICK genesis \in Headers :
        genesis = UnsealedHeader(0, "final", GenesisSet, {})
    BY <1>2
<1>4. chain = <<genesis>> /\ sets = <<GenesisSet>>
    BY <1>3 DEF ChainInit
<1>5. /\ chain \in Seq(Headers) /\ sets \in Seq(ValidatorSets)
      /\ Len(chain) = 1 /\ Len(sets) = 1 /\ Tip = 0
      /\ Block(0) = genesis /\ SetAfter(0) = GenesisSet
    BY <1>1, <1>4 DEF Tip, Block, SetAfter
<1> QED BY <1>1, <1>3, <1>5, ChainAssumption DEF ChainInv

(* Growing leaves what is there. *)
LEMMA GrowKeeps ==
    ASSUME ChainInv, Grow, NEW t, t = Tip
    PROVE  /\ t \in Nat /\ Tip' = t + 1
           /\ chain' \in Seq(Headers) /\ sets' \in Seq(ValidatorSets)
           /\ Len(chain') = Len(sets')
           /\ \A n \in 0..t : Block(n)' = Block(n)
           /\ \A n \in 0..t : SetAfter(n)' = SetAfter(n)
           /\ UniqueAddress(SetAfter(t + 1)')
           /\ Follows(t + 1)'
<1>1. /\ t \in Nat /\ Len(chain) = t + 1 /\ Len(sets) = t + 1
      /\ chain \in Seq(Headers) /\ sets \in Seq(ValidatorSets)
    BY DEF ChainInv, Tip
<1>2. PICK set : set = SetAfter(t)
    OBVIOUS
<1>3. set \in ValidatorSets /\ UniqueAddress(set)
    <2>1. t + 1 \in 1..Len(sets) /\ t \in 0..t
        BY <1>1
    <2>2. SetAfter(t) \in ValidatorSets
        BY <1>1, <2>1 DEF SetAfter
    <2>3. UniqueAddress(SetAfter(t))
        BY <2>1 DEF ChainInv
    <2> QED BY <1>2, <2>2, <2>3
<1>4. PICK diff \in Changes(t + 1, set) :
        /\ chain' = Append(chain, UnsealedHeader(t + 1, "final", diff.added,
                                                  diff.removed))
        /\ sets' = Append(sets, Members(set, diff.removed) \o diff.added)
    BY <1>2 DEF Grow
<1>5. PICK next : next = Members(set, diff.removed) \o diff.added
    OBVIOUS
<1>6. PICK header :
        header = UnsealedHeader(t + 1, "final", diff.added, diff.removed)
    OBVIOUS
<1>7. next \in ValidatorSets /\ UniqueAddress(next) /\ header \in Headers
    <2>1. /\ diff.added \in Seq(Electable)
          /\ diff.removed \in SUBSET (0..Len(set) - 1)
          /\ next \in ValidatorSets /\ UniqueAddress(next)
        BY <1>3, <1>5, ChangeOf
    <2>2. diff.removed \in SUBSET Nat /\ t + 1 \in Nat
        BY <1>1, <2>1
    <2> QED BY <1>6, <2>1, <2>2, IsHeader
<1>8. /\ chain' \in Seq(Headers) /\ sets' \in Seq(ValidatorSets)
      /\ Len(chain') = t + 2 /\ Len(sets') = t + 2
      /\ \A n \in 1..t + 1 : chain'[n] = chain[n] /\ sets'[n] = sets[n]
      /\ chain'[t + 2] = header /\ sets'[t + 2] = next
    <2>1. chain' = Append(chain, header) /\ sets' = Append(sets, next)
        BY <1>4, <1>5, <1>6
    <2> QED BY <1>1, <1>7, <2>1
<1>9. /\ Tip' = t + 1
      /\ Block(t + 1)' = header /\ SetAfter(t + 1)' = next
    BY <1>1, <1>8 DEF Tip, Block, SetAfter
<1>10. \A n \in 0..t : Block(n)' = Block(n) /\ SetAfter(n)' = SetAfter(n)
    <2>1. \A n \in 0..t : n + 1 \in 1..t + 1
        BY <1>1
    <2> QED BY <1>8, <2>1 DEF Block, SetAfter
<1>11. Follows(t + 1)'
    <2>1. SetAfter((t + 1) - 1)' = set
        <3>1. (t + 1) - 1 = t /\ t \in 0..t
            BY <1>1
        <3> QED BY <1>2, <1>10, <3>1
    <2> QED BY <1>5, <1>6, <1>9, <2>1 DEF Follows
<1> QED BY <1>1, <1>7, <1>8, <1>9, <1>10, <1>11

(* A new block follows from the one before it, whatever is elected.        *)
LEMMA ChainPreserved ==
    ChainInv /\ [Grow]_chainVars => ChainInv'
<1> SUFFICES ASSUME ChainInv, [Grow]_chainVars PROVE ChainInv'
    OBVIOUS
<1>1. CASE Grow
    <2>0. PICK t : t = Tip
        OBVIOUS
    <2>1. /\ t \in Nat /\ Tip' = t + 1
          /\ chain' \in Seq(Headers) /\ sets' \in Seq(ValidatorSets)
          /\ Len(chain') = Len(sets')
          /\ \A n \in 0..t : Block(n)' = Block(n)
          /\ \A n \in 0..t : SetAfter(n)' = SetAfter(n)
          /\ UniqueAddress(SetAfter(t + 1)')
          /\ Follows(t + 1)'
        BY <1>1, <2>0, GrowKeeps
    <2>2. t + 1 <= MaxNumber
        BY <1>1, <2>0 DEF Grow
    <2>3. ASSUME NEW n \in 1..t PROVE Follows(n)'
        <3>1. n \in 0..t /\ n - 1 \in 0..t
            BY <2>1
        <3>2. /\ Block(n)' = Block(n) /\ SetAfter(n)' = SetAfter(n)
              /\ SetAfter(n - 1)' = SetAfter(n - 1)
            BY <2>1, <3>1
        <3>3. Follows(n)
            BY <2>0 DEF ChainInv
        <3> QED BY <3>2, <3>3 DEF Follows
    <2>4. \A n \in 0..t : UniqueAddress(SetAfter(n)')
        BY <2>0, <2>1 DEF ChainInv
    <2>5. Block(0)' = Block(0) /\ SetAfter(0)' = SetAfter(0)
        <3>1. 0 \in 0..t
            BY <2>1
        <3> QED BY <2>1, <3>1
    <2>6. \A n \in 0..t + 1 : UniqueAddress(SetAfter(n)')
        <3>1. \A n \in 0..t + 1 : n \in 0..t \/ n = t + 1
            BY <2>1
        <3> QED BY <2>1, <2>4, <3>1
    <2>7. \A n \in 1..t + 1 : Follows(n)'
        <3>1. \A n \in 1..t + 1 : n \in 1..t \/ n = t + 1
            BY <2>1
        <3> QED BY <2>1, <2>3, <3>1
    <2>8. /\ Block(0)' = UnsealedHeader(0, "final", GenesisSet, {})
          /\ SetAfter(0)' = GenesisSet
        BY <2>5 DEF ChainInv
    <2>9. Tip' \in Nat /\ Tip' <= MaxNumber
        BY <2>1, <2>2
    <2> QED BY <2>1, <2>6, <2>7, <2>8, <2>9 DEF ChainInv
<1>2. CASE UNCHANGED chainVars
    BY <1>2 DEF chainVars, ChainInv, Tip, Block, SetAfter, Follows
<1> QED BY <1>1, <1>2

-----------------------------------------------------------------------------
(* Epochs. *)

(* An epoch ends with the block whose number its size divides. *)
LEMMA LastDivides ==
    ASSUME NEW n \in Nat, NEW s \in Nat \ {0}
    PROVE  is_last_block_of_epoch(n, s) <=> n % s = 0
<1>1. n % s \in 0..s - 1
    OBVIOUS
<1>2. n % s # s /\ s # 0
    BY <1>1
<1> HIDE <1>1
<1> QED BY <1>2 DEF is_last_block_of_epoch, get_number_within_epoch

(* Where the formulas place a block (istanbul.rs:9-26). *)
LEMMA EpochOf ==
    ASSUME NEW s \in Nat \ {0}, NEW h \in Nat
    PROVE  LET e == get_epoch_number(h + 1, s)
           IN  /\ e \in Nat \ {0}
               /\ \E p \in 1..s : h + 1 = (e - 1) * s + p
<1> DEFINE q == h \div s
           r == h % s
<1>1. h = s * q + r /\ r \in 0..s - 1 /\ q \in Nat
    <2>1. h = s * (h \div s) + (h % s) /\ h % s \in 0..s - 1
            /\ h \div s \in Int
        OBVIOUS
    <2>2. ASSUME q <= 0 - 1 PROVE FALSE
        <3> HIDE DEF q, r
        <3>1. q \in Int /\ h = s * q + r /\ r \in 0..s - 1
            BY <2>1 DEF q, r
        <3>2. s * q <= s * (0 - 1)
            BY <2>2, <3>1
        <3> QED BY <3>1, <3>2
    <2> QED BY <2>1, <2>2
<1> HIDE DEF q, r
<1>2. /\ (q + 1) - 1 = q /\ q * s = s * q /\ q + 1 \in Nat \ {0}
      /\ r + 1 \in 1..s
    BY <1>1
<1>3. IsPlace(h + 1, s, q + 1, r + 1)
    BY <1>1, <1>2 DEF IsPlace
<1>4. get_epoch_number(h + 1, s) = q + 1
    BY <1>3, Formulas
<1>5. h + 1 = ((q + 1) - 1) * s + (r + 1)
    BY <1>3 DEF IsPlace
<1> QED BY <1>2, <1>4, <1>5

(* No epoch ends between a block and the last one of the next block's      *)
(* epoch (istanbul.rs:9-45).                                               *)
LEMMA BoundaryIsNext ==
    ASSUME NEW s \in Nat \ {0}, NEW h \in Nat, NEW n \in Int,
           n <= get_epoch_last_block_number(get_epoch_number(h + 1, s), s),
           NEW m \in h + 1..n - 1
    PROVE  m % s # 0
<1>1. PICK e : e = get_epoch_number(h + 1, s)
    OBVIOUS
<1>2. e \in Nat \ {0} /\ \E p \in 1..s : h + 1 = (e - 1) * s + p
    BY <1>1, EpochOf
<1>3. PICK q : q = e - 1
    OBVIOUS
<1>4. PICK r \in 1..s : h + 1 = q * s + r
    BY <1>2, <1>3
<1>5. q \in Nat /\ e = q + 1
    BY <1>2, <1>3
<1>6. n <= e * s
    BY <1>1, <1>2 DEF get_epoch_last_block_number
<1>7. e * s = q * s + s /\ q * s \in Int
    BY <1>5
<1>8. PICK p : p = m - q * s
    OBVIOUS
<1>9. p \in 0..s - 1 /\ p # 0 /\ m = q * s + p /\ m \in Nat
    <2>1. m \in Int /\ m >= h + 1 /\ m <= n - 1
        OBVIOUS
    <2> QED BY <1>4, <1>6, <1>7, <1>8, <2>1
<1>10. PICK b : b = m
    OBVIOUS
<1>11. b % s = p
    <2>1. p \in 0..s - 1 /\ q \in Nat /\ b \in Nat /\ b = q * s + p
        BY <1>5, <1>9, <1>10
    <2>2. b \div s = q /\ b % s = p
        BY <2>1, Quotient
    <2> QED BY <2>2
<1> QED BY <1>9, <1>10, <1>11, Zenon

(* No epoch ends inside epoch e. *)
LEMMA InsideEpoch ==
    ASSUME NEW s \in Nat \ {0}, NEW e \in Nat \ {0}, NEW h,
           h = (e - 1) * s, NEW n \in Int, n <= e * s, NEW m \in h + 1..n - 1
    PROVE  m % s # 0
<1>1. h = (e - 1) * s
    OBVIOUS
<1>2. h \in Nat
    <2>1. e - 1 \in Nat
        OBVIOUS
    <2> QED BY <1>1, <2>1
<1>3. get_epoch_number(h + 1, s) = e
    <2>1. h + 1 \in Nat /\ 1 \in 1..s
        BY <1>2
    <2>2. IsPlace(h + 1, s, e, 1)
        BY <1>1, <2>1 DEF IsPlace
    <2> QED BY <2>2, Formulas
<1>4. n <= get_epoch_last_block_number(get_epoch_number(h + 1, s), s)
    BY <1>3 DEF get_epoch_last_block_number
<1> QED BY <1>2, <1>4, BoundaryIsNext

(* The set changes at the end of an epoch only. *)
LEMMA SetsInEpoch ==
    ASSUME ChainInv, NEW h \in 0..Tip, NEW k \in h..Tip,
           \A m \in h + 1..k : m % EpochSize # 0
    PROVE  SetAfter(k) = SetAfter(h)
<1> DEFINE Changed == {m \in h..k : SetAfter(m) # SetAfter(h)}
<1> SUFFICES ASSUME Changed # {}
             PROVE  FALSE
    <2>1. k \in h..k
        BY DEF ChainInv
    <2> QED BY <2>1
<1>1. Changed \in SUBSET Nat /\ Tip \in Nat
    BY DEF ChainInv
<1> HIDE DEF Changed
<1>2. PICK m \in Changed : \A y \in Changed : m <= y
    BY <1>1, LeastNatural
<1>3. m \in h + 1..k /\ SetAfter(m) # SetAfter(h)
    <2>1. m \in h..k /\ SetAfter(m) # SetAfter(h)
        BY <1>2 DEF Changed
    <2>2. m # h
        BY <2>1
    <2> QED BY <1>1, <2>1, <2>2
<1>4. m - 1 \in h..k /\ m - 1 \in 0..Tip /\ m \in 1..Tip /\ ~ (m <= m - 1)
    BY <1>1, <1>3
<1>5. SetAfter(m - 1) = SetAfter(h)
    BY <1>2, <1>4 DEF Changed
<1> DEFINE set == SetAfter(m - 1)
<1>6. set \in ValidatorSets /\ UniqueAddress(set) /\ Follows(m)
    <2>1. (m - 1) + 1 \in 1..Len(sets)
        BY <1>1, <1>4 DEF ChainInv, Tip
    <2>2. SetAfter(m - 1) \in ValidatorSets
        BY <2>1 DEF ChainInv, SetAfter
    <2> QED BY <1>4, <2>2 DEF ChainInv
<1>7. PICK diff \in Changes(m, set) :
        SetAfter(m) = Members(set, diff.removed) \o diff.added
    BY <1>6 DEF Follows
<1> HIDE DEF set
<1>8. m % EpochSize # 0
    BY <1>3
<1>9. SetAfter(m) = set
    BY <1>6, <1>7, <1>8, ChangeOf
<1> QED BY <1>3, <1>5, <1>9 DEF set

-----------------------------------------------------------------------------
(* Headers. *)

(* A header, sealed or not, of block n with that diff. *)
IsBlock(header, n, branch, added, removed) ==
    /\ header.number = n /\ header.time = n /\ header.extra = "Ok"
    /\ hash(header) = UnsealedHeader(n, branch, added, removed)
    /\ AddedValidators(header) = added
    /\ Len(header.added_validators)
            = Len(header.added_validators_public_keys)
    /\ header.removed_validators = removed

(* Whatever its seal, a header is of the block it was made from. *)
LEMMA SealedIsBlock ==
    ASSUME NEW n, NEW branch, NEW added \in Seq(Electable), NEW removed,
           NEW seal
    PROVE  IsBlock([UnsealedHeader(n, branch, added, removed)
                        EXCEPT !.aggregated_seal = seal],
                   n, branch, added, removed)
<1> DEFINE plain == UnsealedHeader(n, branch, added, removed)
           header == [plain EXCEPT !.aggregated_seal = seal]
           root == <<branch, n>>
           addresses == [i \in DOMAIN added |-> added[i].address]
           keys == [i \in DOMAIN added |-> added[i].public_key]
<1>1. plain = [number |-> n, time |-> n, root |-> root,
               extra |-> "Ok", added_validators |-> addresses,
               added_validators_public_keys |-> keys,
               removed_validators |-> removed, aggregated_seal |-> NoSeal]
    BY DEF UnsealedHeader
<1> HIDE DEF addresses, keys, root
<1>0. header = [number |-> n, time |-> n, root |-> root,
                extra |-> "Ok", added_validators |-> addresses,
                added_validators_public_keys |-> keys,
                removed_validators |-> removed, aggregated_seal |-> seal]
    <2> HIDE DEF plain
    <2> QED BY <1>1
<1>2. /\ header.number = n /\ header.time = n /\ header.extra = "Ok"
      /\ header.added_validators = addresses
      /\ header.added_validators_public_keys = keys
      /\ header.removed_validators = removed
      /\ [header EXCEPT !.aggregated_seal = NoSeal] = plain
    <2> HIDE DEF plain, header
    <2> QED BY <1>0, <1>1
<1>3. \A i \in DOMAIN added :
        added[i] = [address |-> added[i].address,
                    public_key |-> added[i].public_key]
    <2>1. \A i \in DOMAIN added : added[i] \in Electable
        OBVIOUS
    <2> QED BY <2>1, ChainAssumption
<1>4. DOMAIN addresses = DOMAIN added
      /\ \A i \in DOMAIN added : /\ addresses[i] = added[i].address
                                 /\ keys[i] = added[i].public_key
    BY DEF addresses, keys
<1> HIDE DEF header, plain
<1>5. AddedValidators(header)
        = [i \in DOMAIN added |-> [address |-> added[i].address,
                                   public_key |-> added[i].public_key]]
    BY <1>2, <1>4 DEF AddedValidators
<1>6. added = [i \in DOMAIN added |-> added[i]]
    OBVIOUS
<1>7. AddedValidators(header) = added
    BY <1>3, <1>5, <1>6
<1>8. Len(addresses) = Len(added) /\ Len(keys) = Len(added)
    BY DEF addresses, keys
<1>9. hash(header) = plain
    BY <1>2 DEF hash
<1> QED BY <1>2, <1>7, <1>8, <1>9 DEF IsBlock, header, plain

(* What insert_header finds when it looks at a header before it stores it; *)
(* the configuration says which headers it looks at (state.rs:126-188).    *)
InsertVerdict(config, snapshot, header, now) ==
    IF /\ header.number # 0
       /\ IF is_last_block_of_epoch(header.number, config.epoch_size)
          THEN config.verify_epoch_headers
          ELSE config.verify_non_epoch_headers
    THEN verify_header(config, snapshot, header, now)
    ELSE "Ok"

(* A refused header leaves everything as it is. *)
LEMMA InsertRefused ==
    ASSUME NEW config, NEW snapshot, NEW header, NEW now,
           ~ (header.number > MaxU64),
           InsertVerdict(config, snapshot, header, now) # "Ok"
    PROVE  insert_header(config, snapshot, header, now)
            = Outcome(InsertVerdict(config, snapshot, header, now), snapshot)
<1> DEFINE last == is_last_block_of_epoch(header.number, config.epoch_size)
           verdict == InsertVerdict(config, snapshot, header, now)
<1>1. CASE last
    <2>1. verdict = IF config.verify_epoch_headers /\ header.number # 0
                    THEN verify_header(config, snapshot, header, now)
                    ELSE "Ok"
        BY <1>1 DEF InsertVerdict
    <2>2. store_epoch_header(config, snapshot, header, now)
            = Outcome(verdict, snapshot)
        <3> HIDE DEF verdict
        <3>1. verdict # "Ok"
            BY DEF verdict
        <3> QED BY <2>1, <3>1, Zenon DEF store_epoch_header
    <2> QED BY <1>1, <2>2 DEF insert_header
<1>2. CASE ~ last
    <2>1. verdict = IF config.verify_non_epoch_headers /\ header.number # 0
                    THEN verify_header(config, snapshot, header, now)
                    ELSE "Ok"
        BY <1>2 DEF InsertVerdict
    <2>2. store_non_epoch_header(config, snapshot, header, now)
            = Outcome(verdict, snapshot)
        <3> HIDE DEF verdict
        <3>1. verdict # "Ok"
            BY DEF verdict
        <3> QED BY <2>1, <3>1, Zenon DEF store_non_epoch_header
    <2> QED BY <1>2, <2>2 DEF insert_header
<1> QED BY <1>1, <1>2

(* Those who join a set that nobody is twice in are not in it yet. *)
LEMMA JoinedAreNew ==
    ASSUME NEW V, NEW a \in Seq(V), NEW b \in Seq(V), UniqueAddress(a \o b)
    PROVE  Addresses(a) \cap Addresses(b) = {}
<1> SUFFICES ASSUME NEW i \in DOMAIN a, NEW j \in DOMAIN b,
                    a[i].address = b[j].address
             PROVE  FALSE
    BY DEF Addresses
<1> DEFINE c == a \o b
           k == Len(a) + j
<1>1. /\ i \in 1..Len(a) /\ j \in 1..Len(b)
      /\ Len(a) \in Nat /\ Len(b) \in Nat
    OBVIOUS
<1>2. /\ i \in DOMAIN c /\ k \in DOMAIN c
      /\ c[i] = a[i] /\ c[k] = b[j] /\ i # k
    BY <1>1
<1> HIDE DEF c, k
<1>3. UniqueAddress(c)
    BY DEF c
<1> QED BY <1>2, <1>3 DEF UniqueAddress

(* A diff of block n that the set can take. *)
Fits(set, n, added, removed) ==
    /\ set \in Seq(Electable) /\ added \in Seq(Electable)
    /\ removed \in SUBSET (0..Len(set) - 1)
    /\ UniqueAddress(Members(set, removed) \o added)
    /\ n % EpochSize # 0 => added = <<>> /\ removed = {}

(* A header that passes, with a diff that fits the set, is stored with the *)
(* set that the diff leads to (state.rs:28-68,126-188).                    *)
LEMMA InsertAccepted ==
    ASSUME NEW config, NEW snapshot, NEW header, NEW now,
           NEW n \in Nat, ~ (n > MaxU64), NEW branch, NEW added, NEW removed,
           IsBlock(header, n, branch, added, removed),
           config.epoch_size = EpochSize,
           Fits(snapshot.validators, n, added, removed),
           InsertVerdict(config, snapshot, header, now) = "Ok"
    PROVE  insert_header(config, snapshot, header, now)
            = Outcome("Ok", SnapshotOf(header,
                        Members(snapshot.validators, removed) \o added))
<1> USE DEF Fits
<1> DEFINE set == snapshot.validators
           members == Members(set, removed)
           removal == remove_validators(set, removed)
           addition == add_validators(removal.validators, added)
           checked == IF n % EpochSize = 0 THEN config.verify_epoch_headers
                      ELSE config.verify_non_epoch_headers
           verdict == IF checked /\ n # 0
                      THEN verify_header(config, snapshot, header, now)
                      ELSE "Ok"
<1>1. /\ header.number = n /\ header.extra = "Ok"
      /\ AddedValidators(header) = added
      /\ Len(header.added_validators)
            = Len(header.added_validators_public_keys)
      /\ header.removed_validators = removed
    BY DEF IsBlock
<1>2. EpochSize \in Nat \ {0}
    BY ChainAssumption
<1>3. is_last_block_of_epoch(n, EpochSize) <=> n % EpochSize = 0
    BY <1>2, LastDivides
<1>4. verdict = "Ok"
    BY <1>1, <1>3 DEF InsertVerdict
<1>5. members \in Seq(Electable)
    BY MembersAreFiltered, FilteredValidators
<1>6. removal = [ok |-> TRUE, validators |-> members]
    <2>1. CASE removed = {}
        BY <2>1, AllStay DEF remove_validators
    <2>2. CASE removed # {}
        <3>1. ~ \E bit \in removed : bit >= Len(set)
            <4>1. Len(set) \in Nat
                OBVIOUS
            <4>2. \A bit \in removed : bit \in 0..Len(set) - 1
                OBVIOUS
            <4> HIDE DEF set
            <4> QED BY <4>1, <4>2
        <3>2. members = filtered_validators(set, removed)
            BY MembersAreFiltered
        <3> QED BY <2>2, <3>1, <3>2, Zenon DEF remove_validators
    <2> QED BY <2>1, <2>2
<1>7. addition = [ok |-> TRUE, validators |-> members \o added]
    <2>1. removal.validators = members
        BY <1>6
    <2>2. Addresses(members) \cap Addresses(added) = {}
        BY <1>5, JoinedAreNew
    <2> HIDE DEF members, removal
    <2> QED BY <2>1, <2>2, Zenon DEF add_validators
<1>8. CASE n % EpochSize = 0
    <2>1. insert_header(config, snapshot, header, now)
            = store_epoch_header(config, snapshot, header, now)
        BY <1>1, <1>3, <1>8 DEF insert_header
    <2>2. (IF config.verify_epoch_headers /\ n # 0
           THEN verify_header(config, snapshot, header, now)
           ELSE "Ok") = "Ok"
        BY <1>4, <1>8
    <2>3. /\ removal.ok /\ addition.ok
          /\ addition.validators = members \o added
        <3> HIDE DEF removal, addition, members
        <3> QED BY <1>6, <1>7
    <2>4. store_epoch_header(config, snapshot, header, now)
            = Outcome("Ok", SnapshotOf(header, addition.validators))
        BY <1>1, <2>2, <2>3, Zenon DEF store_epoch_header
    <2> QED BY <2>1, <2>3, <2>4
<1>9. CASE n % EpochSize # 0
    <2>1. insert_header(config, snapshot, header, now)
            = store_non_epoch_header(config, snapshot, header, now)
        BY <1>1, <1>3, <1>9 DEF insert_header
    <2>2. (IF config.verify_non_epoch_headers /\ n # 0
           THEN verify_header(config, snapshot, header, now)
           ELSE "Ok") = "Ok"
        BY <1>4, <1>9
    <2>3. store_non_epoch_header(config, snapshot, header, now)
            = Outcome("Ok", SnapshotOf(header, set))
        BY <1>1, <2>2, Zenon DEF store_non_epoch_header
    <2>4. members \o added = set
        <3>1. added = <<>> /\ members = set
            BY <1>9, AllStay
        <3>2. set \o <<>> = set
            OBVIOUS
        <3> HIDE DEF members, set
        <3> QED BY <3>1, <3>2
    <2> HIDE DEF set, members
    <2> QED BY <2>1, <2>3, <2>4 DEF set, members
<1> QED BY <1>8, <1>9

(* What verify_header says of a readable header, to a client with a set    *)
(* and a clock that the skew does not overflow.                            *)
LEMMA VerifyHeader ==
    ASSUME NEW config, NEW snapshot, NEW header, NEW now,
           ~ (header.number > MaxU64), header.extra = "Ok",
           snapshot.validators # <<>>,
           ~ (/\ config.verify_header_timestamp
              /\ now + config.allowed_clock_skew > MaxU64)
    PROVE  LET verdict == verify_header(config, snapshot, header, now)
           IN  /\ verdict \notin {"Panic", "InvalidValidatorSetDiff"}
               /\ verdict = "Ok" =>
                    /\ ~ (header.number <= snapshot.number)
                    /\ verify_aggregated_seal(hash(header),
                            snapshot.validators, header.aggregated_seal)
                        = "Ok"
<1> DEFINE verdict == verify_header(config, snapshot, header, now)
           seal == verify_aggregated_seal(hash(header), snapshot.validators,
                                          header.aggregated_seal)
<1>1. seal \in SealVerdicts \ {"Panic"}
    <2>1. seal \in SealVerdicts
        BY SealVerdict
    <2>2. seal # "Panic"
        BY Zenon DEF verify_aggregated_seal
    <2> QED BY <2>1, <2>2
<1>2. verify_header_seal(snapshot, header) = seal
    BY DEF verify_header_seal
<1> HIDE DEF seal
<1>3. \/ verdict \in {"HeightNotGreater", "TimestampNotGreater",
                      "TimestampInFuture"}
      \/ ~ (header.number <= snapshot.number) /\ verdict = seal
    BY <1>2 DEF verify_header
<1> HIDE DEF verdict
<1>4. /\ verdict \notin {"Panic", "InvalidValidatorSetDiff"}
      /\ verdict = "Ok" => ~ (header.number <= snapshot.number) /\ seal = "Ok"
    BY <1>1, <1>3 DEF SealVerdicts
<1> QED BY <1>4 DEF verdict, seal

(* The commits of less than two thirds of a set are no good seal. *)
LEMMA FewSealsFail ==
    ASSUME NEW set \in ValidatorSets, NEW committers \in SUBSET DOMAIN set,
           ~ IsQuorum(committers, set), NEW h,
           NEW seal, seal.bitmap = {i - 1 : i \in committers}
    PROVE  verify_aggregated_seal(h, set, seal) # "Ok"
<1> SUFFICES ASSUME verify_aggregated_seal(h, set, seal) = "Ok"
             PROVE  FALSE
    OBVIOUS
<1> DEFINE signers == Signers(set, seal.bitmap)
<1>1. set \in Seq(Electable)
    BY DEF ValidatorSets
<1>2. signers = committers
    <2>1. \A i \in DOMAIN set : i \in Int
        BY <1>1
    <2>2. \A i \in DOMAIN set : i - 1 \in seal.bitmap <=> i \in committers
        <3>1. ASSUME NEW i \in DOMAIN set, NEW j \in committers, i - 1 = j - 1
              PROVE  i = j
            BY <2>1, <3>1
        <3> QED BY <3>1
    <2> QED BY <2>2 DEF Signers
<1>3. ~ (Cardinality(signers) < min_quorum_size(Len(set)))
    BY SealVerdict DEF QuorumSigned
<1> DEFINE c == Cardinality(committers)
           l == Len(set)
<1>4. c \in Nat /\ l \in Nat
    BY <1>1, <1>2, SignersCount
<1>5. ~ (c < ((2 * l) - 1 + 3) \div 3) /\ ~ (3 * c >= 2 * l)
    BY <1>2, <1>3 DEF min_quorum_size, IsQuorum
<1> HIDE DEF c, l
<1> QED BY <1>4, <1>5

-----------------------------------------------------------------------------
(* The headers that circulate. *)

(* The set after each block is a set of validators, nobody twice.          *)
LEMMA SetType ==
    ASSUME ChainInv, NEW n \in 0..Tip
    PROVE  SetAfter(n) \in ValidatorSets /\ UniqueAddress(SetAfter(n))
<1>1. n + 1 \in 1..Len(sets)
    BY DEF ChainInv, Tip
<1> QED BY <1>1 DEF ChainInv, SetAfter

(* A header without a seal is what its hash is taken of.                   *)
LEMMA HashOfPlain ==
    ASSUME NEW n, NEW branch, NEW added, NEW removed
    PROVE  hash(UnsealedHeader(n, branch, added, removed))
            = UnsealedHeader(n, branch, added, removed)
<1> DEFINE root == <<branch, n>>
           addresses == [i \in DOMAIN added |-> added[i].address]
           keys == [i \in DOMAIN added |-> added[i].public_key]
           plain == UnsealedHeader(n, branch, added, removed)
<1>1. plain = [number |-> n, time |-> n, root |-> root, extra |-> "Ok",
               added_validators |-> addresses,
               added_validators_public_keys |-> keys,
               removed_validators |-> removed, aggregated_seal |-> NoSeal]
    BY DEF UnsealedHeader
<1> HIDE DEF root, addresses, keys, plain
<1>2. [plain EXCEPT !.aggregated_seal = NoSeal] = plain
    BY <1>1
<1> QED BY <1>2 DEF hash, plain

(* So it is for the blocks of the chain.                                   *)
LEMMA BlockHash ==
    ASSUME ChainInv, NEW n \in 0..Tip
    PROVE  hash(Block(n)) = Block(n)
<1>1. CASE n = 0
    BY <1>1, HashOfPlain DEF ChainInv
<1>2. CASE n # 0
    <2>1. n \in 1..Tip
        BY <1>2 DEF ChainInv
    <2>2. Follows(n)
        BY <2>1 DEF ChainInv
    <2> QED BY <2>2, HashOfPlain DEF Follows
<1> QED BY <1>1, <1>2

(* Every form in which a finalised block circulates is of that block, and  *)
(* its diff leads from the set that seals it to the next.                  *)
LEMMA FinalisedIsBlock ==
    ASSUME ChainInv, NEW n \in 1..Tip, NEW header \in Finalised(n)
    PROVE  \E diff \in Changes(n, SetAfter(n - 1)) :
            /\ IsBlock(header, n, "final", diff.added, diff.removed)
            /\ Block(n) = UnsealedHeader(n, "final", diff.added, diff.removed)
            /\ SetAfter(n) = Members(SetAfter(n - 1), diff.removed)
                                \o diff.added
<1> DEFINE set == SetAfter(n - 1)
<1>1. n - 1 \in 0..Tip /\ n # 0
    BY DEF ChainInv
<1>2. set \in ValidatorSets /\ UniqueAddress(set)
    BY <1>1, SetType
<1>3. PICK diff \in Changes(n, set) :
            /\ Block(n) = UnsealedHeader(n, "final", diff.added, diff.removed)
            /\ SetAfter(n) = Members(set, diff.removed) \o diff.added
    BY DEF ChainInv, Follows
<1>4. diff.added \in Seq(Electable)
    BY <1>2, ChangeOf
<1>5. PICK committers \in SUBSET DOMAIN set :
        header = Commit(Block(n), set, committers)
    BY <1>1 DEF Finalised, QuorumSealed
<1>6. PICK seal : header = [Block(n) EXCEPT !.aggregated_seal = seal]
    BY <1>5 DEF Commit
<1>7. IsBlock(header, n, "final", diff.added, diff.removed)
    BY <1>3, <1>4, <1>6, SealedIsBlock
<1> QED BY <1>3, <1>7

(* An abandoned proposal carries the commits of less than two thirds of    *)
(* the set in force.                                                       *)
LEMMA AbandonedLacksQuorum ==
    ASSUME ChainInv, NEW n \in 1..Tip + 1, NEW header \in Abandoned(n)
    PROVE  /\ \E added, removed :
                IsBlock(header, n, "abandoned", added, removed)
           /\ verify_aggregated_seal(hash(header), SetAfter(n - 1),
                                     header.aggregated_seal) # "Ok"
<1> DEFINE set == SetAfter(n - 1)
<1>1. n - 1 \in 0..Tip
    BY DEF ChainInv
<1>2. set \in ValidatorSets
    BY <1>1, SetType
<1>3. PICK added, removed, committers :
        /\ added = <<>>
        /\ committers \in SUBSET DOMAIN set /\ ~ IsQuorum(committers, set)
        /\ header = Commit(UnsealedHeader(n, "abandoned", added, removed),
                           set, committers)
    <2>1. PICK removed :
            header \in AlmostSealed(
                UnsealedHeader(n, "abandoned", <<>>, removed), set)
        BY DEF Abandoned, Proposals
    <2> QED BY <2>1 DEF AlmostSealed
<1> DEFINE plain == UnsealedHeader(n, "abandoned", added, removed)
           bits == {i - 1 : i \in committers}
<1>4. PICK seal : /\ header = [plain EXCEPT !.aggregated_seal = seal]
                  /\ seal.bitmap = bits
    <2> DEFINE signature == [of |-> prepare_commited_seal(hash(plain), 1),
                             by |-> aggregate(set, committers)]
    <2>1. header = [plain EXCEPT !.aggregated_seal =
                [bitmap |-> bits, signature |-> signature, round |-> 1]]
        BY <1>3 DEF Commit
    <2> HIDE DEF signature, plain, bits
    <2>2. PICK seal : seal = [bitmap |-> bits, signature |-> signature,
                              round |-> 1]
        OBVIOUS
    <2>3. seal.bitmap = bits
        BY <2>2
    <2> QED BY <2>1, <2>2, <2>3
<1>5. added \in Seq(Electable)
    BY <1>3
<1>6. IsBlock(header, n, "abandoned", added, removed)
    BY <1>4, <1>5, SealedIsBlock
<1>7. header.aggregated_seal = seal
    <2> DEFINE root == <<"abandoned", n>>
    <2>1. \E av, ak : plain =
            [number |-> n, time |-> n, root |-> root, extra |-> "Ok",
             added_validators |-> av, added_validators_public_keys |-> ak,
             removed_validators |-> removed, aggregated_seal |-> NoSeal]
        BY DEF UnsealedHeader
    <2> HIDE DEF plain
    <2> QED BY <1>4, <2>1
<1>8. verify_aggregated_seal(hash(header), set, seal) # "Ok"
    <2> HIDE DEF set
    <2> QED BY <1>2, <1>3, <1>4, FewSealsFail
<1> QED BY <1>6, <1>7, <1>8

(* A quorum of commits is a good seal, if the keys are keys. *)
LEMMA QuorumSealHolds ==
    ASSUME NEW set \in ValidatorSets, NEW committers \in SUBSET DOMAIN set,
           IsQuorum(committers, set),
           \A v \in Electable : v.public_key \notin BadKeys, NEW h,
           NEW seal, seal.bitmap = {i - 1 : i \in committers},
           seal.round = 1,
           seal.signature = [of |-> prepare_commited_seal(h, 1),
                             by |-> aggregate(set, committers)]
    PROVE  verify_aggregated_seal(h, set, seal) = "Ok"
<1> DEFINE signers == Signers(set, seal.bitmap)
           c == Cardinality(committers)
           l == Len(set)
<1>1. set \in Seq(Electable) /\ set # <<>>
    BY DEF ValidatorSets
<1>2. signers = committers
    <2>1. \A i \in DOMAIN set : i \in Int
        BY <1>1
    <2>2. \A i \in DOMAIN set : i - 1 \in seal.bitmap <=> i \in committers
        <3>1. ASSUME NEW i \in DOMAIN set, NEW j \in committers, i - 1 = j - 1
              PROVE  i = j
            BY <2>1, <3>1
        <3> QED BY <3>1
    <2> QED BY <2>2 DEF Signers
<1>3. c \in Nat /\ l \in Nat \ {0}
    <2>1. c \in Nat
        BY <1>1, <1>2, SignersCount
    <2>2. l \in Nat \ {0}
        BY <1>1
    <2> QED BY <2>1, <2>2
<1>4. 3 * c >= 2 * l
    BY DEF IsQuorum
<1>5. ~ (Cardinality(signers) < min_quorum_size(Len(set)))
    <2>1. ~ (c < ((2 * l) - 1 + 3) \div 3)
        <3> HIDE DEF c, l
        <3> QED BY <1>3, <1>4
    <2> QED BY <1>2, <2>1 DEF min_quorum_size
<1>6. committers # {}
    <2> SUFFICES ASSUME committers = {} PROVE FALSE
        OBVIOUS
    <2>1. c = 0
        BY FS_EmptySet
    <2> QED BY <1>3, <1>4, <2>1
<1>7. aggregate(set, committers) # NoKeys
    <2>1. PICK i : i \in committers
        BY <1>6
    <2>2. set[i].public_key \in DOMAIN aggregate(set, committers)
        BY <2>1 DEF aggregate
    <2>3. DOMAIN NoKeys = {}
        BY DEF NoKeys
    <2> QED BY <2>2, <2>3
<1>8. ~ \E i \in signers : set[i].public_key \in BadKeys
    <2>1. \A i \in committers : set[i] \in Electable
        BY <1>1
    <2> QED BY <1>2, <2>1
<1>9. /\ seal.signature = [of |-> prepare_commited_seal(h, seal.round),
                           by |-> aggregate(set, signers)]
      /\ seal.signature.by # NoKeys
    BY <1>2, <1>7
<1> HIDE DEF signers
<1> QED BY <1>1, <1>5, <1>8, <1>9, Zenon
        DEF verify_aggregated_seal, signers

(* So a finalised header verifies against the set in force before it. *)
LEMMA FinalisedVerifies ==
    ASSUME ChainInv, \A v \in Electable : v.public_key \notin BadKeys,
           NEW n \in 1..Tip, NEW header \in Finalised(n)
    PROVE  verify_aggregated_seal(hash(header), SetAfter(n - 1),
                                  header.aggregated_seal) = "Ok"
<1> DEFINE set == SetAfter(n - 1)
<1>1. n - 1 \in 0..Tip /\ n \in 0..Tip /\ n # 0
    BY DEF ChainInv
<1>2. set \in ValidatorSets
    BY <1>1, SetType
<1>3. PICK committers \in SUBSET DOMAIN set :
        /\ IsQuorum(committers, set)
        /\ header = Commit(Block(n), set, committers)
    BY <1>1 DEF Finalised, QuorumSealed
<1>4. PICK diff \in Changes(n, set) :
            /\ IsBlock(header, n, "final", diff.added, diff.removed)
            /\ Block(n) = UnsealedHeader(n, "final", diff.added, diff.removed)
    BY FinalisedIsBlock
<1>5. hash(Block(n)) = Block(n) /\ hash(header) = Block(n)
    BY <1>1, <1>4, BlockHash DEF IsBlock
<1> DEFINE bits == {i - 1 : i \in committers}
           signature == [of |-> prepare_commited_seal(Block(n), 1),
                         by |-> aggregate(set, committers)]
<1>6. PICK seal : seal = [bitmap |-> bits, signature |-> signature,
                          round |-> 1]
    OBVIOUS
<1>7. header = [Block(n) EXCEPT !.aggregated_seal = seal]
    BY <1>3, <1>5, <1>6 DEF Commit
<1>8. header.aggregated_seal = seal
    <2> DEFINE root == <<"final", n>>
    <2>1. \E av, ak : Block(n) =
            [number |-> n, time |-> n, root |-> root, extra |-> "Ok",
             added_validators |-> av, added_validators_public_keys |-> ak,
             removed_validators |-> diff.removed, aggregated_seal |-> NoSeal]
        BY <1>4 DEF UnsealedHeader
    <2> HIDE DEF root
    <2> QED BY <1>7, <2>1
<1>9. seal.bitmap = bits /\ seal.round = 1 /\ seal.signature = signature
    <2> HIDE DEF bits, signature
    <2> QED BY <1>6
<1> HIDE DEF set
<1>10. verify_aggregated_seal(Block(n), set, seal) = "Ok"
    BY <1>2, <1>3, <1>9, QuorumSealHolds
<1> QED BY <1>5, <1>8, <1>10 DEF set

(* A later header that is not of the future stands or falls with its seal. *)
LEMMA VerifyLater ==
    ASSUME NEW config, NEW snapshot, NEW header, NEW now,
           ~ (header.number > MaxU64), header.extra = "Ok",
           ~ (header.number <= snapshot.number),
           ~ (header.time <= snapshot.timestamp),
           ~ (now + config.allowed_clock_skew > MaxU64),
           ~ (header.time > now + config.allowed_clock_skew)
    PROVE  verify_header(config, snapshot, header, now)
            = verify_aggregated_seal(hash(header), snapshot.validators,
                                     header.aggregated_seal)
BY DEF verify_header, verify_header_seal

(* The genesis header is stored by an empty client, with the first set.    *)
LEMMA GenesisInserted ==
    ASSUME ChainInv, MaxU64 \in Nat, NEW config,
           config.epoch_size = EpochSize, NEW now
    PROVE  /\ insert_header(config, EmptySnapshot, Block(0), now)
                = Outcome("Ok", SnapshotOf(Block(0), GenesisSet))
           /\ Block(0).number = 0 /\ Block(0).time = 0
           /\ hash(Block(0)) = Block(0) /\ SetAfter(0) = GenesisSet
<1>1. EmptySnapshot.validators = <<>>
    BY DEF EmptySnapshot
<1>2. /\ Block(0) = UnsealedHeader(0, "final", GenesisSet, {})
      /\ SetAfter(0) = GenesisSet /\ UniqueAddress(GenesisSet)
      /\ GenesisSet \in Seq(Electable) /\ EpochSize \in Nat \ {0}
    BY ChainAssumption DEF ChainInv
<1>3. hash(Block(0)) = Block(0)
    BY <1>2, HashOfPlain
<1>4. IsBlock(Block(0), 0, "final", GenesisSet, {})
    <2>1. IsBlock(hash(Block(0)), 0, "final", GenesisSet, {})
        BY <1>2, SealedIsBlock DEF hash
    <2> QED BY <1>3, <2>1
<1>5. 0 % EpochSize = 0
    BY <1>2
<1>6. InsertVerdict(config, EmptySnapshot, Block(0), now) = "Ok"
    BY <1>4 DEF InsertVerdict, IsBlock
<1>7. Members(EmptySnapshot.validators, {}) \o GenesisSet = GenesisSet
    <2>1. <<>> \in Seq(Electable)
        OBVIOUS
    <2>2. Members(<<>>, {}) = <<>>
        BY <2>1, AllStay
    <2>3. <<>> \o GenesisSet = GenesisSet
        BY <1>2
    <2> QED BY <1>1, <2>2, <2>3
<1>8. Fits(EmptySnapshot.validators, 0, GenesisSet, {})
    <2>1. /\ EmptySnapshot.validators \in Seq(Electable)
          /\ {} \in SUBSET (0..Len(EmptySnapshot.validators) - 1)
        BY <1>1
    <2> QED BY <1>2, <1>5, <1>7, <2>1 DEF Fits
<1>9. insert_header(config, EmptySnapshot, Block(0), now)
        = Outcome("Ok", SnapshotOf(Block(0),
                    Members(EmptySnapshot.validators, {}) \o GenesisSet))
    <2>1. ~ (0 > MaxU64) /\ 0 \in Nat
        OBVIOUS
    <2> QED BY <1>4, <1>6, <1>8, <2>1, InsertAccepted
<1> QED BY <1>2, <1>3, <1>4, <1>7, <1>9 DEF IsBlock

(* A finalised header that passes is stored with the set after it, by a    *)
(* client that holds the set before it.                                    *)
LEMMA FinalisedInserted ==
    ASSUME ChainInv, NEW config, config.epoch_size = EpochSize,
           NEW snapshot, NEW now, NEW n \in 1..Tip, ~ (n > MaxU64),
           NEW header \in Finalised(n),
           snapshot.validators = SetAfter(n - 1),
           InsertVerdict(config, snapshot, header, now) = "Ok"
    PROVE  /\ insert_header(config, snapshot, header, now)
                = Outcome("Ok", SnapshotOf(header, SetAfter(n)))
           /\ n % EpochSize # 0 => SetAfter(n) = SetAfter(n - 1)
<1> DEFINE set == SetAfter(n - 1)
<1>1. n - 1 \in 0..Tip /\ n \in Nat
    BY DEF ChainInv
<1>2. set \in ValidatorSets /\ UniqueAddress(set) /\ set \in Seq(Electable)
    BY <1>1, SetType DEF ValidatorSets
<1>3. PICK diff \in Changes(n, set) :
            /\ IsBlock(header, n, "final", diff.added, diff.removed)
            /\ SetAfter(n) = Members(set, diff.removed) \o diff.added
    BY FinalisedIsBlock
<1> HIDE DEF set
<1>4. /\ diff.added \in Seq(Electable)
      /\ diff.removed \in SUBSET (0..Len(set) - 1)
      /\ UniqueAddress(Members(set, diff.removed) \o diff.added)
      /\ n % EpochSize # 0 =>
            /\ diff.added = <<>> /\ diff.removed = {}
            /\ Members(set, diff.removed) \o diff.added = set
    BY <1>2, <1>3, ChangeOf
<1>5. PICK added, removed : added = diff.added /\ removed = diff.removed
    OBVIOUS
<1>6. /\ IsBlock(header, n, "final", added, removed)
      /\ Fits(snapshot.validators, n, added, removed)
    BY <1>2, <1>3, <1>4, <1>5 DEF Fits, set
<1>7. insert_header(config, snapshot, header, now)
        = Outcome("Ok", SnapshotOf(header,
                    Members(snapshot.validators, removed) \o added))
    BY <1>1, <1>6, InsertAccepted
<1> QED BY <1>3, <1>4, <1>5, <1>7 DEF set

(* What a header becomes when it is stored. *)
LEMMA SnapshotFields ==
    ASSUME NEW header, NEW validators
    PROVE  LET stored == SnapshotOf(header, validators)
           IN  /\ stored.number = header.number
               /\ stored.timestamp = header.time
               /\ stored.hash = hash(header)
               /\ stored.validators = validators
               /\ stored.aggregated_seal = header.aggregated_seal
BY DEF SnapshotOf
=============================================================================
