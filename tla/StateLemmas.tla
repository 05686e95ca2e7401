---------------------------- MODULE StateLemmas -----------------------------
(***************************************************************************)
(* What the operators of State.tla return and preserve, for every value of *)
(* their arguments: the lemmas the proofs about the machines built from    *)
(* them cite by name.                                                      *)
(***************************************************************************)
EXTENDS State, TLAPS, FiniteSetTheorems, WellFoundedInduction

(* Every non-empty set of natural numbers has a least element. *)
LEMMA LeastNatural ==
    ASSUME NEW T \in SUBSET Nat, T # {}
    PROVE  \E m \in T : \A y \in T : m <= y
<1>1. \E m \in T : \A y \in T : ~ (<<y, m>> \in OpToRel(<, Nat))
    BY NatLessThanWellFounded, WFMin
<1>2. PICK m \in T : \A y \in T : ~ (<<y, m>> \in OpToRel(<, Nat))
    BY <1>1
<1>3. ASSUME NEW y \in T
      PROVE  m <= y
    <2>1. <<y, m>> \in Nat \X Nat
        OBVIOUS
    <2>2. ~ (y < m)
        BY <1>2, <2>1 DEF OpToRel
    <2>3. y \in Nat /\ m \in Nat
        OBVIOUS
    <2>4. QED
        BY <2>2, <2>3
<1>4. QED
    BY <1>3

(* f is defined by recursion from n to p[n]. *)
IsRecursive(f, a, p, g) ==
    \A n \in Nat : f[n] = IF n = 0 THEN a ELSE g[<<n, f[p[n]]>>]

(* A function that is defined by recursion to smaller numbers exists.      *)
LEMMA RecursionExists ==
    ASSUME NEW S, NEW a \in S, NEW p \in [Nat -> Nat],
           \A n \in Nat : n # 0 => p[n] < n,
           NEW g \in [Nat \X S -> S]
    PROVE  \E f \in [Nat -> S] : IsRecursive(f, a, p, g)
<1> DEFINE Step(h, n) == IF n = 0 THEN a ELSE g[<<n, h[p[n]]>>]
           Upto(m, h) == /\ h \in [0..m -> S]
                         /\ \A n \in 0..m : h[n] = Step(h, n)
           Bad == {m \in Nat : ~ \E h : Upto(m, h)}
<1>1. Bad = {}
    <2> SUFFICES ASSUME Bad # {} PROVE FALSE
        OBVIOUS
    <2>1. Bad \in SUBSET Nat
        OBVIOUS
    <2> HIDE DEF Bad
    <2>2. PICK m \in Bad : \A y \in Bad : m <= y
        BY <2>1, LeastNatural
    <2>3. m \in Nat /\ \A h : ~ Upto(m, h)
        BY <2>1, <2>2 DEF Bad
    <2>4. m # 0
        <3> SUFFICES ASSUME m = 0 PROVE FALSE
            OBVIOUS
        <3>1. Upto(0, [n \in 0..0 |-> a])
            OBVIOUS
        <3> QED BY <3>1, <2>3
    <2>5. m - 1 \in Nat /\ m - 1 \notin Bad
        BY <2>2, <2>3, <2>4
    <2>6. PICK h : Upto(m - 1, h)
        BY <2>5 DEF Bad
    <2> DEFINE k == [n \in 0..m |-> IF n = m THEN g[<<m, h[p[m]]>>] ELSE h[n]]
    <2>7. h[p[m]] \in S /\ p[m] \in 0..m - 1
        BY <2>3, <2>4, <2>6
    <2>8. k \in [0..m -> S]
        <3>1. g[<<m, h[p[m]]>>] \in S
            BY <2>7, <2>3
        <3>2. \A n \in 0..m : n # m => h[n] \in S
            BY <2>6, <2>3
        <3> QED BY <3>1, <3>2
    <2>9. ASSUME NEW n \in 0..m
          PROVE  k[n] = Step(k, n)
        <3>1. CASE n = 0
            <4>1. 0 \in 0..m - 1 /\ 0 \in 0..m /\ 0 # m
                BY <2>3, <2>4
            <4>2. h[0] = a
                BY <4>1, <2>6
            <4>3. k[0] = h[0]
                BY <4>1
            <4> QED BY <4>2, <4>3, <3>1
        <3>2. CASE n # 0
            <4>1. p[n] \in 0..n - 1
                BY <2>3, <3>2
            <4>2. p[n] \in 0..m /\ p[n] # m
                BY <4>1, <2>3
            <4>3. k[p[n]] = h[p[n]]
                BY <4>2
            <4>4. k[n] = g[<<n, h[p[n]]>>]
                <5>1. CASE n = m
                    BY <5>1
                <5>2. CASE n # m
                    <6>1. n \in 0..m - 1
                        BY <5>2, <2>3
                    <6>2. h[n] = Step(h, n)
                        BY <6>1, <2>6
                    <6> QED BY <6>2, <5>2, <3>2
                <5> QED BY <5>1, <5>2
            <4> HIDE DEF k
            <4> QED BY <4>3, <4>4, <3>2
        <3> QED BY <3>1, <3>2
    <2>10. Upto(m, k)
        <3> HIDE DEF k
        <3> QED BY <2>8, <2>9
    <2> QED BY <2>10, <2>3
<1>2. ASSUME NEW m \in Nat, NEW h, Upto(m, h), NEW l \in Nat, NEW k,
             Upto(l, k), NEW n \in Nat, n <= m, n <= l
      PROVE  h[n] = k[n]
    <2> DEFINE D == {i \in Nat : i <= m /\ i <= l /\ h[i] # k[i]}
    <2>1. D \in SUBSET Nat /\ (n \notin D => h[n] = k[n])
        BY <1>2
    <2> HIDE DEF D
    <2> SUFFICES ASSUME D # {} PROVE FALSE
        BY <2>1
    <2>2. PICK i \in D : \A y \in D : i <= y
        BY <2>1, LeastNatural
    <2>3. i \in Nat /\ i <= m /\ i <= l /\ h[i] # k[i]
        BY <2>2 DEF D
    <2>4. h[i] = Step(h, i) /\ k[i] = Step(k, i)
        <3>1. i \in 0..m /\ i \in 0..l
            BY <2>3, <1>2
        <3> QED BY <3>1, <1>2
    <2>5. i # 0
        BY <2>3, <2>4
    <2>6. p[i] \in Nat /\ p[i] < i
        BY <2>3, <2>5
    <2>7. p[i] \notin D
        BY <2>2, <2>3, <2>6
    <2>8. h[p[i]] = k[p[i]]
        BY <2>7, <2>6, <2>3 DEF D
    <2> QED BY <2>3, <2>4, <2>5, <2>8
<1> DEFINE F(m) == CHOOSE h : Upto(m, h)
           f == [n \in Nat |-> F(n)[n]]
<1>3. \A m \in Nat : Upto(m, F(m))
    <2> TAKE m \in Nat
    <2>1. \E h : Upto(m, h)
        BY <1>1
    <2> HIDE DEF Upto
    <2> QED BY <2>1
<1> HIDE DEF F
<1>4. f \in [Nat -> S]
    <2>1. ASSUME NEW n \in Nat PROVE F(n)[n] \in S
        <3>1. Upto(n, F(n)) /\ n \in 0..n
            BY <1>3
        <3> QED BY <3>1
    <2> QED BY <2>1
<1>5. ASSUME NEW n \in Nat
      PROVE  f[n] = Step(f, n)
    <2>1. Upto(n, F(n)) /\ n \in 0..n
        BY <1>3
    <2>2. F(n)[n] = Step(F(n), n)
        BY <2>1
    <2>3. CASE n = 0
        BY <2>2, <2>3
    <2>4. CASE n # 0
        <3>1. p[n] \in Nat /\ p[n] < n
            BY <2>4
        <3>2. Upto(p[n], F(p[n]))
            BY <3>1, <1>3
        <3> HIDE DEF Upto
        <3>3. F(p[n])[p[n]] = F(n)[p[n]]
            BY <1>2, <2>1, <3>1, <3>2
        <3>4. f[p[n]] = F(n)[p[n]] /\ f[n] = F(n)[n]
            BY <3>1, <3>3
        <3> HIDE DEF f
        <3> QED BY <2>2, <2>4, <3>4
    <2> QED BY <2>3, <2>4
<1>6. IsRecursive(f, a, p, g)
    BY <1>5 DEF IsRecursive
<1> QED BY <1>4, <1>6

-----------------------------------------------------------------------------
(* A number divided by the size of an epoch: quotient and remainder are    *)
(* Division by a base of at least two. *)
LEMMA Division ==
    ASSUME NEW n \in Nat, NEW b \in Nat, b >= 2
    PROVE  /\ n \div b \in Nat /\ n % b \in 0..b - 1
           /\ n = (n \div b) * b + (n % b)
           /\ n # 0 => n \div b < n
<1> DEFINE q == n \div b
           r == n % b
<1>1. q \in Int /\ r \in 0..b - 1 /\ n = b * q + r
    OBVIOUS
<1> HIDE DEF q, r
<1>2. q >= 0
    <2> SUFFICES ASSUME q <= -1 PROVE FALSE
        BY <1>1
    <2>1. b * q <= b * (-1)
        BY <1>1
    <2> QED BY <1>1, <2>1
<1>3. ASSUME n # 0 PROVE q < n
    <2>1. CASE q = 0
        BY <2>1, <1>3, <1>1
    <2>2. CASE q >= 1
        <3>1. b * q >= 2 * q
            BY <1>1, <2>2
        <3> QED BY <1>1, <2>2, <3>1
    <2> QED BY <2>1, <2>2, <1>1, <1>2
<1>4. b * q = q * b
    BY <1>1
<1> QED BY <1>1, <1>2, <1>3, <1>4 DEF q, r

(* determined by where the number lies (istanbul.rs:10,19).                *)
LEMMA Quotient ==
    ASSUME NEW s \in Nat \ {0}, NEW q \in Nat, NEW r \in 0..s - 1,
           NEW n \in Nat, n = q * s + r
    PROVE  n \div s = q /\ n % s = r
<1>1. n = s * (n \div s) + (n % s) /\ n % s \in 0..s - 1 /\ n \div s \in Int
    OBVIOUS
<1> DEFINE d == n \div s
<1> DEFINE m == n % s
<1>2. d \in Int /\ m \in 0..s - 1 /\ q * s + r = s * d + m
    BY <1>1
<1> HIDE DEF d, m
<1>3. ~ d > q
    <2>1. SUFFICES ASSUME d >= q + 1 PROVE FALSE
        BY <1>2
    <2>2. s * d >= s * (q + 1)
        BY <2>1, <1>2
    <2> QED BY <2>2, <1>2
<1>4. ~ d < q
    <2>1. SUFFICES ASSUME q >= d + 1 PROVE FALSE
        BY <1>2
    <2>2. s * q >= s * (d + 1)
        BY <2>1, <1>2
    <2> QED BY <2>2, <1>2
<1>5. d = q
    BY <1>2, <1>3, <1>4
<1> QED BY <1>2, <1>5 DEF d, m

(* Block n is the p-th of epoch e, with epochs of s blocks. *)
IsPlace(n, s, e, p) ==
    /\ s \in Nat \ {0} /\ e \in Nat /\ p \in 1..s /\ n \in Nat
    /\ n = (e - 1) * s + p

(* The closed formulas invert that (istanbul.rs:9-26), whatever the epoch  *)
(* size.                                                                   *)
LEMMA Formulas ==
    ASSUME NEW n, NEW s, NEW e, NEW p, IsPlace(n, s, e, p)
    PROVE  /\ get_number_within_epoch(n, s) = p
           /\ get_epoch_number(n, s) = e
<1> USE DEF IsPlace
<1>1. CASE p = s
    <2>1. (e - 1) * s = e * s - s
        OBVIOUS
    <2>2. n = e * s + 0 /\ 0 \in 0..s - 1
        BY <1>1, <2>1
    <2>3. n \div s = e /\ n % s = 0
        BY <2>2, Quotient
    <2> QED BY <1>1, <2>3 DEF get_number_within_epoch, get_epoch_number,
                              is_last_block_of_epoch
<1>2. CASE p # s
    <2>1. e # 0
        BY <1>2
    <2>2. e - 1 \in Nat /\ p \in 0..s - 1
        BY <2>1, <1>2
    <2>3. n \div s = e - 1 /\ n % s = p
        BY <2>2, Quotient
    <2> QED BY <1>2, <2>3 DEF get_number_within_epoch, get_epoch_number,
                              is_last_block_of_epoch
<1> QED BY <1>1, <1>2

-----------------------------------------------------------------------------
(* Counting the members of a set of places up to a place. *)
LEMMA CountUpTo ==
    ASSUME NEW n \in Nat, NEW K \in SUBSET (1..n)
    PROVE  /\ IsFiniteSet(K)
           /\ Cardinality(K) \in 0..n
           /\ \A m \in Nat :
                /\ IsFiniteSet({j \in K : j <= m})
                /\ Cardinality({j \in K : j <= m}) \in Nat
<1>1. IsFiniteSet(1..n) /\ Cardinality(1..n) = n
    BY FS_Interval
<1>2. IsFiniteSet(K) /\ Cardinality(K) <= n
    BY <1>1, FS_Subset
<1>3. Cardinality(K) \in Nat
    BY <1>2, FS_CardinalityType
<1>4. ASSUME NEW m \in Nat
      PROVE  /\ IsFiniteSet({j \in K : j <= m})
             /\ Cardinality({j \in K : j <= m}) \in Nat
    <2>1. {j \in K : j <= m} \in SUBSET K
        OBVIOUS
    <2>2. IsFiniteSet({j \in K : j <= m})
        BY <1>2, <2>1, FS_Subset
    <2>3. QED
        BY <2>2, FS_CardinalityType
<1>5. QED
    BY <1>2, <1>3, <1>4

(* A set of places has, for every k up to its cardinality, a k-th member.  *)
LEMMA NthExists ==
    ASSUME NEW n \in Nat, NEW K \in SUBSET (1..n),
           NEW k \in 1..Cardinality(K)
    PROVE  /\ Nth(K, k) \in K
           /\ Cardinality({j \in K : j <= Nth(K, k)}) = k
<1> DEFINE Count(m) == Cardinality({j \in K : j <= m})
           Reached == {m \in Nat : Count(m) >= k}
<1>0. /\ IsFiniteSet(K) /\ Cardinality(K) \in Nat
      /\ \A m \in Nat : IsFiniteSet({j \in K : j <= m}) /\ Count(m) \in Nat
      /\ \A j \in K : j \in Nat /\ 1 <= j /\ j <= n
      /\ k \in Int
    <2>1. \A j \in K : j \in 1..n
        OBVIOUS
    <2>2. \A j \in K : j \in Nat /\ 1 <= j /\ j <= n
        BY <2>1
    <2>3. QED
        BY <2>2, CountUpTo
<1>1. n \in Reached
    <2>1. {j \in K : j <= n} = K
        BY <1>0, Zenon
    <2>2. QED
        BY <2>1, <1>0
<1>2. PICK m \in Reached : \A y \in Reached : m <= y
    <2>1. Reached \in SUBSET Nat
        OBVIOUS
    <2> HIDE DEF Reached
    <2>2. QED
        BY <1>1, <2>1, LeastNatural
<1>3. m # 0
    <2>0. \A j \in K : ~ (j <= 0)
        BY <1>0
    <2>1. {j \in K : j <= 0} = {}
        BY <2>0, Zenon
    <2>2. Count(0) = 0
        BY <2>1, FS_EmptySet
    <2>3. QED
        BY <2>2
<1>4. m \in Nat /\ m - 1 \in Nat /\ Count(m) >= k
    BY <1>3
<1>5. Count(m - 1) < k
    <2>1. m - 1 \notin Reached
        <3>1. ~ (m <= m - 1)
            BY <1>4
        <3> HIDE DEF Reached
        <3>2. QED
            BY <1>2, <3>1
    <2>2. ~ (Count(m - 1) >= k)
        BY <2>1, <1>4
    <2>3. Count(m - 1) \in Nat
        BY <1>0, <1>4
    <2> HIDE DEF Count
    <2>4. QED
        BY <2>2, <2>3, <1>0
<1>6. m \in K
    <2>1. SUFFICES ASSUME m \notin K PROVE FALSE
        OBVIOUS
    <2>2. \A j \in K : j <= m <=> j <= m - 1
        BY <2>1, <1>0, <1>4
    <2>3. {j \in K : j <= m} = {j \in K : j <= m - 1}
        BY <2>2, Zenon
    <2>4. Count(m) = Count(m - 1)
        BY <2>3
    <2>5. Count(m) \in Nat
        BY <1>0, <1>4
    <2> HIDE DEF Count
    <2>6. QED
        BY <2>4, <2>5, <1>0, <1>4, <1>5
<1>7. Count(m) = Count(m - 1) + 1
    <2>1. \A j \in K : j <= m <=> j <= m - 1 \/ j = m
        BY <1>0, <1>4
    <2>2. {j \in K : j <= m} = {j \in K : j <= m - 1} \cup {m}
        BY <2>1, <1>6, Zenon
    <2>3. m \notin {j \in K : j <= m - 1}
        BY <1>4
    <2>4. QED
        BY <2>2, <2>3, <1>0, <1>4, FS_AddElement
<1>8. Count(m) = k
    <2>1. Count(m - 1) \in Nat
        BY <1>0, <1>4
    <2> HIDE DEF Count
    <2>2. QED
        BY <2>1, <1>0, <1>4, <1>5, <1>7
<1>9. \E i \in K : Cardinality({j \in K : j <= i}) = k
    BY <1>6, <1>8
<1>10. QED
    BY <1>9 DEF Nth

(* filter() keeps the type of the validators, and the k-th validator it    *)
(* returns is the one at the k-th kept place.                              *)
LEMMA FilteredValidators ==
    ASSUME NEW V, NEW validators \in Seq(V), NEW bitmap
    PROVE  LET kept == KeptPlaces(Len(validators), bitmap)
               filtered == filtered_validators(validators, bitmap)
           IN  /\ filtered \in Seq(V)
               /\ DOMAIN filtered = 1..Cardinality(kept)
               /\ \A k \in DOMAIN filtered :
                    /\ Nth(kept, k) \in DOMAIN validators
                    /\ filtered[k] = validators[Nth(kept, k)]
                    /\ Cardinality({j \in kept : j <= Nth(kept, k)}) = k
<1> DEFINE n == Len(validators)
           kept == KeptPlaces(n, bitmap)
           filtered == filtered_validators(validators, bitmap)
<1>1. n \in Nat /\ DOMAIN validators = 1..n
    OBVIOUS
<1>2. kept \in SUBSET (1..n)
    BY DEF KeptPlaces
<1>3. Cardinality(kept) \in Nat
    BY <1>1, <1>2, CountUpTo
<1>4. filtered = [k \in 1..Cardinality(kept) |-> validators[Nth(kept, k)]]
    BY DEF filtered_validators
<1> HIDE DEF kept, filtered
<1>5. ASSUME NEW k \in 1..Cardinality(kept)
      PROVE  /\ Nth(kept, k) \in DOMAIN validators
             /\ filtered[k] = validators[Nth(kept, k)]
             /\ filtered[k] \in V
             /\ Cardinality({j \in kept : j <= Nth(kept, k)}) = k
    <2>1. /\ Nth(kept, k) \in kept
          /\ Cardinality({j \in kept : j <= Nth(kept, k)}) = k
        BY <1>1, <1>2, NthExists
    <2>2. Nth(kept, k) \in 1..n
        BY <2>1, <1>2
    <2>3. filtered[k] = validators[Nth(kept, k)]
        BY <1>4
    <2>4. validators[Nth(kept, k)] \in V
        BY <2>2, <1>1
    <2>5. QED
        BY <2>1, <2>2, <2>3, <2>4, <1>1
<1>6. DOMAIN filtered = 1..Cardinality(kept)
    BY <1>4
<1>7. filtered \in Seq(V)
    <2>1. filtered \in [1..Cardinality(kept) -> V]
        BY <1>4, <1>5
    <2>2. QED
        BY <2>1, <1>3
<1>8. QED
    BY <1>5, <1>6, <1>7 DEF kept, filtered

(* Removing positions gives nobody a second place. *)
LEMMA FilteredUnique ==
    ASSUME NEW V, NEW validators \in Seq(V), NEW bitmap,
           UniqueAddress(validators)
    PROVE  UniqueAddress(filtered_validators(validators, bitmap))
<1> DEFINE kept == KeptPlaces(Len(validators), bitmap)
           filtered == filtered_validators(validators, bitmap)
<1> SUFFICES ASSUME NEW i \in DOMAIN filtered, NEW j \in DOMAIN filtered,
                    filtered[i].address = filtered[j].address
             PROVE  i = j
    BY DEF UniqueAddress
<1>1. /\ Nth(kept, i) \in DOMAIN validators
      /\ Nth(kept, j) \in DOMAIN validators
      /\ filtered[i] = validators[Nth(kept, i)]
      /\ filtered[j] = validators[Nth(kept, j)]
      /\ Cardinality({p \in kept : p <= Nth(kept, i)}) = i
      /\ Cardinality({p \in kept : p <= Nth(kept, j)}) = j
    BY FilteredValidators
<1>2. Nth(kept, i) = Nth(kept, j)
    <2> HIDE DEF kept, filtered
    <2>1. QED
        BY <1>1 DEF UniqueAddress
<1>3. QED
    BY <1>1, <1>2

(* remove_validators returns a set of the same validators, still with one  *)
(* place each, and the same set when it refuses.                           *)
LEMMA RemoveKeepsType ==
    ASSUME NEW V, NEW validators \in Seq(V), NEW bitmap
    PROVE  LET removal == remove_validators(validators, bitmap)
           IN  /\ removal.ok \in BOOLEAN
               /\ removal.validators \in Seq(V)
               /\ UniqueAddress(validators)
                    => UniqueAddress(removal.validators)
               /\ ~ removal.ok => removal.validators = validators
<1> DEFINE removal == remove_validators(validators, bitmap)
           filtered == filtered_validators(validators, bitmap)
<1>1. \/ removal = [ok |-> TRUE, validators |-> validators]
      \/ removal = [ok |-> FALSE, validators |-> validators]
      \/ removal = [ok |-> TRUE, validators |-> filtered]
    BY DEF remove_validators
<1>2. filtered \in Seq(V)
    BY FilteredValidators
<1>3. UniqueAddress(validators) => UniqueAddress(filtered)
    BY FilteredUnique
<1> HIDE DEF removal, filtered
<1>4. /\ removal.ok \in BOOLEAN
      /\ removal.validators \in Seq(V)
      /\ UniqueAddress(validators) => UniqueAddress(removal.validators)
      /\ ~ removal.ok => removal.validators = validators
    <2>1. \/ removal.ok = TRUE /\ removal.validators = validators
          \/ removal.ok = FALSE /\ removal.validators = validators
          \/ removal.ok = TRUE /\ removal.validators = filtered
        BY <1>1
    <2>2. QED
        BY <2>1, <1>2, <1>3
<1>5. QED
    BY <1>4 DEF removal

(* add_validators appends, or changes nothing: a list that names nobody    *)
(* twice leaves everybody with one place.                                  *)
LEMMA AddKeepsType ==
    ASSUME NEW V, NEW validators \in Seq(V), NEW added \in Seq(V)
    PROVE  LET addition == add_validators(validators, added)
           IN  /\ addition.ok \in BOOLEAN
               /\ addition.validators \in Seq(V)
               /\ UniqueAddress(validators) /\ UniqueAddress(added)
                    => UniqueAddress(addition.validators)
               /\ ~ addition.ok => addition.validators = validators
<1> DEFINE addition == add_validators(validators, added)
           joined == validators \o added
<1>1. \/ addition = [ok |-> FALSE, validators |-> validators]
      \/ /\ Addresses(validators) \cap Addresses(added) = {}
         /\ addition = [ok |-> TRUE, validators |-> joined]
    BY DEF add_validators
<1>2. joined \in Seq(V)
    OBVIOUS
<1>3. ASSUME Addresses(validators) \cap Addresses(added) = {},
             UniqueAddress(validators), UniqueAddress(added)
      PROVE  UniqueAddress(joined)
    <2>1. \A i \in DOMAIN validators, j \in DOMAIN added :
                validators[i].address # added[j].address
        BY <1>3, Zenon DEF Addresses
    <2>2. SUFFICES ASSUME NEW i \in DOMAIN joined, NEW j \in DOMAIN joined,
                          joined[i].address = joined[j].address
                   PROVE  i = j
        BY DEF UniqueAddress
    <2> DEFINE m == Len(validators)
    <2>3. /\ m \in Nat /\ Len(added) \in Nat
          /\ DOMAIN validators = 1..m /\ DOMAIN added = 1..Len(added)
          /\ i \in 1..(m + Len(added)) /\ j \in 1..(m + Len(added))
        OBVIOUS
    <2>4. \A p \in 1..(m + Len(added)) :
            joined[p] = IF p <= m THEN validators[p] ELSE added[p - m]
        OBVIOUS
    <2>5. CASE i <= m /\ j <= m
        BY <2>2, <2>3, <2>4, <2>5, <1>3 DEF UniqueAddress
    <2>6. CASE i > m /\ j > m
        <3>1. i - m \in DOMAIN added /\ j - m \in DOMAIN added
            BY <2>3, <2>6
        <3>2. i - m = j - m
            BY <2>2, <2>3, <2>4, <2>6, <3>1, <1>3 DEF UniqueAddress
        <3>3. QED
            BY <3>2, <2>3
    <2>7. CASE i <= m /\ j > m
        <3>1. i \in DOMAIN validators /\ j - m \in DOMAIN added
            BY <2>3, <2>7
        <3>2. QED
            BY <2>1, <2>2, <2>3, <2>4, <2>7, <3>1
    <2>8. CASE i > m /\ j <= m
        <3>1. j \in DOMAIN validators /\ i - m \in DOMAIN added
            BY <2>3, <2>8
        <3>2. QED
            BY <2>1, <2>2, <2>3, <2>4, <2>8, <3>1
    <2>9. QED
        BY <2>3, <2>5, <2>6, <2>7, <2>8
<1> HIDE DEF addition, joined
<1>4. /\ addition.ok \in BOOLEAN
      /\ addition.validators \in Seq(V)
      /\ UniqueAddress(validators) /\ UniqueAddress(added)
            => UniqueAddress(addition.validators)
      /\ ~ addition.ok => addition.validators = validators
    <2>1. \/ addition.ok = FALSE /\ addition.validators = validators
          \/ /\ Addresses(validators) \cap Addresses(added) = {}
             /\ addition.ok = TRUE /\ addition.validators = joined
        BY <1>1
    <2>2. QED
        BY <2>1, <1>2, <1>3
<1>5. QED
    BY <1>4 DEF addition

-----------------------------------------------------------------------------
(* What a good seal establishes: two thirds of the set signed the hash.    *)
QuorumSigned(h, validators, seal) ==
    LET signers == Signers(validators, seal.bitmap)
    IN  /\ validators # <<>>
        /\ ~ (Cardinality(signers) < min_quorum_size(Len(validators)))
        /\ seal.signature = [of |-> prepare_commited_seal(h, seal.round),
                             by |-> aggregate(validators, signers)]

SealVerdicts == {"Panic", "BlsInvalidPublicKey", "MissingSeals",
                 "BlsInvalidSignature", "BlsVerifyError", "Ok"}

(* A seal's verdict is one of six, and "Ok" means a quorum of the set      *)
(* signed this very hash.                                                  *)
LEMMA SealVerdict ==
    ASSUME NEW h, NEW validators, NEW seal
    PROVE  /\ verify_aggregated_seal(h, validators, seal) \in SealVerdicts
           /\ verify_aggregated_seal(h, validators, seal) = "Ok"
                => QuorumSigned(h, validators, seal)
<1> DEFINE signers == Signers(validators, seal.bitmap)
           bad == \E i \in signers : validators[i].public_key \in BadKeys
           few == Cardinality(signers) < min_quorum_size(Len(validators))
           match == seal.signature =
                        [of |-> prepare_commited_seal(h, seal.round),
                         by |-> aggregate(validators, signers)]
           none == seal.signature.by = NoKeys
           verdict == verify_aggregated_seal(h, validators, seal)
<1>1. verdict = IF validators = <<>> THEN "Panic"
                ELSE IF bad THEN "BlsInvalidPublicKey"
                ELSE IF few THEN "MissingSeals"
                ELSE IF none THEN "BlsInvalidSignature"
                ELSE IF match THEN "Ok" ELSE "BlsVerifyError"
    BY Zenon DEF verify_aggregated_seal
<1>2. validators # <<>> /\ ~ few /\ match => QuorumSigned(h, validators, seal)
    BY Zenon DEF QuorumSigned
<1> HIDE DEF bad, few, match, none, verdict
<1>3. /\ verdict \in SealVerdicts
      /\ verdict = "Ok" => ~ few /\ match /\ validators # <<>>
    BY <1>1 DEF SealVerdicts
<1>4. QED
    BY <1>2, <1>3 DEF verdict

(* The signers a bitmap names are finitely many. *)
LEMMA SignersCount ==
    ASSUME NEW V, NEW validators \in Seq(V), NEW bitmap
    PROVE  Cardinality(Signers(validators, bitmap)) \in Nat
<1>1. Signers(validators, bitmap) \in SUBSET (1..Len(validators))
    BY DEF Signers
<1>2. QED
    BY <1>1, CountUpTo
=============================================================================
