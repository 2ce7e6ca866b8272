---------------------------- MODULE Data_proofs ----------------------------
(***************************************************************************)
(* What is shown once of the data that the modules share: recursion over   *)
(* numbers and sequences, places in their order, and what the operations   *)
(* of OrderedDict keep and return, for every dictionary with keys of K and *)
(* values of V.                                                            *)
(***************************************************************************)
EXTENDS OrderedDict, Places, Integers, Sequences, SequenceTheorems, FiniteSetTheorems,
        FunctionTheorems, WellFoundedInduction, TLAPS

-----------------------------------------------------------------------------
(***************************************************************************)
(* Recursion                                                               *)
(*                                                                         *)
(* What a recursive definition computes is shown by a least number at      *)
(* which it would not: there is none.                                      *)
(***************************************************************************)
LEMMA LeastNatural ==
  ASSUME NEW T \in SUBSET Nat, T # {}
  PROVE  \E m \in T : \A n \in T : m <= n
<1>1. PICK m \in T : \A n \in T : <<n, m>> \notin OpToRel(<, Nat)
  BY NatLessThanWellFounded, WFMin
<1>2. \A n \in T : ~ (n < m)
  BY <1>1 DEF OpToRel
<1> QED
  BY <1>2

\* And a number of a bounded set is the greatest.
LEMMA GreatestBelow ==
  ASSUME NEW n \in Nat, NEW T \in SUBSET (0 .. n), T # {}
  PROVE  \E m \in T : \A k \in T : m >= k
<1> DEFINE S == {n - k : k \in T}
<1>1. S \in SUBSET Nat /\ S # {}
  <2>1. \A k \in T : n - k \in Nat
    OBVIOUS
  <2> QED
    BY <2>1
<1>2. PICK m \in S : \A k \in S : m <= k
  <2> HIDE DEF S
  <2> QED
    BY <1>1, LeastNatural
<1>3. PICK k \in T : m = n - k
  OBVIOUS
<1>4. \A j \in T : k >= j
  <2> SUFFICES ASSUME NEW j \in T
               PROVE  k >= j
    OBVIOUS
  <2>1. n - k <= n - j
    BY <1>2, <1>3
  <2>2. k \in Int /\ j \in Int
    OBVIOUS
  <2> QED
    BY <2>1, <2>2
<1> QED
  BY <1>4

\* A function can be built up from its first value, one value after the other.
Builds(f, n, base, step) ==
  \A i \in 1..n : f[i] = IF i = 1 THEN base ELSE step[<<i, f[i - 1]>>]

LEMMA IterationExists ==
  ASSUME NEW S, NEW n \in Nat, NEW base \in S, NEW step \in [(1..n) \X S -> S]
  PROVE  \E f \in [1..n -> S] : Builds(f, n, base, step)
<1> USE DEF Builds
<1> DEFINE Built(m) == \E f \in [1..m -> S] : Builds(f, m, base, step)
           T == {m \in 0..n : ~ Built(m)}
<1>1. Built(0)
  <2>1. [i \in 1..0 |-> base] \in [1..0 -> S] /\ 1..0 = {}
    OBVIOUS
  <2> QED
    BY <2>1
<1>2. ASSUME NEW m \in 0..(n - 1), Built(m)
      PROVE  Built(m + 1)
  <2>1. PICK f \in [1..m -> S] : Builds(f, m, base, step)
    BY <1>2
  <2> DEFINE next == IF m = 0 THEN base ELSE step[<<m + 1, f[m]>>]
             g == [i \in 1..(m + 1) |-> IF i = m + 1 THEN next ELSE f[i]]
  <2>2. next \in S
    <3>1. m # 0 => <<m + 1, f[m]>> \in (1..n) \X S
      OBVIOUS
    <3> QED
      BY <3>1
  <2> HIDE DEF next
  <2>3. g \in [1..(m + 1) -> S] /\ g[m + 1] = next /\ \A i \in 1..m : g[i] = f[i]
    BY <2>2
  <2>4. ASSUME NEW i \in 1..(m + 1)
        PROVE  g[i] = IF i = 1 THEN base ELSE step[<<i, g[i - 1]>>]
    <3> HIDE DEF g
    <3>1. CASE i \in 1..m
      <4>1. g[i] = f[i] /\ (i # 1 => i - 1 \in 1..m)
        BY <2>3, <3>1
      <4>2. i # 1 => g[i - 1] = f[i - 1]
        BY <2>3, <4>1
      <4> QED
        BY <2>1, <3>1, <4>1, <4>2
    <3>2. CASE i = m + 1
      <4>1. g[i] = next /\ (m # 0 => g[i - 1] = f[m])
        BY <2>3, <3>2
      <4>2. (m = 0 <=> i = 1) /\ (m # 0 => next = step[<<i, f[m]>>]) /\ (m = 0 => next = base)
        BY <3>2 DEF next
      <4> QED
        BY <4>1, <4>2
    <3> QED
      BY <3>1, <3>2
  <2> HIDE DEF g
  <2> QED
    BY <2>3, <2>4
<1> HIDE DEF Built
<1>3. T = {}
  <2> SUFFICES ASSUME T # {}
               PROVE  FALSE
    OBVIOUS
  <2>1. PICK m \in T : \A k \in T : m <= k
    <3>1. T \in SUBSET Nat
      OBVIOUS
    <3> HIDE DEF T
    <3> QED
      BY <3>1, LeastNatural
  <2>2. m \in 1..n /\ m - 1 \in 0..n /\ Built(m - 1)
    BY <1>1, <2>1
  <2> QED
    BY <1>2, <2>1, <2>2
<1>4. Built(n)
  BY <1>3
<1> QED
  BY <1>4 DEF Built

\* The same from nought.
BuildsFromZero(f, n, base, step) ==
  f[0] = base /\ \A i \in 1..n : f[i] = step[<<i, f[i - 1]>>]

LEMMA IterationFromZero ==
  ASSUME NEW S, NEW n \in Nat, NEW base \in S, NEW step \in [(1..n) \X S -> S]
  PROVE  \E f \in [0..n -> S] : BuildsFromZero(f, n, base, step)
<1> DEFINE first == IF n = 0 THEN base ELSE step[<<1, base>>]
<1>1. first \in S
  <2>1. n # 0 => <<1, base>> \in (1..n) \X S
    OBVIOUS
  <2> QED
    BY <2>1
<1> HIDE DEF first
<1>2. PICK g \in [1..n -> S] : Builds(g, n, first, step)
  BY <1>1, IterationExists
<1> DEFINE f == [i \in 0..n |-> IF i = 0 THEN base ELSE g[i]]
<1>3. f \in [0..n -> S] /\ f[0] = base /\ \A i \in 1..n : f[i] = g[i]
  OBVIOUS
<1> HIDE DEF f
<1>4. ASSUME NEW i \in 1..n
      PROVE  f[i] = step[<<i, f[i - 1]>>]
  <2>1. CASE i = 1
    <3>1. 1 \in 1..n /\ n # 0
      BY <2>1
    <3>2. g[1] = first
      BY <1>2, <3>1 DEF Builds
    <3>3. f[1] = first /\ f[0] = base
      BY <1>3, <3>1, <3>2
    <3>4. step[<<1, base>>] = step[<<1, f[1 - 1]>>]
      BY <3>3
    <3> QED
      BY <2>1, <3>1, <3>3, <3>4 DEF first
  <2>2. CASE i # 1
    <3>1. i - 1 \in 1..n
      BY <2>2
    <3> QED
      BY <1>2, <1>3, <2>2, <3>1 DEF Builds
  <2> QED
    BY <2>1, <2>2
<1> QED
  BY <1>3, <1>4 DEF BuildsFromZero

\* The same without an end, for a step that does not depend on the number.
LEMMA IterationOverNat ==
  ASSUME NEW S, NEW base \in S, NEW step \in [S -> S]
  PROVE  \E f \in [Nat -> S] : f[0] = base /\ \A k \in Nat : f[k + 1] = step[f[k]]
<1> DEFINE Upto(g, n) == /\ g \in [0..n -> S] /\ g[0] = base
                         /\ \A i \in 0..(n - 1) : g[i + 1] = step[g[i]]
<1>1. ASSUME NEW n \in Nat
      PROVE  \E g : Upto(g, n)
  <2> DEFINE next == [x \in (1..n) \X S |-> step[x[2]]]
  <2>1. next \in [(1..n) \X S -> S]
    OBVIOUS
  <2>2. \A i \in 1..n, x \in S : next[<<i, x>>] = step[x]
    OBVIOUS
  <2> HIDE DEF next
  <2>3. PICK g \in [0..n -> S] : BuildsFromZero(g, n, base, next)
    BY <2>1, IterationFromZero
  <2>4. ASSUME NEW i \in 0..(n - 1)
        PROVE  g[i + 1] = step[g[i]]
    <3>1. i + 1 \in 1..n /\ (i + 1) - 1 = i /\ g[i] \in S
      BY <2>3
    <3>2. g[i + 1] = next[<<i + 1, g[(i + 1) - 1]>>]
      BY <2>3, <3>1 DEF BuildsFromZero
    <3> QED
      BY <2>2, <3>1, <3>2
  <2> QED
    BY <2>3, <2>4 DEF BuildsFromZero
<1>2. ASSUME NEW m \in Nat, NEW n \in Nat, NEW g, NEW h, Upto(g, m), Upto(h, n),
             NEW k \in Nat, k <= m, k <= n
      PROVE  g[k] = h[k]
  <2> DEFINE T == {j \in Nat : j <= m /\ j <= n /\ g[j] # h[j]}
  <2> SUFFICES ASSUME T # {} PROVE FALSE
    BY <1>2
  <2>1. T \in SUBSET Nat
    OBVIOUS
  <2>2. PICK j \in T : \A i \in T : j <= i
    BY <2>1, LeastNatural
  <2>3. j # 0
    BY <1>2, <2>2
  <2>4. /\ j - 1 \in Nat /\ j - 1 \in 0..(m - 1) /\ j - 1 \in 0..(n - 1)
        /\ (j - 1) + 1 = j /\ ~ (j <= j - 1)
    BY <2>2, <2>3
  <2>5. g[j - 1] = h[j - 1]
    BY <2>2, <2>4
  <2>6. g[j] = step[g[j - 1]] /\ h[j] = step[h[j - 1]]
    BY <1>2, <2>4
  <2> QED
    BY <2>2, <2>5, <2>6
<1> HIDE DEF Upto
<1> DEFINE chosen(n) == CHOOSE g : Upto(g, n)
<1>3. \A n \in Nat : Upto(chosen(n), n)
  BY <1>1
<1> HIDE DEF chosen
<1> DEFINE f == [n \in Nat |-> chosen(n)[n]]
<1>4. \A n \in Nat : chosen(n) \in [0..n -> S] /\ chosen(n)[0] = base
  BY <1>3 DEF Upto
<1>5. f \in [Nat -> S]
  BY <1>4
<1>6. f[0] = base
  BY <1>4
<1>7. ASSUME NEW k \in Nat PROVE f[k + 1] = step[f[k]]
  <2>1. k + 1 \in Nat /\ k \in 0..((k + 1) - 1) /\ k <= k + 1 /\ k <= k
    OBVIOUS
  <2>2. chosen(k + 1)[k + 1] = step[chosen(k + 1)[k]]
    BY <1>3, <2>1 DEF Upto
  <2>3. chosen(k + 1)[k] = chosen(k)[k]
    BY <1>2, <1>3, <2>1
  <2> QED
    BY <2>1, <2>2, <2>3
<1> QED
  BY <1>5, <1>6, <1>7

\* A set that has the empty sequence, and every sequence with one more element
\* than one that it has, has all sequences.
LEMMA SequencesFromEmpty ==
  ASSUME NEW S, NEW T, T \subseteq Seq(S), <<>> \in T,
         \A s \in T, x \in S : Append(s, x) \in T
  PROVE  T = Seq(S)
<1> DEFINE lengths == {n \in Nat : \E s \in Seq(S) \ T : Len(s) = n}
<1>1. lengths = {}
  <2> SUFFICES ASSUME lengths # {}
               PROVE  FALSE
    OBVIOUS
  <2>1. PICK n \in lengths : \A m \in lengths : n <= m
    <3>1. lengths \in SUBSET Nat
      OBVIOUS
    <3> HIDE DEF lengths
    <3> QED
      BY <3>1, LeastNatural
  <2>2. PICK s \in Seq(S) \ T : Len(s) = n
    BY <2>1
  <2>3. s # <<>>
    BY <2>2
  <2>4. PICK t \in Seq(S), x \in S : s = Append(t, x)
    BY <2>2, <2>3, SequenceEmptyOrAppend
  <2>5. Len(s) = Len(t) + 1 /\ Len(t) \in Nat
    BY <2>4
  <2>6. t \notin T
    BY <2>2, <2>4
  <2>7. Len(t) \in lengths
    BY <2>5, <2>6
  <2> HIDE DEF lengths
  <2> QED
    BY <2>1, <2>2, <2>5, <2>7
<1> QED
  <2>1. \A s \in Seq(S) : Len(s) \in Nat
    OBVIOUS
  <2> QED
    BY <1>1, <2>1

-----------------------------------------------------------------------------
(***************************************************************************)
(* Ordered dictionaries                                                    *)
(***************************************************************************)
\* The dictionary a cache starts with is ordered and has no keys.
LEMMA NoKeysOrdered ==
  ASSUME NEW K, NEW V
  PROVE  IsOrdered(NoKeys, K, V) /\ Keys(NoKeys) = {}
BY FS_EmptySet DEF IsOrdered, NoKeys, Keys

\* Deleting keys keeps the order of the others.
LEMMA WithoutOrdered ==
  ASSUME NEW K, NEW V, NEW d, IsOrdered(d, K, V), NEW S
  PROVE  /\ IsOrdered(Without(d, S), K, V)
         /\ Keys(Without(d, S)) = Keys(d) \ S
         /\ \A k \in Keys(d) \ S : Without(d, S).val[k] = d.val[k]
<1> DEFINE e == Without(d, S)
<1>1. Keys(e) = Keys(d) \ S
  BY DEF Without, Keys
<1>2. IsFiniteSet(Keys(e)) /\ Keys(e) \in SUBSET K
  BY <1>1, FS_Subset DEF IsOrdered
<1>3. \A k \in Keys(d) \ S : e.val[k] = d.val[k]
  BY DEF Without, Keys
<1>4. e.val \in [Keys(e) -> V]
  BY <1>1, <1>3 DEF IsOrdered, Without, Keys
<1>5. e.before = {p \in d.before : p[1] \notin S /\ p[2] \notin S}
  BY DEF Without
<1>6. \A j, k \in Keys(e) : <<j, k>> \in e.before <=> <<j, k>> \in d.before
  BY <1>1, <1>5
<1>7. e.before \in SUBSET (Keys(e) \X Keys(e))
  BY <1>1, <1>5 DEF IsOrdered
<1>8. e = [val |-> e.val, before |-> e.before]
  BY DEF Without
<1> QED
  BY <1>1, <1>2, <1>3, <1>4, <1>6, <1>7, <1>8 DEF IsOrdered

\* Moving a key to the end keeps the order of the others.
LEMMA MoveToEndOrdered ==
  ASSUME NEW K, NEW V, NEW d, IsOrdered(d, K, V), NEW k \in Keys(d)
  PROVE  /\ IsOrdered(MoveToEnd(d, k), K, V)
         /\ Keys(MoveToEnd(d, k)) = Keys(d)
         /\ MoveToEnd(d, k).val = d.val
<1> DEFINE e == MoveToEnd(d, k)
<1>1. e.val = d.val /\ Keys(e) = Keys(d)
  BY DEF MoveToEnd, Keys
<1>2. e.before = {p \in d.before : p[1] # k /\ p[2] # k} \cup ((Keys(d) \ {k}) \X {k})
  BY DEF MoveToEnd
<1>3. \A i, j \in Keys(d) : <<i, j>> \in e.before <=>
        \/ i # k /\ j # k /\ <<i, j>> \in d.before
        \/ i # k /\ j = k
  BY <1>2
<1>4. e.before \in SUBSET (Keys(d) \X Keys(d))
  BY <1>2 DEF IsOrdered
<1>5. e = [val |-> e.val, before |-> e.before]
  BY DEF MoveToEnd
<1>6. /\ \A j \in Keys(d) : <<j, j>> \notin e.before
      /\ \A i, j \in Keys(d) : i # j => <<i, j>> \in e.before \/ <<j, i>> \in e.before
  BY <1>3 DEF IsOrdered
<1>7. \A i, j, l \in Keys(d) :
        <<i, j>> \in e.before /\ <<j, l>> \in e.before => <<i, l>> \in e.before
  BY <1>3 DEF IsOrdered
<1> QED
  BY <1>1, <1>4, <1>5, <1>6, <1>7 DEF IsOrdered

\* Assigning to a key keeps the order; a new key is the last one.
LEMMA AssignOrdered ==
  ASSUME NEW K, NEW V, NEW d, IsOrdered(d, K, V), NEW k \in K, NEW v \in V
  PROVE  /\ IsOrdered(Assign(d, k, v), K, V)
         /\ Keys(Assign(d, k, v)) = Keys(d) \cup {k}
         /\ \A j \in Keys(d) \cup {k} :
              Assign(d, k, v).val[j] = IF j = k THEN v ELSE d.val[j]
<1> DEFINE e == Assign(d, k, v)
<1>1. Keys(e) = Keys(d) \cup {k}
  BY DEF Assign, Keys
<1>2. \A j \in Keys(d) \cup {k} : e.val[j] = IF j = k THEN v ELSE d.val[j]
  BY DEF Assign, Keys
<1>3. e.val \in [Keys(e) -> V]
  BY <1>1, <1>2 DEF Assign, IsOrdered, Keys
<1>4. IsFiniteSet(Keys(e)) /\ Keys(e) \in SUBSET K
  BY <1>1, FS_AddElement DEF IsOrdered
<1>5. e = [val |-> e.val, before |-> e.before]
  BY DEF Assign
<1>6. CASE k \in Keys(d)
  BY <1>1, <1>2, <1>3, <1>4, <1>5, <1>6 DEF IsOrdered, Assign
<1>7. CASE k \notin Keys(d)
  <2>1. e.before = d.before \cup (Keys(d) \X {k})
    BY <1>7 DEF Assign
  <2>2. \A i, j \in Keys(e) : <<i, j>> \in e.before <=>
          \/ i \in Keys(d) /\ j \in Keys(d) /\ <<i, j>> \in d.before
          \/ i \in Keys(d) /\ j = k
    BY <2>1, <1>1, <1>7 DEF IsOrdered
  <2>3. e.before \in SUBSET (Keys(e) \X Keys(e))
    BY <2>1, <1>1 DEF IsOrdered
  <2>4. /\ \A j \in Keys(e) : <<j, j>> \notin e.before
        /\ \A i, j \in Keys(e) : i # j => <<i, j>> \in e.before \/ <<j, i>> \in e.before
    BY <2>2, <1>1, <1>7 DEF IsOrdered
  <2>5. \A i, j, l \in Keys(e) :
          <<i, j>> \in e.before /\ <<j, l>> \in e.before => <<i, l>> \in e.before
    BY <2>2, <1>1, <1>7 DEF IsOrdered
  <2> QED
    BY <1>1, <1>2, <1>3, <1>4, <1>5, <2>3, <2>4, <2>5 DEF IsOrdered
<1> QED
  BY <1>6, <1>7

\* A dictionary with other values for the same keys.
LEMMA SameOrder ==
  ASSUME NEW K, NEW V, NEW W, NEW d, IsOrdered(d, K, V), NEW f \in [Keys(d) -> W]
  PROVE  /\ IsOrdered([d EXCEPT !.val = f], K, W)
         /\ Keys([d EXCEPT !.val = f]) = Keys(d)
         /\ [d EXCEPT !.val = f].val = f
<1>1. [d EXCEPT !.val = f] = [val |-> f, before |-> d.before]
  BY DEF IsOrdered
<1> QED
  BY <1>1 DEF IsOrdered, Keys

\* Among some finite sets one includes no other.
LEMMA SmallestExists ==
  ASSUME NEW D, NEW T, T \subseteq FiniteSubsetsOf(D), T # {}
  PROVE  \E x \in T : \A y \in T : <<y, x>> \notin StrictSubsetOrdering(D)
BY FS_StrictSubsetOrderingWellFounded, WFMin

\* popitem(last=False) finds a key in every dictionary that has one: the keys
\* are finitely many, so one of them has no other before it.
LEMMA OldestIsFirst ==
  ASSUME NEW K, NEW V, NEW d, IsOrdered(d, K, V), Keys(d) # {}
  PROVE  /\ Oldest(d) \in Keys(d)
         /\ \A j \in Keys(d) \ {Oldest(d)} : <<Oldest(d), j>> \in d.before
<1> DEFINE D == Keys(d)
           Pred(k) == {j \in D : <<j, k>> \in d.before}
           T == {Pred(k) : k \in D}
<1>1. IsFiniteSet(D)
  BY DEF IsOrdered
<1>2. T \subseteq FiniteSubsetsOf(D) /\ T # {}
  <2>1. \A k \in D : Pred(k) \in SUBSET D /\ IsFiniteSet(Pred(k))
    BY <1>1, FS_Subset
  <2> QED
    BY <2>1 DEF FiniteSubsetsOf
<1>3. PICK x \in T : \A y \in T : <<y, x>> \notin StrictSubsetOrdering(D)
  BY <1>2, SmallestExists
<1>4. PICK k \in D : x = Pred(k)
  BY <1>3
<1>5. ASSUME NEW j \in D \ {k}
      PROVE  <<k, j>> \in d.before
  <2>1. SUFFICES ASSUME <<k, j>> \notin d.before
                 PROVE  FALSE
    OBVIOUS
  <2>2. <<j, k>> \in d.before
    BY <2>1 DEF IsOrdered
  <2>3. Pred(j) \subseteq Pred(k)
    BY <2>2 DEF IsOrdered
  <2>4. j \in Pred(k) /\ j \notin Pred(j)
    BY <2>2 DEF IsOrdered
  <2>5. <<Pred(j), Pred(k)>> \in StrictSubsetOrdering(D)
    BY <2>3, <2>4 DEF StrictSubsetOrdering
  <2> QED
    BY <1>3, <1>4, <2>5
<1>6. \E i \in D : \A j \in D \ {i} : <<i, j>> \in d.before
  BY <1>5
<1> QED
  BY <1>6 DEF Oldest

\* It leaves one key fewer.
LEMMA PopOldestOrdered ==
  ASSUME NEW K, NEW V, NEW d, IsOrdered(d, K, V), Keys(d) # {}
  PROVE  /\ IsOrdered(PopOldest(d), K, V)
         /\ Keys(PopOldest(d)) = Keys(d) \ {Oldest(d)}
         /\ \A k \in Keys(PopOldest(d)) : PopOldest(d).val[k] = d.val[k]
         /\ Cardinality(Keys(d)) \in Nat
         /\ Cardinality(Keys(PopOldest(d))) = Cardinality(Keys(d)) - 1
<1>1. /\ IsOrdered(PopOldest(d), K, V)
      /\ Keys(PopOldest(d)) = Keys(d) \ {Oldest(d)}
      /\ \A k \in Keys(PopOldest(d)) : PopOldest(d).val[k] = d.val[k]
  BY WithoutOrdered DEF PopOldest
<1>2. IsFiniteSet(Keys(d)) /\ Oldest(d) \in Keys(d)
  BY OldestIsFirst DEF IsOrdered
<1> QED
  BY <1>1, <1>2, FS_RemoveElement, FS_CardinalityType

-----------------------------------------------------------------------------
(* Powers of two. *)

\* A set has twice as many subsets as it has without one of its elements.
LEMMA TwoPowers ==
  ASSUME NEW n \in Nat
  PROVE  2 ^ n \in Nat \ {0} /\ 2 ^ (n + 1) = 2 ^ n + 2 ^ n
<1> DEFINE S == 1..n
           T == 1..(n + 1)
           Y == {A \cup {n + 1} : A \in SUBSET S}
           f == [A \in SUBSET S |-> A \cup {n + 1}]
<1>1. /\ IsFiniteSet(S) /\ Cardinality(S) = n
      /\ IsFiniteSet(T) /\ Cardinality(T) = n + 1
  BY FS_Interval
<1>2. n + 1 \notin S /\ T = S \cup {n + 1}
  OBVIOUS
<1> HIDE DEF S, T
<1>3. /\ IsFiniteSet(SUBSET S) /\ Cardinality(SUBSET S) = 2 ^ n
      /\ IsFiniteSet(SUBSET T) /\ Cardinality(SUBSET T) = 2 ^ (n + 1)
  BY <1>1, FS_SUBSET
<1>4. f \in Bijection(SUBSET S, Y)
  <2>1. f \in [SUBSET S -> Y]
    OBVIOUS
  <2>2. \A A, B \in SUBSET S : f[A] = f[B] => A = B
    BY <1>2
  <2>3. \A y \in Y : \E A \in SUBSET S : f[A] = y
    OBVIOUS
  <2> QED
    BY <2>1, <2>2, <2>3, Fun_IsBij
<1>5. IsFiniteSet(Y) /\ Cardinality(Y) = 2 ^ n
  <2> HIDE DEF f, Y
  <2>1. ExistsBijection(SUBSET S, Y)
    BY <1>4 DEF ExistsBijection
  <2> QED
    BY <1>3, <2>1, FS_Bijection
<1>6. SUBSET T = (SUBSET S) \cup Y
  <2>1. ASSUME NEW A \in SUBSET T, A \notin SUBSET S
        PROVE  A \in Y
    <3>1. A \ {n + 1} \in SUBSET S /\ A = (A \ {n + 1}) \cup {n + 1}
      BY <1>2, <2>1
    <3> QED
      BY <3>1
  <2>2. ASSUME NEW A \in SUBSET S
        PROVE  A \in SUBSET T /\ A \cup {n + 1} \in SUBSET T
    BY <1>2
  <2>3. \A y \in Y : y \in SUBSET T
    BY <2>2
  <2> HIDE DEF Y
  <2> QED
    BY <2>1, <2>2, <2>3
<1>7. (SUBSET S) \cap Y = {}
  <2>1. ASSUME NEW A \in SUBSET S
        PROVE  A \cup {n + 1} \notin SUBSET S
    BY <1>2
  <2>2. \A y \in Y : y \notin SUBSET S
    BY <2>1
  <2> HIDE DEF Y
  <2> QED
    BY <2>2
<1> HIDE DEF Y
<1>8. 2 ^ (n + 1) = 2 ^ n + 2 ^ n - Cardinality({})
  BY <1>3, <1>5, <1>6, <1>7, FS_Union
<1>9. 2 ^ n \in Nat /\ Cardinality({}) = 0
  BY <1>3, FS_CardinalityType, FS_EmptySet
<1>10. 2 ^ n # 0
  BY <1>3, FS_EmptySet
<1> HIDE DEF f
<1> QED
  BY <1>8, <1>9, <1>10

-----------------------------------------------------------------------------
(* Places *)

\* Counting what is before them tells the numbers of a finite set apart.
LEMMA BeforeGrows ==
  ASSUME NEW S, IsFiniteSet(S), S \subseteq Int, NEW i \in S
  PROVE  /\ Earlier(S, i) \in 0 .. Cardinality(S) - 1
         /\ \A j \in S : i < j => Earlier(S, i) < Earlier(S, j)
<1> DEFINE Under(j) == {k \in S : k < j}
<1>1. ASSUME NEW T \in SUBSET S
      PROVE  IsFiniteSet(T) /\ Cardinality(T) \in Nat /\ Cardinality(T) <= Cardinality(S)
  BY FS_Subset, FS_CardinalityType
<1>2. /\ IsFiniteSet(Under(i)) /\ i \notin Under(i) /\ Cardinality(Under(i)) \in Nat
      /\ Cardinality(Under(i) \cup {i}) = Cardinality(Under(i)) + 1
  <2>1. Under(i) \in SUBSET S /\ i \notin Under(i)
    OBVIOUS
  <2> HIDE DEF Under
  <2> QED
    BY <2>1, <1>1, FS_AddElement
<1>3. Cardinality(Under(i)) + 1 <= Cardinality(S) /\ Cardinality(S) \in Nat
  <2>1. Under(i) \cup {i} \in SUBSET S
    OBVIOUS
  <2> HIDE DEF Under
  <2> QED
    BY <2>1, <1>1, <1>2, FS_CardinalityType
<1>4. ASSUME NEW j \in S, i < j
      PROVE  Cardinality(Under(i)) < Cardinality(Under(j))
  <2>1. Under(i) \cup {i} \in SUBSET Under(j) /\ Under(j) \in SUBSET S
    <3>1. \A k \in S : k \in Int
      OBVIOUS
    <3>2. ASSUME NEW k \in Under(i) \cup {i}
          PROVE  k \in S /\ k < j
      <4>1. k \in S /\ (k < i \/ k = i)
        OBVIOUS
      <4> QED
        BY <1>4, <3>1, <4>1
    <3> QED
      BY <3>2
  <2> HIDE DEF Under
  <2>2. IsFiniteSet(Under(j)) /\ Cardinality(Under(j)) \in Nat
    BY <2>1, <1>1
  <2>3. Cardinality(Under(i) \cup {i}) <= Cardinality(Under(j))
    BY <2>1, <2>2, FS_Subset
  <2> QED
    BY <1>2, <2>2, <2>3
<1>5. \A j : Earlier(S, j) = Cardinality(Under(j))
  BY DEF Earlier
<1> HIDE DEF Under
<1> QED
  BY <1>2, <1>3, <1>4, <1>5

\* InOrder has the numbers of a finite set, all of them, each once and in order.
LEMMA InOrderFacts ==
  ASSUME NEW S, IsFiniteSet(S), S \subseteq Int
  PROVE  /\ Cardinality(S) \in Nat
         /\ DOMAIN InOrder(S) = 1 .. Cardinality(S)
         /\ \A k \in 1 .. Cardinality(S) : InOrder(S)[k] \in S
         /\ \A j, k \in 1 .. Cardinality(S) : j < k => InOrder(S)[j] < InOrder(S)[k]
         /\ \A i \in S : \E k \in 1 .. Cardinality(S) : InOrder(S)[k] = i
<1> DEFINE n == Cardinality(S)
           place == [i \in S |-> Earlier(S, i) + 1]
<1>1. n \in Nat /\ IsFiniteSet(1 .. n) /\ Cardinality(1 .. n) = n
  BY FS_CardinalityType, FS_Interval
<1>2. \A i \in S : Earlier(S, i) \in 0 .. n - 1
  BY BeforeGrows
<1>3. \A i, j \in S : i < j => Earlier(S, i) < Earlier(S, j)
  BY BeforeGrows
<1>4. \A i, j \in S : Earlier(S, i) = Earlier(S, j) => i = j
  <2> SUFFICES ASSUME NEW i \in S, NEW j \in S, Earlier(S, i) = Earlier(S, j), i # j
               PROVE  FALSE
    OBVIOUS
  <2>1. i < j \/ j < i
    OBVIOUS
  <2>2. Earlier(S, i) \in Int /\ Earlier(S, j) \in Int
    BY <1>2
  <2> QED
    BY <1>3, <2>1, <2>2
<1> HIDE DEF n
<1>5. place \in Injection(S, 1 .. n)
  <2>1. place \in [S -> 1 .. n]
    BY <1>1, <1>2
  <2>2. \A i, j \in S : place[i] = place[j] => i = j
    <3> SUFFICES ASSUME NEW i \in S, NEW j \in S, place[i] = place[j]
                 PROVE  i = j
      OBVIOUS
    <3>1. Earlier(S, i) \in Int /\ Earlier(S, j) \in Int
      BY <1>2
    <3> QED
      BY <3>1, <1>4
  <2> HIDE DEF place
  <2> QED
    BY <2>1, <2>2 DEF Injection, IsInjective
<1>6. place \in Surjection(S, 1 .. n)
  BY <1>1, <1>5, FS_Injection DEF n
<1>7. ASSUME NEW k \in 1 .. n
      PROVE  /\ InOrder(S)[k] \in S
             /\ Earlier(S, InOrder(S)[k]) = k - 1
  <2>1. PICK i \in S : place[i] = k
    <3> HIDE DEF place
    <3> QED
      BY <1>6 DEF Surjection
  <2>2. Earlier(S, i) = k - 1
    BY <1>2, <2>1
  <2>3. InOrder(S)[k] = CHOOSE j \in S : Earlier(S, j) = k - 1
    BY DEF InOrder, n
  <2> QED
    BY <2>2, <2>3
<1>8. DOMAIN InOrder(S) = 1 .. n
  BY DEF InOrder, n
<1>9. ASSUME NEW j \in 1 .. n, NEW k \in 1 .. n, j < k
      PROVE  InOrder(S)[j] < InOrder(S)[k]
  <2> DEFINE a == InOrder(S)[j]
             b == InOrder(S)[k]
  <2>1. a \in S /\ b \in S /\ Earlier(S, a) = j - 1 /\ Earlier(S, b) = k - 1
    BY <1>7
  <2> HIDE DEF a, b
  <2>2. a # b /\ ~ b < a
    BY <1>1, <1>3, <1>9, <2>1
  <2>3. a < b
    BY <2>1, <2>2
  <2> QED
    BY <2>3 DEF a, b
<1>10. ASSUME NEW i \in S
       PROVE  \E k \in 1 .. n : InOrder(S)[k] = i
  <2>1. Earlier(S, i) + 1 \in 1 .. n /\ Earlier(S, i) \in Int
    BY <1>1, <1>2
  <2>2. /\ InOrder(S)[Earlier(S, i) + 1] \in S
        /\ Earlier(S, InOrder(S)[Earlier(S, i) + 1]) = Earlier(S, i)
    <3>1. (Earlier(S, i) + 1) - 1 = Earlier(S, i)
      BY <2>1
    <3> QED
      BY <1>7, <2>1, <3>1
  <2>3. InOrder(S)[Earlier(S, i) + 1] = i
    BY <1>4, <2>1, <2>2
  <2> QED
    BY <2>1, <2>3
<1> QED
  BY <1>1, <1>7, <1>8, <1>9, <1>10 DEF n

\* What of a sequence satisfies a test can be taken from it.
LEMMA SomeTaken ==
  ASSUME NEW S, NEW s \in Seq(S), NEW T \in SUBSET DOMAIN s
  PROVE  /\ Cardinality(T) \in Nat
         /\ DOMAIN Taken(s, T) = 1 .. Cardinality(T)
         /\ IsFiniteSet(DOMAIN Taken(s, T))
         /\ \A k \in DOMAIN Taken(s, T) : \E n \in T : Taken(s, T)[k] = s[n]
<1>1. DOMAIN s = 1 .. Len(s) /\ Len(s) \in Nat
  BY LenProperties
<1>2. IsFiniteSet(T) /\ T \subseteq Int
  <2>1. IsFiniteSet(1 .. Len(s))
    BY <1>1, FS_Interval
  <2> QED
    BY <1>1, <2>1, FS_Subset
<1>3. /\ Cardinality(T) \in Nat
      /\ DOMAIN Taken(s, T) = 1 .. Cardinality(T)
      /\ \A k \in 1 .. Cardinality(T) :
           InOrder(T)[k] \in T /\ Taken(s, T)[k] = s[InOrder(T)[k]]
  BY <1>2, InOrderFacts DEF Taken
<1>4. IsFiniteSet(1 .. Cardinality(T))
  BY <1>3, FS_Interval
<1> QED
  BY <1>3, <1>4

=============================================================================
