---------------------------- MODULE TypesProofs ----------------------------
(***************************************************************************)
(* Lemmas about the operators of Types.tla and about finite sets of        *)
(* numbers, for every value of the constants.  The library's induction     *)
(* theorems take an operator as a parameter, which the provers cannot      *)
(* instantiate; where a proof needs induction it looks at the least number *)
(* for which the claim fails (NatMin) instead.                             *)
(***************************************************************************)
EXTENDS Types, TLAPS, FiniteSetTheorems, SequenceTheorems, WellFoundedInduction

(* Every nonempty set of naturals has a least element. *)
LEMMA NatMin ==
  ASSUME NEW T \in SUBSET Nat, T # {}
  PROVE  \E m \in T : \A y \in T : m <= y
<1>1. PICK m \in T : \A y \in T : ~(<<y, m>> \in OpToRel(<, Nat))
  BY WFMin, NatLessThanWellFounded
<1>2. \A y \in T : ~(y < m)
  BY <1>1 DEF OpToRel
<1> QED
  BY <1>2

(* The values of a function on 1..n have an upper bound. *)
LEMMA UpperBound ==
  ASSUME NEW n \in Nat, NEW f \in [1..n -> Nat]
  PROVE  \E u \in Nat : \A i \in 1..n : f[i] <= u
<1> DEFINE Bounded(k) == \E u \in Nat : \A i \in 1..k : f[i] <= u
<1> DEFINE Bad == {k \in 0..n : ~ Bounded(k)}
<1>1. ASSUME NEW k \in 0..n, k # 0, Bounded(k - 1)
      PROVE  Bounded(k)
  <2>1. PICK u \in Nat : \A i \in 1..(k - 1) : f[i] <= u
    BY <1>1
  <2>2. u + f[k] \in Nat /\ \A i \in 1..k : f[i] <= u + f[k]
    BY <1>1, <2>1
  <2> QED
    BY <2>2
<1>2. Bounded(0)
  OBVIOUS
<1> HIDE DEF Bounded
<1>3. Bad = {}
  <2>1. SUFFICES ASSUME Bad # {} PROVE FALSE
    OBVIOUS
  <2>2. Bad \in SUBSET Nat
    OBVIOUS
  <2> HIDE DEF Bad
  <2>3. PICK k \in Bad : \A j \in Bad : k <= j
    BY <2>1, <2>2, NatMin
  <2>4. k \in 0..n /\ ~ Bounded(k)
    BY DEF Bad
  <2>5. k # 0
    BY <1>2, <2>4
  <2>6. k - 1 \in 0..n /\ ~(k <= k - 1)
    BY <2>4, <2>5
  <2>7. Bounded(k - 1)
    BY <2>3, <2>6 DEF Bad
  <2> QED
    BY <1>1, <2>4, <2>5, <2>7
<1>4. Bounded(n)
  BY <1>3
<1> QED
  BY <1>4 DEF Bounded

(* A nonempty set of naturals with an upper bound has a maximum, and Max   *)
(* picks it.                                                               *)
LEMMA MaxOfBounded ==
  ASSUME NEW T \in SUBSET Nat, T # {}, NEW u \in Nat, \A y \in T : y <= u
  PROVE  Max(T) \in T /\ \A y \in T : y <= Max(T)
<1> DEFINE D == {u - y : y \in T}
<1>1. D \in SUBSET Nat
  OBVIOUS
<1>2. D # {}
  OBVIOUS
<1>3. PICK m \in D : \A d \in D : m <= d
  BY <1>1, <1>2, NatMin
<1>4. PICK x \in T : m = u - x
  BY <1>3
<1>5. \A y \in T : u - x <= u - y
  BY <1>3, <1>4
<1>6. \A y \in T : x >= y
  BY <1>5
<1> QED
  BY <1>6 DEF Max

(***************************************************************************)
(* Nth and Select.                                                         *)
(***************************************************************************)
Rank(I, i) == Cardinality({j \in I : j <= i})

(* A finite set of naturals has an element of every rank. *)
LEMMA RankExists ==
  ASSUME NEW I \in SUBSET Nat, IsFiniteSet(I), NEW k \in 1..Cardinality(I)
  PROVE  \E i \in I : Rank(I, i) = k
<1> DEFINE Good(n) == \E i \in I : Rank(I, i) = n
<1> DEFINE Bad == {n \in 1..Cardinality(I) : ~ Good(n)}
<1>0. Cardinality(I) \in Nat /\ Cardinality(I) # 0
  BY FS_CardinalityType
<1>1. Good(1)
  <2>1. I # {}
    BY <1>0, FS_EmptySet
  <2>2. PICK m \in I : \A y \in I : m <= y
    BY <2>1, NatMin
  <2>a. \A j \in I : j <= m <=> j = m
    BY <2>2
  <2>3. {j \in I : j <= m} = {m}
    BY <2>a
  <2>4. Rank(I, m) = 1
    BY <2>3, FS_Singleton DEF Rank
  <2> QED
    BY <2>4
<1>2. ASSUME NEW n \in 1..Cardinality(I), n # 1, Good(n - 1)
      PROVE  Good(n)
  <2>1. PICK i \in I : Rank(I, i) = n - 1
    BY <1>2
  <2> DEFINE A == {j \in I : j <= i}
  <2> DEFINE J == {j \in I : j > i}
  <2>2. IsFiniteSet(A) /\ Cardinality(A) = n - 1
    BY <2>1, FS_Subset, A \in SUBSET I DEF Rank
  <2>3. J # {}
    <3>1. SUFFICES ASSUME J = {} PROVE FALSE
      OBVIOUS
    <3>a. \A j \in I : j \notin J
      BY <3>1
    <3>b. \A j \in I : j <= i
      BY <3>a
    <3>2. A = I
      BY <3>b
    <3> QED
      BY <3>2, <2>2, <1>0
  <2>4. PICK m \in J : \A y \in J : m <= y
    BY <2>3, NatMin, J \in SUBSET Nat
  <2>a. m \in I /\ m > i
    OBVIOUS
  <2>b. \A j \in I : j <= m <=> j <= i \/ j = m
    <3> SUFFICES ASSUME NEW j \in I PROVE j <= m <=> j <= i \/ j = m
      OBVIOUS
    <3>1. j > i => j \in J
      OBVIOUS
    <3>2. j > i => m <= j
      BY <2>4, <3>1
    <3> QED
      BY <2>a, <3>2
  <2>c. {j \in I : j <= m} = A \cup {m}
    BY <2>a, <2>b
  <2>5. m \in I /\ m \notin A /\ {j \in I : j <= m} = A \cup {m}
    BY <2>a, <2>c
  <2>6. Cardinality(A \cup {m}) = Cardinality(A) + 1
    BY <2>2, <2>5, FS_AddElement
  <2>7. Rank(I, m) = n
    BY <2>2, <2>5, <2>6 DEF Rank
  <2> QED
    BY <2>5, <2>7
<1> HIDE DEF Good
<1>3. Bad = {}
  <2>1. SUFFICES ASSUME Bad # {} PROVE FALSE
    OBVIOUS
  <2>2. Bad \in SUBSET Nat
    OBVIOUS
  <2> HIDE DEF Bad
  <2>3. PICK n \in Bad : \A j \in Bad : n <= j
    BY <2>1, <2>2, NatMin
  <2>4. n \in 1..Cardinality(I) /\ ~ Good(n)
    BY DEF Bad
  <2>5. n # 1
    BY <1>1, <2>4
  <2>6. n - 1 \in 1..Cardinality(I) /\ ~(n <= n - 1)
    BY <1>0, <2>4, <2>5
  <2>7. Good(n - 1)
    BY <2>3, <2>6 DEF Bad
  <2> QED
    BY <1>2, <2>4, <2>5, <2>7
<1>4. Good(k)
  BY <1>3
<1> QED
  BY <1>4 DEF Good

(* Two elements of a set do not share a rank. *)
LEMMA RankInjective ==
  ASSUME NEW I \in SUBSET Nat, IsFiniteSet(I), NEW i \in I, NEW j \in I,
         Rank(I, i) = Rank(I, j)
  PROVE  i = j
<1> DEFINE below(k) == {m \in I : m <= k}
<1>1. ASSUME NEW a \in I, NEW b \in I, Rank(I, a) = Rank(I, b), a < b
      PROVE  FALSE
  <2>1. IsFiniteSet(below(b)) /\ below(b) \in SUBSET I
    BY FS_Subset
  <2>a. \A m \in I : m <= a => m <= b
    BY <1>1
  <2>b. b \in I /\ b <= b /\ ~(b <= a)
    BY <1>1
  <2>2. below(a) \in SUBSET below(b) /\ b \in below(b) /\ b \notin below(a)
    BY <2>a, <2>b
  <2>3. Cardinality(below(a)) = Cardinality(below(b))
    BY <1>1 DEF Rank
  <2> HIDE DEF below
  <2> QED
    BY <2>1, <2>2, <2>3, FS_Subset
<1>2. i \in Nat /\ j \in Nat
  OBVIOUS
<1> QED
  BY <1>1, <1>2

(* Nth finds a position, and two ranks never share one. *)
LEMMA NthProperties ==
  ASSUME NEW I \in SUBSET Nat, IsFiniteSet(I)
  PROVE  /\ \A k \in 1..Cardinality(I) : Nth(I, k) \in I /\ Rank(I, Nth(I, k)) = k
         /\ \A k, l \in 1..Cardinality(I) : Nth(I, k) = Nth(I, l) => k = l
<1>1. ASSUME NEW k \in 1..Cardinality(I)
      PROVE  Nth(I, k) \in I /\ Rank(I, Nth(I, k)) = k
  <2>1. \E i \in I : Cardinality({j \in I : j <= i}) = k
    BY RankExists DEF Rank
  <2> QED
    BY <2>1 DEF Nth, Rank
<1> QED
  BY <1>1

(* What Select returns: a sequence of the same elements, one for each      *)
(* position of I.                                                          *)
LEMMA SelectProperties ==
  ASSUME NEW S, NEW seq \in Seq(S), NEW I \in SUBSET DOMAIN seq
  PROVE  /\ IsFiniteSet(I)
         /\ Select(seq, I) \in Seq(S)
         /\ Len(Select(seq, I)) = Cardinality(I)
         /\ I # {} => Select(seq, I) # <<>>
         /\ \A k \in DOMAIN Select(seq, I) : \E i \in I : Select(seq, I)[k] = seq[i]
         /\ \A k \in DOMAIN Select(seq, I) :
              Nth(I, k) \in I /\ Select(seq, I)[k] = seq[Nth(I, k)]
<1>1. DOMAIN seq = 1..Len(seq) /\ Len(seq) \in Nat
  OBVIOUS
<1>a. IsFiniteSet(1..Len(seq))
  BY <1>1, FS_Interval
<1>2. IsFiniteSet(I) /\ I \in SUBSET Nat
  BY <1>1, <1>a, FS_Subset
<1>3. Cardinality(I) \in Nat
  BY <1>2, FS_CardinalityType
<1>4. \A k \in 1..Cardinality(I) : Nth(I, k) \in I
  BY <1>2, NthProperties
<1>5. Select(seq, I) = [k \in 1..Cardinality(I) |-> seq[Nth(I, k)]]
  BY DEF Select
<1>6. \A i \in I : seq[i] \in S
  BY <1>1
<1>7. Select(seq, I) \in [1..Cardinality(I) -> S]
  BY <1>4, <1>5, <1>6
<1>8. Select(seq, I) \in Seq(S) /\ Len(Select(seq, I)) = Cardinality(I)
  BY <1>3, <1>7
<1>9. I # {} => Cardinality(I) # 0
  BY <1>2, FS_EmptySet
<1> QED
  BY <1>2, <1>4, <1>5, <1>8, <1>9

(* No position is left out. *)
LEMMA SelectCovers ==
  ASSUME NEW S, NEW seq \in Seq(S), NEW I \in SUBSET DOMAIN seq, NEW i \in I
  PROVE  \E k \in DOMAIN Select(seq, I) : Select(seq, I)[k] = seq[i]
<1> DEFINE below == {j \in I : j <= i}
<1> DEFINE k == Cardinality(below)
<1>1. IsFiniteSet(I) /\ I \in SUBSET Nat
  BY SelectProperties
<1>2. below \in SUBSET I /\ i \in below
  BY <1>1
<1> HIDE DEF below
<1>3. IsFiniteSet(below) /\ k <= Cardinality(I)
  BY <1>1, <1>2, FS_Subset
<1>4. k \in Nat /\ k # 0 /\ Cardinality(I) \in Nat
  BY <1>1, <1>2, <1>3, FS_CardinalityType, FS_EmptySet
<1>5. Rank(I, i) = k
  BY DEF Rank, below
<1> HIDE DEF k
<1>6. k \in 1..Cardinality(I)
  BY <1>3, <1>4
<1>7. Nth(I, k) \in I /\ Rank(I, Nth(I, k)) = k
  BY <1>1, <1>6, NthProperties
<1>8. Nth(I, k) = i
  BY <1>1, <1>5, <1>7, RankInjective
<1> QED
  BY <1>6, <1>8 DEF Select

(* No element occurs twice. *)
Distinct(seq) == \A i, j \in DOMAIN seq : seq[i] = seq[j] => i = j

(* A part of a sequence repeats an element only if the sequence does. *)
LEMMA SelectDistinct ==
  ASSUME NEW S, NEW seq \in Seq(S), NEW I \in SUBSET DOMAIN seq, Distinct(seq)
  PROVE  Distinct(Select(seq, I))
<1>1. IsFiniteSet(I) /\ I \in SUBSET Nat
  BY SelectProperties
<1>2. DOMAIN Select(seq, I) = 1..Cardinality(I)
  BY DEF Select
<1>3. SUFFICES ASSUME NEW k \in 1..Cardinality(I), NEW l \in 1..Cardinality(I),
                      Select(seq, I)[k] = Select(seq, I)[l]
               PROVE  k = l
  BY <1>2 DEF Distinct
<1>4. Nth(I, k) \in I /\ Nth(I, l) \in I
  BY <1>1, NthProperties
<1>5. seq[Nth(I, k)] = seq[Nth(I, l)]
  BY <1>3 DEF Select
<1>6. Nth(I, k) = Nth(I, l)
  BY <1>4, <1>5 DEF Distinct
<1> QED
  BY <1>1, <1>6, NthProperties

(***************************************************************************)
(* Money.                                                                  *)
(***************************************************************************)

(* Transactions move finitely many units. *)
LEMMA UnitsFinite ==
  ASSUME NEW ts \in SUBSET Tid
  PROVE  IsFiniteSet(Units(ts))
<1> DEFINE U(t) == {t} \X (1..Txn[t].amount)
<1> DEFINE all == {U(t) : t \in ts}
<1> DEFINE f == [t \in ts |-> U(t)]
<1>1. IsFiniteSet(ts)
  BY TypesAssumption, FS_Subset
<1>2. \A t \in ts : IsFiniteSet(U(t))
  <2> SUFFICES ASSUME NEW t \in ts PROVE IsFiniteSet(U(t))
    OBVIOUS
  <2>1. Txn[t].amount \in Int
    BY TypesAssumption
  <2>2. IsFiniteSet({t}) /\ IsFiniteSet(1..Txn[t].amount)
    <3>1. IsFiniteSet({t})
      BY FS_Singleton
    <3>2. IsFiniteSet(1..Txn[t].amount)
      BY <2>1, FS_Interval
    <3> QED
      BY <3>1, <3>2
  <2> QED
    BY <2>2, FS_Product
<1> HIDE DEF U
<1>3. f \in Surjection(ts, all)
  BY DEF Surjection
<1>4. IsFiniteSet(all)
  BY <1>1, <1>3, FS_Surjection
<1>5. \A T \in all : IsFiniteSet(T)
  BY <1>2
<1>6. IsFiniteSet(UNION all)
  BY <1>4, <1>5, FS_UNION
<1> QED
  BY <1>6 DEF Units, U

(* The units that the transactions ts take out of, and put into, k. *)
UnitsFrom(ts, k) == {u \in Units(ts) : Txn[u[1]].sender = k}
UnitsTo(ts, k)   == {u \in Units(ts) : Txn[u[1]].receiver = k}

(* What transactions take and give is a natural number. *)
LEMMA DebitsCreditsType ==
  ASSUME NEW ts \in SUBSET Tid, NEW k
  PROVE  /\ IsFiniteSet(UnitsFrom(ts, k)) /\ IsFiniteSet(UnitsTo(ts, k))
         /\ Debits(ts, k) \in Nat /\ Credits(ts, k) \in Nat
<1>1. IsFiniteSet(UnitsFrom(ts, k)) /\ IsFiniteSet(UnitsTo(ts, k))
  BY UnitsFinite, FS_Subset DEF UnitsFrom, UnitsTo
<1> QED
  BY <1>1, FS_CardinalityType DEF Debits, Credits, UnitsFrom, UnitsTo

(* Different transactions move their money separately. *)
LEMMA MoneyAdds ==
  ASSUME NEW A \in SUBSET Tid, NEW B \in SUBSET Tid, A \cap B = {}, NEW k
  PROVE  /\ Debits(A \cup B, k) = Debits(A, k) + Debits(B, k)
         /\ Credits(A \cup B, k) = Credits(A, k) + Credits(B, k)
<1>1. Units(A \cup B) = Units(A) \cup Units(B)
  BY DEF Units
<1>2. \A u \in Units(A) : u[1] \in A
  BY DEF Units
<1>3. \A u \in Units(B) : u[1] \in B
  BY DEF Units
<1>4. Units(A) \cap Units(B) = {}
  BY <1>2, <1>3
<1>5. /\ UnitsFrom(A \cup B, k) = UnitsFrom(A, k) \cup UnitsFrom(B, k)
      /\ UnitsFrom(A, k) \cap UnitsFrom(B, k) = {}
  BY <1>1, <1>4 DEF UnitsFrom
<1>6. /\ UnitsTo(A \cup B, k) = UnitsTo(A, k) \cup UnitsTo(B, k)
      /\ UnitsTo(A, k) \cap UnitsTo(B, k) = {}
  BY <1>1, <1>4 DEF UnitsTo
<1>7. /\ IsFiniteSet(UnitsFrom(A, k)) /\ IsFiniteSet(UnitsTo(A, k))
      /\ IsFiniteSet(UnitsFrom(B, k)) /\ IsFiniteSet(UnitsTo(B, k))
      /\ Debits(A, k) \in Nat /\ Credits(A, k) \in Nat
      /\ Debits(B, k) \in Nat /\ Credits(B, k) \in Nat
  BY DebitsCreditsType
<1>8. \A ts : Debits(ts, k) = Cardinality(UnitsFrom(ts, k))
  BY DEF Debits, UnitsFrom
<1>9. \A ts : Credits(ts, k) = Cardinality(UnitsTo(ts, k))
  BY DEF Credits, UnitsTo
<1>10. Cardinality({}) = 0
  BY FS_EmptySet
<1>11. Debits(A \cup B, k) = Debits(A, k) + Debits(B, k) - 0
  <2> DEFINE a == UnitsFrom(A, k)
  <2> DEFINE b == UnitsFrom(B, k)
  <2> HIDE DEF a, b
  <2>1. Cardinality(a \cup b) = Cardinality(a) + Cardinality(b) - Cardinality(a \cap b)
    BY <1>7, FS_Union DEF a, b
  <2>2. UnitsFrom(A \cup B, k) = a \cup b /\ a \cap b = {}
    BY <1>5 DEF a, b
  <2>3. /\ Debits(A, k) = Cardinality(a) /\ Debits(B, k) = Cardinality(b)
        /\ Debits(A \cup B, k) = Cardinality(a \cup b)
    BY <1>8, <2>2 DEF a, b
  <2> QED
    BY <1>10, <2>1, <2>2, <2>3
<1>12. Credits(A \cup B, k) = Credits(A, k) + Credits(B, k) - 0
  <2> DEFINE a == UnitsTo(A, k)
  <2> DEFINE b == UnitsTo(B, k)
  <2> HIDE DEF a, b
  <2>1. Cardinality(a \cup b) = Cardinality(a) + Cardinality(b) - Cardinality(a \cap b)
    BY <1>7, FS_Union DEF a, b
  <2>2. UnitsTo(A \cup B, k) = a \cup b /\ a \cap b = {}
    BY <1>6 DEF a, b
  <2>3. /\ Credits(A, k) = Cardinality(a) /\ Credits(B, k) = Cardinality(b)
        /\ Credits(A \cup B, k) = Cardinality(a \cup b)
    BY <1>9, <2>2 DEF a, b
  <2> QED
    BY <1>10, <2>1, <2>2, <2>3
<1> QED
  BY <1>7, <1>11, <1>12

(* No transactions move none. *)
LEMMA NoneMoves ==
  ASSUME NEW k
  PROVE  Debits({}, k) = 0 /\ Credits({}, k) = 0
<1>1. UnitsFrom({}, k) = {} /\ UnitsTo({}, k) = {}
  BY DEF Units, UnitsFrom, UnitsTo
<1> QED
  BY <1>1, FS_EmptySet DEF Debits, Credits, UnitsFrom, UnitsTo

(* A transaction takes its amount from its sender and gives it to its      *)
(* receiver, and moves nothing else.                                       *)
LEMMA OneMoves ==
  ASSUME NEW t \in Tid, NEW k
  PROVE  /\ Debits({t}, k) = IF Txn[t].sender = k THEN Txn[t].amount ELSE 0
         /\ Credits({t}, k) = IF Txn[t].receiver = k THEN Txn[t].amount ELSE 0
<1> DEFINE n == Txn[t].amount
           U == {t} \X (1..n)
<1>1. n \in Nat
  BY TypesAssumption
<1>a. Units({t}) = U
  BY DEF Units
<1>b. \A u \in U : u[1] = t
  OBVIOUS
<1> HIDE DEF n
<1>2. IsFiniteSet(1..n) /\ Cardinality(1..n) = n
  <2>1. 1 \in Int /\ n \in Int
    BY <1>1
  <2>2. IsFiniteSet(1..n) /\ Cardinality(1..n) = IF 1 > n THEN 0 ELSE n - 1 + 1
    BY <2>1, FS_Interval
  <2> QED
    BY <1>1, <2>2
<1>3. IsFiniteSet({t}) /\ Cardinality({t}) = 1
  BY FS_Singleton
<1>4. Cardinality(U) = Cardinality({t}) * Cardinality(1..n)
  BY <1>2, <1>3, FS_Product
<1>5. Cardinality(U) = n
  BY <1>1, <1>2, <1>3, <1>4
<1> HIDE DEF U
<1>6. /\ UnitsFrom({t}, k) = IF Txn[t].sender = k THEN U ELSE {}
      /\ UnitsTo({t}, k) = IF Txn[t].receiver = k THEN U ELSE {}
  BY <1>a, <1>b DEF UnitsFrom, UnitsTo
<1>7. Cardinality({}) = 0
  BY FS_EmptySet
<1>8. Debits({t}, k) = Cardinality(UnitsFrom({t}, k))
  BY DEF Debits, UnitsFrom
<1>9. Credits({t}, k) = Cardinality(UnitsTo({t}, k))
  BY DEF Credits, UnitsTo
<1> QED
  BY <1>5, <1>6, <1>7, <1>8, <1>9 DEF n


-----------------------------------------------------------------------------
(***************************************************************************)
(* Sums over a set.  MapThenSumSet takes the elements in the order of      *)
(* CHOOSE; Results(f, S, h) says that h holds its intermediate results.      *)
(***************************************************************************)
SomeOf(T) == CHOOSE x \in T : TRUE

Results(f, S, h) ==
  h = [T \in SUBSET S |-> IF T = {} THEN 0 ELSE f[SomeOf(T)] + h[T \ {SomeOf(T)}]]

(* e[T] is the sum of f over T, in whatever order it is added up. *)
SumsUp(e, f, S) ==
  /\ e \in [SUBSET S -> Int] /\ e[{}] = 0
  /\ \A T \in SUBSET S : \A x \in T : e[T] = f[x] + e[T \ {x}]

(* Such an e holds the intermediate results of the fold ... *)
LEMMA SumResults ==
  ASSUME NEW S, NEW f \in [S -> Int], NEW e, SumsUp(e, f, S)
  PROVE  Results(f, S, e)
<1> DEFINE g == [T \in SUBSET S |-> IF T = {} THEN 0 ELSE f[SomeOf(T)] + e[T \ {SomeOf(T)}]]
<1>1. ASSUME NEW T \in SUBSET S PROVE e[T] = g[T]
  <2>1. CASE T = {}
    BY <2>1 DEF SumsUp
  <2>2. CASE T # {}
    <3>1. SomeOf(T) \in T
      BY <2>2 DEF SomeOf
    <3> QED
      BY <2>2, <3>1 DEF SumsUp
  <2> QED
    BY <2>1, <2>2
<1>2. e = g
  <2>1. e \in [SUBSET S -> Int] /\ DOMAIN g = SUBSET S
    BY DEF SumsUp
  <2> HIDE DEF g
  <2>2. DOMAIN e = DOMAIN g
    BY <2>1
  <2>3. e = [T \in SUBSET S |-> e[T]]
    BY <2>1
  <2>4. g = [T \in SUBSET S |-> g[T]]
    BY DEF g
  <2> QED
    BY <1>1, <2>3, <2>4
<1> QED
  BY <1>2 DEF Results

(* ... and the fold has no other result. *)
LEMMA FoldIsSum ==
  ASSUME NEW S, IsFiniteSet(S), NEW f \in [S -> Int], NEW e, SumsUp(e, f, S),
         NEW h, Results(f, S, h)
  PROVE  h[S] = e[S]
<1> DEFINE Agree(n) == \A T \in SUBSET S : Cardinality(T) = n => h[T] = e[T]
<1> DEFINE Bad == {n \in Nat : ~Agree(n)}
<1>0. ASSUME NEW T \in SUBSET S
      PROVE  IsFiniteSet(T) /\ Cardinality(T) \in Nat
  BY FS_Subset, FS_CardinalityType
<1>a. ASSUME NEW T \in SUBSET S
      PROVE  h[T] = IF T = {} THEN 0 ELSE f[SomeOf(T)] + h[T \ {SomeOf(T)}]
  BY DEF Results
<1>1. ASSUME NEW n \in Nat, \A m \in Nat : m < n => Agree(m)
      PROVE  Agree(n)
  <2> SUFFICES ASSUME NEW T \in SUBSET S, Cardinality(T) = n PROVE h[T] = e[T]
    OBVIOUS
  <2>1. CASE T = {}
    BY <1>a, <2>1 DEF SumsUp
  <2>2. CASE T # {}
    <3> DEFINE x == SomeOf(T)
    <3> DEFINE R == T \ {x}
    <3>1. x \in T /\ R \in SUBSET S
      BY <2>2 DEF SomeOf
    <3>2. Cardinality(R) = n - 1 /\ Cardinality(R) \in Nat
      BY <1>0, <3>1, FS_RemoveElement
    <3>3. h[R] = e[R]
      BY <1>1, <3>1, <3>2
    <3>4. h[T] = f[x] + h[R] /\ e[T] = f[x] + e[R]
      BY <1>a, <2>2, <3>1 DEF SumsUp
    <3> QED
      BY <3>3, <3>4
  <2> QED
    BY <2>1, <2>2
<1> HIDE DEF Agree
<1>2. Bad = {}
  <2> SUFFICES ASSUME Bad # {} PROVE FALSE
    OBVIOUS
  <2>1. Bad \in SUBSET Nat
    OBVIOUS
  <2> HIDE DEF Bad
  <2>2. PICK n \in Bad : \A m \in Bad : n <= m
    BY <2>1, NatMin
  <2>3. n \in Nat /\ ~Agree(n) /\ \A m \in Nat : m < n => Agree(m)
    BY <2>2 DEF Bad
  <2> QED
    BY <1>1, <2>3
<1>3. S \in SUBSET S /\ Cardinality(S) \in Nat
  BY <1>0
<1> QED
  BY <1>2, <1>3 DEF Agree

(* The sum of a function over a set. *)
SumOf(f, S) == MapThenSumSet(LAMBDA x : f[x], S)

LEMMA SumIs ==
  ASSUME NEW S, IsFiniteSet(S), NEW f \in [S -> Int], NEW e, SumsUp(e, f, S)
  PROVE  SumOf(f, S) = e[S]
<1> DEFINE h == CHOOSE g : Results(f, S, g)
<1>1. SumOf(f, S) = h[S]
  BY DEF SumOf, MapThenSumSet, MapThenFoldSet, Results, SomeOf
<1>2. Results(f, S, h)
  BY SumResults
<1> HIDE DEF h
<1> QED
  BY <1>1, <1>2, FoldIsSum

(* The elements that a maps into T. *)
Mapped(a, T) == {k \in DOMAIN a : a[k] \in T}

FiniteMap(a) == IsFiniteSet(DOMAIN a)

LEMMA MappedSplits ==
  ASSUME NEW a, FiniteMap(a), NEW T, NEW x \in T
  PROVE  /\ Cardinality(Mapped(a, T)) \in Nat
         /\ Cardinality(Mapped(a, {x})) \in Nat
         /\ Cardinality(Mapped(a, T \ {x})) \in Nat
         /\ Cardinality(Mapped(a, T)) = Cardinality(Mapped(a, {x})) + Cardinality(Mapped(a, T \ {x}))
<1> DEFINE p == Mapped(a, {x})
<1> DEFINE q == Mapped(a, T \ {x})
<1>1. Mapped(a, T) = p \cup q /\ p \cap q = {}
  BY DEF Mapped
<1>2. IsFiniteSet(p) /\ IsFiniteSet(q)
  BY FS_Subset DEF Mapped, FiniteMap
<1> HIDE DEF p, q
<1>3. Cardinality(p \cup q) = Cardinality(p) + Cardinality(q) - Cardinality(p \cap q)
  BY <1>2, FS_Union
<1>4. Cardinality(p) \in Nat /\ Cardinality(q) \in Nat /\ Cardinality({}) = 0
  BY <1>2, FS_CardinalityType, FS_EmptySet
<1>5. Cardinality(Mapped(a, T)) = Cardinality(p) + Cardinality(q)
  <2>1. Cardinality(p \cap q) = 0
    BY <1>1, <1>4, Zenon
  <2>2. Cardinality(Mapped(a, T)) = Cardinality(p \cup q)
    BY <1>1, Zenon
  <2> QED
    BY <1>3, <1>4, <2>1, <2>2
<1>6. Cardinality(Mapped(a, T)) \in Nat
  BY <1>4, <1>5
<1> QED
  BY <1>4, <1>5, <1>6 DEF p, q

(* n times what a maps to T, and what b maps there, without what c does. *)
Balance(n, a, b, c, T) ==
  n * Cardinality(Mapped(a, T)) + Cardinality(Mapped(b, T)) - Cardinality(Mapped(c, T))

(* It is what f holds for every element of S, and e for every subset. *)
Balances(e, f, n, a, b, c, S) ==
  /\ \A x \in S : f[x] = Balance(n, a, b, c, {x})
  /\ e = [T \in SUBSET S |-> Balance(n, a, b, c, T)]

(* It adds up. *)
LEMMA BalancesSumUp ==
  ASSUME NEW n \in Int, NEW a, NEW b, NEW c, FiniteMap(a), FiniteMap(b),
         FiniteMap(c), NEW S, NEW f \in [S -> Int],
         NEW e, Balances(e, f, n, a, b, c, S)
  PROVE  SumsUp(e, f, S)
<1>0. /\ \A x \in S : f[x] = Balance(n, a, b, c, {x})
      /\ e = [T \in SUBSET S |-> Balance(n, a, b, c, T)]
  BY DEF Balances
<1>1. ASSUME NEW m, FiniteMap(m), NEW T PROVE Cardinality(Mapped(m, T)) \in Nat
  BY <1>1, FS_Subset, FS_CardinalityType DEF Mapped, FiniteMap
<1>2. ASSUME NEW T PROVE Balance(n, a, b, c, T) \in Int
  <2> DEFINE ca == Cardinality(Mapped(a, T))
  <2> DEFINE cb == Cardinality(Mapped(b, T))
  <2> DEFINE cc == Cardinality(Mapped(c, T))
  <2>1. ca \in Nat /\ cb \in Nat /\ cc \in Nat
    BY <1>1
  <2> HIDE DEF ca, cb, cc
  <2>2. n * ca + cb - cc \in Int
    BY <2>1
  <2> QED
    BY <2>2 DEF Balance, ca, cb, cc
<1>3. e \in [SUBSET S -> Int]
  BY <1>0, <1>2
<1>4. e[{}] = 0
  <2>1. Mapped(a, {}) = {} /\ Mapped(b, {}) = {} /\ Mapped(c, {}) = {}
    BY DEF Mapped
  <2>2. Cardinality({}) = 0
    BY FS_EmptySet
  <2>3. Balance(n, a, b, c, {}) = n * 0 + 0 - 0
    BY <2>1, <2>2, Zenon DEF Balance
  <2>4. n * 0 + 0 - 0 = 0
    OBVIOUS
  <2> QED
    BY <1>0, <2>3, <2>4
<1>5. ASSUME NEW T \in SUBSET S, NEW x \in T
      PROVE  e[T] = f[x] + e[T \ {x}]
  <2> DEFINE R == T \ {x}
  <2> DEFINE C(m, U) == Cardinality(Mapped(m, U))
  <2>1. /\ C(a, T) = C(a, {x}) + C(a, R) /\ C(a, {x}) \in Nat /\ C(a, R) \in Nat
        /\ C(b, T) = C(b, {x}) + C(b, R) /\ C(b, {x}) \in Nat /\ C(b, R) \in Nat
        /\ C(c, T) = C(c, {x}) + C(c, R) /\ C(c, {x}) \in Nat /\ C(c, R) \in Nat
    <3>1. ASSUME NEW m, FiniteMap(m)
          PROVE  C(m, T) = C(m, {x}) + C(m, R) /\ C(m, {x}) \in Nat /\ C(m, R) \in Nat
      <4>1. /\ Cardinality(Mapped(m, {x})) \in Nat
            /\ Cardinality(Mapped(m, T \ {x})) \in Nat
            /\ Cardinality(Mapped(m, T))
                 = Cardinality(Mapped(m, {x})) + Cardinality(Mapped(m, T \ {x}))
        BY <1>5, <3>1, MappedSplits
      <4> QED
        BY <4>1
    <3> HIDE DEF C, R
    <3> QED
      BY <3>1
  <2>2. \A U : Balance(n, a, b, c, U) = n * C(a, U) + C(b, U) - C(c, U)
    BY DEF Balance
  <2>3. e[T] = Balance(n, a, b, c, T) /\ e[R] = Balance(n, a, b, c, R)
    BY <1>0
  <2>4. f[x] = Balance(n, a, b, c, {x})
    BY <1>0
  <2> HIDE DEF C, R
  <2>5. n * C(a, T) = n * C(a, {x}) + n * C(a, R)
    BY <2>1
  <2>6. n * C(a, {x}) \in Int /\ n * C(a, R) \in Int
    BY <2>1
  <2>7. e[T] = n * C(a, T) + C(b, T) - C(c, T)
    BY <2>2, <2>3
  <2>8. e[R] = n * C(a, R) + C(b, R) - C(c, R)
    BY <2>2, <2>3
  <2>9. f[x] = n * C(a, {x}) + C(b, {x}) - C(c, {x})
    BY <2>2, <2>4
  <2>10. e[T] = f[x] + e[R]
    BY <2>1, <2>5, <2>6, <2>7, <2>8, <2>9
  <2> QED
    BY <2>10 DEF R
<1> QED
  BY <1>3, <1>4, <1>5 DEF SumsUp
=============================================================================
