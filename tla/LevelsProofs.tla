---------------------------- MODULE LevelsProofs ----------------------------
(***************************************************************************)
(* The store, for any keys, threads, limits and bounds: the files of a     *)
(* level above 0 share no key range, a memtable holds what its log holds,  *)
(* a Get without mutex_ finds what it would have found at once, and the    *)
(* types: the numbers of files and of writes, and what a Get returns.      *)
(***************************************************************************)
EXTENDS LevelDBProofs

-----------------------------------------------------------------------------
(***************************************************************************)
(* Key ranges of tables, and the inputs of a compaction.                   *)
(***************************************************************************)

Below(x, y) == \A d \in x, e \in y : d.key < e.key
Apart(x, y) == Below(x, y) \/ Below(y, x)

TablesIn(S) == \A n \in S : disk.tables[n] \in TableSets

LEMMA LeastOf ==
  ASSUME NEW S \in SUBSET Nat, S # {}
  PROVE  Min(S) \in S /\ \A y \in S : Min(S) <= y
<1>1. \E m \in S : \A y \in S : m <= y
  BY LeastNumber
<1> QED
  BY <1>1 DEF Min

LEMMA RangeOf ==
  ASSUME NEW n, disk.tables[n] \in TableSets
  PROVE  /\ Smallest(n) \in Nat /\ Largest(n) \in Nat /\ Smallest(n) <= Largest(n)
         /\ \E d \in disk.tables[n] : d.key = Smallest(n)
         /\ \E d \in disk.tables[n] : d.key = Largest(n)
         /\ \A d \in disk.tables[n] : d.key \in Nat /\ Smallest(n) <= d.key /\ d.key <= Largest(n)
<1> DEFINE x == disk.tables[n]
           f == [e \in x |-> e.key]
<1>1. x \subseteq Entry /\ IsFiniteSet(x) /\ x # {}
  BY DEF TableSets, EntrySets
<1>2. \A e \in x : e.key \in Nat
  BY <1>1, LevelDBAssumption DEF Entry
<1>3. KeysOf(n) \in SUBSET Nat /\ KeysOf(n) # {}
  BY <1>1, <1>2 DEF KeysOf
<1>4. f \in [x -> KeysOf(n)] /\ \A y \in KeysOf(n) : \E e \in x : f[e] = y
  BY DEF KeysOf
<1>5. IsFiniteSet(KeysOf(n))
  <2> HIDE DEF f, x
  <2> QED
    BY <1>1, <1>4, FiniteMapped
<1>6. Smallest(n) \in KeysOf(n) /\ \A y \in KeysOf(n) : Smallest(n) <= y
  BY <1>3, LeastOf DEF Smallest
<1>7. Largest(n) \in KeysOf(n) /\ \A y \in KeysOf(n) : y <= Largest(n)
  BY <1>3, <1>5, GreatestOf DEF Largest
<1>8. \A e \in x : e.key \in KeysOf(n)
  BY DEF KeysOf
<1>9. \A y \in KeysOf(n) : \E e \in x : e.key = y
  BY DEF KeysOf
<1> QED
  BY <1>2, <1>3, <1>6, <1>7, <1>8, <1>9

LEMMA BelowIs ==
  ASSUME NEW m, NEW n, disk.tables[m] \in TableSets, disk.tables[n] \in TableSets
  PROVE  Below(disk.tables[m], disk.tables[n]) <=> Largest(m) < Smallest(n)
<1> DEFINE x == disk.tables[m]
           y == disk.tables[n]
<1>1. /\ Largest(m) \in Nat /\ (\E d \in x : d.key = Largest(m))
      /\ \A d \in x : d.key \in Nat /\ d.key <= Largest(m)
  BY RangeOf
<1>2. /\ Smallest(n) \in Nat /\ (\E d \in y : d.key = Smallest(n))
      /\ \A d \in y : d.key \in Nat /\ Smallest(n) <= d.key
  BY RangeOf
<1> HIDE DEF x, y
<1>3. ASSUME Largest(m) < Smallest(n) PROVE Below(x, y)
  <2> SUFFICES ASSUME NEW d \in x, NEW e \in y PROVE d.key < e.key
    BY DEF Below
  <2>1. d.key \in Nat /\ d.key <= Largest(m) /\ e.key \in Nat /\ Smallest(n) <= e.key
    BY <1>1, <1>2
  <2> QED
    BY <1>1, <1>2, <1>3, <2>1
<1>4. ASSUME Below(x, y) PROVE Largest(m) < Smallest(n)
  BY <1>1, <1>2, <1>4 DEF Below
<1> QED
  BY <1>3, <1>4 DEF x, y

(* The range of the tables S. *)
Spans(S, lo, hi) ==
  /\ lo \in Nat /\ hi \in Nat
  /\ \A n \in S : lo <= Smallest(n) /\ Largest(n) <= hi
  /\ \E n \in S : Smallest(n) = lo
  /\ \E n \in S : Largest(n) = hi

LEMMA HullSpans ==
  ASSUME NEW S, IsFiniteSet(S), S # {}, TablesIn(S)
  PROVE  Spans(S, Hull(S)[1], Hull(S)[2])
<1> DEFINE A == {Smallest(n) : n \in S}
           B == {Largest(n) : n \in S}
           g == [n \in S |-> Largest(n)]
<1>1. \A n \in S : Smallest(n) \in Nat /\ Largest(n) \in Nat
  BY RangeOf DEF TablesIn
<1>2. A \in SUBSET Nat /\ A # {} /\ B \in SUBSET Nat /\ B # {}
  BY <1>1
<1>3. g \in [S -> B] /\ \A y \in B : \E n \in S : g[n] = y
  OBVIOUS
<1>4. Hull(S)[1] = Min(A) /\ Hull(S)[2] = Max(B)
  BY DEF Hull
<1>5. (\A n \in S : Smallest(n) \in A /\ Largest(n) \in B)
      /\ (\A y \in A : \E n \in S : Smallest(n) = y) /\ (\A y \in B : \E n \in S : Largest(n) = y)
  OBVIOUS
<1> HIDE DEF A, B, g
<1>6. IsFiniteSet(B)
  BY <1>3, FiniteMapped
<1>7. Min(A) \in A /\ \A y \in A : Min(A) <= y
  BY <1>2, LeastOf
<1>8. Max(B) \in B /\ \A y \in B : y <= Max(B)
  BY <1>2, <1>6, GreatestOf
<1>9. Min(A) \in Nat /\ Max(B) \in Nat
  BY <1>2, <1>7, <1>8
<1> QED
  BY <1>4, <1>5, <1>7, <1>8, <1>9 DEF Spans

LEMMA SpansOne ==
  ASSUME NEW f, disk.tables[f] \in TableSets
  PROVE  Spans({f}, Smallest(f), Largest(f))
<1>1. Smallest(f) \in Nat /\ Largest(f) \in Nat
  BY RangeOf
<1> QED
  BY <1>1 DEF Spans

(* The ranges of the tables S leave no gap. *)
Covers(S, x) == \E i \in S : Smallest(i) <= x /\ x <= Largest(i)
Gapless(S) == \A m, n \in S : \A x \in Nat : Smallest(m) <= x /\ x <= Largest(n) => Covers(S, x)

LEMMA GaplessOne ==
  ASSUME NEW f
  PROVE  Gapless({f})
BY DEF Gapless, Covers

LEMMA GaplessCovers ==
  ASSUME NEW S, NEW lo, NEW hi, Spans(S, lo, hi), Gapless(S), NEW x \in Nat, lo <= x, x <= hi
  PROVE  Covers(S, x)
<1>1. PICK m \in S : Smallest(m) = lo
  BY DEF Spans
<1>2. PICK n \in S : Largest(n) = hi
  BY DEF Spans
<1> QED
  BY <1>1, <1>2 DEF Gapless

(* Tables that reach into the range of C leave no gap beside it. *)
LEMMA GaplessGrows ==
  ASSUME NEW C, NEW G, TablesIn(C), TablesIn(G), NEW lo, NEW hi, Spans(C, lo, hi), Gapless(C),
         \A n \in G : Largest(n) >= lo /\ Smallest(n) <= hi
  PROVE  Gapless(C \cup G)
<1> SUFFICES ASSUME NEW m \in C \cup G, NEW n \in C \cup G, NEW x \in Nat,
                    Smallest(m) <= x, x <= Largest(n)
             PROVE  Covers(C \cup G, x)
  BY DEF Gapless
<1>1. /\ lo \in Nat /\ hi \in Nat
      /\ \A i \in C : lo <= Smallest(i) /\ Largest(i) <= hi
  BY DEF Spans
<1>2. \A i \in C \cup G : Smallest(i) \in Nat /\ Largest(i) \in Nat
  BY RangeOf DEF TablesIn
<1>3. CASE lo <= x /\ x <= hi
  <2>1. Covers(C, x)
    BY <1>3, GaplessCovers
  <2> QED
    BY <2>1 DEF Covers
<1>4. CASE x < lo
  <2>1. m \in G
    <3> SUFFICES ASSUME m \in C PROVE FALSE
      OBVIOUS
    <3>1. lo <= Smallest(m) /\ Smallest(m) \in Nat
      BY <1>1, <1>2
    <3> QED
      BY <1>1, <1>4, <3>1
  <2>2. Largest(m) >= lo /\ Largest(m) \in Nat
    BY <1>2, <2>1
  <2>3. x <= Largest(m)
    BY <1>1, <1>4, <2>2
  <2> QED
    BY <2>3 DEF Covers
<1>5. CASE hi < x
  <2>1. n \in G
    <3> SUFFICES ASSUME n \in C PROVE FALSE
      OBVIOUS
    <3>1. Largest(n) <= hi /\ Largest(n) \in Nat
      BY <1>1, <1>2
    <3> QED
      BY <1>1, <1>5, <3>1
  <2>2. Smallest(n) <= hi /\ Smallest(n) \in Nat
    BY <1>2, <2>1
  <2>3. Smallest(n) <= x
    BY <1>1, <1>5, <2>2
  <2> QED
    BY <2>3 DEF Covers
<1> QED
  BY <1>1, <1>3, <1>4, <1>5

(* GetOverlappingInputs: the least set of level-0 files that holds first   *)
(* and all that overlaps it.                                               *)
GrownFrom(S, first, C) ==
  first \subseteq C /\ Overlapping(S, Hull(C)[1], Hull(C)[2]) \subseteq C
LeastGrown(S, first, C) ==
  /\ C # {} /\ GrownFrom(S, first, C)
  /\ \A D \in SUBSET S : D # {} /\ GrownFrom(S, first, D) => Cardinality(C) <= Cardinality(D)

LEMMA LeastGrownIs ==
  ASSUME NEW v, NEW l, NEW lo, NEW hi, IsFiniteSet(v[l]), ~(l > 0), Overlapping(v[l], lo, hi) # {}
  PROVE  /\ GetOverlappingInputs(v, l, lo, hi) \subseteq v[l]
         /\ LeastGrown(v[l], Overlapping(v[l], lo, hi), GetOverlappingInputs(v, l, lo, hi))
<1> DEFINE first == Overlapping(v[l], lo, hi)
           Least(C) == LeastGrown(v[l], first, C)
<1>1. GetOverlappingInputs(v, l, lo, hi) = CHOOSE C \in SUBSET v[l] : Least(C)
  BY DEF GetOverlappingInputs, LeastGrown, GrownFrom
<1>2. first \subseteq v[l] /\ \A a, b : Overlapping(v[l], a, b) \subseteq v[l]
  BY DEF Overlapping
<1>3. GrownFrom(v[l], first, v[l])
  BY <1>2 DEF GrownFrom
<1>4. \E C \in SUBSET v[l] : Least(C)
  <2> DEFINE cand == {D \in SUBSET v[l] : D # {} /\ GrownFrom(v[l], first, D)}
             sizes == {Cardinality(D) : D \in cand}
  <2> HIDE DEF first
  <2>1. v[l] \in cand
    BY <1>2, <1>3 DEF first
  <2>2. \A D \in cand : Cardinality(D) \in Nat
    BY FS_Subset, FS_CardinalityType
  <2>3. sizes \in SUBSET Nat /\ sizes # {}
    BY <2>1, <2>2
  <2>4. PICK m \in sizes : \A y \in sizes : m <= y
    <3> HIDE DEF sizes
    <3> QED BY <2>3, LeastNumber
  <2>5. PICK C \in cand : m = Cardinality(C)
    BY <2>4
  <2>6. \A D \in SUBSET v[l] : D # {} /\ GrownFrom(v[l], first, D) => Cardinality(C) <= Cardinality(D)
    BY <2>4, <2>5
  <2> QED
    BY <2>5, <2>6 DEF LeastGrown
<1> HIDE DEF Least
<1>5. Least(CHOOSE C \in SUBSET v[l] : Least(C)) /\ (CHOOSE C \in SUBSET v[l] : Least(C)) \in SUBSET v[l]
  BY <1>4
<1> QED
  BY <1>1, <1>5 DEF Least

LEMMA OverlappingIs ==
  ASSUME NEW S, NEW lo, NEW hi, NEW n
  PROVE  n \in Overlapping(S, lo, hi) <=> n \in S /\ Largest(n) >= lo /\ Smallest(n) <= hi
BY DEF Overlapping

(* Cut at a gap, the least grown set would have a smaller one inside: the  *)
(* files on the side of the range it grew from.                            *)
LEMMA CutAtGap ==
  ASSUME NEW S, IsFiniteSet(S), TablesIn(S), NEW first, NEW G \in SUBSET S,
         LeastGrown(S, first, G), NEW P \in SUBSET G, P # {}, first \subseteq P,
         NEW lo, NEW hi, Spans(P, lo, hi),
         \A i \in G : Largest(i) >= lo /\ Smallest(i) <= hi => i \in P
  PROVE  P = G
<1>1. IsFiniteSet(G) /\ IsFiniteSet(P)
  BY FS_Subset
<1>2. TablesIn(G) /\ TablesIn(P)
  BY DEF TablesIn
<1>3. G # {}
  OBVIOUS
<1> DEFINE a == Hull(G)[1]
           b == Hull(G)[2]
           c == Hull(P)[1]
           d == Hull(P)[2]
<1>4. Spans(G, a, b) /\ Spans(P, c, d)
  BY <1>1, <1>2, <1>3, HullSpans
<1> HIDE DEF a, b, c, d
<1>5. \A i \in G : Smallest(i) \in Nat /\ Largest(i) \in Nat
  BY <1>2, RangeOf DEF TablesIn
<1>6. c = lo /\ d = hi
  <2>1. PICK i \in P : Smallest(i) = lo
    BY DEF Spans
  <2>2. PICK j \in P : Smallest(j) = c
    BY <1>4 DEF Spans
  <2>3. PICK k \in P : Largest(k) = hi
    BY DEF Spans
  <2>4. PICK m \in P : Largest(m) = d
    BY <1>4 DEF Spans
  <2>5. lo \in Nat /\ hi \in Nat /\ c \in Nat /\ d \in Nat
    BY <1>4 DEF Spans
  <2>6. lo <= Smallest(j) /\ c <= Smallest(i) /\ Largest(m) <= hi /\ Largest(k) <= d
    BY <1>4 DEF Spans
  <2> QED
    BY <2>1, <2>2, <2>3, <2>4, <2>5, <2>6
<1>7. a \in Nat /\ b \in Nat /\ lo \in Nat /\ hi \in Nat /\ a <= lo /\ hi <= b
  <2>1. PICK i \in P : Smallest(i) = lo
    BY DEF Spans
  <2>2. PICK k \in P : Largest(k) = hi
    BY DEF Spans
  <2>3. a <= Smallest(i) /\ Largest(k) <= b
    BY <1>4 DEF Spans
  <2> QED
    BY <1>4, <2>1, <2>2, <2>3 DEF Spans
<1>8. ASSUME NEW n \in Overlapping(S, lo, hi) PROVE n \in P
  <2>1. n \in S /\ Largest(n) >= lo /\ Smallest(n) <= hi
    BY <1>8, OverlappingIs
  <2>2. Smallest(n) \in Nat /\ Largest(n) \in Nat
    BY <2>1, RangeOf DEF TablesIn
  <2>3. Largest(n) >= a /\ Smallest(n) <= b
    BY <1>7, <2>1, <2>2
  <2>4. n \in Overlapping(S, a, b)
    BY <2>1, <2>3, OverlappingIs
  <2>5. n \in G
    BY <2>4 DEF LeastGrown, GrownFrom, a, b
  <2> QED
    BY <2>1, <2>5
<1>9. GrownFrom(S, first, P)
  BY <1>6, <1>8 DEF GrownFrom, c, d
<1>10. Cardinality(G) <= Cardinality(P)
  BY <1>9 DEF LeastGrown
<1>11. Cardinality(P) <= Cardinality(G) /\ Cardinality(P) \in Nat /\ Cardinality(G) \in Nat
  BY <1>1, FS_Subset, FS_CardinalityType
<1> QED
  BY <1>1, <1>10, <1>11, FS_Subset

LEMMA GrownGapless ==
  ASSUME NEW v, NEW l, IsFiniteSet(v[l]), TablesIn(v[l]), NEW B, TablesIn(B), NEW lo, NEW hi,
         Spans(B, lo, hi), Gapless(B), Overlapping(v[l], lo, hi) # {}
  PROVE  Gapless(B \cup GetOverlappingInputs(v, l, lo, hi))
<1> DEFINE S == v[l]
           first == Overlapping(S, lo, hi)
           G == GetOverlappingInputs(v, l, lo, hi)
<1>1. CASE l > 0
  <2>1. G = first
    BY <1>1 DEF GetOverlappingInputs
  <2>2. \A n \in first : n \in S /\ Largest(n) >= lo /\ Smallest(n) <= hi
    BY OverlappingIs
  <2>3. TablesIn(first)
    BY <2>2 DEF TablesIn
  <2> HIDE DEF first
  <2> QED
    BY <2>1, <2>2, <2>3, GaplessGrows
<1>2. CASE ~(l > 0)
  <2>1. G \subseteq S /\ LeastGrown(S, first, G)
    BY <1>2, LeastGrownIs
  <2>2. \A i \in first : i \in S /\ Largest(i) >= lo /\ Smallest(i) <= hi
    BY OverlappingIs
  <2>3. first \subseteq G
    BY <2>1 DEF LeastGrown, GrownFrom
  <2> HIDE DEF first, G
  <2> SUFFICES ASSUME NEW m \in B \cup G, NEW n \in B \cup G, NEW x \in Nat,
                      Smallest(m) <= x, x <= Largest(n), ~Covers(B \cup G, x)
               PROVE  FALSE
    BY DEF Gapless, G
  <2>4. \A i \in B \cup G : Smallest(i) \in Nat /\ Largest(i) \in Nat
    BY <2>1, RangeOf DEF TablesIn
  <2>5. \A i \in B \cup G : Largest(i) < x \/ x < Smallest(i)
    BY <2>4 DEF Covers
  <2>6. lo \in Nat /\ hi \in Nat /\ \A i \in B : lo <= Smallest(i) /\ Largest(i) <= hi
    BY DEF Spans
  <2>7. x < lo \/ hi < x
    <3> SUFFICES ASSUME lo <= x, x <= hi PROVE FALSE
      BY <2>6
    <3>1. Covers(B, x)
      BY GaplessCovers
    <3> QED
      BY <3>1 DEF Covers
  <2>8. PICK o \in first : TRUE
    BY DEF first
  <2>9. o \in G /\ Largest(o) >= lo /\ Smallest(o) <= hi
    BY <2>2, <2>3
  <2>10. IsFiniteSet(G)
    BY <2>1, FS_Subset
  <2>11. CASE x < lo
    <3> DEFINE P == {i \in G : x < Smallest(i)}
    <3>1. m \in G /\ m \notin P
      BY <2>4, <2>6, <2>11
    <3>2. \A i \in G : Largest(i) >= lo => i \in P
      <4> SUFFICES ASSUME NEW i \in G, Largest(i) >= lo PROVE x < Smallest(i)
        OBVIOUS
      <4>1. Largest(i) \in Nat /\ (Largest(i) < x \/ x < Smallest(i))
        BY <2>4, <2>5
      <4> QED
        BY <2>6, <2>11, <4>1
    <3>3. first \subseteq P /\ P # {}
      BY <2>2, <2>3, <2>9, <3>2
    <3>4. IsFiniteSet(P) /\ P \subseteq G
      BY <2>10, FS_Subset
    <3>5. TablesIn(P)
      BY <2>1, <3>4 DEF TablesIn
    <3> DEFINE c == Hull(P)[1]
               d == Hull(P)[2]
    <3>6. Spans(P, c, d)
      BY <3>3, <3>4, <3>5, HullSpans
    <3> HIDE DEF c, d
    <3>7. x < c /\ c \in Nat
      BY <3>6 DEF Spans
    <3>8. ASSUME NEW i \in G, Largest(i) >= c PROVE i \in P
      <4>1. Largest(i) \in Nat /\ (Largest(i) < x \/ x < Smallest(i))
        BY <2>4, <2>5
      <4>2. x < Smallest(i)
        BY <3>7, <3>8, <4>1
      <4> QED
        BY <4>2
    <3>9. P = G
      <4> HIDE DEF P
      <4> QED
        BY <2>1, <3>3, <3>4, <3>6, <3>8, CutAtGap
    <3> QED
      BY <3>1, <3>9
  <2>12. CASE hi < x
    <3> DEFINE P == {i \in G : Largest(i) < x}
    <3>1. n \in G /\ n \notin P
      BY <2>4, <2>6, <2>12
    <3>2. \A i \in G : Smallest(i) <= hi => i \in P
      <4> SUFFICES ASSUME NEW i \in G, Smallest(i) <= hi PROVE Largest(i) < x
        OBVIOUS
      <4>1. Smallest(i) \in Nat /\ (Largest(i) < x \/ x < Smallest(i))
        BY <2>4, <2>5
      <4> QED
        BY <2>6, <2>12, <4>1
    <3>3. first \subseteq P /\ P # {}
      BY <2>2, <2>3, <2>9, <3>2
    <3>4. IsFiniteSet(P) /\ P \subseteq G
      BY <2>10, FS_Subset
    <3>5. TablesIn(P)
      BY <2>1, <3>4 DEF TablesIn
    <3> DEFINE c == Hull(P)[1]
               d == Hull(P)[2]
    <3>6. Spans(P, c, d)
      BY <3>3, <3>4, <3>5, HullSpans
    <3> HIDE DEF c, d
    <3>7. d < x /\ d \in Nat
      BY <3>6 DEF Spans
    <3>8. ASSUME NEW i \in G, Smallest(i) <= d PROVE i \in P
      <4>1. Smallest(i) \in Nat /\ (Largest(i) < x \/ x < Smallest(i))
        BY <2>4, <2>5
      <4>2. Largest(i) < x
        BY <3>7, <3>8, <4>1
      <4> QED
        BY <4>2
    <3>9. P = G
      <4> HIDE DEF P
      <4> QED
        BY <2>1, <3>3, <3>4, <3>6, <3>8, CutAtGap
    <3> QED
      BY <3>1, <3>9
  <2> QED
    BY <2>7, <2>11, <2>12
<1> QED
  BY <1>1, <1>2

(* No two files of S share a key range, but for copies of a table. *)
Disjoint(T, S) == \A m, n \in S : m # n => Apart(T[m], T[n]) \/ T[m] = T[n]

(* The files of the next level that a compaction leaves alone are on one   *)
(* side of all its inputs.                                                 *)
LEMMA LeftAlone ==
  ASSUME NEW S, IsFiniteSet(S), S # {}, TablesIn(S), NEW N, TablesIn(N), Disjoint(disk.tables, N),
         NEW n \in N, n \notin Overlapping(N, Hull(S)[1], Hull(S)[2])
  PROVE  Apart(disk.tables[n],
               UNION {disk.tables[i] : i \in S \cup Overlapping(N, Hull(S)[1], Hull(S)[2])})
<1> DEFINE lo == Hull(S)[1]
           hi == Hull(S)[2]
           J == Overlapping(N, lo, hi)
           T == disk.tables
           all == UNION {T[i] : i \in S \cup J}
<1>1. Spans(S, lo, hi)
  BY HullSpans
<1> HIDE DEF lo, hi
<1>2. /\ lo \in Nat /\ hi \in Nat /\ \A i \in S : lo <= Smallest(i) /\ Largest(i) <= hi
  BY <1>1 DEF Spans
<1>3. PICK f \in S : Smallest(f) = lo
  BY <1>1 DEF Spans
<1>4. \A i \in J : i \in N /\ Largest(i) >= lo /\ Smallest(i) <= hi
  BY OverlappingIs
<1>5. \A i \in S \cup N : T[i] \in TableSets /\ Smallest(i) \in Nat /\ Largest(i) \in Nat /\ Smallest(i) <= Largest(i)
  BY RangeOf DEF TablesIn
<1>6. lo <= hi
  <2>1. Smallest(f) <= Largest(f) /\ Largest(f) <= hi /\ Largest(f) \in Nat
    BY <1>2, <1>5
  <2> QED
    BY <1>2, <1>3, <2>1
<1>7. n \notin J
  BY DEF lo, hi
<1>8. Largest(n) < lo \/ hi < Smallest(n)
  BY <1>2, <1>5, <1>7, OverlappingIs
<1> HIDE DEF J
<1>9. ASSUME NEW i \in J PROVE Largest(n) < Smallest(i) \/ Largest(i) < Smallest(n)
  <2>1. i # n /\ i \in N
    BY <1>4, <1>7
  <2>2. T[i] # T[n]
    <3> SUFFICES ASSUME T[i] = T[n] PROVE FALSE
      OBVIOUS
    <3>1. Smallest(i) = Smallest(n) /\ Largest(i) = Largest(n)
      BY DEF Smallest, Largest, KeysOf
    <3>2. Largest(i) >= lo /\ Smallest(i) <= hi
      BY <1>4
    <3> QED
      BY <1>2, <1>5, <1>8, <2>1, <3>1, <3>2
  <2>3. Apart(T[i], T[n])
    BY <2>1, <2>2 DEF Disjoint
  <2> QED
    BY <1>5, <2>1, <2>3, BelowIs DEF Apart
<1>10. CASE Largest(n) < lo
  <2>1. ASSUME NEW i \in S \cup J PROVE Largest(n) < Smallest(i)
    <3>1. CASE i \in S
      <4>1. lo <= Smallest(i) /\ Smallest(i) \in Nat /\ Largest(n) \in Nat
        BY <1>2, <1>5, <3>1
      <4> QED
        BY <1>2, <1>10, <4>1
    <3>2. CASE i \in J
      <4>1. Largest(i) >= lo /\ Smallest(n) <= Largest(n) /\ i \in N
        BY <1>4, <1>5, <3>2
      <4>2. ~(Largest(i) < Smallest(n))
        BY <1>2, <1>5, <1>10, <4>1
      <4> QED
        BY <1>9, <3>2, <4>2
    <3> QED
      BY <3>1, <3>2
  <2>2. Below(T[n], all)
    <3> SUFFICES ASSUME NEW d \in T[n], NEW i \in S \cup J, NEW e \in T[i] PROVE d.key < e.key
      BY DEF Below
    <3>1. Below(T[n], T[i])
      BY <1>4, <1>5, <2>1, BelowIs
    <3> QED
      BY <3>1 DEF Below
  <2> QED
    BY <2>2 DEF Apart, J, lo, hi
<1>11. CASE hi < Smallest(n)
  <2>1. ASSUME NEW i \in S \cup J PROVE Largest(i) < Smallest(n)
    <3>1. CASE i \in S
      <4>1. Largest(i) <= hi /\ Largest(i) \in Nat /\ Smallest(n) \in Nat
        BY <1>2, <1>5, <3>1
      <4> QED
        BY <1>2, <1>11, <4>1
    <3>2. CASE i \in J
      <4>1. Smallest(i) <= hi /\ Smallest(n) <= Largest(n) /\ i \in N
        BY <1>4, <1>5, <3>2
      <4>2. ~(Largest(n) < Smallest(i))
        BY <1>2, <1>5, <1>11, <4>1
      <4> QED
        BY <1>9, <3>2, <4>2
    <3> QED
      BY <3>1, <3>2
  <2>2. Below(all, T[n])
    <3> SUFFICES ASSUME NEW i \in S \cup J, NEW e \in T[i], NEW d \in T[n] PROVE e.key < d.key
      BY DEF Below
    <3>1. Below(T[i], T[n])
      BY <1>4, <1>5, <2>1, BelowIs
    <3> QED
      BY <3>1 DEF Below
  <2> QED
    BY <2>2 DEF Apart, J, lo, hi
<1> QED
  BY <1>8, <1>10, <1>11

LEMMA NextLevelIs ==
  ASSUME NEW v, NEW l \in Nat, NEW S
  PROVE  NextLevelInputs(v, l, S) = Overlapping(v[l + 1], Hull(S)[1], Hull(S)[2])
<1>1. l + 1 > 0
  OBVIOUS
<1> QED
  BY <1>1 DEF NextLevelInputs, GetOverlappingInputs

(* What PickCompaction and SetupOtherInputs choose. *)
LEMMA ChosenIs ==
  ASSUME NEW v, NEW l \in Nat, IsFiniteSet(v[l]), IsFiniteSet(v[l + 1]), TablesIn(v[l]),
         TablesIn(v[l + 1]), NEW f \in v[l]
  PROVE  \E S \in SUBSET v[l] :
           /\ S # {} /\ Chosen(v, l, f) = <<S, Overlapping(v[l + 1], Hull(S)[1], Hull(S)[2])>>
           /\ Gapless(S \cup Overlapping(v[l + 1], Hull(S)[1], Hull(S)[2]))
<1> DEFINE Next(S) == Overlapping(v[l + 1], Hull(S)[1], Hull(S)[2])
           in0 == PickedInputs(v, l, f)
           in1 == Next(in0)
           a == Hull(in0 \cup in1)[1]
           b == Hull(in0 \cup in1)[2]
           grown == GetOverlappingInputs(v, l, a, b)
<1>1. \A S : NextLevelInputs(v, l, S) = Next(S)
  BY NextLevelIs
<1>2. \A S : Next(S) \subseteq v[l + 1] /\ IsFiniteSet(Next(S)) /\ TablesIn(Next(S))
  <2>1. \A S : Next(S) \subseteq v[l + 1]
    BY OverlappingIs
  <2> QED
    BY <2>1, FS_Subset DEF TablesIn
<1>3. disk.tables[f] \in TableSets
  BY DEF TablesIn
<1>4. f \in Overlapping(v[l], Smallest(f), Largest(f))
  <2>1. Smallest(f) \in Nat /\ Largest(f) \in Nat /\ Smallest(f) <= Largest(f)
    BY <1>3, RangeOf
  <2> QED
    BY <2>1, OverlappingIs
<1>5. in0 \subseteq v[l] /\ f \in in0 /\ Gapless(in0)
  <2>1. CASE l # 0
    BY <2>1, GaplessOne DEF PickedInputs
  <2>2. CASE l = 0
    <3> DEFINE G == GetOverlappingInputs(v, l, Smallest(f), Largest(f))
    <3>1. in0 = G
      BY <2>2 DEF PickedInputs
    <3>2. ~(l > 0) /\ Overlapping(v[l], Smallest(f), Largest(f)) # {}
      BY <1>4, <2>2
    <3>3. G \subseteq v[l] /\ LeastGrown(v[l], Overlapping(v[l], Smallest(f), Largest(f)), G)
      BY <3>2, LeastGrownIs
    <3>4. f \in G
      BY <1>4, <3>3 DEF LeastGrown, GrownFrom
    <3>5. Spans({f}, Smallest(f), Largest(f)) /\ Gapless({f}) /\ TablesIn({f})
      BY <1>3, SpansOne, GaplessOne DEF TablesIn
    <3>6. Gapless({f} \cup G)
      BY <3>2, <3>5, GrownGapless
    <3>7. {f} \cup G = G
      BY <3>4
    <3> QED
      BY <3>1, <3>3, <3>4, <3>6, <3>7
  <2> QED
    BY <2>1, <2>2
<1> HIDE DEF in0
<1>6. IsFiniteSet(in0) /\ TablesIn(in0) /\ in0 # {}
  BY <1>5, FS_Subset DEF TablesIn
<1>7. Spans(in0, Hull(in0)[1], Hull(in0)[2])
  BY <1>6, HullSpans
<1>8. \A S : \A n \in Next(S) : Largest(n) >= Hull(S)[1] /\ Smallest(n) <= Hull(S)[2]
  BY OverlappingIs
<1>9. Gapless(in0 \cup in1)
  BY <1>2, <1>5, <1>6, <1>7, <1>8, GaplessGrows
<1>10. Chosen(v, l, f) = <<in0, in1>> \/ (Chosen(v, l, f) = <<grown, Next(grown)>> /\ in1 # {})
  <2>1. Chosen(v, l, f) = SetupOtherInputs(v, l, in0, in1)
    BY <1>1 DEF Chosen, in0
  <2>2. SetupOtherInputs(v, l, in0, in1) = <<in0, in1>>
        \/ (in1 # {} /\ SetupOtherInputs(v, l, in0, in1) = <<grown, NextLevelInputs(v, l, grown)>>)
    BY DEF SetupOtherInputs
  <2> QED
    BY <1>1, <2>1, <2>2
<1>11. CASE Chosen(v, l, f) = <<in0, in1>>
  BY <1>5, <1>6, <1>9, <1>11
<1>12. CASE Chosen(v, l, f) = <<grown, Next(grown)>>
  <2> DEFINE B == in0 \cup in1
  <2>1. IsFiniteSet(B) /\ TablesIn(B) /\ B # {}
    BY <1>2, <1>6, FS_Union DEF TablesIn
  <2>2. Spans(B, a, b)
    BY <2>1, HullSpans
  <2>3. \A i \in B : Smallest(i) \in Nat /\ Largest(i) \in Nat /\ Smallest(i) <= Largest(i)
    BY <2>1, RangeOf DEF TablesIn
  <2> HIDE DEF a, b, in1
  <2>4. in0 \subseteq Overlapping(v[l], a, b)
    <3> SUFFICES ASSUME NEW i \in in0 PROVE i \in Overlapping(v[l], a, b)
      OBVIOUS
    <3>1. a <= Smallest(i) /\ Largest(i) <= b /\ a \in Nat /\ b \in Nat
      BY <2>2 DEF Spans
    <3>2. Smallest(i) \in Nat /\ Largest(i) \in Nat /\ Smallest(i) <= Largest(i)
      BY <2>3
    <3>3. Largest(i) >= a /\ Smallest(i) <= b
      BY <3>1, <3>2
    <3> QED
      BY <1>5, <3>3, OverlappingIs
  <2>5. Overlapping(v[l], a, b) # {}
    BY <1>6, <2>4
  <2>6. grown \subseteq v[l] /\ Overlapping(v[l], a, b) \subseteq grown
    <3>1. CASE l > 0
      <4>1. grown = Overlapping(v[l], a, b)
        BY <3>1 DEF GetOverlappingInputs
      <4> QED
        BY <4>1, OverlappingIs
    <3>2. CASE ~(l > 0)
      BY <2>5, <3>2, LeastGrownIs DEF LeastGrown, GrownFrom
    <3> QED
      BY <3>1, <3>2
  <2>7. Gapless(B \cup grown)
    BY <1>9, <2>1, <2>2, <2>5, GrownGapless
  <2> HIDE DEF grown
  <2>8. in0 \subseteq grown /\ grown # {} /\ IsFiniteSet(grown) /\ TablesIn(grown)
    BY <1>6, <2>4, <2>6, FS_Subset DEF TablesIn
  <2> DEFINE c == Hull(grown)[1]
             d == Hull(grown)[2]
  <2>9. Spans(grown, c, d)
    BY <2>8, HullSpans
  <2>10. in1 \subseteq Next(grown)
    <3> SUFFICES ASSUME NEW n \in in1 PROVE n \in Next(grown)
      OBVIOUS
    <3> DEFINE lo == Hull(in0)[1]
               hi == Hull(in0)[2]
    <3>1. n \in v[l + 1] /\ Largest(n) >= lo /\ Smallest(n) <= hi
      BY <1>2, <1>8 DEF in1
    <3> HIDE DEF lo, hi
    <3>2. PICK i \in in0 : Smallest(i) = lo
      BY <1>7 DEF Spans, lo
    <3>3. PICK j \in in0 : Largest(j) = hi
      BY <1>7 DEF Spans, hi
    <3> HIDE DEF c, d
    <3>4. c <= Smallest(i) /\ Largest(j) <= d /\ c \in Nat /\ d \in Nat
      BY <2>8, <2>9 DEF Spans
    <3>5. Smallest(n) \in Nat /\ Largest(n) \in Nat /\ lo \in Nat /\ hi \in Nat
      BY <2>3, <3>2, <3>3
    <3>6. Largest(n) >= c /\ Smallest(n) <= d
      BY <3>1, <3>2, <3>3, <3>4, <3>5
    <3> QED
      BY <3>1, <3>6, OverlappingIs DEF c, d
  <2> DEFINE E == B \cup grown
             e1 == Hull(E)[1]
             e2 == Hull(E)[2]
  <2>11. IsFiniteSet(E) /\ TablesIn(E) /\ E # {}
    BY <2>1, <2>8, FS_Union DEF TablesIn
  <2>12. Spans(E, e1, e2)
    BY <2>11, HullSpans
  <2>13. ASSUME NEW n \in Next(grown) PROVE Largest(n) >= e1 /\ Smallest(n) <= e2
    <3>1. Largest(n) >= c /\ Smallest(n) <= d
      BY <1>8
    <3> HIDE DEF c, d, e1, e2
    <3>2. PICK i \in grown : Smallest(i) = c
      BY <2>9 DEF Spans
    <3>3. PICK j \in grown : Largest(j) = d
      BY <2>9 DEF Spans
    <3>4. e1 <= Smallest(i) /\ Largest(j) <= e2 /\ e1 \in Nat /\ e2 \in Nat
      BY <2>12 DEF Spans
    <3>5. c \in Nat /\ d \in Nat
      BY <2>9 DEF Spans
    <3>6. Largest(n) \in Nat /\ Smallest(n) \in Nat
      BY <1>2, RangeOf DEF TablesIn
    <3> QED
      BY <3>1, <3>2, <3>3, <3>4, <3>5, <3>6
  <2>14. Gapless(E \cup Next(grown))
    <3> HIDE DEF E, e1, e2, Next
    <3> QED
      BY <1>2, <2>7, <2>11, <2>12, <2>13, GaplessGrows DEF E
  <2>15. E \cup Next(grown) = grown \cup Next(grown)
    BY <2>8, <2>10
  <2> QED
    BY <1>12, <2>6, <2>8, <2>14, <2>15
<1> QED
  BY <1>10, <1>11, <1>12

-----------------------------------------------------------------------------
(***************************************************************************)
(* What each step of the background thread does to the tables, the two     *)
(* versions, the memtable that waits and the record under way.             *)
(***************************************************************************)

Recorded == bg.pc \in {"manifest", "install"}
Stopped == db.bg_error /\ bg.pc \in {"idle", "scheduled"}
Merging == compaction # NoCompaction /\ ~(Recorded /\ bg.kind = "compaction")

(* Tables, versions and memtables stay. *)
Standing ==
  /\ db.state = "open" /\ db'.state = "open"
  /\ disk'.tables = disk.tables /\ disk'.current = disk.current
  /\ UnderCurrent' = UnderCurrent /\ vset'.files = vset.files
  /\ vset'.last_sequence = vset.last_sequence
  /\ db'.imm = db.imm /\ mems' = mems

LEMMA QuietIs ==
  ASSUME FilesInv,
         (BackgroundCall /\ db.bg_error) \/ BuildTableFails \/ ObsoleteFilesRemoved \/ CompactionFails
  PROVE  /\ Standing /\ bg'.pc \in {"entry", "idle", "scheduled"} /\ (Stopped => Stopped')
         /\ compaction' \in {compaction, NoCompaction}
         /\ compaction' # NoCompaction => bg.pc \in {"build", "delete"} 
<1>1. bg.pc \notin {"idle", "open"}
  BY DEF BackgroundCall, BuildTableFails, ObsoleteFilesRemoved, CompactionFails
<1>2. db.state = "open" /\ DBShape /\ BackgroundInv /\ db.bg_error \in BOOLEAN
  BY <1>1, AtWork DEF Shapes
<1>3. CASE BackgroundCall /\ db.bg_error
  <2>1. /\ bg.pc = "scheduled" /\ UNCHANGED <<disk, mems, db, vset, compaction>>
        /\ FinishCall(th, TRUE, db.imm, vset.files)
    BY <1>3 DEF BackgroundCall
  <2>2. bg'.pc \in {"idle", "scheduled"}
    BY <2>1, FinishCallPc
  <2>3. compaction = NoCompaction
    BY <1>2, <2>1 DEF BackgroundInv
  <2> QED
    BY <1>2, <1>3, <2>1, <2>2, <2>3 DEF Standing, Stopped, UnderCurrent
<1>4. CASE BuildTableFails
  <2>1. /\ bg.pc = "build" /\ UNCHANGED <<disk, mems, vset, compaction>>
        /\ db' = [db EXCEPT !.bg_error = TRUE, !.pending = @ \ {bg.file}]
        /\ MemTableDone(TRUE, db.imm, vset.files)
    BY <1>4 DEF BuildTableFails
  <2>2. db'.state = db.state /\ db'.imm = db.imm
    BY <1>2, <2>1 DEF DBShape
  <2> QED
    BY <1>2, <2>1, <2>2, MemTableDonePc DEF Standing, Stopped, UnderCurrent
<1>5. CASE ObsoleteFilesRemoved
  <2>1. /\ bg.pc = "delete" /\ UNCHANGED <<disk, mems, db, vset, compaction>>
        /\ MemTableDone(db.bg_error, db.imm, vset.files) \/ FinishCall(th, db.bg_error, db.imm, vset.files)
    BY <1>5 DEF ObsoleteFilesRemoved
  <2>2. bg'.pc \in {"entry", "idle", "scheduled"}
    BY <2>1, MemTableDonePc, FinishCallPc
  <2> QED
    BY <1>2, <2>1, <2>2 DEF Standing, Stopped, UnderCurrent
<1>6. CASE CompactionFails
  <2>1. /\ bg.pc \in {"work", "entry"} /\ UNCHANGED <<disk, mems, vset>> /\ compaction' = NoCompaction
        /\ db' = [db EXCEPT !.bg_error = TRUE, !.pending = @ \ compaction.outputs]
        /\ FinishCall(th, TRUE, db.imm, vset.files)
    BY <1>6 DEF CompactionFails
  <2>2. db'.state = db.state /\ db'.imm = db.imm
    BY <1>2, <2>1 DEF DBShape
  <2> QED
    BY <1>2, <2>1, <2>2, FinishCallPc DEF Standing, Stopped, UnderCurrent
<1> QED
  BY <1>3, <1>4, <1>5, <1>6

LEMMA CompactMemTableIs ==
  ASSUME FilesInv, CompactMemTable, bg.pc \in {"scheduled", "work"},
         UNCHANGED <<disk, mems, compaction>>
  PROVE  /\ Standing /\ bg'.pc = "build" /\ bg'.file = vset.next_file
         /\ vset.next_file \notin FilesOf(UnderCurrent.files)
<1>1. /\ db.state = "open" /\ Shapes /\ vset.next_file \in Nat
      /\ UnderCurrent.next_file \in Nat /\ UnderCurrent.next_file <= vset.next_file
  BY AtWork
<1>2. /\ vset' = [vset EXCEPT !.next_file = @ + 1]
      /\ db' = [db EXCEPT !.pending = @ \cup {vset.next_file}]
      /\ bg' = [pc |-> "build", file |-> vset.next_file]
  BY DEF CompactMemTable
<1>3. /\ db'.state = db.state /\ db'.imm = db.imm /\ vset'.files = vset.files
      /\ vset'.last_sequence = vset.last_sequence
  BY <1>1, <1>2 DEF Shapes, DBShape, VersionSetShape
<1>4. bg'.pc = "build" /\ bg'.file = vset.next_file
  BY <1>2
<1>5. Held(Tables, UnderCurrent.files, UnderCurrent.next_file)
  BY <1>1 DEF FilesInv, CurrentHeld
<1>6. vset.next_file \notin FilesOf(UnderCurrent.files)
  BY <1>1, <1>5 DEF Held
<1> QED
  BY <1>1, <1>3, <1>4, <1>6 DEF Standing, UnderCurrent

LEMMA BuildTableIs ==
  ASSUME FilesInv, BuildTable
  PROVE  /\ bg.pc = "build" /\ bg'.pc = "built" /\ bg'.file = bg.file /\ compaction' = compaction
         /\ db.state = "open" /\ db'.state = "open" /\ disk'.current = disk.current
         /\ UnderCurrent' = UnderCurrent /\ vset' = vset /\ db' = db /\ mems' = mems /\ db.imm # 0
         /\ disk'.tables[bg.file] = mems[db.imm]
         /\ \A n : n # bg.file /\ n \in Tables => disk'.tables[n] = disk.tables[n]
         /\ bg.file \notin FilesOf(vset.files) /\ bg.file \notin Outputs(compaction)
<1>1. /\ bg.pc = "build" /\ disk' = [disk EXCEPT !.tables = WithFile(@, bg.file, mems[db.imm])]
      /\ bg' = [bg EXCEPT !.pc = "built"] /\ UNCHANGED <<db, vset, mems, compaction>>
  BY DEF BuildTable
<1>2. db.state = "open" /\ Shapes /\ BackgroundInv
  BY <1>1, AtWork
<1>3. BuildInv
  BY <1>1, <1>2 DEF BackgroundInv
<1>4. bg'.pc = "built" /\ bg'.file = bg.file
  BY <1>1, <1>3 DEF BuildInv
<1>5. /\ disk'.current = disk.current /\ disk'.manifests = disk.manifests
      /\ disk'.tables = WithFile(disk.tables, bg.file, mems[db.imm])
  BY <1>1, <1>2 DEF Shapes, DiskShape
<1>6. disk'.tables[bg.file] = mems[db.imm]
      /\ \A n : n # bg.file /\ n \in Tables => disk'.tables[n] = disk.tables[n]
  BY <1>5 DEF WithFile, Tables
<1> QED
  BY <1>1, <1>2, <1>3, <1>4, <1>5, <1>6 DEF BuildInv, Unclaimed, UnderCurrent

LEMMA LogMemTableIs ==
  ASSUME FilesInv, LogMemTable
  PROVE  /\ Standing /\ bg.pc = "built" /\ compaction' = compaction /\ bg'.pc = "manifest"
         /\ bg'.kind = "memtable" /\ bg'.last_sequence = vset.last_sequence
         /\ bg'.edit = AddFile(PickLevelForMemTableOutput(vset.files, bg.file), bg.file)
         /\ bg.file \in Tables /\ bg.file \notin FilesOf(vset.files) /\ db.imm # 0
         /\ bg.file \notin Outputs(compaction)
<1>1. /\ bg.pc = "built" /\ UNCHANGED <<disk, vset, mems, compaction>>
      /\ db' = [db EXCEPT !.pending = @ \ {bg.file}]
      /\ bg' = Logged("memtable", AddFile(PickLevelForMemTableOutput(vset.files, bg.file), bg.file), db.mem)
  BY DEF LogMemTable
<1>2. db.state = "open" /\ Shapes /\ BackgroundInv
  BY <1>1, AtWork
<1>3. BuildInv
  BY <1>1, <1>2 DEF BackgroundInv
<1>4. db'.state = db.state /\ db'.imm = db.imm
  BY <1>1, <1>2 DEF Shapes, DBShape
<1> QED
  BY <1>1, <1>2, <1>3, <1>4, LoggedIs DEF Standing, UnderCurrent, BuildInv, Unclaimed

LEMMA CompactionStartsIs ==
  ASSUME FilesInv, BackgroundCall, ~db.bg_error, db.imm = 0
  PROVE  /\ Standing /\ bg.pc = "scheduled" /\ compaction = NoCompaction
         /\ UnderCurrent.files = vset.files
         /\ \E l \in Level : l + 1 \in Level /\ \E f \in vset.files[l] : CompactionStarts(l, f)
<1>1. /\ bg.pc = "scheduled" /\ UNCHANGED <<disk, mems, db, vset>>
      /\ \E l \in Level : l + 1 \in Level /\ \E f \in vset.files[l] : CompactionStarts(l, f)
  BY BackgroundCallIs
<1>2. db.state = "open" /\ BackgroundInv
  BY <1>1, AtWork
<1>3. compaction = NoCompaction /\ UnderCurrent.files = vset.files
  BY <1>1, <1>2 DEF BackgroundInv, FilesInv, OpenInv
<1> QED
  BY <1>1, <1>2, <1>3 DEF Standing, UnderCurrent

ResultsEdit(c) ==
  [del |-> [NoFiles EXCEPT ![c.level] = c.inputs[1], ![c.level + 1] = c.inputs[2]],
   add |-> [NoFiles EXCEPT ![c.level + 1] = c.outputs]]

LEMMA InstallCompactionResultsIs ==
  ASSUME FilesInv, InstallCompactionResults
  PROVE  /\ Standing /\ bg.pc = "work" /\ compaction # NoCompaction /\ compaction' = compaction
         /\ bg'.pc = "manifest" /\ bg'.kind = "compaction" /\ bg'.last_sequence = vset.last_sequence
         /\ bg'.edit = ResultsEdit(compaction)
<1>1. /\ bg.pc = "work" /\ UNCHANGED <<disk, db, vset, mems, compaction>>
      /\ bg' = Logged("compaction", ResultsEdit(compaction), vset.log_number)
  BY DEF InstallCompactionResults, ResultsEdit
<1>2. db.state = "open" /\ BackgroundInv
  BY <1>1, AtWork
<1>3. compaction # NoCompaction
  BY <1>1, <1>2 DEF BackgroundInv
<1> QED
  BY <1>1, <1>2, <1>3, LoggedIs DEF Standing, UnderCurrent

(* The record bg of a background thread in LogAndApply. *)
LEMMA RecordedIs ==
  ASSUME FilesInv, Recorded
  PROVE  /\ db.state = "open" /\ EditInv /\ Held(Tables, bg.edit.add, bg.next_file)
         /\ bg.kind \in {"memtable", "compaction", "move"}
         /\ bg.kind = "memtable" => db.imm # 0 /\ FilesOf(bg.edit.add) \cap Outputs(compaction) = {}
         /\ bg.kind = "compaction" => compaction # NoCompaction
         /\ bg.kind = "move" => compaction = NoCompaction
<1>1. db.state = "open" /\ BackgroundInv
  BY AtWork DEF Recorded
<1>2. EditInv
  BY <1>1 DEF BackgroundInv, Recorded
<1> QED
  BY <1>1, <1>2 DEF EditInv

LEMMA WriteManifestIs ==
  ASSUME FilesInv, WriteManifest
  PROVE  /\ bg.pc = "manifest" /\ Recorded /\ db.state = "open" /\ bg'.pc = "install"
         /\ bg'.kind = bg.kind /\ bg'.edit = bg.edit /\ bg'.last_sequence = bg.last_sequence
         /\ UNCHANGED <<db, vset, mems, compaction>>
         /\ disk'.tables = disk.tables /\ disk'.current = disk.current
         /\ UnderCurrent'.files = Edited(UnderCurrent.files, bg.edit)
         /\ UnderCurrent'.last_sequence = bg.last_sequence
<1>1. /\ bg.pc = "manifest" /\ bg' = [bg EXCEPT !.pc = "install"]
      /\ disk' = [disk EXCEPT !.manifests[vset.manifest] = WithRecord(@, bg)]
      /\ UNCHANGED <<db, vset, mems, compaction>>
  BY DEF WriteManifest
<1>2. Recorded
  BY <1>1 DEF Recorded
<1>3. db.state = "open" /\ EditInv
  BY <1>2, RecordedIs
<1>4. /\ bg'.pc = "install" /\ bg'.kind = bg.kind /\ bg'.edit = bg.edit
      /\ bg'.last_sequence = bg.last_sequence
  BY <1>1, <1>3 DEF EditInv
<1> QED
  BY <1>1, <1>2, <1>3, <1>4, ManifestIs

LEMMA ManifestFailsIs ==
  ASSUME FilesInv, ManifestFails
  PROVE  /\ bg.pc = "manifest" /\ Recorded /\ db.state = "open" /\ db'.state = "open"
         /\ disk'.tables = disk.tables /\ disk'.current = disk.current
         /\ vset' = vset /\ db'.imm = db.imm /\ mems' = mems /\ db'.bg_error
         /\ \/ UnderCurrent' = UnderCurrent
            \/ /\ UnderCurrent'.files = Edited(UnderCurrent.files, bg.edit)
               /\ UnderCurrent'.last_sequence = bg.last_sequence
         /\ \/ /\ bg.kind = "memtable" /\ compaction' = compaction
               /\ bg'.pc \in {"entry", "idle", "scheduled"}
            \/ bg.kind # "memtable" /\ compaction' = NoCompaction /\ bg'.pc \in {"idle", "scheduled"}
<1>1. /\ bg.pc = "manifest" /\ UNCHANGED <<vset, mems>>
      /\ \/ disk' = disk
         \/ disk' = [disk EXCEPT !.manifests[vset.manifest] = WithRecord(@, bg)]
      /\ \E x : db' = [db EXCEPT !.bg_error = TRUE, !.pending = x]
      /\ \/ bg.kind = "memtable" /\ MemTableDone(TRUE, db.imm, vset.files) /\ compaction' = compaction
         \/ bg.kind # "memtable" /\ compaction' = NoCompaction /\ FinishCall(th, TRUE, db.imm, vset.files)
  BY DEF ManifestFails
<1>2. Recorded
  BY <1>1 DEF Recorded
<1>3. db.state = "open" /\ DBShape
  BY <1>2, RecordedIs DEF FilesInv, Shapes
<1>4. db'.state = "open" /\ db'.imm = db.imm /\ db'.bg_error
  BY <1>1, <1>3 DEF DBShape
<1>5. \/ /\ bg.kind = "memtable" /\ compaction' = compaction
         /\ bg'.pc \in {"entry", "idle", "scheduled"}
      \/ bg.kind # "memtable" /\ compaction' = NoCompaction /\ bg'.pc \in {"idle", "scheduled"}
  BY <1>1, MemTableDonePc, FinishCallPc
<1>6. CASE disk' = disk
  BY <1>1, <1>2, <1>3, <1>4, <1>5, <1>6 DEF UnderCurrent
<1>7. CASE disk' = [disk EXCEPT !.manifests[vset.manifest] = WithRecord(@, bg)]
  BY <1>1, <1>2, <1>3, <1>4, <1>5, <1>7, ManifestIs
<1> QED
  BY <1>1, <1>6, <1>7

LEMMA InstallIs ==
  ASSUME FilesInv, MemsStored, Install
  PROVE  /\ bg.pc = "install" /\ Recorded /\ db.state = "open" /\ db'.state = "open"
         /\ disk' = disk /\ UnderCurrent' = UnderCurrent
         /\ vset'.files = Edited(vset.files, bg.edit) /\ vset'.last_sequence = vset.last_sequence
         /\ bg'.pc \in {"delete", "idle", "scheduled"}
         /\ db'.bg_error = db.bg_error
         /\ \A m \in DOMAIN mems' : m \in DOMAIN mems /\ mems'[m] = mems[m]
         /\ \/ bg.kind = "memtable" /\ db'.imm = 0 /\ compaction' = compaction
            \/ bg.kind \in {"compaction", "move"} /\ db'.imm = db.imm /\ mems' = mems
               /\ compaction' = NoCompaction
<1>1. /\ bg.pc = "install" /\ vset' = Installed /\ disk' = disk
      /\ \/ /\ bg.kind = "memtable" /\ db' = [db EXCEPT !.imm = 0] /\ compaction' = compaction
            /\ mems' = Restrict(mems, Referenced(th, db')) /\ bg' = [pc |-> "delete", kind |-> "memtable"]
         \/ /\ bg.kind = "compaction" /\ db' = [db EXCEPT !.pending = @ \ compaction.outputs]
            /\ compaction' = NoCompaction /\ mems' = mems /\ bg' = [pc |-> "delete", kind |-> "compaction"]
         \/ /\ bg.kind = "move" /\ FinishCall(th, db.bg_error, db.imm, Installed.files)
            /\ UNCHANGED <<db, mems, compaction>>
  BY DEF Install
<1>2. Recorded
  BY <1>1 DEF Recorded
<1>3. /\ db.state = "open" /\ DBShape /\ VersionSetShape
      /\ (bg.kind = "move" => compaction = NoCompaction) /\ (bg.kind = "memtable" => db.imm # 0)
  BY <1>2, RecordedIs DEF FilesInv, Shapes
<1>4. vset'.files = Edited(vset.files, bg.edit) /\ vset'.last_sequence = vset.last_sequence
  BY <1>1, <1>3 DEF Installed, VersionSetShape
<1>5. CASE bg.kind = "memtable"
  <2>1. /\ db' = [db EXCEPT !.imm = 0] /\ compaction' = compaction /\ bg'.pc = "delete"
        /\ mems' = Restrict(mems, Referenced(th, db'))
    BY <1>1, <1>5
  <2>2. db'.imm = 0 /\ db'.mem = db.mem /\ db'.state = "open" /\ db'.bg_error = db.bg_error
    BY <1>3, <2>1 DEF DBShape
  <2>4. Referenced(th, db') \subseteq DOMAIN mems
    <3> SUFFICES ASSUME NEW m \in Referenced(th, db') PROVE m \in Referenced(th, db)
      BY DEF MemsStored
    <3> QED
      BY <2>2, ReferencedIs
  <2>5. \A m \in DOMAIN mems' : m \in DOMAIN mems /\ mems'[m] = mems[m]
    BY <2>1, <2>4 DEF Restrict
  <2> QED
    BY <1>1, <1>2, <1>3, <1>4, <1>5, <2>1, <2>2, <2>5 DEF UnderCurrent
<1>6. CASE bg.kind = "compaction"
  <2>1. /\ db' = [db EXCEPT !.pending = @ \ compaction.outputs] /\ mems' = mems
        /\ bg'.pc = "delete" /\ compaction' = NoCompaction
    BY <1>1, <1>6
  <2>2. db'.imm = db.imm /\ db'.state = "open" /\ db'.bg_error = db.bg_error
    BY <1>3, <2>1 DEF DBShape
  <2> QED
    BY <1>1, <1>2, <1>3, <1>4, <1>6, <2>1, <2>2 DEF UnderCurrent
<1>7. CASE bg.kind = "move"
  <2>1. bg'.pc \in {"idle", "scheduled"}
    BY <1>1, <1>7, FinishCallPc
  <2> QED
    BY <1>1, <1>2, <1>3, <1>4, <1>7, <2>1 DEF UnderCurrent
<1> QED
  BY <1>1, <1>5, <1>6, <1>7

LEMMA RemoveObsoleteFilesIs ==
  ASSUME FilesInv, RemoveObsoleteFiles
  PROVE  /\ db.state \in {"opening", "open"} /\ disk'.current = disk.current /\ disk.current # 0
         /\ UnderCurrent' = UnderCurrent
         /\ disk.current = vset.manifest
         /\ UNCHANGED <<db, vset, mems, bg, compaction>>
         /\ \A n \in Needed \cap Tables : n \in Tables' /\ disk'.tables[n] = disk.tables[n]
         /\ db.state = "open" => bg.pc = "delete"
<1>1. doomed # {} /\ disk' = Removed(doomed) /\ UNCHANGED <<db, vset, mems, bg, compaction>>
  BY DEF RemoveObsoleteFiles
<1>2. db.state \in {"opening", "open"} /\ disk.current = vset.manifest /\ disk.current # 0
  <2>1. db.state \in {"opening", "open"}
    BY <1>1 DEF FilesInv, Shapes, NobodyYet
  <2> QED
    BY <1>1, <2>1 DEF FilesInv, OpeningInv, OpenInv, CurrentHeld
<1>3. db.state = "open" => bg.pc = "delete"
  BY <1>1 DEF FilesInv, OpenInv
<1> QED
  BY <1>1, <1>2, <1>3, RemovedUnneeded

LEMMA CrashIs ==
  ASSUME FilesInv, Crash
  PROVE  /\ disk'.current = disk.current /\ db'.state = "closed" /\ mems' = <<>>
         /\ vset'.last_sequence = 0
         /\ disk.current # 0 => UnderCurrent' = UnderCurrent
         /\ disk.current # 0 =>
              \A n \in FilesOf(UnderCurrent.files) : n \in Tables /\ disk'.tables[n] = disk.tables[n]
<1>1. db' = Closed /\ mems' = <<>> /\ vset' = NewVersionSet /\ \E S \in SUBSET doomed : disk' = Removed(S)
  BY DEF Crash
<1>2. PICK S \in SUBSET doomed : disk' = Removed(S)
  BY <1>1
<1>3. /\ disk'.current = disk.current
      /\ disk.current # 0 => UnderCurrent' = UnderCurrent
      /\ \A f : f \in Tables /\ f \in Needed => disk'.tables[f] = disk.tables[f]
  BY <1>2, RemovedUnneeded
<1>4. ASSUME disk.current # 0, NEW n \in FilesOf(UnderCurrent.files) PROVE n \in Tables /\ n \in Needed
  BY <1>4, NeededIs DEF FilesInv, CurrentHeld, Held
<1> QED
  BY <1>1, <1>3, <1>4 DEF Closed, NewVersionSet

(***************************************************************************)
(* Files that are being written are not in the MANIFEST under CURRENT.     *)
(***************************************************************************)
FreshInv ==
  db.state = "open" =>
    /\ bg.pc = "build" => bg.file \notin FilesOf(UnderCurrent.files)
    /\ Merging => compaction.outputs \cap FilesOf(UnderCurrent.files) = {}
    /\ compaction # NoCompaction => {"level", "inputs", "smallest_snapshot"} \subseteq DOMAIN compaction

LEMMA CompactEntryStep ==
  ASSUME FilesInv, CompactEntry
  PROVE  /\ db.state = "open" /\ db'.state = "open" /\ disk'.current = disk.current
         /\ bg.pc \in {"work", "entry"} /\ bg'.pc = "work" /\ compaction # NoCompaction
         /\ UnderCurrent' = UnderCurrent /\ vset'.files = vset.files
         /\ vset'.last_sequence = vset.last_sequence /\ db'.imm = db.imm /\ mems' = mems
         /\ \/ EntryDropped /\ disk' = disk
            \/ EntryWritten
         /\ compaction.todo # {}
         /\ {"todo", "prev", "files", "outputs", "builder"} \subseteq DOMAIN compaction
<1>1. /\ bg.pc \in {"work", "entry"} /\ bg' = [pc |-> "work"] /\ mems' = mems /\ compaction.todo # {}
      /\ EntryDropped \/ EntryWritten
  BY CompactEntryIs
<1>2. db.state = "open" /\ Shapes /\ BackgroundInv /\ CompactionInv
  BY <1>1, AtWork
<1>3. compaction # NoCompaction
  BY <1>1, <1>2 DEF BackgroundInv
<1>4. DiskShape /\ DBShape /\ VersionSetShape
  BY <1>2 DEF Shapes
<1>5. {"todo", "prev", "files", "outputs", "builder"} \subseteq DOMAIN compaction
  BY <1>2, <1>3 DEF CompactionInv
<1>6. CASE EntryDropped
  BY <1>1, <1>2, <1>3, <1>5, <1>6 DEF EntryDropped, UnderCurrent
<1>7. CASE EntryWritten
  <2>1. db'.state = db.state /\ db'.imm = db.imm
    BY <1>4, <1>7 DEF EntryWritten, DBShape
  <2>2. vset'.files = vset.files /\ vset'.last_sequence = vset.last_sequence
    BY <1>4, <1>7 DEF EntryWritten, VersionSetShape
  <2>3. disk'.current = disk.current /\ disk'.manifests = disk.manifests
    BY <1>4, <1>7 DEF EntryWritten, DiskShape
  <2> QED
    BY <1>1, <1>2, <1>3, <1>5, <1>7, <2>1, <2>2, <2>3 DEF UnderCurrent
<1> QED
  BY <1>1, <1>6, <1>7

(* The fields of the CompactionState after an entry. *)
LEMMA AfterEntryIs ==
  ASSUME NEW c, {"todo", "prev", "files", "outputs", "builder"} \subseteq DOMAIN c
  PROVE  /\ DOMAIN AfterEntry(c) = DOMAIN c
         /\ AfterEntry(c).todo = c.todo \ {NextEntry(c)}
         /\ AfterEntry(c).prev = [key |-> NextEntry(c).key, seq |-> NextEntry(c).seq]
         /\ AfterEntry(c).outputs = c.outputs /\ AfterEntry(c).builder = c.builder
         /\ "level" \in DOMAIN c => AfterEntry(c).level = c.level
         /\ "inputs" \in DOMAIN c => AfterEntry(c).inputs = c.inputs
         /\ "smallest_snapshot" \in DOMAIN c => AfterEntry(c).smallest_snapshot = c.smallest_snapshot
<1> DEFINE e == NextEntry(c)
           td == c.todo \ {e}
           pr == [key |-> e.key, seq |-> e.seq]
<1>1. AfterEntry(c) = [c EXCEPT !.todo = td, !.prev = pr]
  BY DEF AfterEntry
<1> HIDE DEF e, td, pr
<1>2. /\ DOMAIN [c EXCEPT !.todo = td, !.prev = pr] = DOMAIN c
      /\ [c EXCEPT !.todo = td, !.prev = pr].todo = td
      /\ [c EXCEPT !.todo = td, !.prev = pr].prev = pr
      /\ [c EXCEPT !.todo = td, !.prev = pr].outputs = c.outputs
      /\ [c EXCEPT !.todo = td, !.prev = pr].builder = c.builder
      /\ "level" \in DOMAIN c => [c EXCEPT !.todo = td, !.prev = pr].level = c.level
      /\ "inputs" \in DOMAIN c => [c EXCEPT !.todo = td, !.prev = pr].inputs = c.inputs
      /\ "smallest_snapshot" \in DOMAIN c => [c EXCEPT !.todo = td, !.prev = pr].smallest_snapshot = c.smallest_snapshot
  OBVIOUS
<1> QED
  BY <1>1, <1>2 DEF td, pr, e

LEMMA EntryWrittenIs ==
  ASSUME FilesInv, db.state = "open", compaction # NoCompaction, EntryWritten,
         {"todo", "prev", "files", "outputs", "builder"} \subseteq DOMAIN compaction
  PROVE  LET c == compaction
             out == OutputOf(c)
         IN  /\ DOMAIN compaction' = DOMAIN c
             /\ compaction'.todo = c.todo \ {NextEntry(c)}
             /\ compaction'.prev = [key |-> NextEntry(c).key, seq |-> NextEntry(c).seq]
             /\ compaction'.outputs = c.outputs \cup {out}
             /\ compaction'.builder \in {0, out}
             /\ "level" \in DOMAIN c => compaction'.level = c.level
             /\ "inputs" \in DOMAIN c => compaction'.inputs = c.inputs
             /\ "smallest_snapshot" \in DOMAIN c => compaction'.smallest_snapshot = c.smallest_snapshot
             /\ disk'.tables[out] = ContentOf(c)
             /\ \A n : n # out /\ n \in Tables => disk'.tables[n] = disk.tables[n]
             /\ out \notin FilesOf(vset.files)
             /\ c.builder = 0 => out \notin c.outputs /\ out = vset.next_file
             /\ c.builder # 0 => out = c.builder /\ out \in c.outputs
<1> DEFINE c == compaction
           out == OutputOf(c)
           a == AfterEntry(c)
           b == IF Cardinality(ContentOf(c)) >= MaxOutputEntries THEN 0 ELSE out
<1>1. /\ compaction' = [a EXCEPT !.outputs = @ \cup {out}, !.builder = b]
      /\ disk' = [disk EXCEPT !.tables = WithFile(@, out, ContentOf(c))]
  BY DEF EntryWritten
<1>2. b \in {0, out}
  OBVIOUS
<1>3. /\ DOMAIN a = DOMAIN c /\ a.todo = c.todo \ {NextEntry(c)}
      /\ a.prev = [key |-> NextEntry(c).key, seq |-> NextEntry(c).seq] /\ a.outputs = c.outputs
      /\ "level" \in DOMAIN c => a.level = c.level
      /\ "inputs" \in DOMAIN c => a.inputs = c.inputs
      /\ "smallest_snapshot" \in DOMAIN c => a.smallest_snapshot = c.smallest_snapshot
  BY AfterEntryIs
<1> HIDE DEF a, b
<1>4. /\ DOMAIN compaction' = DOMAIN a /\ compaction'.todo = a.todo /\ compaction'.prev = a.prev
      /\ compaction'.outputs = a.outputs \cup {out} /\ compaction'.builder = b
      /\ "level" \in DOMAIN a => compaction'.level = a.level
      /\ "inputs" \in DOMAIN a => compaction'.inputs = a.inputs
      /\ "smallest_snapshot" \in DOMAIN a => compaction'.smallest_snapshot = a.smallest_snapshot
  BY <1>1, <1>3
<1>5. DiskShape /\ CompactionInv /\ Held(Tables, vset.files, vset.next_file) /\ vset.next_file \in Nat
  BY DEF FilesInv, Shapes, OpenInv, ServingInv
<1>6. disk'.tables = WithFile(disk.tables, out, ContentOf(c))
  BY <1>1, <1>5 DEF DiskShape
<1>7. disk'.tables[out] = ContentOf(c) /\ \A n : n # out /\ n \in Tables => disk'.tables[n] = disk.tables[n]
  BY <1>6 DEF WithFile, Tables
<1>8. /\ \A o \in c.outputs : o \in Nat /\ o < vset.next_file /\ o \notin FilesOf(vset.files)
      /\ c.builder \in c.outputs \cup {0}
  BY <1>5 DEF CompactionInv
<1>9. CASE c.builder = 0
  <2>1. out = vset.next_file
    BY <1>9 DEF OutputOf
  <2>2. out \notin c.outputs /\ out \notin FilesOf(vset.files)
    BY <1>5, <1>8, <2>1 DEF Held
  <2> QED
    BY <1>2, <1>3, <1>4, <1>7, <1>9, <2>1, <2>2
<1>10. CASE c.builder # 0
  <2>1. out = c.builder /\ out \in c.outputs
    BY <1>8, <1>10 DEF OutputOf
  <2>2. out \notin FilesOf(vset.files)
    BY <1>8, <2>1
  <2> QED
    BY <1>2, <1>3, <1>4, <1>7, <1>10, <2>1, <2>2
<1> QED
  BY <1>9, <1>10

LEMMA StartIs ==
  ASSUME NEW l, NEW inputs
  PROVE  /\ StartCompaction(l, inputs) # NoCompaction
         /\ {"level", "inputs", "smallest_snapshot"} \subseteq DOMAIN StartCompaction(l, inputs)
BY DEF StartCompaction, NoCompaction

-----------------------------------------------------------------------------
(* The steps, by what they do to the store. *)
CallsMove == \E t \in Thread, k \in Key : Write(t, k) \/ Get(t, k) \/ ThreadStep(t)
Quiet ==
  (BackgroundCall /\ db.bg_error) \/ BuildTableFails \/ ObsoleteFilesRemoved \/ CompactionFails
MemTableStarts ==
  /\ CompactMemTable /\ bg.pc \in {"scheduled", "work"} /\ db.imm # 0
  /\ bg.pc = "scheduled" => ~db.bg_error
  /\ UNCHANGED <<disk, mems, writers, th, compaction, doomed, bounds>>
CompactionBegins == BackgroundCall /\ ~db.bg_error /\ db.imm = 0

LEMMA StepIs ==
  ASSUME [LevelDBNext]_ldbVars
  PROVE  \/ CallsMove \/ Quiet \/ MemTableStarts \/ CompactionBegins
         \/ BuildTable \/ LogMemTable \/ CompactEntry \/ InstallCompactionResults
         \/ WriteManifest \/ ManifestFails \/ Install \/ RemoveObsoleteFiles
         \/ Recovered \/ RecoverLogFile \/ NewManifest \/ SetCurrentFile \/ OpenReturns
         \/ Aborted \/ Crash \/ UNCHANGED ldbVars
<1>1. ASSUME NEW t \in Thread, ThreadStep(t) PROVE CallsMove
  BY <1>1, LevelDBAssumption DEF CallsMove
<1>2. ASSUME BackgroundCall PROVE Quiet \/ MemTableStarts \/ CompactionBegins
  <2>1. CASE db.bg_error
    BY <1>2, <2>1 DEF Quiet
  <2>2. CASE ~db.bg_error /\ db.imm = 0
    BY <1>2, <2>2 DEF CompactionBegins
  <2>3. CASE ~db.bg_error /\ db.imm # 0
    BY <1>2, <2>3, BackgroundCallIs DEF MemTableStarts
  <2> QED
    BY <2>1, <2>2, <2>3
<1>3. ASSUME CompactMemTableFirst PROVE MemTableStarts
  BY <1>3 DEF CompactMemTableFirst, MemTableStarts
<1>4. ASSUME NEW t \in Thread, NEW k \in Key, Write(t, k) \/ Get(t, k) PROVE CallsMove
  BY <1>4 DEF CallsMove
<1>5. CASE BackgroundStep
  BY <1>2, <1>3, <1>5 DEF BackgroundStep, Quiet
<1>6. CASE OpenStep
  BY <1>6, RecoverCases DEF OpenStep
<1>7. CASE BuildTableFails \/ CompactionFails \/ ManifestFails \/ Crash
  BY <1>7 DEF Quiet
<1> QED
  BY <1>1, <1>4, <1>5, <1>6, <1>7 DEF LevelDBNext

LEMMA CallsMoveIs ==
  ASSUME FilesInv, CallsMove
  PROVE  /\ ThreadsMove /\ db.state = "open" /\ db'.state = "open"
         /\ disk'.tables = disk.tables /\ disk'.current = disk.current
         /\ UnderCurrent' = UnderCurrent /\ vset'.files = vset.files
         /\ compaction' = compaction
         /\ bg' = bg \/ (bg.pc = "idle" /\ bg' = [pc |-> "scheduled"])
         /\ db.imm # 0 => db'.imm = db.imm /\ db'.mem = db.mem
         /\ db.bg_error => db'.bg_error
         /\ bg.pc # "idle" => bg' = bg
<1>1. ThreadsMove
  BY ThreadsMoveAll DEF CallsMove
<1> QED
  BY <1>1 DEF ThreadsMove, UnderCurrent

LEMMA AbortedFrame ==
  ASSUME FilesInv, Aborted
  PROVE  /\ db.state = "closed" /\ db'.state = "aborted" /\ db'.mem = 0 /\ db'.imm = 0
         /\ UnderCurrent' = UnderCurrent
         /\ UNCHANGED <<disk, vset, mems, writers, th, bg, compaction, doomed, bounds>>
<1>1. DiskShape
  BY DEF FilesInv, Shapes
<1>2. /\ db.state = "closed" /\ db' = [Closed EXCEPT !.state = "aborted"]
      /\ UNCHANGED <<disk, vset, mems, writers, th, bg, compaction, doomed, bounds>>
  BY <1>1, AbortedIs
<1> QED
  BY <1>2 DEF Closed, UnderCurrent

(* No step but these leaves the states open and closed, or enters open. *)
LEMMA OpenStepIs ==
  ASSUME FilesInv, Recovered \/ RecoverLogFile \/ NewManifest \/ SetCurrentFile \/ OpenReturns
  PROVE  /\ db.state # "open" /\ compaction = NoCompaction /\ compaction' = NoCompaction
         /\ ~OpenReturns /\ FilesInv' => db'.state # "open"
<1>1. db.state \in {"closed", "recovering", "opening"} /\ compaction' = compaction
  BY DEF Recovered, Recover, RecoverLogFile, NewManifest, SetCurrentFile, OpenReturns
<1>2. compaction = NoCompaction
  BY <1>1 DEF FilesInv, NobodyYet
<1>3. ASSUME Recovered, FilesInv' PROVE db'.state # "open"
  BY <1>3, RecoveredIs
<1>4. ASSUME NewManifest PROVE db'.state # "open"
  BY <1>4, NewManifestIs
<1>5. ASSUME SetCurrentFile PROVE db'.state # "open"
  BY <1>1, <1>5, SetCurrentFileIs
<1>6. ASSUME RecoverLogFile PROVE db'.state # "open"
  BY <1>6 DEF RecoverLogFile
<1> QED
  BY <1>1, <1>2, <1>3, <1>4, <1>5, <1>6

LEMMA OpenReturnsIs ==
  ASSUME FilesInv, OpenReturns
  PROVE  /\ db.state = "opening" /\ db'.state = "open" /\ compaction' = NoCompaction
         /\ UNCHANGED <<disk, vset, mems>> /\ bg'.pc \in {"idle", "scheduled"} /\ db'.imm = 0
         /\ ~db'.bg_error /\ disk.current = vset.manifest
         /\ disk.current # 0 /\ UnderCurrent.files = vset.files /\ UnderCurrent' = UnderCurrent
<1>1. /\ db.state = "opening" /\ db' = [db EXCEPT !.state = "open"] /\ disk.current = vset.manifest
      /\ bg' = MaybeScheduled(Idle, FALSE, 0, vset.files) /\ UNCHANGED <<disk, vset, mems, compaction>>
  BY DEF OpenReturns
<1>2. DBShape /\ OpeningInv /\ compaction = NoCompaction /\ CurrentHeld
  BY <1>1 DEF FilesInv, Shapes, NobodyYet
<1>3. db'.state = "open" /\ db'.imm = 0 /\ ~db'.bg_error
  BY <1>1, <1>2 DEF DBShape, OpeningInv
<1>4. bg'.pc \in {"idle", "scheduled"}
  <2>1. bg' = Idle \/ bg' = [pc |-> "scheduled"]
    BY <1>1, MaybeScheduledIs
  <2> QED
    BY <2>1 DEF Idle
<1>5. disk.current # 0 /\ UnderCurrent.files = vset.files
  BY <1>1, <1>2 DEF OpeningInv, UnderCurrent, CurrentHeld
<1> QED
  BY <1>1, <1>2, <1>3, <1>4, <1>5 DEF UnderCurrent

LEMMA FreshInit == LevelDBInit => FreshInv
BY DEF LevelDBInit, FreshInv, Closed

LEMMA FreshNext ==
  ASSUME FilesInv, FilesInv', MemsStored, FreshInv, [LevelDBNext]_ldbVars
  PROVE  FreshInv'
<1>1. CASE CallsMove
  <2>1. bg'.pc # bg.pc => bg'.pc = "scheduled"
    BY <1>1, CallsMoveIs
  <2>2. Recorded' => Recorded /\ bg' = bg
    BY <1>1, CallsMoveIs DEF Recorded
  <2>3. Merging' => Merging
    BY <1>1, <2>2, CallsMoveIs DEF Merging, Recorded
  <2> QED
    BY <1>1, <2>1, <2>3, CallsMoveIs DEF FreshInv
<1>2. CASE Quiet
  <2>1. /\ Standing /\ bg'.pc \in {"entry", "idle", "scheduled"} /\ compaction' \in {compaction, NoCompaction}
        /\ compaction' # NoCompaction => bg.pc \in {"build", "delete"}
    BY <1>2, QuietIs DEF Quiet
  <2>2. Merging' => Merging /\ compaction' = compaction
    BY <2>1 DEF Merging, Recorded
  <2> QED
    BY <2>1, <2>2 DEF FreshInv, Standing
<1>3. CASE MemTableStarts
  <2>1. /\ Standing /\ bg'.pc = "build" /\ bg'.file = vset.next_file /\ bg.pc \in {"scheduled", "work"}
        /\ vset.next_file \notin FilesOf(UnderCurrent.files) /\ compaction' = compaction
    BY <1>3, CompactMemTableIs DEF MemTableStarts
  <2>2. Merging' => Merging
    BY <2>1 DEF Merging, Recorded
  <2> QED
    BY <2>1, <2>2 DEF FreshInv, Standing
<1>4. CASE CompactionBegins
  <2>1. /\ Standing /\ bg.pc = "scheduled" /\ compaction = NoCompaction
        /\ \E l \in Level : l + 1 \in Level /\ \E f \in vset.files[l] : CompactionStarts(l, f)
    BY <1>4, CompactionStartsIs DEF CompactionBegins
  <2>2. PICK l \in Level : \E f \in vset.files[l] : CompactionStarts(l, f)
    BY <2>1
  <2>3. PICK f \in vset.files[l] : CompactionStarts(l, f)
    BY <2>2
  <2>4. CASE compaction' = compaction /\ bg'.pc = "manifest"
    BY <2>1, <2>4 DEF FreshInv, Merging, Standing
  <2>5. CASE bg' = [pc |-> "work"] /\ compaction' = StartCompaction(l, Chosen(vset.files, l, f))
    <3>1. compaction'.outputs = {} /\ {"level", "inputs", "smallest_snapshot"} \subseteq DOMAIN compaction'
      BY <2>5, StartIs, StartCompactionIs
    <3>2. bg'.pc = "work"
      BY <2>5
    <3> QED
      BY <3>1, <3>2 DEF FreshInv
  <2> QED
    BY <2>3, <2>4, <2>5, LoggedIs DEF CompactionStarts
<1>5. CASE BuildTable
  <2>1. bg.pc = "build" /\ bg'.pc = "built" /\ compaction' = compaction /\ UnderCurrent' = UnderCurrent
        /\ db.state = "open"
    BY <1>5, BuildTableIs
  <2> QED
    BY <2>1 DEF FreshInv, Merging, Recorded
<1>6. CASE LogMemTable
  <2>1. /\ Standing /\ bg.pc = "built" /\ compaction' = compaction /\ bg'.pc = "manifest"
        /\ bg'.kind = "memtable"
    BY <1>6, LogMemTableIs
  <2> QED
    BY <2>1 DEF FreshInv, Merging, Recorded, Standing
<1>7. CASE CompactEntry
  <2>1. /\ db.state = "open" /\ bg.pc \in {"work", "entry"} /\ bg'.pc = "work"
        /\ compaction # NoCompaction /\ UnderCurrent' = UnderCurrent
        /\ EntryDropped \/ EntryWritten
        /\ {"todo", "prev", "files", "outputs", "builder"} \subseteq DOMAIN compaction
    BY <1>7, CompactEntryStep
  <2>2. Merging
    BY <2>1 DEF Merging, Recorded
  <2>3. CASE EntryDropped
    <3>1. compaction' = AfterEntry(compaction)
      BY <2>3 DEF EntryDropped
    <3>2. compaction'.outputs = compaction.outputs /\ DOMAIN compaction' = DOMAIN compaction
      BY <2>1, <3>1, AfterEntryIs
    <3> QED
      BY <2>1, <2>2, <3>2 DEF FreshInv
  <2>4. CASE EntryWritten
    <3> DEFINE out == OutputOf(compaction)
    <3>1. /\ compaction'.outputs = compaction.outputs \cup {out} /\ DOMAIN compaction' = DOMAIN compaction
          /\ compaction.builder = 0 => out = vset.next_file
          /\ compaction.builder # 0 => out \in compaction.outputs
      BY <2>1, <2>4, EntryWrittenIs
    <3>2. vset.next_file \notin FilesOf(UnderCurrent.files)
      <4>1. /\ UnderCurrent.next_file \in Nat /\ UnderCurrent.next_file <= vset.next_file
            /\ vset.next_file \in Nat /\ Held(Tables, UnderCurrent.files, UnderCurrent.next_file)
        BY <2>1, AtWork DEF FilesInv, CurrentHeld
      <4> QED
        BY <4>1 DEF Held
    <3> QED
      BY <2>1, <2>2, <3>1, <3>2 DEF FreshInv
  <2> QED
    BY <2>1, <2>3, <2>4
<1>8. CASE InstallCompactionResults
  <2>1. /\ Standing /\ compaction' = compaction /\ bg'.pc = "manifest" /\ bg'.kind = "compaction"
    BY <1>8, InstallCompactionResultsIs
  <2> QED
    BY <2>1 DEF FreshInv, Merging, Recorded, Standing
<1>9. CASE WriteManifest
  <2>1. /\ Recorded /\ bg'.pc = "install" /\ bg'.kind = bg.kind /\ compaction' = compaction
        /\ db.state = "open" /\ UnderCurrent'.files = Edited(UnderCurrent.files, bg.edit)
    BY <1>9, WriteManifestIs
  <2>2. ASSUME Merging' PROVE Merging /\ compaction.outputs \cap FilesOf(bg.edit.add) = {}
    <3>1. compaction # NoCompaction /\ bg.kind # "compaction"
      BY <2>1, <2>2 DEF Merging, Recorded
    <3>2. bg.kind = "memtable"
      BY <2>1, <3>1, RecordedIs
    <3> QED
      BY <2>1, <3>1, <3>2, RecordedIs DEF Merging, Outputs
  <2>3. Merging' => compaction.outputs \cap FilesOf(UnderCurrent'.files) = {}
    BY <2>1, <2>2, FilesOfEdited DEF FreshInv
  <2> QED
    BY <2>1, <2>3 DEF FreshInv
<1>10. CASE ManifestFails
  <2>1. /\ Recorded /\ db.state = "open" /\ bg'.pc \in {"entry", "idle", "scheduled"}
        /\ UnderCurrent' = UnderCurrent \/ UnderCurrent'.files = Edited(UnderCurrent.files, bg.edit)
        /\ compaction' = NoCompaction \/ (bg.kind = "memtable" /\ compaction' = compaction)
    BY <1>10, ManifestFailsIs
  <2>2. ASSUME compaction' # NoCompaction
        PROVE  Merging /\ compaction' = compaction /\ compaction.outputs \cap FilesOf(bg.edit.add) = {}
    BY <2>1, <2>2, RecordedIs DEF Merging, Outputs
  <2>3. compaction' # NoCompaction => compaction.outputs \cap FilesOf(UnderCurrent'.files) = {}
    BY <2>1, <2>2, FilesOfEdited DEF FreshInv
  <2> QED
    BY <2>1, <2>2, <2>3 DEF FreshInv, Merging
<1>11. CASE Install
  <2>1. /\ Recorded /\ db.state = "open" /\ bg'.pc \in {"delete", "idle", "scheduled"}
        /\ UnderCurrent' = UnderCurrent
        /\ compaction' = NoCompaction \/ (bg.kind = "memtable" /\ compaction' = compaction)
    BY <1>11, InstallIs
  <2>2. compaction' # NoCompaction => Merging /\ compaction' = compaction
    BY <2>1 DEF Merging
  <2> QED
    BY <2>1, <2>2 DEF FreshInv, Merging
<1>12. CASE RemoveObsoleteFiles
  <2>1. UNCHANGED <<db, bg, compaction>> /\ UnderCurrent' = UnderCurrent
    BY <1>12, RemoveObsoleteFilesIs
  <2> QED
    BY <2>1 DEF FreshInv, Merging, Recorded
<1>13. CASE Recovered \/ RecoverLogFile \/ NewManifest \/ SetCurrentFile
  <2>1. db'.state # "open"
    BY <1>13, OpenStepIs DEF Recovered, Recover, RecoverLogFile, NewManifest, SetCurrentFile, OpenReturns
  <2> QED
    BY <2>1 DEF FreshInv
<1>14. CASE OpenReturns
  BY <1>14, OpenReturnsIs DEF FreshInv, Merging
<1>15. CASE Crash
  BY <1>15, CrashIs DEF FreshInv
<1>17. CASE Aborted
  BY <1>17, AbortedFrame DEF FreshInv
<1>16. CASE UNCHANGED ldbVars
  <2>1. UnderCurrent' = UnderCurrent /\ UNCHANGED <<db, bg, compaction>>
    BY <1>16 DEF UnderCurrent, ldbVars
  <2> QED
    BY <2>1 DEF FreshInv, Merging, Recorded
<1> QED
  BY <1>1, <1>2, <1>3, <1>4, <1>5, <1>6, <1>7, <1>8, <1>9, <1>10, <1>11, <1>12, <1>13, <1>14, <1>15,
     <1>16, <1>17, StepIs

-----------------------------------------------------------------------------
(***************************************************************************)
(* Sequence numbers: what is stored is not newer than the last_sequence    *)
(* of the version it belongs to.                                           *)
(***************************************************************************)

EntriesUpto(x, q) == \A e \in x : e.seq \in Nat /\ e.seq <= q
FilesUpto(T, S, q) == \A n \in S : EntriesUpto(T[n], q)

SnapshotInv(T, c, q) ==
  /\ c.smallest_snapshot \in Nat /\ c.smallest_snapshot <= q
  /\ c.prev.seq \in Nat /\ c.prev.seq <= c.smallest_snapshot
  /\ EntriesUpto(c.todo, c.smallest_snapshot)
  /\ FilesUpto(T, c.outputs, c.smallest_snapshot)

CurrentUpto ==
  disk.current # 0 => FilesUpto(disk.tables, FilesOf(UnderCurrent.files), UnderCurrent.last_sequence)
MemsUpto == \A m \in DOMAIN mems : EntriesUpto(mems[m], vset.last_sequence)
RecoveryUpto ==
  db.state = "recovering" =>
    /\ vset.last_sequence = UnderCurrent.last_sequence
    /\ FilesUpto(disk.tables, FilesOf(bg.edit.add), bg.max_sequence)
VersionUpto ==
  db.state \in {"opening", "open"} =>
    FilesUpto(disk.tables, FilesOf(vset.files), vset.last_sequence)
RecordUpto ==
  db.state = "open" =>
    /\ UnderCurrent.last_sequence <= vset.last_sequence
    /\ bg.pc = "built" => EntriesUpto(disk.tables[bg.file], vset.last_sequence)
    /\ Recorded =>
         /\ bg.last_sequence \in Nat /\ bg.last_sequence <= vset.last_sequence
         /\ FilesUpto(disk.tables, FilesOf(bg.edit.add), bg.last_sequence)
    /\ bg.pc = "manifest" => UnderCurrent.last_sequence <= bg.last_sequence
CompactionUpto ==
  db.state = "open" /\ compaction # NoCompaction =>
    SnapshotInv(disk.tables, compaction, vset.last_sequence)

SequenceInv ==
  CurrentUpto /\ MemsUpto /\ RecoveryUpto /\ VersionUpto /\ RecordUpto /\ CompactionUpto

LEMMA EntriesUptoGrows ==
  ASSUME NEW x, NEW q \in Nat, EntriesUpto(x, q), NEW r \in Nat, q <= r
  PROVE  EntriesUpto(x, r)
BY DEF EntriesUpto

LEMMA FilesUptoGrows ==
  ASSUME NEW T, NEW S, NEW q \in Nat, FilesUpto(T, S, q), NEW r \in Nat, q <= r
  PROVE  FilesUpto(T, S, r)
BY EntriesUptoGrows DEF FilesUpto

LEMMA FilesUptoKept ==
  ASSUME NEW T, NEW S, NEW q, FilesUpto(T, S, q), NEW R, NEW P \in SUBSET S, \A n \in P : R[n] = T[n]
  PROVE  FilesUpto(R, P, q)
BY DEF FilesUpto

LEMMA FilesUptoEdited ==
  ASSUME NEW T, NEW v, NEW edit, NEW q, FilesUpto(T, FilesOf(v), q), FilesUpto(T, FilesOf(edit.add), q)
  PROVE  FilesUpto(T, FilesOf(Edited(v, edit)), q)
BY FilesOfEdited DEF FilesUpto

LEMMA FilesUptoNone ==
  ASSUME NEW T, NEW q
  PROVE  FilesUpto(T, FilesOf(NoFiles), q) /\ FilesUpto(T, {}, q)
BY FilesOfNone DEF FilesUpto

(* The files the two versions name are on the disk. *)
LEMMA VersionsHeld ==
  ASSUME FilesInv, db.state = "open"
  PROVE  /\ FilesOf(vset.files) \subseteq Tables /\ FilesOf(UnderCurrent.files) \subseteq Tables
         /\ compaction # NoCompaction => compaction.outputs \subseteq Tables
         /\ Recorded => FilesOf(bg.edit.add) \subseteq Tables
         /\ disk.current # 0
<1>1. Held(Tables, vset.files, vset.next_file) /\ disk.current # 0 /\ CompactionInv
  BY DEF FilesInv, ServingInv, CurrentHeld, OpenInv
<1>2. Held(Tables, UnderCurrent.files, UnderCurrent.next_file)
  BY <1>1 DEF FilesInv, CurrentHeld
<1> QED
  BY <1>1, <1>2, RecordedIs DEF Held, CompactionInv

(* Their tables stay as they are. *)
LEMMA BuildTableTables ==
  ASSUME FilesInv, FreshInv, BuildTable
  PROVE  /\ \A n \in FilesOf(vset.files) \cup FilesOf(UnderCurrent.files) : disk'.tables[n] = disk.tables[n]
         /\ compaction # NoCompaction => \A n \in compaction.outputs : disk'.tables[n] = disk.tables[n]
<1>1. /\ bg.pc = "build" /\ db.state = "open"
      /\ \A n : n # bg.file /\ n \in Tables => disk'.tables[n] = disk.tables[n]
      /\ bg.file \notin FilesOf(vset.files) /\ bg.file \notin Outputs(compaction)
  BY BuildTableIs
<1>2. bg.file \notin FilesOf(UnderCurrent.files)
  BY <1>1 DEF FreshInv
<1> QED
  BY <1>1, <1>2, VersionsHeld DEF Outputs

LEMMA EntryWrittenTables ==
  ASSUME FilesInv, FreshInv, CompactEntry, EntryWritten
  PROVE  /\ \A n \in FilesOf(vset.files) \cup FilesOf(UnderCurrent.files) : disk'.tables[n] = disk.tables[n]
         /\ \A n \in compaction.outputs \ {OutputOf(compaction)} : disk'.tables[n] = disk.tables[n]
         /\ OutputOf(compaction) \notin FilesOf(vset.files)
         /\ OutputOf(compaction) \notin FilesOf(UnderCurrent.files)
<1> DEFINE out == OutputOf(compaction)
<1>1. /\ db.state = "open" /\ bg.pc \in {"work", "entry"} /\ compaction # NoCompaction
      /\ {"todo", "prev", "files", "outputs", "builder"} \subseteq DOMAIN compaction
  BY CompactEntryStep
<1>2. /\ \A n : n # out /\ n \in Tables => disk'.tables[n] = disk.tables[n]
      /\ out \notin FilesOf(vset.files)
      /\ compaction.builder = 0 => out = vset.next_file
      /\ compaction.builder # 0 => out \in compaction.outputs
  BY <1>1, EntryWrittenIs
<1>3. out \notin FilesOf(UnderCurrent.files)
  <2>1. /\ UnderCurrent.next_file \in Nat /\ UnderCurrent.next_file <= vset.next_file
        /\ vset.next_file \in Nat /\ Held(Tables, UnderCurrent.files, UnderCurrent.next_file)
    BY <1>1, AtWork DEF FilesInv, CurrentHeld
  <2>2. vset.next_file \notin FilesOf(UnderCurrent.files)
    BY <2>1 DEF Held
  <2>3. compaction.outputs \cap FilesOf(UnderCurrent.files) = {}
    BY <1>1 DEF FreshInv, Merging, Recorded
  <2> QED
    BY <1>2, <2>2, <2>3
<1> HIDE DEF out
<1>4. /\ FilesOf(vset.files) \subseteq Tables /\ FilesOf(UnderCurrent.files) \subseteq Tables
      /\ compaction.outputs \subseteq Tables
  BY <1>1, VersionsHeld
<1> QED
  BY <1>2, <1>3, <1>4 DEF out

LEMMA RemovalTables ==
  ASSUME FilesInv, RemoveObsoleteFiles
  PROVE  /\ \A n \in FilesOf(vset.files) \cup FilesOf(UnderCurrent.files) : disk'.tables[n] = disk.tables[n]
         /\ compaction # NoCompaction => \A n \in compaction.outputs : disk'.tables[n] = disk.tables[n]
<1>1. /\ db.state \in {"opening", "open"} /\ disk.current # 0
      /\ \A n \in Needed \cap Tables : n \in Tables' /\ disk'.tables[n] = disk.tables[n]
  BY RemoveObsoleteFilesIs
<1>2. Held(Tables, vset.files, vset.next_file) /\ Held(Tables, UnderCurrent.files, UnderCurrent.next_file)
  BY <1>1 DEF FilesInv, ServingInv, CurrentHeld
<1>3. compaction # NoCompaction => compaction.outputs \subseteq Tables
  <2>1. db.state = "opening" => compaction = NoCompaction
    BY DEF FilesInv, NobodyYet
  <2> QED
    BY <1>1, <2>1, VersionsHeld
<1>4. \A n \in FilesOf(vset.files) \cup FilesOf(UnderCurrent.files) : n \in Needed \cap Tables
  BY <1>2, NeededIs DEF Held
<1>5. compaction # NoCompaction => \A n \in compaction.outputs : n \in Needed \cap Tables
  BY <1>3, NeededIs
<1> QED
  BY <1>1, <1>4, <1>5

(* A step that keeps the versions and their tables. *)
LEMMA VersionsUpto ==
  ASSUME SequenceInv, RecordsInv, db.state = "open", db'.state = "open", disk'.current = disk.current,
         disk.current # 0, UnderCurrent' = UnderCurrent, vset'.files = vset.files,
         vset'.last_sequence \in Nat, vset.last_sequence <= vset'.last_sequence,
         \A n \in FilesOf(vset.files) \cup FilesOf(UnderCurrent.files) : disk'.tables[n] = disk.tables[n]
  PROVE  /\ CurrentUpto' /\ RecoveryUpto' /\ VersionUpto'
         /\ UnderCurrent'.last_sequence <= vset'.last_sequence
<1>1. vset.last_sequence \in Nat /\ UnderCurrent.last_sequence \in Nat
  BY DEF RecordsInv, SequencesKnown
<1>2. CurrentUpto'
  <2>1. FilesUpto(disk.tables, FilesOf(UnderCurrent.files), UnderCurrent.last_sequence)
    BY DEF SequenceInv, CurrentUpto
  <2>2. FilesUpto(disk'.tables, FilesOf(UnderCurrent.files), UnderCurrent.last_sequence)
    BY <2>1, FilesUptoKept
  <2> QED
    BY <2>2 DEF CurrentUpto
<1>3. VersionUpto'
  <2>1. FilesUpto(disk.tables, FilesOf(vset.files), vset.last_sequence)
    BY DEF SequenceInv, VersionUpto
  <2>2. FilesUpto(disk'.tables, FilesOf(vset.files), vset.last_sequence)
    BY <2>1, FilesUptoKept
  <2>3. FilesUpto(disk'.tables, FilesOf(vset.files), vset'.last_sequence)
    BY <1>1, <2>2, FilesUptoGrows
  <2> QED
    BY <2>3 DEF VersionUpto
<1>4. UnderCurrent.last_sequence <= vset.last_sequence
  BY DEF SequenceInv, RecordUpto
<1>5. UnderCurrent'.last_sequence <= vset'.last_sequence
  BY <1>1, <1>4
<1> QED
  BY <1>2, <1>3, <1>5 DEF RecoveryUpto

LEMMA CompactionUptoKept ==
  ASSUME SequenceInv, db.state = "open", compaction' \in {compaction, NoCompaction},
         vset.last_sequence \in Nat, vset'.last_sequence \in Nat, vset.last_sequence <= vset'.last_sequence,
         compaction # NoCompaction => \A n \in compaction.outputs : disk'.tables[n] = disk.tables[n]
  PROVE  CompactionUpto'
<1> SUFFICES ASSUME compaction' = compaction, compaction # NoCompaction
             PROVE  SnapshotInv(disk'.tables, compaction, vset'.last_sequence)
  BY DEF CompactionUpto
<1> DEFINE c == compaction
<1>1. SnapshotInv(disk.tables, c, vset.last_sequence)
  BY DEF SequenceInv, CompactionUpto
<1>2. FilesUpto(disk'.tables, c.outputs, c.smallest_snapshot)
  BY <1>1, FilesUptoKept DEF SnapshotInv
<1>3. c.smallest_snapshot <= vset'.last_sequence
  BY <1>1 DEF SnapshotInv
<1> QED
  BY <1>1, <1>2, <1>3 DEF SnapshotInv

LEMMA MakeRoomUpto ==
  ASSUME FilesInv, MemsUpto, NEW t, NEW q, NEW T, NEW b, MakeRoomForWrite(t, q, T, b)
  PROVE  /\ MemsUpto' /\ vset'.last_sequence = vset.last_sequence
         /\ db.imm # 0 => mems' = mems
<1>1. vset'.last_sequence = vset.last_sequence
  BY MakeRoomSequence
<1>2. mems' = mems \/ (db.imm = 0 /\ mems' = WithFile(mems, vset.next_file, {}))
  BY DEF MakeRoomForWrite, SwitchMemTable
<1>3. EntriesUpto({}, vset.last_sequence)
  BY DEF EntriesUpto
<1> QED
  BY <1>1, <1>2, <1>3 DEF MemsUpto, WithFile

LEMMA FinishWriteUpto ==
  ASSUME FilesInv, QueueInv, RecordsInv, MemsUpto, NEW t \in Thread, FinishWrite(t)
  PROVE  MemsUpto'
<1> DEFINE n == th[t].group
           group == {GroupEntry(writers, i) : i \in 1 .. n}
           last == vset.last_sequence
<1>1. /\ th[t].pc = "logged" /\ mems' = [mems EXCEPT ![db.mem] = @ \cup group]
      /\ vset' = [vset EXCEPT !.last_sequence = @ + n]
  BY DEF FinishWrite
<1>2. n \in 1 .. Len(writers)
  BY <1>1 DEF QueueInv, QueueOf, CallOK
<1>3. last \in Nat /\ VersionSetShape
  BY DEF RecordsInv, SequencesKnown, FilesInv, Shapes
<1>4. vset'.last_sequence = last + n
  BY <1>1, <1>3 DEF VersionSetShape
<1>5. ASSUME NEW i \in 1 .. n PROVE GroupEntry(writers, i).seq = last + i
  BY DEF GroupEntry
<1>6. EntriesUpto(group, last + n)
  <2> SUFFICES ASSUME NEW i \in 1 .. n
               PROVE  GroupEntry(writers, i).seq \in Nat /\ GroupEntry(writers, i).seq <= last + n
    BY DEF EntriesUpto
  <2> QED
    BY <1>2, <1>3, <1>5
<1> HIDE DEF group, n, last
<1>7. last + n \in Nat /\ last <= last + n
  BY <1>2, <1>3
<1> SUFFICES ASSUME NEW m \in DOMAIN mems' PROVE EntriesUpto(mems'[m], last + n)
  BY <1>4 DEF MemsUpto
<1>8. m \in DOMAIN mems /\ EntriesUpto(mems[m], last)
  BY <1>1 DEF MemsUpto, last
<1>9. EntriesUpto(mems[m], last + n)
  BY <1>3, <1>7, <1>8, EntriesUptoGrows DEF last
<1>10. mems'[m] = mems[m] \/ mems'[m] = mems[m] \cup group
  BY <1>1, <1>8
<1> QED
  BY <1>6, <1>9, <1>10 DEF EntriesUpto

LEMMA CallsMems ==
  ASSUME FilesInv, QueueInv, RecordsInv, MemsUpto, CallsMove
  PROVE  /\ MemsUpto' /\ vset'.last_sequence \in Nat /\ vset.last_sequence <= vset'.last_sequence
         /\ db.imm # 0 => mems'[db.imm] = mems[db.imm]
<1>1. PICK t \in Thread, k \in Key : Write(t, k) \/ Get(t, k) \/ ThreadStep(t)
  BY DEF CallsMove
<1>2. vset.last_sequence \in Nat /\ MemsStored
  BY DEF RecordsInv, SequencesKnown
<1>3. vset'.last_sequence \in Nat /\ vset.last_sequence <= vset'.last_sequence
  BY <1>1, <1>2, ThreadSequence
<1>4. CASE mems' = mems /\ vset' = vset
  BY <1>3, <1>4 DEF MemsUpto
<1>5. CASE Write(t, k)
  <2>1. (mems' = mems /\ vset' = vset) \/ \E q, T, b : MakeRoomForWrite(t, q, T, b)
    BY <1>5 DEF Write
  <2> QED
    BY <1>3, <1>4, <2>1, MakeRoomUpto
<1>6. CASE Resume(t)
  BY <1>3, <1>6, MakeRoomUpto DEF Resume
<1>7. CASE FinishWrite(t)
  BY <1>2, <1>3, <1>7, FinishWriteUpto, FinishWriteStored
<1>8. CASE GetReturns(t)
  <2>1. (\A m \in DOMAIN mems' : m \in DOMAIN mems /\ mems'[m] = mems[m]) /\ vset' = vset
    BY <1>2, <1>8, GetReturnsMems DEF GetReturns
  <2>2. db.imm # 0 => db.imm \in DOMAIN mems'
    BY <1>2, <1>8, GetReturnsMems
  <2> QED
    BY <1>3, <2>1, <2>2 DEF MemsUpto
<1>9. CASE Get(t, k) \/ AddRecord(t) \/ Return(t)
  BY <1>4, <1>9 DEF Get, AddRecord, Return
<1> QED
  BY <1>1, <1>5, <1>6, <1>7, <1>8, <1>9 DEF ThreadStep

LEMMA CallsSequence ==
  ASSUME FilesInv, QueueInv, RecordsInv, SequenceInv, CallsMove
  PROVE  SequenceInv'
<1>1. /\ db.state = "open" /\ db'.state = "open" /\ disk'.tables = disk.tables
      /\ disk'.current = disk.current /\ UnderCurrent' = UnderCurrent /\ vset'.files = vset.files
      /\ compaction' = compaction
      /\ bg' = bg \/ bg' = [pc |-> "scheduled"]
  BY CallsMoveIs
<1>2. MemsUpto' /\ vset'.last_sequence \in Nat /\ vset.last_sequence <= vset'.last_sequence
  BY CallsMems DEF SequenceInv
<1>3. vset.last_sequence \in Nat /\ disk.current # 0
  BY <1>1, VersionsHeld DEF RecordsInv, SequencesKnown
<1>4. CurrentUpto' /\ RecoveryUpto' /\ VersionUpto' /\ UnderCurrent'.last_sequence <= vset'.last_sequence
  BY <1>1, <1>2, <1>3, VersionsUpto
<1>5. CompactionUpto'
  BY <1>1, <1>2, <1>3, CompactionUptoKept
<1>6. RecordUpto'
  <2>1. CASE bg' = [pc |-> "scheduled"]
    <3>1. bg'.pc = "scheduled"
      BY <2>1
    <3> QED
      BY <1>4, <3>1 DEF RecordUpto, Recorded
  <2>2. CASE bg' = bg
    <3>1. bg.pc = "built" => EntriesUpto(disk.tables[bg.file], vset'.last_sequence)
      BY <1>1, <1>2, <1>3, EntriesUptoGrows DEF SequenceInv, RecordUpto
    <3>2. Recorded => bg.last_sequence \in Nat /\ bg.last_sequence <= vset'.last_sequence
      BY <1>1, <1>2, <1>3 DEF SequenceInv, RecordUpto
    <3> QED
      BY <1>1, <1>4, <2>2, <3>1, <3>2 DEF SequenceInv, RecordUpto, Recorded
  <2> QED
    BY <1>1, <2>1, <2>2
<1> QED
  BY <1>2, <1>4, <1>5, <1>6 DEF SequenceInv

(* A step of the background thread that keeps tables and versions. *)
LEMMA StandingSequence ==
  ASSUME FilesInv, RecordsInv, SequenceInv, Standing, CompactionUpto',
         bg'.pc \notin {"built", "install"},
         bg'.pc = "manifest" =>
           /\ bg'.last_sequence = vset.last_sequence
           /\ FilesUpto(disk.tables, FilesOf(bg'.edit.add), vset.last_sequence)
  PROVE  SequenceInv'
<1>1. vset.last_sequence \in Nat /\ disk.current # 0
  BY VersionsHeld DEF RecordsInv, SequencesKnown, Standing
<1>2. CurrentUpto' /\ RecoveryUpto' /\ VersionUpto' /\ UnderCurrent'.last_sequence <= vset'.last_sequence
  BY <1>1, VersionsUpto DEF Standing
<1>3. MemsUpto'
  BY DEF SequenceInv, MemsUpto, Standing
<1>4. RecordUpto'
  BY <1>1, <1>2 DEF RecordUpto, Recorded, Standing
<1> QED
  BY <1>2, <1>3, <1>4 DEF SequenceInv

LEMMA StandingCompaction ==
  ASSUME RecordsInv, SequenceInv, Standing, compaction' \in {compaction, NoCompaction}
  PROVE  CompactionUpto'
BY CompactionUptoKept DEF Standing, RecordsInv, SequencesKnown

LEMMA BuildTableSequence ==
  ASSUME FilesInv, RecordsInv, FreshInv, SequenceInv, BuildTable
  PROVE  SequenceInv'
<1>1. /\ bg'.pc = "built" /\ bg'.file = bg.file /\ compaction' = compaction
      /\ db.state = "open" /\ db'.state = "open" /\ disk'.current = disk.current
      /\ UnderCurrent' = UnderCurrent /\ vset' = vset /\ mems' = mems /\ db.imm # 0
      /\ disk'.tables[bg.file] = mems[db.imm]
  BY BuildTableIs
<1>2. /\ \A n \in FilesOf(vset.files) \cup FilesOf(UnderCurrent.files) : disk'.tables[n] = disk.tables[n]
      /\ compaction # NoCompaction => \A n \in compaction.outputs : disk'.tables[n] = disk.tables[n]
  BY BuildTableTables
<1>3. vset.last_sequence \in Nat /\ disk.current # 0
  BY <1>1, VersionsHeld DEF RecordsInv, SequencesKnown
<1>4. CurrentUpto' /\ RecoveryUpto' /\ VersionUpto' /\ UnderCurrent'.last_sequence <= vset'.last_sequence
  BY <1>1, <1>2, <1>3, VersionsUpto
<1>5. CompactionUpto'
  BY <1>1, <1>2, <1>3, CompactionUptoKept
<1>6. db.imm \in DOMAIN mems
  BY <1>1, ReferencedIs DEF RecordsInv, MemsStored
<1>7. EntriesUpto(mems[db.imm], vset.last_sequence)
  BY <1>6 DEF SequenceInv, MemsUpto
<1>8. RecordUpto'
  BY <1>1, <1>4, <1>7 DEF RecordUpto, Recorded
<1> QED
  BY <1>1, <1>4, <1>5, <1>8 DEF SequenceInv, MemsUpto

LEMMA CompactEntrySequence ==
  ASSUME FilesInv, RecordsInv, FreshInv, SequenceInv, CompactEntry
  PROVE  SequenceInv'
<1> DEFINE c == compaction
           e == NextEntry(c)
           q == c.smallest_snapshot
<1>1. /\ db.state = "open" /\ db'.state = "open" /\ disk'.current = disk.current
      /\ bg.pc \in {"work", "entry"} /\ bg'.pc = "work" /\ c # NoCompaction
      /\ UnderCurrent' = UnderCurrent /\ vset'.files = vset.files
      /\ vset'.last_sequence = vset.last_sequence /\ mems' = mems
      /\ c.todo # {} /\ {"todo", "prev", "files", "outputs", "builder"} \subseteq DOMAIN c
  BY CompactEntryStep
<1>2. (EntryDropped /\ disk' = disk) \/ EntryWritten
  BY CompactEntryStep
<1>3. \A n \in FilesOf(vset.files) \cup FilesOf(UnderCurrent.files) : disk'.tables[n] = disk.tables[n]
  BY <1>2, EntryWrittenTables
<1>4. vset.last_sequence \in Nat /\ disk.current # 0
  BY <1>1, VersionsHeld DEF RecordsInv, SequencesKnown
<1>5. CurrentUpto' /\ RecoveryUpto' /\ VersionUpto' /\ UnderCurrent'.last_sequence <= vset'.last_sequence
  BY <1>1, <1>3, <1>4, VersionsUpto
<1>6. RecordUpto'
  BY <1>1, <1>5 DEF RecordUpto, Recorded
<1>7. "smallest_snapshot" \in DOMAIN c
  BY <1>1 DEF FreshInv
<1>8. SnapshotInv(disk.tables, c, vset.last_sequence)
  BY <1>1 DEF SequenceInv, CompactionUpto
<1>9. q \in Nat /\ q <= vset.last_sequence /\ EntriesUpto(c.todo, q) /\ FilesUpto(disk.tables, c.outputs, q)
  BY <1>8 DEF SnapshotInv
<1>10. e \in c.todo /\ e.seq \in Nat /\ e.seq <= q
  <2>1. c.todo \in TableSets
    BY <1>1 DEF RecordsInv, CompactionStored, TableSets
  <2>2. e \in c.todo
    BY <2>1, NextEntryIs
  <2> QED
    BY <1>9, <2>2 DEF EntriesUpto
<1>11. EntriesUpto(c.todo \ {e}, q)
  BY <1>9 DEF EntriesUpto
<1>12. [key |-> e.key, seq |-> e.seq].seq = e.seq
  OBVIOUS
<1> HIDE DEF e
<1>13. SnapshotInv(disk'.tables, compaction', vset.last_sequence)
  <2>1. CASE EntryDropped /\ disk' = disk
    <3>1. compaction' = AfterEntry(c)
      BY <2>1 DEF EntryDropped
    <3>2. /\ compaction'.todo = c.todo \ {e} /\ compaction'.prev = [key |-> e.key, seq |-> e.seq]
          /\ compaction'.outputs = c.outputs /\ compaction'.smallest_snapshot = q
      BY <1>1, <1>7, <3>1, AfterEntryIs DEF e
    <3> QED
      BY <1>9, <1>10, <1>11, <1>12, <2>1, <3>2 DEF SnapshotInv
  <2>2. CASE EntryWritten
    <3> DEFINE out == OutputOf(c)
    <3>1. /\ compaction'.todo = c.todo \ {e} /\ compaction'.prev = [key |-> e.key, seq |-> e.seq]
          /\ compaction'.outputs = c.outputs \cup {out} /\ compaction'.smallest_snapshot = q
          /\ disk'.tables[out] = ContentOf(c) /\ (c.builder # 0 => out \in c.outputs)
      BY <1>1, <1>7, <2>2, EntryWrittenIs DEF e
    <3>2. \A n \in c.outputs \ {out} : disk'.tables[n] = disk.tables[n]
      BY <2>2, EntryWrittenTables
    <3>3. EntriesUpto(ContentOf(c), q)
      <4>1. ContentOf(c) = {e} \/ (out \in c.outputs /\ ContentOf(c) = {e} \cup disk.tables[out])
        BY <3>1 DEF ContentOf, e
      <4>2. out \in c.outputs => EntriesUpto(disk.tables[out], q)
        BY <1>9 DEF FilesUpto
      <4> QED
        BY <1>10, <4>1, <4>2 DEF EntriesUpto
    <3>4. FilesUpto(disk'.tables, c.outputs \cup {out}, q)
      BY <1>9, <3>1, <3>2, <3>3 DEF FilesUpto
    <3> QED
      BY <1>9, <1>10, <1>11, <1>12, <3>1, <3>4 DEF SnapshotInv
  <2> QED
    BY <1>2, <2>1, <2>2
<1>14. CompactionUpto'
  BY <1>1, <1>13 DEF CompactionUpto
<1>15. MemsUpto'
  BY <1>1 DEF SequenceInv, MemsUpto
<1> QED
  BY <1>5, <1>6, <1>14, <1>15 DEF SequenceInv

(* The record reaches the MANIFEST. *)
LEMMA RecordSequence ==
  ASSUME FilesInv, RecordsInv, SequenceInv, bg.pc = "manifest", db'.state = "open",
         disk'.tables = disk.tables, UnderCurrent'.files = Edited(UnderCurrent.files, bg.edit),
         UnderCurrent'.last_sequence = bg.last_sequence, vset' = vset
  PROVE  /\ CurrentUpto' /\ RecoveryUpto' /\ VersionUpto'
         /\ UnderCurrent'.last_sequence <= vset'.last_sequence
<1>1. Recorded
  BY DEF Recorded
<1>2. db.state = "open" /\ disk.current # 0
  BY <1>1, RecordedIs, VersionsHeld
<1>3. /\ bg.last_sequence \in Nat /\ bg.last_sequence <= vset.last_sequence
      /\ FilesUpto(disk.tables, FilesOf(bg.edit.add), bg.last_sequence)
      /\ UnderCurrent.last_sequence <= bg.last_sequence
  BY <1>1, <1>2 DEF SequenceInv, RecordUpto
<1>4. FilesUpto(disk.tables, FilesOf(UnderCurrent.files), UnderCurrent.last_sequence)
      /\ UnderCurrent.last_sequence \in Nat
  BY <1>2 DEF SequenceInv, CurrentUpto, RecordsInv, SequencesKnown
<1>5. FilesUpto(disk.tables, FilesOf(UnderCurrent.files), bg.last_sequence)
  BY <1>3, <1>4, FilesUptoGrows
<1>6. FilesUpto(disk.tables, FilesOf(Edited(UnderCurrent.files, bg.edit)), bg.last_sequence)
  BY <1>3, <1>5, FilesUptoEdited
<1>7. VersionUpto'
  BY <1>2 DEF SequenceInv, VersionUpto
<1> QED
  BY <1>3, <1>6, <1>7 DEF CurrentUpto, RecoveryUpto

LEMMA WriteManifestSequence ==
  ASSUME FilesInv, RecordsInv, SequenceInv, WriteManifest
  PROVE  SequenceInv'
<1>1. /\ bg.pc = "manifest" /\ Recorded /\ db.state = "open" /\ bg'.pc = "install"
      /\ bg'.edit = bg.edit /\ bg'.last_sequence = bg.last_sequence
      /\ UNCHANGED <<db, vset, mems, compaction>>
      /\ disk'.tables = disk.tables /\ UnderCurrent'.files = Edited(UnderCurrent.files, bg.edit)
      /\ UnderCurrent'.last_sequence = bg.last_sequence
  BY WriteManifestIs
<1>2. CurrentUpto' /\ RecoveryUpto' /\ VersionUpto' /\ UnderCurrent'.last_sequence <= vset'.last_sequence
  BY <1>1, RecordSequence
<1>3. RecordUpto'
  BY <1>1, <1>2 DEF SequenceInv, RecordUpto, Recorded
<1>4. MemsUpto' /\ CompactionUpto'
  BY <1>1 DEF SequenceInv, MemsUpto, CompactionUpto
<1> QED
  BY <1>2, <1>3, <1>4 DEF SequenceInv

LEMMA ManifestFailsSequence ==
  ASSUME FilesInv, RecordsInv, SequenceInv, ManifestFails
  PROVE  SequenceInv'
<1>1. /\ bg.pc = "manifest" /\ db.state = "open" /\ db'.state = "open"
      /\ bg'.pc \in {"entry", "idle", "scheduled"} /\ vset' = vset /\ mems' = mems
      /\ disk'.tables = disk.tables /\ disk'.current = disk.current
      /\ compaction' \in {compaction, NoCompaction} /\ db'.imm = db.imm
  BY ManifestFailsIs
<1>2. vset.last_sequence \in Nat
  BY DEF RecordsInv, SequencesKnown
<1>3. CompactionUpto'
  BY <1>1, <1>2, CompactionUptoKept
<1>4. CASE UnderCurrent' = UnderCurrent
  <2>1. Standing
    BY <1>1, <1>4 DEF Standing
  <2> QED
    BY <1>1, <1>3, <2>1, StandingSequence
<1>5. CASE /\ UnderCurrent'.files = Edited(UnderCurrent.files, bg.edit)
           /\ UnderCurrent'.last_sequence = bg.last_sequence
  <2>1. CurrentUpto' /\ RecoveryUpto' /\ VersionUpto' /\ UnderCurrent'.last_sequence <= vset'.last_sequence
    BY <1>1, <1>5, RecordSequence
  <2>2. RecordUpto'
    BY <1>1, <2>1 DEF RecordUpto, Recorded
  <2>3. MemsUpto'
    BY <1>1 DEF SequenceInv, MemsUpto
  <2> QED
    BY <1>3, <2>1, <2>2, <2>3 DEF SequenceInv
<1> QED
  BY <1>4, <1>5, ManifestFailsIs

LEMMA InstallSequence ==
  ASSUME FilesInv, RecordsInv, SequenceInv, Install
  PROVE  SequenceInv'
<1>1. /\ Recorded /\ db.state = "open" /\ db'.state = "open" /\ disk' = disk /\ UnderCurrent' = UnderCurrent
      /\ vset'.files = Edited(vset.files, bg.edit) /\ vset'.last_sequence = vset.last_sequence
      /\ bg'.pc \in {"delete", "idle", "scheduled"}
      /\ \A m \in DOMAIN mems' : m \in DOMAIN mems /\ mems'[m] = mems[m]
      /\ compaction' \in {compaction, NoCompaction}
  BY InstallIs DEF RecordsInv
<1>2. vset.last_sequence \in Nat
  BY DEF RecordsInv, SequencesKnown
<1>3. CompactionUpto'
  BY <1>1, <1>2, CompactionUptoKept
<1>4. MemsUpto'
  BY <1>1 DEF SequenceInv, MemsUpto
<1>5. RecordUpto' /\ CurrentUpto' /\ RecoveryUpto'
  BY <1>1 DEF SequenceInv, RecordUpto, CurrentUpto, RecoveryUpto, Recorded
<1>6. VersionUpto'
  <2>1. /\ bg.last_sequence \in Nat /\ bg.last_sequence <= vset.last_sequence
        /\ FilesUpto(disk.tables, FilesOf(bg.edit.add), bg.last_sequence)
    BY <1>1 DEF SequenceInv, RecordUpto
  <2>2. FilesUpto(disk.tables, FilesOf(bg.edit.add), vset.last_sequence)
    BY <1>2, <2>1, FilesUptoGrows
  <2>3. FilesUpto(disk.tables, FilesOf(vset.files), vset.last_sequence)
    BY <1>1 DEF SequenceInv, VersionUpto
  <2>4. FilesUpto(disk.tables, FilesOf(Edited(vset.files, bg.edit)), vset.last_sequence)
    BY <2>2, <2>3, FilesUptoEdited
  <2> QED
    BY <1>1, <2>4 DEF VersionUpto
<1> QED
  BY <1>3, <1>4, <1>5, <1>6 DEF SequenceInv

LEMMA RemovalSequence ==
  ASSUME FilesInv, RecordsInv, SequenceInv, RemoveObsoleteFiles
  PROVE  SequenceInv'
<1>1. /\ db.state \in {"opening", "open"} /\ disk'.current = disk.current /\ UnderCurrent' = UnderCurrent
      /\ UNCHANGED <<db, vset, mems, bg, compaction>> /\ disk.current # 0
      /\ db.state = "open" => bg.pc = "delete"
  BY RemoveObsoleteFilesIs
<1>2. /\ \A n \in FilesOf(vset.files) \cup FilesOf(UnderCurrent.files) : disk'.tables[n] = disk.tables[n]
      /\ compaction # NoCompaction => \A n \in compaction.outputs : disk'.tables[n] = disk.tables[n]
  BY RemovalTables
<1>3. CurrentUpto'
  BY <1>1, <1>2, FilesUptoKept DEF SequenceInv, CurrentUpto
<1>4. VersionUpto'
  BY <1>1, <1>2, FilesUptoKept DEF SequenceInv, VersionUpto
<1>5. RecordUpto'
  BY <1>1 DEF SequenceInv, RecordUpto, Recorded
<1>6. CompactionUpto'
  <2>1. CASE db.state = "open"
    BY <1>1, <1>2, <2>1, CompactionUptoKept DEF RecordsInv, SequencesKnown
  <2>2. CASE db.state # "open"
    BY <1>1, <2>2 DEF CompactionUpto
  <2> QED
    BY <2>1, <2>2
<1> QED
  BY <1>1, <1>3, <1>4, <1>5, <1>6 DEF SequenceInv, MemsUpto, RecoveryUpto

LEMMA RecoverLogFileStep ==
  ASSUME FilesInv, LogsReadable, RecordsInv, RecoverLogFile
  PROVE  /\ db.state = "recovering" /\ db' = db /\ UnderCurrent' = UnderCurrent
         /\ disk'.current = disk.current /\ disk.current # 0 /\ mems' = mems /\ compaction' = compaction
         /\ vset'.files = vset.files /\ vset'.last_sequence = vset.last_sequence
         /\ \A n \in FilesOf(UnderCurrent.files) \cup FilesOf(bg.edit.add) : disk'.tables[n] = disk.tables[n]
         /\ bg.max_sequence \in Nat /\ bg'.max_sequence \in Nat /\ bg.max_sequence <= bg'.max_sequence
         /\ \E numbers : /\ FilesUpto(disk'.tables, numbers, bg'.max_sequence)
                         /\ \A n \in FilesOf(bg'.edit.add) : n \in FilesOf(bg.edit.add) \cup numbers
         /\ \A l \in Level \ {0} : bg'.edit.add[l] = bg.edit.add[l]
<1>1. PICK full \in Seq(TableSets) :
        /\ db.state = "recovering" /\ DiskShape /\ vset.next_file \in Nat
        /\ disk' = [disk EXCEPT !.tables =
             [i \in (vset.next_file .. vset.next_file + Len(full) - 1) \cup DOMAIN disk.tables |->
                IF i \in vset.next_file .. vset.next_file + Len(full) - 1
                  THEN full[i - vset.next_file + 1] ELSE disk.tables[i]]]
        /\ bg' = [bg EXCEPT !.logs = @ \ {Min(bg.logs)},
             !.edit.add[0] = @ \cup (vset.next_file .. vset.next_file + Len(full) - 1),
             !.max_sequence = Max({@} \cup {e.seq : e \in UNION Range(full)})]
        /\ UNCHANGED <<db, mems, compaction>>
        /\ vset'.last_sequence = vset.last_sequence /\ vset'.files = vset.files
  BY RecoverLogFileIs DEF RecordsInv
<1> DEFINE first == vset.next_file
           numbers == first .. first + Len(full) - 1
           seqs == {e.seq : e \in UNION Range(full)}
           logs == bg.logs \ {Min(bg.logs)}
           q == Max({bg.max_sequence} \cup seqs)
<1>2. /\ bg = [pc |-> "open", edit |-> bg.edit, max_sequence |-> bg.max_sequence, logs |-> bg.logs]
      /\ bg.edit = [del |-> bg.edit.del, add |-> bg.edit.add] /\ DOMAIN bg.edit.add = Level
      /\ Held(Tables, bg.edit.add, first) /\ vset.manifest = UnderCurrent.next_file
      /\ first \in Nat /\ vset.manifest < first
      /\ bg.max_sequence \in Nat
  BY <1>1 DEF FilesInv, RecoveringInv, RecordsInv, SequencesKnown
<1>3. disk.current # 0 /\ UnderCurrent.next_file \in Nat /\ Held(Tables, UnderCurrent.files, UnderCurrent.next_file)
  BY <1>1 DEF FilesInv, CurrentHeld
<1>4. q \in Nat /\ \A x \in {bg.max_sequence} \cup seqs : x <= q
  BY <1>2, GreatestSequence
<1>5. bg' = [bg EXCEPT !.logs = logs, !.edit.add[0] = @ \cup numbers, !.max_sequence = q]
  BY <1>1
<1>6. Len(full) \in Nat /\ DOMAIN full = 1..Len(full) /\ \A i \in 1..Len(full) : full[i] \in TableSets
  BY SequenceIs
<1>7. disk'.tables = [i \in numbers \cup DOMAIN disk.tables |->
                        IF i \in numbers THEN full[i - first + 1] ELSE disk.tables[i]]
      /\ disk'.current = disk.current /\ disk'.manifests = disk.manifests
  BY <1>1 DEF DiskShape
<1>8. ASSUME NEW i \in numbers PROVE EntriesUpto(disk'.tables[i], q)
  <2> DEFINE j == i - first + 1
  <2>1. j \in 1..Len(full) /\ disk'.tables[i] = full[j]
    BY <1>2, <1>6, <1>7
  <2> HIDE DEF j
  <2>2. full[j] \in Range(full) /\ full[j] \in TableSets
    BY <1>6, <2>1 DEF Range
  <2>3. \A e \in full[j] : e.seq \in seqs /\ e.seq \in Nat
    BY <2>2 DEF TableSets, EntrySets, Entry
  <2> HIDE DEF seqs, q
  <2> QED
    BY <1>4, <2>1, <2>3 DEF EntriesUpto
<1>9. \A n : n \in Tables /\ n < first /\ n \in Nat => disk'.tables[n] = disk.tables[n]
  BY <1>2, <1>6, <1>7 DEF Tables
<1> HIDE DEF numbers, q, seqs, logs
<1>10. bg'.max_sequence = q /\ bg'.edit.add = [bg.edit.add EXCEPT ![0] = @ \cup numbers]
  <2> DEFINE e2 == [bg.edit EXCEPT !.add[0] = @ \cup numbers]
             b2 == [bg EXCEPT !.logs = logs]
             b3 == [b2 EXCEPT !.edit = e2]
  <2>1. bg' = [b3 EXCEPT !.max_sequence = q]
    BY <1>5
  <2>2. e2.add = [bg.edit.add EXCEPT ![0] = @ \cup numbers]
    BY <1>2
  <2> HIDE DEF e2
  <2>3. b2 = [pc |-> "open", edit |-> bg.edit, max_sequence |-> bg.max_sequence, logs |-> logs]
    BY <1>2
  <2> HIDE DEF b2
  <2>4. b3 = [pc |-> "open", edit |-> e2, max_sequence |-> bg.max_sequence, logs |-> logs]
    BY <2>3
  <2> HIDE DEF b3
  <2>5. bg' = [pc |-> "open", edit |-> e2, max_sequence |-> q, logs |-> logs]
    BY <2>1, <2>4
  <2> QED
    BY <2>2, <2>5
<1>11. ASSUME NEW n \in FilesOf(bg'.edit.add) PROVE n \in FilesOf(bg.edit.add) \cup numbers
  <2>1. PICK l \in Level : n \in bg'.edit.add[l]
    BY FilesOfIs
  <2>2. n \in bg.edit.add[l] \/ n \in numbers
    BY <1>2, <1>10, <2>1
  <2> QED
    BY <2>2, FilesOfIs
<1>12. \A l \in Level \ {0} : bg'.edit.add[l] = bg.edit.add[l]
  BY <1>2, <1>10
<1>13. ASSUME NEW n \in FilesOf(UnderCurrent.files) \cup FilesOf(bg.edit.add)
       PROVE  disk'.tables[n] = disk.tables[n]
  <2>1. n \in Tables /\ n \in Nat /\ n < first
    BY <1>2, <1>3 DEF Held
  <2> QED
    BY <1>9, <2>1
<1>14. FilesUpto(disk'.tables, numbers, bg'.max_sequence)
  BY <1>8, <1>10 DEF FilesUpto
<1>15. bg.max_sequence <= bg'.max_sequence /\ bg'.max_sequence \in Nat
  BY <1>4, <1>10
<1>16. \E S : /\ FilesUpto(disk'.tables, S, bg'.max_sequence)
              /\ \A n \in FilesOf(bg'.edit.add) : n \in FilesOf(bg.edit.add) \cup S
  BY <1>11, <1>14
<1> QED
  BY <1>1, <1>2, <1>3, <1>7, <1>12, <1>13, <1>15, <1>16 DEF UnderCurrent

LEMMA OpenSequence ==
  ASSUME FilesInv, FilesInv', LogsReadable, RecordsInv, RecordsInv', SequenceInv,
         Recovered \/ RecoverLogFile \/ NewManifest \/ SetCurrentFile \/ OpenReturns
  PROVE  SequenceInv'
<1>1. db.state # "open" /\ compaction' = NoCompaction
  BY OpenStepIs
<1>2. CompactionUpto'
  BY <1>1 DEF CompactionUpto
<1>3. vset.last_sequence \in Nat /\ vset'.last_sequence \in Nat
  BY DEF RecordsInv, SequencesKnown
<1>4. CASE Recovered
  <2>1. /\ disk'.tables = disk.tables /\ db'.state = "recovering" /\ UnderCurrent'.files = vset'.files
        /\ UnderCurrent'.last_sequence = vset'.last_sequence /\ bg'.edit = NoEdit
        /\ \/ disk.current # 0 /\ UnderCurrent' = UnderCurrent
           \/ vset'.files = NoFiles
    BY <1>4, RecoveredIs
  <2>2. bg'.edit.add = NoFiles
    BY <2>1 DEF NoEdit
  <2>3. RecoveryUpto'
    BY <2>1, <2>2, FilesUptoNone DEF RecoveryUpto
  <2>4. CurrentUpto'
    <3>1. CASE disk.current # 0 /\ UnderCurrent' = UnderCurrent
      BY <2>1, <3>1 DEF SequenceInv, CurrentUpto
    <3>2. CASE vset'.files = NoFiles
      BY <2>1, <3>2, FilesUptoNone DEF CurrentUpto
    <3> QED
      BY <2>1, <3>1, <3>2
  <2>5. mems' = mems /\ db.state = "closed"
    BY <1>4 DEF Recovered, Recover
  <2>6. DOMAIN mems = {}
    <3>1. db.mem = 0 /\ db.imm = 0 /\ DOMAIN mems = Referenced(th, db)
      BY <2>5 DEF RecordsInv, MemsStored
    <3>2. \A u \in Thread : th[u].pc = "idle"
      BY <2>5 DEF FilesInv, NobodyYet
    <3>3. \A m : m \notin Referenced(th, db)
      BY <3>1, <3>2, ReferencedIs
    <3> QED
      BY <3>1, <3>3
  <2> QED
    BY <1>2, <2>1, <2>3, <2>4, <2>5, <2>6 DEF SequenceInv, VersionUpto, RecordUpto, MemsUpto
<1>5. CASE RecoverLogFile
  <2>1. /\ db.state = "recovering" /\ db' = db /\ UnderCurrent' = UnderCurrent
        /\ disk'.current = disk.current /\ disk.current # 0 /\ mems' = mems
        /\ vset'.files = vset.files /\ vset'.last_sequence = vset.last_sequence
        /\ \A n \in FilesOf(UnderCurrent.files) \cup FilesOf(bg.edit.add) : disk'.tables[n] = disk.tables[n]
        /\ bg.max_sequence \in Nat /\ bg'.max_sequence \in Nat /\ bg.max_sequence <= bg'.max_sequence
    BY <1>5, RecoverLogFileStep
  <2>2. PICK numbers : /\ FilesUpto(disk'.tables, numbers, bg'.max_sequence)
                       /\ \A n \in FilesOf(bg'.edit.add) : n \in FilesOf(bg.edit.add) \cup numbers
    BY <1>5, RecoverLogFileStep
  <2>3. CurrentUpto'
    BY <2>1, FilesUptoKept DEF SequenceInv, CurrentUpto
  <2>4. FilesUpto(disk.tables, FilesOf(bg.edit.add), bg.max_sequence)
    BY <2>1 DEF SequenceInv, RecoveryUpto
  <2>5. FilesUpto(disk.tables, FilesOf(bg.edit.add), bg'.max_sequence)
    BY <2>1, <2>4, FilesUptoGrows
  <2>6. FilesUpto(disk'.tables, FilesOf(bg.edit.add), bg'.max_sequence)
    BY <2>1, <2>5, FilesUptoKept
  <2>7. FilesUpto(disk'.tables, FilesOf(bg'.edit.add), bg'.max_sequence)
    BY <2>2, <2>6 DEF FilesUpto
  <2>8. RecoveryUpto'
    BY <2>1, <2>7 DEF SequenceInv, RecoveryUpto
  <2> QED
    BY <1>2, <2>1, <2>3, <2>8 DEF SequenceInv, VersionUpto, RecordUpto, MemsUpto
<1>6. CASE NewManifest
  <2>1. /\ disk'.tables = disk.tables /\ db.state = "recovering" /\ db'.state = "opening"
        /\ disk.current # 0 /\ disk'.current = disk.current /\ UnderCurrent' = UnderCurrent
        /\ vset'.files = Edited(vset.files, bg.edit)
        /\ vset'.last_sequence = Max({vset.last_sequence, bg.max_sequence})
    BY <1>6, NewManifestIs
  <2>2. bg.max_sequence \in Nat /\ vset.files = UnderCurrent.files
    BY <2>1 DEF RecordsInv, SequencesKnown, FilesInv, RecoveringInv
  <2>3. bg.max_sequence <= vset'.last_sequence /\ vset.last_sequence <= vset'.last_sequence
    BY <1>3, <2>1, <2>2, MaxOfTwo
  <2>4. FilesUpto(disk.tables, FilesOf(vset.files), vset.last_sequence)
    BY <2>1, <2>2 DEF SequenceInv, CurrentUpto, RecoveryUpto
  <2>5. FilesUpto(disk.tables, FilesOf(bg.edit.add), bg.max_sequence)
    BY <2>1 DEF SequenceInv, RecoveryUpto
  <2>6. /\ FilesUpto(disk.tables, FilesOf(vset.files), vset'.last_sequence)
        /\ FilesUpto(disk.tables, FilesOf(bg.edit.add), vset'.last_sequence)
    BY <1>3, <2>2, <2>3, <2>4, <2>5, FilesUptoGrows
  <2>7. VersionUpto'
    BY <2>1, <2>6, FilesUptoEdited DEF VersionUpto
  <2>8. \E log : mems' = [i \in {log} |-> {}]
    BY <1>6 DEF NewManifest
  <2>9. MemsUpto'
    BY <2>8 DEF MemsUpto, EntriesUpto
  <2> QED
    BY <1>2, <2>1, <2>7, <2>9 DEF SequenceInv, CurrentUpto, RecoveryUpto, RecordUpto
<1>7. CASE SetCurrentFile
  <2>1. /\ disk'.tables = disk.tables /\ db.state = "opening" /\ UnderCurrent' = disk.manifests[vset.manifest]
        /\ UNCHANGED <<db, vset, mems>> /\ disk.manifests[vset.manifest].files = vset.files
    BY <1>7, SetCurrentFileIs
  <2>2. disk.manifests[vset.manifest].last_sequence = vset.last_sequence
    BY <2>1 DEF RecordsInv, SequencesKnown
  <2>3. VersionUpto' /\ CurrentUpto'
    BY <2>1, <2>2 DEF SequenceInv, VersionUpto, CurrentUpto
  <2> QED
    BY <1>2, <2>1, <2>3 DEF SequenceInv, RecoveryUpto, RecordUpto, MemsUpto
<1>8. CASE OpenReturns
  <2>1. /\ db.state = "opening" /\ db'.state = "open" /\ UNCHANGED <<disk, vset, mems>>
        /\ bg'.pc \in {"idle", "scheduled"} /\ UnderCurrent' = UnderCurrent /\ disk.current = vset.manifest
    BY <1>8, OpenReturnsIs
  <2>2. UnderCurrent.last_sequence = vset.last_sequence
    BY <2>1 DEF RecordsInv, SequencesKnown, UnderCurrent
  <2> QED
    BY <1>2, <1>3, <2>1, <2>2 DEF SequenceInv, CurrentUpto, VersionUpto, RecoveryUpto, RecordUpto, MemsUpto, Recorded
<1> QED
  BY <1>4, <1>5, <1>6, <1>7, <1>8

LEMMA AddFileIs ==
  ASSUME NEW l, NEW n
  PROVE  /\ AddFile(l, n).add = [NoFiles EXCEPT ![l] = {n}] /\ AddFile(l, n).del = NoFiles
         /\ \A f \in FilesOf(AddFile(l, n).add) : f = n
<1>1. AddFile(l, n).add = [NoFiles EXCEPT ![l] = {n}] /\ AddFile(l, n).del = NoFiles
  BY DEF AddFile, NoEdit
<1>2. \A f \in FilesOf([NoFiles EXCEPT ![l] = {n}]) : f \in {n}
  BY FilesOfOne
<1> QED
  BY <1>1, <1>2

LEMMA ResultsEditIs ==
  ASSUME NEW c
  PROVE  /\ ResultsEdit(c).add = [NoFiles EXCEPT ![c.level + 1] = c.outputs]
         /\ ResultsEdit(c).del = [NoFiles EXCEPT ![c.level] = c.inputs[1], ![c.level + 1] = c.inputs[2]]
         /\ \A f \in FilesOf(ResultsEdit(c).add) : f \in c.outputs
<1>1. /\ ResultsEdit(c).add = [NoFiles EXCEPT ![c.level + 1] = c.outputs]
      /\ ResultsEdit(c).del = [NoFiles EXCEPT ![c.level] = c.inputs[1], ![c.level + 1] = c.inputs[2]]
  BY DEF ResultsEdit
<1> QED
  BY <1>1, FilesOfOne

LEMMA MoveEditIs ==
  ASSUME NEW l, NEW S
  PROVE  /\ MoveEdit(l, S).add = [NoFiles EXCEPT ![l + 1] = S]
         /\ MoveEdit(l, S).del = [NoFiles EXCEPT ![l] = S]
         /\ \A f \in FilesOf(MoveEdit(l, S).add) : f \in S
<1>1. MoveEdit(l, S).add = [NoFiles EXCEPT ![l + 1] = S] /\ MoveEdit(l, S).del = [NoFiles EXCEPT ![l] = S]
  BY DEF MoveEdit
<1> QED
  BY <1>1, FilesOfOne

LEMMA CompactionBeginsSequence ==
  ASSUME FilesInv, RecordsInv, SequenceInv, CompactionBegins
  PROVE  SequenceInv'
<1>1. Standing /\ compaction = NoCompaction
  BY CompactionStartsIs DEF CompactionBegins
<1>2. PICK l \in Level : l + 1 \in Level /\ \E f \in vset.files[l] : CompactionStarts(l, f)
  BY CompactionStartsIs DEF CompactionBegins
<1>3. PICK f \in vset.files[l] : CompactionStarts(l, f)
  BY <1>2
<1> DEFINE v == vset.files
           in == Chosen(v, l, f)
           last == vset.last_sequence
<1>4. in[1] \subseteq v[l] /\ in[2] \subseteq v[l + 1] /\ db.state = "open"
  BY <1>1, <1>2, ChosenStored DEF Standing, RecordsInv
<1>5. \A n \in in[1] \cup in[2] : n \in FilesOf(v)
  BY <1>2, <1>4, FilesOfIs
<1>6. FilesUpto(disk.tables, FilesOf(v), last)
  BY <1>4 DEF SequenceInv, VersionUpto
<1> HIDE DEF in
<1>7. CASE bg' = Logged("move", MoveEdit(l, in[1]), vset.log_number) /\ compaction' = compaction
  <2>1. bg'.pc = "manifest" /\ bg'.last_sequence = last /\ bg'.edit = MoveEdit(l, in[1])
    BY <1>7, LoggedIs
  <2>2. FilesUpto(disk.tables, FilesOf(bg'.edit.add), last)
    BY <1>5, <1>6, <2>1, MoveEditIs DEF FilesUpto
  <2>3. CompactionUpto'
    BY <1>1, <1>7 DEF CompactionUpto
  <2> QED
    BY <1>1, <2>1, <2>2, <2>3, StandingSequence
<1>8. CASE bg' = [pc |-> "work"] /\ compaction' = StartCompaction(l, in)
  <2>1. bg'.pc = "work"
    BY <1>8
  <2>2. /\ compaction'.todo = UNION {disk.tables[n] : n \in in[1] \cup in[2]}
        /\ compaction'.outputs = {} /\ compaction'.prev = [key |-> -1, seq |-> 0]
        /\ compaction'.smallest_snapshot = last
    BY <1>8, StartCompactionIs
  <2>3. EntriesUpto(compaction'.todo, last)
    BY <1>5, <1>6, <2>2 DEF EntriesUpto, FilesUpto
  <2>4. last \in Nat /\ 0 <= last /\ last <= last
    BY DEF RecordsInv, SequencesKnown
  <2>5. compaction'.prev.seq = 0
    BY <2>2
  <2>6. SnapshotInv(disk'.tables, compaction', vset'.last_sequence)
    BY <1>1, <2>2, <2>3, <2>4, <2>5, FilesUptoNone DEF SnapshotInv, Standing
  <2>7. CompactionUpto'
    BY <2>6 DEF CompactionUpto
  <2> QED
    BY <1>1, <2>1, <2>7, StandingSequence
<1> QED
  BY <1>3, <1>7, <1>8 DEF CompactionStarts, in

LEMMA CrashSequence ==
  ASSUME FilesInv, SequenceInv, Crash
  PROVE  SequenceInv'
<1>1. /\ disk'.current = disk.current /\ db'.state = "closed" /\ mems' = <<>>
      /\ disk.current # 0 => UnderCurrent' = UnderCurrent
      /\ disk.current # 0 =>
           \A n \in FilesOf(UnderCurrent.files) : n \in Tables /\ disk'.tables[n] = disk.tables[n]
  BY CrashIs
<1>2. CurrentUpto'
  BY <1>1, FilesUptoKept DEF SequenceInv, CurrentUpto
<1>3. MemsUpto'
  BY <1>1 DEF MemsUpto
<1> QED
  BY <1>1, <1>2, <1>3 DEF SequenceInv, RecoveryUpto, VersionUpto, RecordUpto, CompactionUpto

LEMMA SequenceInit == LevelDBInit => SequenceInv
<1> SUFFICES ASSUME LevelDBInit PROVE SequenceInv
  OBVIOUS
<1>1. db.state = "closed" /\ mems = <<>>
  BY DEF LevelDBInit, Closed
<1>2. CurrentUpto
  <2>1. CASE disk = NoDatabase
    <3>1. disk.current = 0
      BY <2>1 DEF NoDatabase
    <3> QED
      BY <3>1 DEF CurrentUpto
  <2>2. CASE disk = OldDatabase
    <3>1. /\ UnderCurrent.last_sequence = 1 /\ UnderCurrent.files = [NoFiles EXCEPT ![1] = {6}]
          /\ disk.tables[6] = {[seq |-> 1, key |-> Min(Key), val |-> 0]}
      BY <2>2, OldDatabaseIs
    <3>2. \A n \in FilesOf(UnderCurrent.files) : n = 6
      <4>1. \A n \in FilesOf([NoFiles EXCEPT ![1] = {6}]) : n \in {6}
        BY FilesOfOne
      <4> QED
        BY <3>1, <4>1
    <3>3. EntriesUpto(disk.tables[6], 1)
      BY <3>1 DEF EntriesUpto
    <3> QED
      BY <3>1, <3>2, <3>3 DEF CurrentUpto, FilesUpto
  <2> QED
    BY <2>1, <2>2 DEF LevelDBInit
<1> QED
  BY <1>1, <1>2 DEF SequenceInv, MemsUpto, RecoveryUpto, VersionUpto, RecordUpto, CompactionUpto

LEMMA SequenceNext ==
  ASSUME FilesInv, FilesInv', LogsReadable, QueueInv, RecordsInv, RecordsInv', FreshInv, SequenceInv,
         [LevelDBNext]_ldbVars
  PROVE  SequenceInv'
<1>1. CASE CallsMove
  BY <1>1, CallsSequence
<1>2. CASE Quiet
  <2>1. /\ Standing /\ bg'.pc \in {"entry", "idle", "scheduled"}
        /\ compaction' \in {compaction, NoCompaction}
    BY <1>2, QuietIs DEF Quiet
  <2> QED
    BY <2>1, StandingSequence, StandingCompaction
<1>3. CASE MemTableStarts
  <2>1. Standing /\ bg'.pc = "build" /\ compaction' \in {compaction, NoCompaction}
    BY <1>3, CompactMemTableIs DEF MemTableStarts
  <2> QED
    BY <2>1, StandingSequence, StandingCompaction
<1>4. CASE CompactionBegins
  BY <1>4, CompactionBeginsSequence
<1>5. CASE LogMemTable
  <2>1. /\ Standing /\ bg.pc = "built" /\ compaction' \in {compaction, NoCompaction} /\ bg'.pc = "manifest"
        /\ bg'.last_sequence = vset.last_sequence /\ db.state = "open"
    BY <1>5, LogMemTableIs DEF Standing
  <2>2. \E l : bg'.edit = AddFile(l, bg.file)
    BY <1>5, LogMemTableIs
  <2>3. EntriesUpto(disk.tables[bg.file], vset.last_sequence)
    BY <2>1 DEF SequenceInv, RecordUpto
  <2>4. FilesUpto(disk.tables, FilesOf(bg'.edit.add), vset.last_sequence)
    BY <2>2, <2>3, AddFileIs DEF FilesUpto
  <2> QED
    BY <2>1, <2>4, StandingSequence, StandingCompaction
<1>6. CASE InstallCompactionResults
  <2>1. /\ Standing /\ compaction # NoCompaction /\ compaction' \in {compaction, NoCompaction}
        /\ bg'.pc = "manifest" /\ bg'.last_sequence = vset.last_sequence
        /\ bg'.edit = ResultsEdit(compaction) /\ db.state = "open"
    BY <1>6, InstallCompactionResultsIs DEF Standing
  <2>2. SnapshotInv(disk.tables, compaction, vset.last_sequence) /\ vset.last_sequence \in Nat
    BY <2>1 DEF SequenceInv, CompactionUpto, RecordsInv, SequencesKnown
  <2>3. FilesUpto(disk.tables, compaction.outputs, vset.last_sequence)
    BY <2>2, FilesUptoGrows DEF SnapshotInv
  <2>4. FilesUpto(disk.tables, FilesOf(bg'.edit.add), vset.last_sequence)
    BY <2>1, <2>3, ResultsEditIs DEF FilesUpto
  <2> QED
    BY <2>1, <2>4, StandingSequence, StandingCompaction
<1>7. CASE BuildTable \/ CompactEntry \/ WriteManifest \/ ManifestFails \/ Install \/ RemoveObsoleteFiles
  BY <1>7, BuildTableSequence, CompactEntrySequence, WriteManifestSequence, ManifestFailsSequence,
     InstallSequence, RemovalSequence
<1>8. CASE Recovered \/ RecoverLogFile \/ NewManifest \/ SetCurrentFile \/ OpenReturns
  BY <1>8, OpenSequence
<1>9. CASE Crash
  BY <1>9, CrashSequence
<1>11. CASE Aborted
  <2>1. /\ db'.state = "aborted" /\ UnderCurrent' = UnderCurrent
        /\ UNCHANGED <<disk, vset, mems, compaction>>
    BY <1>11, AbortedFrame
  <2> QED
    BY <2>1 DEF SequenceInv, CurrentUpto, MemsUpto, RecoveryUpto, VersionUpto, RecordUpto, CompactionUpto
<1>10. CASE UNCHANGED ldbVars
  <2>1. UNCHANGED <<disk, db, vset, mems, bg, compaction>> /\ UnderCurrent' = UnderCurrent
    BY <1>10 DEF ldbVars, UnderCurrent
  <2> QED
    BY <2>1 DEF SequenceInv, CurrentUpto, MemsUpto, RecoveryUpto, VersionUpto, RecordUpto, CompactionUpto, Recorded
<1> QED
  BY <1>1, <1>2, <1>3, <1>4, <1>5, <1>6, <1>7, <1>8, <1>9, <1>10, <1>11, StepIs

-----------------------------------------------------------------------------
(***************************************************************************)
(* The levels: the versions there are, and will be once the edit under way *)
(* is applied, have sorted levels, and the outputs of a compaction will    *)
(* have their range of the next level for themselves.                      *)
(***************************************************************************)

SortedLevels(T, v) == \A l \in Level \ {0} : Disjoint(T, v[l])

Versions ==
  {vset.files, UnderCurrent.files}
    \cup (IF Recorded THEN {Edited(vset.files, bg.edit)} ELSE {})
    \cup (IF bg.pc = "manifest" THEN {Edited(UnderCurrent.files, bg.edit)} ELSE {})

(* What a compaction reads. *)
Inputs(c) == c.inputs[1] \cup c.inputs[2]
InputEntries(T, c) == UNION {T[n] : n \in Inputs(c)}

(* The key ranges of the tables S leave no gap. *)
NoGap(T, S) ==
  \A m, n \in S : \A d \in T[m], e \in T[n], x \in Nat : d.key <= x /\ x <= e.key =>
    \E i \in S : \E f, g \in T[i] : f.key <= x /\ x <= g.key

Beside(T, c, v) ==
  \A n \in v[c.level + 1] \ c.inputs[2] : Apart(T[n], InputEntries(T, c))

OutputsSorted(T, c) ==
  /\ \A o, p \in c.outputs : o # p => Apart(T[o], T[p])
  /\ c.builder # 0 => \A o \in c.outputs \ {c.builder} : Below(T[o], T[c.builder])
  /\ \A o \in c.outputs : T[o] \subseteq InputEntries(T, c)
  /\ \A o \in c.outputs : \A e \in T[o] : e.key \in Nat /\ e.key <= c.prev.key

Ordered(T, c) ==
  /\ c.prev.key \in Int
  /\ c.todo \subseteq InputEntries(T, c) /\ \A e \in c.todo : e.key \in Nat /\ c.prev.key <= e.key

InputsIn(c, v) ==
  /\ c.level \in Nat /\ c.level \in Level /\ c.level + 1 \in Level
  /\ c.inputs[1] \subseteq v[c.level] /\ c.inputs[2] \subseteq v[c.level + 1]

MergeOf(T, c, v) == InputsIn(c, v) /\ NoGap(T, Inputs(c)) /\ OutputsSorted(T, c) /\ Ordered(T, c)

MergeInv ==
  /\ MergeOf(disk.tables, compaction, vset.files)
  /\ \A v \in Versions : Beside(disk.tables, compaction, v)

(* The version of the MANIFEST once the edit that it has is installed: the *)
(* MANIFEST holds no more, but for tables of the memtable under compaction *)
(* whose records were reported as failed.                                  *)
Ahead == IF bg.pc = "install" THEN Edited(vset.files, bg.edit) ELSE vset.files

Twins ==
  db.imm # 0 /\ ~Stopped =>
    \A l \in Level \ {0} : \A n \in UnderCurrent.files[l] :
      n \in Ahead[l] \/ disk.tables[n] = mems[db.imm]

MemTableInv ==
  /\ bg.pc = "built" => disk.tables[bg.file] = mems[db.imm]
  /\ Recorded /\ bg.kind = "memtable" =>
       \E l, n : bg.edit = AddFile(l, n) /\ disk.tables[n] = mems[db.imm]

ClosedFiles == db.state \in {"closed", "aborted"} => vset.files = NoFiles
SortedCurrent == disk.current # 0 => SortedLevels(disk.tables, UnderCurrent.files)
SortedRecovery == db.state = "recovering" => \A l \in Level \ {0} : bg.edit.add[l] = {}
SortedOpening == db.state = "opening" => SortedLevels(disk.tables, vset.files)
SortedVersions == db.state = "open" => \A v \in Versions : SortedLevels(disk.tables, v)
MemTables == db.state = "open" => MemTableInv /\ Twins
Merges == db.state = "open" /\ Merging => MergeInv

LevelsInv ==
  ClosedFiles /\ SortedCurrent /\ SortedRecovery /\ SortedOpening /\ SortedVersions /\ MemTables /\ Merges

LEMMA VersionsAre ==
  ASSUME NEW v
  PROVE  v \in Versions <=>
           \/ v = vset.files \/ v = UnderCurrent.files
           \/ Recorded /\ v = Edited(vset.files, bg.edit)
           \/ bg.pc = "manifest" /\ v = Edited(UnderCurrent.files, bg.edit)
BY DEF Versions

LEMMA VersionsAreNext ==
  ASSUME NEW v
  PROVE  v \in Versions' <=>
           \/ v = vset'.files \/ v = UnderCurrent'.files
           \/ Recorded' /\ v = Edited(vset'.files, bg'.edit)
           \/ bg'.pc = "manifest" /\ v = Edited(UnderCurrent'.files, bg'.edit)
BY DEF Versions

LEMMA ApartSwaps ==
  ASSUME NEW x, NEW y, Apart(x, y)
  PROVE  Apart(y, x)
BY DEF Apart

LEMMA ApartSubset ==
  ASSUME NEW x, NEW y, Apart(x, y), NEW z \in SUBSET y
  PROVE  Apart(x, z)
BY DEF Apart, Below

LEMMA SortedKept ==
  ASSUME NEW T, NEW R, NEW v, SortedLevels(T, v), \A n \in FilesOf(v) : R[n] = T[n]
  PROVE  SortedLevels(R, v)
<1> SUFFICES ASSUME NEW l \in Level \ {0}, NEW m \in v[l], NEW n \in v[l], m # n
             PROVE  Apart(R[m], R[n]) \/ R[m] = R[n]
  BY DEF SortedLevels, Disjoint
<1>1. R[m] = T[m] /\ R[n] = T[n]
  BY FilesOfIs
<1>2. Apart(T[m], T[n]) \/ T[m] = T[n]
  BY DEF SortedLevels, Disjoint
<1> QED
  BY <1>1, <1>2

LEMMA SortedSubset ==
  ASSUME NEW T, NEW S, Disjoint(T, S), NEW P \in SUBSET S
  PROVE  Disjoint(T, P)
BY DEF Disjoint

LEMMA SortedNone ==
  ASSUME NEW T
  PROVE  SortedLevels(T, NoFiles)
BY DEF SortedLevels, Disjoint, NoFiles

LEMMA EditedIs ==
  ASSUME NEW v, NEW edit, NEW l \in Level
  PROVE  Edited(v, edit)[l] = (v[l] \ edit.del[l]) \cup edit.add[l]
BY DEF Edited

(* One file more in a level. *)
LEMMA SortedOneMore ==
  ASSUME NEW T, NEW v, SortedLevels(T, v), NEW lv, NEW n,
         lv \in Level \ {0} => \A m \in v[lv] : m # n => Apart(T[m], T[n]) \/ T[m] = T[n]
  PROVE  SortedLevels(T, Edited(v, AddFile(lv, n)))
<1> SUFFICES ASSUME NEW l \in Level \ {0} PROVE Disjoint(T, Edited(v, AddFile(lv, n))[l])
  BY DEF SortedLevels
<1>0. l \in Level
  OBVIOUS
<1>1. AddFile(lv, n).add = [NoFiles EXCEPT ![lv] = {n}] /\ AddFile(lv, n).del = NoFiles
  BY AddFileIs
<1>2. Edited(v, AddFile(lv, n))[l] = (v[l] \ NoFiles[l]) \cup [NoFiles EXCEPT ![lv] = {n}][l]
  BY <1>0, <1>1 DEF Edited
<1>3. NoFiles[l] = {} /\ [NoFiles EXCEPT ![lv] = {n}][l] = (IF l = lv THEN {n} ELSE {})
  BY DEF NoFiles
<1>4. Disjoint(T, v[l])
  BY DEF SortedLevels
<1>5. CASE l # lv
  <2>1. Edited(v, AddFile(lv, n))[l] = v[l]
    BY <1>2, <1>3, <1>5
  <2> QED
    BY <1>4, <2>1
<1>6. CASE l = lv
  <2>1. Edited(v, AddFile(lv, n))[l] = v[l] \cup {n}
    BY <1>2, <1>3, <1>6
  <2>2. \A m \in v[l] : m # n => Apart(T[m], T[n]) \/ T[m] = T[n]
    BY <1>6
  <2>3. \A m \in v[l] : m # n => Apart(T[n], T[m]) \/ T[n] = T[m]
    BY <2>2, ApartSwaps
  <2> QED
    BY <1>4, <2>1, <2>2, <2>3 DEF Disjoint
<1> QED
  BY <1>5, <1>6

(* Tables that replace others in level lv, and files gone elsewhere. *)
LEMMA SortedReplaced ==
  ASSUME NEW T, NEW v, SortedLevels(T, v), NEW edit, NEW lv \in Level, NEW S, NEW gone,
         edit.add = [NoFiles EXCEPT ![lv] = S], edit.del[lv] = gone,
         \A o, p \in S : o # p => Apart(T[o], T[p]) \/ T[o] = T[p],
         \A m \in v[lv] \ gone : \A o \in S : Apart(T[m], T[o])
  PROVE  SortedLevels(T, Edited(v, edit))
<1> SUFFICES ASSUME NEW l \in Level \ {0} PROVE Disjoint(T, Edited(v, edit)[l])
  BY DEF SortedLevels
<1>0. l \in Level
  OBVIOUS
<1>1. Edited(v, edit)[l] = (v[l] \ edit.del[l]) \cup edit.add[l]
  BY <1>0 DEF Edited
<1>2. edit.add[l] = (IF l = lv THEN S ELSE {})
  BY DEF NoFiles
<1>3. Disjoint(T, v[l])
  BY DEF SortedLevels
<1>4. CASE l # lv
  <2>1. Edited(v, edit)[l] \subseteq v[l]
    BY <1>1, <1>2, <1>4
  <2> QED
    BY <1>3, <2>1, SortedSubset
<1>5. CASE l = lv
  <2>1. Edited(v, edit)[l] = (v[l] \ gone) \cup S
    BY <1>1, <1>2, <1>5
  <2>2. \A m \in v[l] \ gone : \A o \in S : Apart(T[m], T[o]) /\ Apart(T[o], T[m])
    BY <1>5, ApartSwaps
  <2> QED
    BY <1>3, <2>1, <2>2 DEF Disjoint
<1> QED
  BY <1>4, <1>5

(* A table apart from each of the tables S is on one side of all of them,  *)
(* when they leave no gap.                                                 *)
LEMMA ApartUnion ==
  ASSUME NEW T, NEW S, NEW y, NoGap(T, S), \A d \in y : d.key \in Nat,
         \A i \in S : \A d \in T[i] : d.key \in Nat, \A i \in S : Apart(y, T[i])
  PROVE  Apart(y, UNION {T[i] : i \in S})
<1> SUFFICES ASSUME NEW d1 \in y, NEW m \in S, NEW e1 \in T[m], ~(d1.key < e1.key),
                    NEW d2 \in y, NEW n \in S, NEW e2 \in T[n], ~(e2.key < d2.key)
             PROVE  FALSE
  BY DEF Apart, Below
<1>1. d1.key \in Nat /\ d2.key \in Nat /\ e1.key \in Nat /\ e2.key \in Nat
  OBVIOUS
<1>2. Below(T[m], y)
  <2>1. ~Below(y, T[m])
    BY DEF Below
  <2> QED
    BY <2>1 DEF Apart
<1>3. Below(y, T[n])
  <2>1. ~Below(T[n], y)
    BY DEF Below
  <2> QED
    BY <2>1 DEF Apart
<1>4. e1.key <= d1.key /\ d1.key <= e2.key
  <2>1. e1.key < d1.key
    BY <1>2 DEF Below
  <2>2. d1.key < e2.key
    BY <1>3 DEF Below
  <2> QED
    BY <1>1, <2>1, <2>2
<1>5. PICK i \in S : \E f, g \in T[i] : f.key <= d1.key /\ d1.key <= g.key
  BY <1>1, <1>4 DEF NoGap
<1>6. PICK f \in T[i], g \in T[i] : f.key <= d1.key /\ d1.key <= g.key
  BY <1>5
<1>7. f.key \in Nat /\ g.key \in Nat
  OBVIOUS
<1>8. ~Below(y, T[i]) /\ ~Below(T[i], y)
  BY <1>1, <1>6, <1>7 DEF Below
<1> QED
  BY <1>8 DEF Apart

LEMMA GaplessNoGap ==
  ASSUME NEW S, TablesIn(S), Gapless(S)
  PROVE  NoGap(disk.tables, S)
<1> SUFFICES ASSUME NEW m \in S, NEW n \in S, NEW d \in disk.tables[m], NEW e \in disk.tables[n],
                    NEW x \in Nat, d.key <= x, x <= e.key
             PROVE  \E i \in S : \E f, g \in disk.tables[i] : f.key <= x /\ x <= g.key
  BY DEF NoGap
<1>1. Smallest(m) \in Nat /\ d.key \in Nat /\ Smallest(m) <= d.key
  BY RangeOf DEF TablesIn
<1>2. Largest(n) \in Nat /\ e.key \in Nat /\ e.key <= Largest(n)
  BY RangeOf DEF TablesIn
<1>3. Smallest(m) <= x /\ x <= Largest(n)
  BY <1>1, <1>2
<1>4. PICK i \in S : Smallest(i) <= x /\ x <= Largest(i)
  BY <1>3 DEF Gapless, Covers
<1>5. /\ \E f \in disk.tables[i] : f.key = Smallest(i)
      /\ \E g \in disk.tables[i] : g.key = Largest(i)
  BY RangeOf DEF TablesIn
<1> QED
  BY <1>4, <1>5

(* Steps that leave the tables of a version alone. *)
LEMMA InputsKept ==
  ASSUME NEW T, NEW R, NEW c, NEW v, InputsIn(c, v), \A n \in FilesOf(v) : R[n] = T[n]
  PROVE  /\ \A n \in Inputs(c) : n \in FilesOf(v) /\ R[n] = T[n]
         /\ InputEntries(R, c) = InputEntries(T, c)
<1>1. \A n \in Inputs(c) : n \in FilesOf(v)
  <2> SUFFICES ASSUME NEW n \in Inputs(c) PROVE n \in FilesOf(v)
    OBVIOUS
  <2>1. \E l \in Level : n \in v[l]
    BY DEF Inputs, InputsIn
  <2> QED
    BY <2>1, FilesOfIs
<1>2. \A n \in Inputs(c) : R[n] = T[n]
  BY <1>1
<1>3. InputEntries(R, c) = InputEntries(T, c)
  BY <1>2 DEF InputEntries
<1> QED
  BY <1>1, <1>2, <1>3

LEMMA BesideKept ==
  ASSUME NEW T, NEW R, NEW c, NEW v, Beside(T, c, v), InputEntries(R, c) = InputEntries(T, c),
         c.level + 1 \in Level, \A n \in FilesOf(v) : R[n] = T[n]
  PROVE  Beside(R, c, v)
<1> SUFFICES ASSUME NEW n \in v[c.level + 1] \ c.inputs[2] PROVE Apart(R[n], InputEntries(R, c))
  BY DEF Beside
<1>1. n \in FilesOf(v)
  BY FilesOfIs
<1>2. R[n] = T[n]
  BY <1>1
<1>3. Apart(T[n], InputEntries(T, c))
  BY DEF Beside
<1> QED
  BY <1>2, <1>3

LEMMA MergeKept ==
  ASSUME NEW T, NEW R, NEW c, NEW v, NEW w, MergeOf(T, c, v), \A n \in FilesOf(v) : R[n] = T[n],
         \A n \in c.outputs : R[n] = T[n], c.builder \in c.outputs \cup {0},
         \A l \in Level : v[l] \subseteq w[l]
  PROVE  MergeOf(R, c, w) /\ InputEntries(R, c) = InputEntries(T, c)
<1>1. InputsIn(c, v) /\ NoGap(T, Inputs(c)) /\ OutputsSorted(T, c) /\ Ordered(T, c)
  BY DEF MergeOf
<1>2. /\ \A n \in Inputs(c) : R[n] = T[n]
      /\ InputEntries(R, c) = InputEntries(T, c)
  BY <1>1, InputsKept
<1>3. InputsIn(c, w)
  BY <1>1 DEF InputsIn
<1>4. NoGap(R, Inputs(c))
  BY <1>1, <1>2 DEF NoGap
<1>5. OutputsSorted(R, c)
  BY <1>1, <1>2 DEF OutputsSorted
<1>6. Ordered(R, c)
  BY <1>1, <1>2 DEF Ordered
<1> QED
  BY <1>2, <1>3, <1>4, <1>5, <1>6 DEF MergeOf

(***************************************************************************)
(* The steps that make no new version.                                     *)
(***************************************************************************)

(* The tables of the versions, and the outputs of the compaction, stay. *)
TablesKept ==
  /\ \A v \in Versions' : \A n \in FilesOf(v) : disk'.tables[n] = disk.tables[n]
  /\ compaction # NoCompaction => \A n \in compaction.outputs : disk'.tables[n] = disk.tables[n]

NoNewVersion ==
  /\ db.state = "open" /\ db'.state = "open"
  /\ \A v \in Versions' : v \in Versions
  /\ TablesKept

LEMMA SortedOpen ==
  ASSUME db'.state = "open", \A v \in Versions' : SortedLevels(disk'.tables, v)
  PROVE  ClosedFiles' /\ SortedCurrent' /\ SortedRecovery' /\ SortedOpening' /\ SortedVersions'
<1>1. UnderCurrent'.files \in Versions'
  BY VersionsAreNext
<1>2. SortedCurrent'
  BY <1>1 DEF SortedCurrent
<1>3. SortedVersions'
  BY DEF SortedVersions
<1>4. ClosedFiles' /\ SortedRecovery' /\ SortedOpening'
  BY DEF ClosedFiles, SortedRecovery, SortedOpening
<1> QED
  BY <1>2, <1>3, <1>4

LEMMA SortedStays ==
  ASSUME LevelsInv, NoNewVersion
  PROVE  ClosedFiles' /\ SortedCurrent' /\ SortedRecovery' /\ SortedOpening' /\ SortedVersions'
<1>1. \A v \in Versions' : SortedLevels(disk'.tables, v)
  <2> SUFFICES ASSUME NEW v \in Versions' PROVE SortedLevels(disk'.tables, v)
    OBVIOUS
  <2>1. v \in Versions /\ \A n \in FilesOf(v) : disk'.tables[n] = disk.tables[n]
    BY DEF NoNewVersion, TablesKept
  <2>2. SortedLevels(disk.tables, v)
    BY <2>1 DEF LevelsInv, SortedVersions, NoNewVersion
  <2> QED
    BY <2>1, <2>2, SortedKept
<1> QED
  BY <1>1, SortedOpen DEF NoNewVersion

LEMMA MergesStay ==
  ASSUME FilesInv, LevelsInv, NoNewVersion, Merging' => Merging /\ compaction' = compaction,
         \A l \in Level : vset.files[l] \subseteq vset'.files[l]
  PROVE  Merges'
<1> SUFFICES ASSUME Merging' PROVE MergeInv'
  BY DEF Merges
<1>1. Merging /\ compaction' = compaction /\ MergeInv /\ db.state = "open"
  BY DEF LevelsInv, Merges, NoNewVersion
<1>2. compaction # NoCompaction /\ compaction.builder \in compaction.outputs \cup {0}
  BY <1>1 DEF Merging, FilesInv, OpenInv, CompactionInv
<1>3. \A n \in FilesOf(vset.files) : disk'.tables[n] = disk.tables[n]
  <2> SUFFICES ASSUME NEW n \in FilesOf(vset.files) PROVE disk'.tables[n] = disk.tables[n]
    OBVIOUS
  <2>1. n \in FilesOf(vset'.files)
    BY FilesOfIs
  <2>2. vset'.files \in Versions'
    BY VersionsAreNext
  <2> QED
    BY <2>1, <2>2 DEF NoNewVersion, TablesKept
<1>4. /\ MergeOf(disk'.tables, compaction, vset'.files)
      /\ InputEntries(disk'.tables, compaction) = InputEntries(disk.tables, compaction)
  <2>1. MergeOf(disk.tables, compaction, vset.files)
    BY <1>1 DEF MergeInv
  <2>2. \A n \in compaction.outputs : disk'.tables[n] = disk.tables[n]
    BY <1>2 DEF NoNewVersion, TablesKept
  <2> QED
    BY <1>2, <1>3, <2>1, <2>2, MergeKept
<1>5. \A v \in Versions' : Beside(disk'.tables, compaction, v)
  <2> SUFFICES ASSUME NEW v \in Versions' PROVE Beside(disk'.tables, compaction, v)
    OBVIOUS
  <2>1. v \in Versions /\ \A n \in FilesOf(v) : disk'.tables[n] = disk.tables[n]
    BY DEF NoNewVersion, TablesKept
  <2>2. Beside(disk.tables, compaction, v)
    BY <1>1, <2>1 DEF MergeInv
  <2>3. compaction.level + 1 \in Level
    BY <1>1 DEF MergeInv, MergeOf, InputsIn
  <2> QED
    BY <1>4, <2>1, <2>2, <2>3, BesideKept
<1> QED
  BY <1>1, <1>4, <1>5 DEF MergeInv

(* The memtable that waits, its copies in the MANIFEST and the edit ahead. *)
LEMMA TwinsStay ==
  ASSUME Twins, db'.imm = db.imm, db.imm # 0 => mems'[db.imm] = mems[db.imm], Stopped => Stopped',
         UnderCurrent'.files = UnderCurrent.files,
         \A n \in FilesOf(UnderCurrent.files) : disk'.tables[n] = disk.tables[n],
         \A l \in Level : Ahead[l] \subseteq Ahead'[l]
  PROVE  Twins'
<1> SUFFICES ASSUME db'.imm # 0, ~Stopped', NEW l \in Level \ {0}, NEW n \in UnderCurrent'.files[l]
             PROVE  n \in Ahead'[l] \/ disk'.tables[n] = mems'[db'.imm]
  BY DEF Twins
<1>1. n \in UnderCurrent.files[l] /\ l \in Level
  OBVIOUS
<1>2. n \in Ahead[l] \/ disk.tables[n] = mems[db.imm]
  BY <1>1 DEF Twins
<1>3. disk'.tables[n] = disk.tables[n]
  BY <1>1, FilesOfIs
<1> QED
  BY <1>1, <1>2, <1>3

LEMMA VersionsLeft ==
  ASSUME vset'.files = vset.files, UnderCurrent'.files = UnderCurrent.files, ~Recorded'
  PROVE  /\ \A v \in Versions' : v \in {vset.files, UnderCurrent.files} /\ v \in Versions
         /\ Ahead' = vset.files
<1>1. bg'.pc # "manifest" /\ bg'.pc # "install"
  BY DEF Recorded
<1>2. \A v \in Versions' : v \in {vset.files, UnderCurrent.files}
  BY <1>1, VersionsAreNext
<1>3. \A v \in {vset.files, UnderCurrent.files} : v \in Versions
  BY VersionsAre
<1>4. Ahead' = vset.files
  BY <1>1 DEF Ahead
<1> QED
  BY <1>2, <1>3, <1>4

(* A step of the background thread outside LogAndApply. *)
Settled ==
  /\ db.state = "open" /\ db'.state = "open"
  /\ UnderCurrent'.files = UnderCurrent.files /\ vset'.files = vset.files
  /\ \A n \in FilesOf(vset.files) \cup FilesOf(UnderCurrent.files) : disk'.tables[n] = disk.tables[n]
  /\ db'.imm = db.imm /\ (db.imm # 0 => mems'[db.imm] = mems[db.imm])
  /\ bg.pc # "install" /\ ~Recorded' /\ (Stopped => Stopped')
  /\ bg'.pc = "built" => disk'.tables[bg'.file] = mems'[db'.imm]

LEMMA SettledLevels ==
  ASSUME LevelsInv, Settled,
         compaction # NoCompaction => \A n \in compaction.outputs : disk'.tables[n] = disk.tables[n]
  PROVE  NoNewVersion
<1>1. \A v \in Versions' : v \in {vset.files, UnderCurrent.files} /\ v \in Versions
  BY VersionsLeft DEF Settled
<1>2. TablesKept
  BY <1>1 DEF TablesKept, Settled
<1> QED
  BY <1>1, <1>2 DEF NoNewVersion, Settled

LEMMA SettledSorted ==
  ASSUME LevelsInv, Settled
  PROVE  ClosedFiles' /\ SortedCurrent' /\ SortedRecovery' /\ SortedOpening' /\ SortedVersions'
<1>1. \A v \in Versions' : SortedLevels(disk'.tables, v)
  <2> SUFFICES ASSUME NEW v \in Versions' PROVE SortedLevels(disk'.tables, v)
    OBVIOUS
  <2>1. v \in {vset.files, UnderCurrent.files} /\ v \in Versions
    BY VersionsLeft DEF Settled
  <2>2. SortedLevels(disk.tables, v)
    BY <2>1 DEF LevelsInv, SortedVersions, Settled
  <2>3. \A n \in FilesOf(v) : disk'.tables[n] = disk.tables[n]
    BY <2>1 DEF Settled
  <2> QED
    BY <2>2, <2>3, SortedKept
<1> QED
  BY <1>1, SortedOpen DEF Settled

LEMMA SettledMemTables ==
  ASSUME LevelsInv, Settled
  PROVE  MemTables'
<1>1. Twins
  BY DEF LevelsInv, MemTables, Settled
<1>2. Ahead = vset.files /\ Ahead' = vset.files
  BY VersionsLeft DEF Settled, Ahead
<1>3. Twins'
  BY <1>1, <1>2, TwinsStay DEF Settled
<1>4. MemTableInv'
  BY DEF MemTableInv, Settled
<1> QED
  BY <1>3, <1>4 DEF MemTables

LEMMA SettledKeeps ==
  ASSUME FilesInv, LevelsInv, Settled, Merging' => Merging /\ compaction' = compaction,
         compaction # NoCompaction => \A n \in compaction.outputs : disk'.tables[n] = disk.tables[n]
  PROVE  LevelsInv'
<1>1. NoNewVersion
  BY SettledLevels
<1>2. Merges'
  BY <1>1, MergesStay DEF Settled
<1> QED
  BY <1>2, SettledSorted, SettledMemTables DEF LevelsInv

LEMMA QuietLevels ==
  ASSUME FilesInv, LevelsInv, Quiet
  PROVE  LevelsInv'
<1>1. /\ Standing /\ bg'.pc \in {"entry", "idle", "scheduled"} /\ (Stopped => Stopped')
      /\ compaction' \in {compaction, NoCompaction}
      /\ compaction' # NoCompaction => bg.pc \in {"build", "delete"}
  BY QuietIs DEF Quiet
<1>2. bg.pc \notin {"install", "manifest"}
  BY DEF Quiet, BackgroundCall, BuildTableFails, ObsoleteFilesRemoved, CompactionFails
<1>3. Settled
  BY <1>1, <1>2 DEF Settled, Standing, Recorded
<1>4. Merging' => Merging /\ compaction' = compaction
  BY <1>1, <1>2 DEF Merging, Recorded
<1> QED
  BY <1>1, <1>3, <1>4, SettledKeeps DEF Standing

LEMMA MemTableStartsLevels ==
  ASSUME FilesInv, LevelsInv, MemTableStarts
  PROVE  LevelsInv'
<1>1. Standing /\ bg'.pc = "build" /\ compaction' = compaction
  BY CompactMemTableIs DEF MemTableStarts
<1>2. bg.pc \in {"scheduled", "work"} /\ ~Stopped
  BY DEF MemTableStarts, Stopped
<1>3. Settled
  BY <1>1, <1>2 DEF Settled, Standing, Recorded
<1>4. Merging' => Merging
  BY <1>1, <1>2 DEF Merging, Recorded
<1> QED
  BY <1>1, <1>3, <1>4, SettledKeeps DEF Standing

LEMMA BuildTableLevels ==
  ASSUME FilesInv, FreshInv, LevelsInv, BuildTable
  PROVE  LevelsInv'
<1>1. /\ bg.pc = "build" /\ bg'.pc = "built" /\ bg'.file = bg.file /\ compaction' = compaction
      /\ db.state = "open" /\ db'.state = "open"
      /\ UnderCurrent' = UnderCurrent /\ vset' = vset /\ db' = db /\ mems' = mems
      /\ disk'.tables[bg.file] = mems[db.imm]
  BY BuildTableIs
<1>2. Settled
  BY <1>1, BuildTableTables DEF Settled, Recorded, Stopped
<1>3. Merging' => Merging
  BY <1>1 DEF Merging, Recorded
<1> QED
  BY <1>1, <1>2, <1>3, BuildTableTables, SettledKeeps

LEMMA RemovalLevels ==
  ASSUME FilesInv, LevelsInv, RemoveObsoleteFiles
  PROVE  LevelsInv'
<1>1. /\ db.state \in {"opening", "open"} /\ disk'.current = disk.current /\ disk.current # 0
      /\ UnderCurrent' = UnderCurrent /\ UNCHANGED <<db, vset, mems, bg, compaction>>
      /\ db.state = "open" => bg.pc = "delete"
  BY RemoveObsoleteFilesIs
<1>2. CASE db.state = "open"
  <2>1. Settled
    BY <1>1, <1>2, RemovalTables DEF Settled, Recorded, Stopped
  <2>2. Merging' => Merging
    BY <1>1 DEF Merging, Recorded
  <2> QED
    BY <1>1, <2>1, <2>2, RemovalTables, SettledKeeps
<1>3. CASE db.state = "opening"
  <2>1. SortedLevels(disk'.tables, UnderCurrent.files) /\ SortedLevels(disk'.tables, vset.files)
    <3>1. SortedLevels(disk.tables, UnderCurrent.files) /\ SortedLevels(disk.tables, vset.files)
      BY <1>1, <1>3 DEF LevelsInv, SortedCurrent, SortedOpening
    <3> QED
      BY <3>1, RemovalTables, SortedKept
  <2> QED
    BY <1>1, <1>3, <2>1
       DEF LevelsInv, ClosedFiles, SortedCurrent, SortedOpening, SortedRecovery, SortedVersions,
           MemTables, Merges
<1> QED
  BY <1>1, <1>2, <1>3

(* A Put switches memtables only while there is no error. *)
LEMMA SwitchedClean ==
  ASSUME FilesInv, CallsMove, db'.imm # db.imm
  PROVE  ~db.bg_error
<1>1. PICK t \in Thread, k \in Key : Write(t, k) \/ Get(t, k) \/ ThreadStep(t)
  BY DEF CallsMove
<1>2. ASSUME NEW q, NEW T, NEW b, MakeRoomForWrite(t, q, T, b) PROVE ~db.bg_error
  BY <1>2 DEF MakeRoomForWrite
<1>3. CASE Write(t, k)
  BY <1>2, <1>3 DEF Write
<1>4. CASE Resume(t)
  BY <1>2, <1>4 DEF Resume
<1>5. CASE Get(t, k) \/ AddRecord(t) \/ FinishWrite(t) \/ Return(t) \/ GetReturns(t)
  BY <1>5 DEF Get, AddRecord, FinishWrite, Return, GetReturns
<1> QED
  BY <1>1, <1>3, <1>4, <1>5 DEF ThreadStep

LEMMA CallsLevels ==
  ASSUME FilesInv, QueueInv, RecordsInv, SequenceInv, LevelsInv, CallsMove
  PROVE  LevelsInv'
<1>1. /\ db.state = "open" /\ db'.state = "open" /\ disk'.tables = disk.tables
      /\ UnderCurrent' = UnderCurrent /\ vset'.files = vset.files /\ compaction' = compaction
      /\ bg' = bg \/ (bg.pc = "idle" /\ bg' = [pc |-> "scheduled"])
      /\ db.imm # 0 => db'.imm = db.imm
      /\ db.bg_error => db'.bg_error
  BY CallsMoveIs
<1>2. db.imm # 0 => mems'[db.imm] = mems[db.imm]
  BY CallsMems DEF SequenceInv
<1>3. /\ Recorded' <=> Recorded
      /\ bg'.pc = "manifest" <=> bg.pc = "manifest"
      /\ bg'.pc = "install" <=> bg.pc = "install"
      /\ bg'.pc = "built" <=> bg.pc = "built"
      /\ Recorded \/ bg.pc = "built" => bg' = bg
      /\ Stopped => Stopped'
  BY <1>1 DEF Recorded, Stopped
<1>4. Ahead' = Ahead
  BY <1>1, <1>3 DEF Ahead, Recorded
<1>5. NoNewVersion
  <2>1. \A v \in Versions' : v \in Versions
    <3> SUFFICES ASSUME NEW v \in Versions' PROVE v \in Versions
      OBVIOUS
    <3> QED
      BY <1>1, <1>3, VersionsAre, VersionsAreNext DEF Recorded
  <2> QED
    BY <1>1, <2>1 DEF NoNewVersion, TablesKept
<1>6. Merges'
  <2>1. Merging' => Merging
    BY <1>1, <1>3 DEF Merging
  <2> QED
    BY <1>1, <1>5, <2>1, MergesStay
<1>7. MemTableInv /\ Twins
  BY <1>1 DEF LevelsInv, MemTables
<1>8. MemTableInv'
  <2>1. bg.pc = "built" => db.imm # 0
    BY <1>1 DEF FilesInv, OpenInv, BackgroundInv, BuildInv
  <2>2. Recorded /\ bg.kind = "memtable" => db.imm # 0
    BY RecordedIs
  <2>3. CASE bg.pc = "built"
    <3>1. bg' = bg /\ db'.imm = db.imm /\ mems'[db.imm] = mems[db.imm]
      BY <1>1, <1>2, <1>3, <2>1, <2>3
    <3> QED
      BY <1>1, <1>7, <2>3, <3>1 DEF MemTableInv, Recorded
  <2>4. CASE Recorded /\ bg.kind = "memtable"
    <3>1. bg' = bg /\ db'.imm = db.imm /\ mems'[db.imm] = mems[db.imm]
      BY <1>1, <1>2, <1>3, <2>2, <2>4
    <3> QED
      BY <1>1, <1>7, <2>4, <3>1 DEF MemTableInv, Recorded
  <2> QED
    BY <1>3, <2>3, <2>4 DEF MemTableInv
<1>9. Twins'
  <2>1. CASE db.imm # 0
    BY <1>1, <1>2, <1>3, <1>4, <1>7, <2>1, TwinsStay
  <2>2. CASE db.imm = 0 /\ db'.imm # 0
    <3>1. ~db.bg_error
      BY <2>2, SwitchedClean
    <3>2. UnderCurrent.files = Ahead
      <4>1. CASE bg.pc = "install"
        BY <1>1, <3>1, <4>1, RecordedIs DEF Recorded, EditInv, Ahead
      <4>2. CASE bg.pc # "install"
        BY <1>1, <3>1, <4>2 DEF FilesInv, OpenInv, Ahead
      <4> QED
        BY <4>1, <4>2
    <3> QED
      BY <1>1, <1>4, <3>2 DEF Twins
  <2>3. CASE db'.imm = 0
    BY <2>3 DEF Twins
  <2> QED
    BY <2>1, <2>2, <2>3
<1> QED
  BY <1>5, <1>6, <1>8, <1>9, SortedStays DEF LevelsInv, MemTables

(***************************************************************************)
(* The record reaches the MANIFEST, or does not, and is installed.         *)
(***************************************************************************)

(* A file of the MANIFEST with one more edit is ahead or a copy. *)
LEMMA TwinsRecorded ==
  ASSUME Twins, bg.pc = "manifest", db.imm # 0, NEW l \in Level \ {0},
         NEW n \in Edited(UnderCurrent.files, bg.edit)[l]
  PROVE  \/ n \in Edited(vset.files, bg.edit)[l] \/ disk.tables[n] = mems[db.imm]
<1>1. ~Stopped /\ Ahead = vset.files
  BY DEF Stopped, Ahead
<1>2. /\ Edited(UnderCurrent.files, bg.edit)[l] = (UnderCurrent.files[l] \ bg.edit.del[l]) \cup bg.edit.add[l]
      /\ Edited(vset.files, bg.edit)[l] = (vset.files[l] \ bg.edit.del[l]) \cup bg.edit.add[l]
  BY DEF Edited
<1>3. n \in UnderCurrent.files[l] => n \in vset.files[l] \/ disk.tables[n] = mems[db.imm]
  BY <1>1 DEF Twins
<1> QED
  BY <1>2, <1>3

LEMMA WriteManifestLevels ==
  ASSUME FilesInv, LevelsInv, WriteManifest
  PROVE  LevelsInv'
<1>1. /\ bg.pc = "manifest" /\ Recorded /\ db.state = "open" /\ bg'.pc = "install"
      /\ bg'.kind = bg.kind /\ bg'.edit = bg.edit
      /\ UNCHANGED <<db, vset, mems, compaction>> /\ disk'.tables = disk.tables
      /\ UnderCurrent'.files = Edited(UnderCurrent.files, bg.edit)
  BY WriteManifestIs
<1>2. NoNewVersion
  <2>1. \A v \in Versions' : v \in Versions
    BY <1>1, VersionsAre, VersionsAreNext
  <2> QED
    BY <1>1, <2>1 DEF NoNewVersion, TablesKept
<1>3. Merges'
  <2>1. Merging' => Merging
    BY <1>1 DEF Merging, Recorded
  <2> QED
    BY <1>1, <1>2, <2>1, MergesStay
<1>4. MemTableInv /\ Twins
  BY <1>1 DEF LevelsInv, MemTables
<1>5. MemTableInv'
  BY <1>1, <1>4 DEF MemTableInv, Recorded
<1>6. Twins'
  <2>1. Ahead' = Edited(vset.files, bg.edit)
    BY <1>1 DEF Ahead
  <2> SUFFICES ASSUME db'.imm # 0, NEW l \in Level \ {0}, NEW n \in UnderCurrent'.files[l]
               PROVE  n \in Ahead'[l] \/ disk'.tables[n] = mems'[db'.imm]
    BY DEF Twins
  <2>2. db.imm # 0 /\ n \in Edited(UnderCurrent.files, bg.edit)[l]
    BY <1>1
  <2> QED
    BY <1>1, <1>4, <2>1, <2>2, TwinsRecorded
<1> QED
  BY <1>2, <1>3, <1>5, <1>6, SortedStays DEF LevelsInv, MemTables

LEMMA ManifestFailsLevels ==
  ASSUME FilesInv, LevelsInv, ManifestFails
  PROVE  LevelsInv'
<1>1. /\ bg.pc = "manifest" /\ Recorded /\ db.state = "open" /\ db'.state = "open"
      /\ disk'.tables = disk.tables /\ vset' = vset /\ db'.imm = db.imm /\ mems' = mems
      /\ db'.bg_error
      /\ \/ UnderCurrent' = UnderCurrent
         \/ UnderCurrent'.files = Edited(UnderCurrent.files, bg.edit)
      /\ \/ /\ bg.kind = "memtable" /\ compaction' = compaction
            /\ bg'.pc \in {"entry", "idle", "scheduled"}
         \/ bg.kind # "memtable" /\ compaction' = NoCompaction /\ bg'.pc \in {"idle", "scheduled"}
  BY ManifestFailsIs
<1>2. ~Recorded' /\ bg'.pc \notin {"manifest", "install", "built"}
  BY <1>1 DEF Recorded
<1>3. NoNewVersion
  <2>1. \A v \in Versions' : v \in Versions
    BY <1>1, <1>2, VersionsAre, VersionsAreNext
  <2> QED
    BY <1>1, <2>1 DEF NoNewVersion, TablesKept
<1>4. Merges'
  <2>1. Merging' => Merging /\ compaction' = compaction
    BY <1>1 DEF Merging
  <2> QED
    BY <1>1, <1>3, <2>1, MergesStay
<1>5. MemTableInv /\ Twins
  BY <1>1 DEF LevelsInv, MemTables
<1>6. MemTableInv'
  BY <1>2 DEF MemTableInv
<1>7. Twins'
  <2>1. Ahead = vset.files /\ Ahead' = vset.files
    BY <1>1, <1>2 DEF Ahead
  <2> SUFFICES ASSUME db'.imm # 0, ~Stopped', NEW l \in Level \ {0}, NEW n \in UnderCurrent'.files[l]
               PROVE  n \in vset.files[l] \/ disk.tables[n] = mems[db.imm]
    BY <1>1, <2>1 DEF Twins
  <2>2. bg.kind = "memtable" /\ db.imm # 0
    BY <1>1 DEF Stopped
  <2>3. \A i \in UnderCurrent.files[l] : i \in vset.files[l] \/ disk.tables[i] = mems[db.imm]
    BY <1>1, <1>5, <2>1, <2>2 DEF Twins, Stopped
  <2>4. CASE UnderCurrent' = UnderCurrent
    BY <2>3, <2>4
  <2>5. CASE UnderCurrent'.files = Edited(UnderCurrent.files, bg.edit)
    <3>1. PICK lv, f : bg.edit = AddFile(lv, f) /\ disk.tables[f] = mems[db.imm]
      BY <1>1, <1>5, <2>2 DEF MemTableInv
    <3>2. bg.edit.add = [NoFiles EXCEPT ![lv] = {f}]
      <4>1. AddFile(lv, f).add = [NoFiles EXCEPT ![lv] = {f}]
        BY AddFileIs
      <4> QED
        BY <3>1, <4>1
    <3>3. bg.edit.add[l] \subseteq {f}
      BY <3>2 DEF NoFiles
    <3>4. n \in UnderCurrent.files[l] \/ n \in bg.edit.add[l]
      BY <2>5 DEF Edited
    <3> QED
      BY <2>3, <3>1, <3>3, <3>4
  <2> QED
    BY <1>1, <2>4, <2>5
<1> QED
  BY <1>3, <1>4, <1>6, <1>7, SortedStays DEF LevelsInv, MemTables

LEMMA InstallLevels ==
  ASSUME FilesInv, MemsStored, LevelsInv, Install
  PROVE  LevelsInv'
<1>1. /\ bg.pc = "install" /\ Recorded /\ db.state = "open" /\ db'.state = "open"
      /\ disk' = disk /\ UnderCurrent' = UnderCurrent
      /\ vset'.files = Edited(vset.files, bg.edit)
      /\ bg'.pc \in {"delete", "idle", "scheduled"}
      /\ \/ bg.kind = "memtable" /\ db'.imm = 0 /\ compaction' = compaction
         \/ bg.kind \in {"compaction", "move"} /\ db'.imm = db.imm /\ mems' = mems
            /\ compaction' = NoCompaction
  BY InstallIs
<1>2. ~Recorded' /\ bg'.pc \notin {"manifest", "install", "built"}
  BY <1>1 DEF Recorded
<1>3. NoNewVersion
  <2>1. \A v \in Versions' : v \in Versions
    BY <1>1, <1>2, VersionsAre, VersionsAreNext
  <2> QED
    BY <1>1, <2>1 DEF NoNewVersion, TablesKept
<1>4. MemTableInv /\ Twins
  BY <1>1 DEF LevelsInv, MemTables
<1>5. Merges'
  <2>1. CASE compaction' = NoCompaction
    BY <2>1 DEF Merges, Merging
  <2>2. CASE bg.kind = "memtable" /\ compaction' = compaction
    <3>1. Merging' => Merging
      BY <1>1, <2>2 DEF Merging
    <3>2. PICK lv, f : bg.edit = AddFile(lv, f)
      BY <1>1, <1>4, <2>2 DEF MemTableInv
    <3>3. bg.edit.del = NoFiles
      <4>1. AddFile(lv, f).del = NoFiles
        BY AddFileIs
      <4> QED
        BY <3>2, <4>1
    <3>4. \A l \in Level : vset.files[l] \subseteq vset'.files[l]
      BY <1>1, <3>3 DEF Edited, NoFiles
    <3> QED
      BY <1>3, <2>2, <3>1, <3>4, MergesStay
  <2> QED
    BY <1>1, <2>1, <2>2
<1>6. MemTableInv'
  BY <1>2 DEF MemTableInv
<1>7. Twins'
  <2>1. CASE db'.imm = 0
    BY <2>1 DEF Twins
  <2>2. CASE db'.imm = db.imm /\ mems' = mems
    <3>1. Ahead' = Ahead /\ ~Stopped
      BY <1>1, <1>2 DEF Ahead, Stopped
    <3> QED
      BY <1>1, <1>4, <2>2, <3>1, TwinsStay
  <2> QED
    BY <1>1, <2>1, <2>2
<1> QED
  BY <1>3, <1>5, <1>6, <1>7, SortedStays DEF LevelsInv, MemTables

(***************************************************************************)
(* A memtable becomes a table of a level whose range is free.              *)
(***************************************************************************)

LEMMA FreeApart ==
  ASSUME NEW S, TablesIn(S), NEW n, disk.tables[n] \in TableSets,
         Overlapping(S, Smallest(n), Largest(n)) = {}, NEW m \in S
  PROVE  Apart(disk.tables[m], disk.tables[n])
<1>1. disk.tables[m] \in TableSets
  BY DEF TablesIn
<1>2. ~(Largest(m) >= Smallest(n) /\ Smallest(m) <= Largest(n))
  BY OverlappingIs
<1>3. /\ Smallest(n) \in Nat /\ Largest(n) \in Nat
      /\ Smallest(m) \in Nat /\ Largest(m) \in Nat
  BY <1>1, RangeOf
<1>4. Largest(m) < Smallest(n) \/ Largest(n) < Smallest(m)
  BY <1>2, <1>3
<1>5. CASE Largest(m) < Smallest(n)
  BY <1>1, <1>5, BelowIs DEF Apart
<1>6. CASE Largest(n) < Smallest(m)
  BY <1>1, <1>6, BelowIs DEF Apart
<1> QED
  BY <1>4, <1>5, <1>6

LEMMA PickedFree ==
  ASSUME NEW v, NEW n
  PROVE  /\ PickLevelForMemTableOutput(v, n) \in 0 .. MaxMemCompactLevel
         /\ PickLevelForMemTableOutput(v, n) # 0 =>
              \A j \in 0 .. PickLevelForMemTableOutput(v, n) :
                Overlapping(v[j], Smallest(n), Largest(n)) = {}
<1> DEFINE Free(l) == Overlapping(v[l], Smallest(n), Largest(n)) = {}
           S == {l \in 0 .. MaxMemCompactLevel : \A j \in 1 .. l : Free(j)}
           lv == PickLevelForMemTableOutput(v, n)
<1>1. lv = IF ~Free(0) THEN 0 ELSE Max(S)
  BY Zenon DEF PickLevelForMemTableOutput
<1>2. MaxMemCompactLevel \in Nat
  BY LevelDBAssumption
<1>3. 0 \in S /\ S \subseteq 0 .. MaxMemCompactLevel /\ S \in SUBSET Nat /\ S # {}
  <2>1. 0 \in 0 .. MaxMemCompactLevel /\ \A j \in 1 .. 0 : FALSE
    BY <1>2
  <2>2. 0 \in S
    BY <2>1
  <2>3. S \subseteq 0 .. MaxMemCompactLevel
    OBVIOUS
  <2>4. 0 .. MaxMemCompactLevel \subseteq Nat
    BY <1>2
  <2> QED
    BY <2>2, <2>3, <2>4
<1>4. IsFiniteSet(S)
  <2>1. IsFiniteSet(0 .. MaxMemCompactLevel)
    BY <1>2, FS_Interval
  <2> QED
    BY <1>3, <2>1, FS_Subset
<1>5. Max(S) \in S
  <2> HIDE DEF S
  <2> QED
    BY <1>3, <1>4, GreatestOf
<1>6. CASE ~Free(0)
  BY <1>1, <1>2, <1>6
<1>7. CASE Free(0)
  <2>1. lv = Max(S)
    BY <1>1, <1>7
  <2>2. lv \in 0 .. MaxMemCompactLevel /\ \A j \in 1 .. lv : Free(j)
    BY <1>5, <2>1
  <2> HIDE DEF Free, lv
  <2>3. \A j \in 0 .. lv : Free(j)
    BY <1>2, <1>7, <2>2
  <2> QED
    BY <2>2, <2>3 DEF Free, lv
<1> QED
  BY <1>6, <1>7

LEMMA LevelTables ==
  ASSUME TablesStored, NEW v, FilesOf(v) \subseteq Tables, NEW l \in Level
  PROVE  TablesIn(v[l])
BY FilesOfIs DEF TablesIn, TablesStored, Tables

(* The table of the memtable is apart from all of the version's tables     *)
(* down to its level.                                                      *)
LEMMA PickedApart ==
  ASSUME FilesInv, TablesStored, db.state = "open", NEW n, n \in Tables,
         NEW lv, lv = PickLevelForMemTableOutput(vset.files, n), lv # 0
  PROVE  /\ lv \in Nat /\ lv \in Level
         /\ \A j \in 0 .. lv : j \in Level /\ \A m \in vset.files[j] : Apart(disk.tables[m], disk.tables[n])
<1>1. /\ lv \in 0 .. MaxMemCompactLevel
      /\ \A j \in 0 .. lv : Overlapping(vset.files[j], Smallest(n), Largest(n)) = {}
  BY PickedFree
<1>2. lv \in Nat /\ \A j \in 0 .. lv : j \in Level
  BY <1>1, LevelDBAssumption DEF Level
<1>3. lv \in 0 .. lv
  BY <1>2
<1>4. disk.tables[n] \in TableSets
  BY DEF TablesStored, Tables
<1>5. \A j \in 0 .. lv : \A m \in vset.files[j] : Apart(disk.tables[m], disk.tables[n])
  <2> SUFFICES ASSUME NEW j \in 0 .. lv, NEW m \in vset.files[j]
               PROVE  Apart(disk.tables[m], disk.tables[n])
    OBVIOUS
  <2>1. TablesIn(vset.files[j])
    BY <1>2, VersionsHeld, LevelTables
  <2> QED
    BY <1>1, <1>4, <2>1, FreeApart
<1> QED
  BY <1>2, <1>3, <1>5

(* The keys of stored tables are numbers. *)
LEMMA KeysAreNumbers ==
  ASSUME NEW x \in EntrySets, NEW e \in x
  PROVE  e.key \in Nat
BY LevelDBAssumption DEF EntrySets, Entry

(* The version v with the table n of the memtable in level lv. *)
LEMMA BesideOneMore ==
  ASSUME NEW T, NEW c, NEW v, NEW lv, NEW n, Beside(T, c, v), NEW l \in Level, l = c.level + 1,
         lv = l => Apart(T[n], InputEntries(T, c))
  PROVE  Beside(T, c, Edited(v, AddFile(lv, n)))
<1>1. AddFile(lv, n).add = [NoFiles EXCEPT ![lv] = {n}] /\ AddFile(lv, n).del = NoFiles
  BY AddFileIs
<1>2. Edited(v, AddFile(lv, n))[l] = (v[l] \ NoFiles[l]) \cup [NoFiles EXCEPT ![lv] = {n}][l]
  BY <1>1 DEF Edited
<1>3. NoFiles[l] = {} /\ [NoFiles EXCEPT ![lv] = {n}][l] = (IF l = lv THEN {n} ELSE {})
  BY DEF NoFiles
<1>4. \A m \in Edited(v, AddFile(lv, n))[l] : m \in v[l] \/ (m = n /\ lv = l)
  BY <1>2, <1>3
<1>5. \A m \in v[l] \ c.inputs[2] : Apart(T[m], InputEntries(T, c))
  BY DEF Beside
<1>6. \A m \in Edited(v, AddFile(lv, n))[l] \ c.inputs[2] : Apart(T[m], InputEntries(T, c))
  BY <1>4, <1>5
<1> QED
  BY <1>6 DEF Beside

LEMMA LogMemTableLevels ==
  ASSUME FilesInv, RecordsInv, LevelsInv, LogMemTable
  PROVE  LevelsInv'
<1> DEFINE f == bg.file
           lv == PickLevelForMemTableOutput(vset.files, f)
           T == disk.tables
<1>1. /\ Standing /\ bg.pc = "built" /\ compaction' = compaction /\ bg'.pc = "manifest"
      /\ bg'.kind = "memtable" /\ bg'.edit = AddFile(lv, f) /\ f \in Tables /\ db.imm # 0
  BY LogMemTableIs
<1>2. db.state = "open" /\ db'.state = "open" /\ disk'.tables = T /\ UnderCurrent' = UnderCurrent
      /\ vset'.files = vset.files /\ db'.imm = db.imm /\ mems' = mems
  BY <1>1 DEF Standing
<1> HIDE DEF f, lv, T
<1>3. MemTableInv /\ Twins /\ T[f] = mems[db.imm] /\ ~Stopped /\ Ahead = vset.files /\ ~Recorded
  BY <1>1, <1>2 DEF LevelsInv, MemTables, MemTableInv, Stopped, Ahead, Recorded, f, T
<1>4. \A v \in Versions' : \E w \in {vset.files, UnderCurrent.files} :
        w \in Versions /\ (v = w \/ v = Edited(w, AddFile(lv, f)))
  BY <1>1, <1>2, VersionsAre, VersionsAreNext
<1>5. lv # 0 => /\ lv \in Nat /\ lv \in Level
                /\ \A j \in 0 .. lv : j \in Level /\ \A m \in vset.files[j] : Apart(T[m], T[f])
  BY <1>1, <1>2, PickedApart DEF RecordsInv, f, lv, T
<1>6. ASSUME NEW v \in {vset.files, UnderCurrent.files}, lv \in Level \ {0}, NEW m \in v[lv]
      PROVE  Apart(T[m], T[f]) \/ T[m] = T[f]
  <2>1. lv \in 0 .. lv
    BY <1>5, <1>6
  <2>2. m \in vset.files[lv] => Apart(T[m], T[f])
    BY <1>5, <1>6, <2>1
  <2>3. m \in vset.files[lv] \/ T[m] = T[f]
    BY <1>1, <1>3, <1>6 DEF Twins, T
  <2> QED
    BY <2>2, <2>3
<1>7. \A v \in Versions' : SortedLevels(disk'.tables, v)
  <2> SUFFICES ASSUME NEW v \in Versions' PROVE SortedLevels(T, v)
    BY <1>2
  <2>1. PICK w \in {vset.files, UnderCurrent.files} :
          w \in Versions /\ (v = w \/ v = Edited(w, AddFile(lv, f)))
    BY <1>4
  <2>2. SortedLevels(T, w)
    BY <1>2, <2>1 DEF LevelsInv, SortedVersions, T
  <2>3. SortedLevels(T, Edited(w, AddFile(lv, f)))
    BY <1>6, <2>2, SortedOneMore
  <2> QED
    BY <2>1, <2>2, <2>3
<1>8. MemTables'
  <2>1. MemTableInv'
    BY <1>1, <1>2, <1>3 DEF MemTableInv, T
  <2>2. Ahead' = vset.files
    BY <1>1, <1>2 DEF Ahead
  <2>3. Twins'
    BY <1>1, <1>2, <1>3, <2>2, TwinsStay DEF T
  <2> QED
    BY <2>1, <2>3 DEF MemTables
<1>9. Merges'
  <2> SUFFICES ASSUME Merging' PROVE MergeInv'
    BY DEF Merges
  <2> DEFINE c == compaction
  <2>1. Merging
    BY <1>1, <1>3 DEF Merging
  <2>2. MergeOf(T, c, vset.files) /\ \A v \in Versions : Beside(T, c, v)
    BY <1>2, <2>1 DEF LevelsInv, Merges, MergeInv, T
  <2>3. InputsIn(c, vset.files) /\ NoGap(T, Inputs(c))
    BY <2>2 DEF MergeOf
  <2>4. ASSUME lv = c.level + 1 PROVE Apart(T[f], InputEntries(T, c))
    <3>1. lv # 0 /\ c.level \in 0 .. lv /\ lv \in 0 .. lv
      BY <2>3, <2>4 DEF InputsIn
    <3>2. \A i \in Inputs(c) : i \in FilesOf(vset.files) /\ Apart(T[f], T[i])
      <4> SUFFICES ASSUME NEW i \in Inputs(c) PROVE i \in FilesOf(vset.files) /\ Apart(T[f], T[i])
        OBVIOUS
      <4>1. i \in vset.files[c.level] \/ i \in vset.files[lv]
        BY <2>3, <2>4 DEF InputsIn, Inputs
      <4>2. \E j \in 0 .. lv : i \in vset.files[j]
        BY <3>1, <4>1
      <4>3. PICK j \in 0 .. lv : i \in vset.files[j]
        BY <4>2
      <4>4. j \in Level /\ Apart(T[i], T[f])
        BY <1>5, <3>1, <4>3
      <4> QED
        BY <4>3, <4>4, ApartSwaps, FilesOfIs
    <3>3. \A i \in Tables : T[i] \in EntrySets
      BY DEF RecordsInv, TablesStored, TableSets, Tables, T
    <3>4. \A i \in Inputs(c) : i \in Tables
      BY <1>2, <3>2, VersionsHeld
    <3>5. /\ \A d \in T[f] : d.key \in Nat
          /\ \A i \in Inputs(c) : \A d \in T[i] : d.key \in Nat
      BY <1>1, <3>3, <3>4, KeysAreNumbers
    <3> QED
      BY <2>3, <3>2, <3>5, ApartUnion DEF InputEntries
  <2>5. ASSUME NEW v \in Versions' PROVE Beside(T, c, v)
    <3>1. PICK w \in {vset.files, UnderCurrent.files} :
            w \in Versions /\ (v = w \/ v = Edited(w, AddFile(lv, f)))
      BY <1>4, <2>5
    <3>2. Beside(T, c, w)
      BY <2>2, <3>1
    <3>3. Beside(T, c, Edited(w, AddFile(lv, f)))
      <4>1. PICK l \in Level : l = c.level + 1
        BY <2>3 DEF InputsIn
      <4>2. lv = l => Apart(T[f], InputEntries(T, c))
        BY <2>4, <4>1
      <4> QED
        BY <3>2, <4>1, <4>2, BesideOneMore
    <3> QED
      BY <3>1, <3>2, <3>3
  <2> QED
    BY <1>1, <1>2, <2>2, <2>5 DEF MergeInv
<1> QED
  BY <1>2, <1>7, <1>8, <1>9, SortedOpen DEF LevelsInv

(***************************************************************************)
(* The outputs of a compaction replace its inputs.                         *)
(***************************************************************************)

LEMMA SortedResults ==
  ASSUME NEW T, NEW c, NEW v, NEW w, MergeOf(T, c, w), Beside(T, c, v), SortedLevels(T, v)
  PROVE  SortedLevels(T, Edited(v, ResultsEdit(c)))
<1>1. InputsIn(c, w) /\ OutputsSorted(T, c)
  BY DEF MergeOf
<1>2. PICK l \in Level : l = c.level + 1 /\ l # c.level
  BY <1>1 DEF InputsIn
<1>3. ResultsEdit(c).add = [NoFiles EXCEPT ![l] = c.outputs]
  BY <1>2, ResultsEditIs
<1>4. ResultsEdit(c).del[l] = c.inputs[2]
  <2>1. ResultsEdit(c).del = [NoFiles EXCEPT ![c.level] = c.inputs[1], ![l] = c.inputs[2]]
    BY <1>2, ResultsEditIs
  <2>2. l \in DOMAIN NoFiles
    BY DEF NoFiles
  <2> QED
    BY <2>1, <2>2
<1>5. \A o, p \in c.outputs : o # p => Apart(T[o], T[p]) \/ T[o] = T[p]
  BY <1>1 DEF OutputsSorted
<1>6. \A m \in v[l] \ c.inputs[2] : \A o \in c.outputs : Apart(T[m], T[o])
  <2> SUFFICES ASSUME NEW m \in v[l] \ c.inputs[2], NEW o \in c.outputs PROVE Apart(T[m], T[o])
    OBVIOUS
  <2>1. Apart(T[m], InputEntries(T, c))
    BY <1>2 DEF Beside
  <2>2. T[o] \in SUBSET InputEntries(T, c)
    BY <1>1 DEF OutputsSorted
  <2> QED
    BY <2>1, <2>2, ApartSubset
<1> DEFINE edit == ResultsEdit(c)
           S == c.outputs
           gone == c.inputs[2]
<1>7. /\ edit.add = [NoFiles EXCEPT ![l] = S] /\ edit.del[l] = gone
      /\ \A o, p \in S : o # p => Apart(T[o], T[p]) \/ T[o] = T[p]
      /\ \A m \in v[l] \ gone : \A o \in S : Apart(T[m], T[o])
  BY <1>3, <1>4, <1>5, <1>6
<1> HIDE DEF edit, S, gone
<1>8. SortedLevels(T, Edited(v, edit))
  BY <1>7, SortedReplaced
<1> QED
  BY <1>8 DEF edit

LEMMA ResultsLevels ==
  ASSUME FilesInv, LevelsInv, InstallCompactionResults
  PROVE  LevelsInv'
<1> DEFINE c == compaction
           T == disk.tables
<1>1. /\ Standing /\ bg.pc = "work" /\ c # NoCompaction /\ compaction' = c
      /\ bg'.pc = "manifest" /\ bg'.kind = "compaction" /\ bg'.edit = ResultsEdit(c)
  BY InstallCompactionResultsIs
<1>2. db.state = "open" /\ db'.state = "open" /\ disk'.tables = T /\ UnderCurrent' = UnderCurrent
      /\ vset'.files = vset.files /\ db'.imm = db.imm /\ mems' = mems
  BY <1>1 DEF Standing
<1> HIDE DEF c, T
<1>3. ~Stopped /\ Ahead = vset.files /\ Ahead' = vset.files /\ Merging /\ ~Merging'
  BY <1>1, <1>2 DEF Stopped, Ahead, Merging, Recorded, c
<1>4. MergeOf(T, c, vset.files) /\ \A v \in Versions : Beside(T, c, v)
  BY <1>2, <1>3 DEF LevelsInv, Merges, MergeInv, T, c
<1>5. \A v \in Versions' : \E w \in {vset.files, UnderCurrent.files} :
        w \in Versions /\ (v = w \/ v = Edited(w, ResultsEdit(c)))
  BY <1>1, <1>2, VersionsAre, VersionsAreNext
<1>6. \A v \in Versions' : SortedLevels(disk'.tables, v)
  <2> SUFFICES ASSUME NEW v \in Versions' PROVE SortedLevels(T, v)
    BY <1>2
  <2>1. PICK w \in {vset.files, UnderCurrent.files} :
          w \in Versions /\ (v = w \/ v = Edited(w, ResultsEdit(c)))
    BY <1>5
  <2>2. SortedLevels(T, w) /\ Beside(T, c, w)
    BY <1>2, <1>4, <2>1 DEF LevelsInv, SortedVersions, T
  <2>3. SortedLevels(T, Edited(w, ResultsEdit(c)))
    BY <1>4, <2>2, SortedResults
  <2> QED
    BY <2>1, <2>2, <2>3
<1>7. MemTables'
  <2>1. Twins
    BY <1>2 DEF LevelsInv, MemTables
  <2>2. Twins'
    BY <1>2, <1>3, <2>1, TwinsStay DEF T
  <2>3. MemTableInv'
    BY <1>1 DEF MemTableInv
  <2> QED
    BY <2>2, <2>3 DEF MemTables
<1>8. Merges'
  BY <1>3 DEF Merges
<1> QED
  BY <1>2, <1>6, <1>7, <1>8, SortedOpen DEF LevelsInv

(***************************************************************************)
(* A compaction begins: a move, or a merge.                                *)
(***************************************************************************)

(* The inputs, and the tables of the next level beside them. *)
ChosenApart(v, l, f) ==
  \E S, R : /\ Chosen(v, l, f) = <<S, R>> /\ IsFiniteSet(S)
            /\ S \subseteq v[l] /\ R \subseteq v[l + 1] /\ NoGap(disk.tables, S \cup R)
            /\ \A n \in v[l + 1] \ R :
                 Apart(disk.tables[n], UNION {disk.tables[i] : i \in S \cup R})

LEMMA ChosenBeside ==
  ASSUME FilesInv, TablesStored, db.state = "open", SortedLevels(disk.tables, vset.files),
         NEW l \in Level, l + 1 \in Level, NEW f \in vset.files[l]
  PROVE  ChosenApart(vset.files, l, f)
<1> DEFINE v == vset.files
<1>1. FilesOf(v) \subseteq Tables
  BY VersionsHeld
<1>2. TablesIn(v[l]) /\ TablesIn(v[l + 1])
  BY <1>1, LevelTables
<1>3. IsFiniteSet(v[l]) /\ IsFiniteSet(v[l + 1])
  <2>1. Held(Tables, v, vset.next_file) /\ vset.next_file \in Nat
    BY DEF FilesInv, ServingInv
  <2> QED
    BY <2>1, HeldFinite
<1>4. l \in Nat /\ l + 1 # 0
  BY DEF Level
<1>5. PICK S \in SUBSET v[l] :
        /\ S # {} /\ Chosen(v, l, f) = <<S, Overlapping(v[l + 1], Hull(S)[1], Hull(S)[2])>>
        /\ Gapless(S \cup Overlapping(v[l + 1], Hull(S)[1], Hull(S)[2]))
  BY <1>2, <1>3, <1>4, ChosenIs
<1> DEFINE R == Overlapping(v[l + 1], Hull(S)[1], Hull(S)[2])
<1>6. R \subseteq v[l + 1]
  BY OverlappingIs
<1>7. IsFiniteSet(S) /\ TablesIn(S) /\ TablesIn(S \cup R)
  <2>1. IsFiniteSet(S)
    BY <1>3, FS_Subset
  <2> QED
    BY <1>2, <1>6, <2>1 DEF TablesIn
<1>8. NoGap(disk.tables, S \cup R)
  BY <1>5, <1>7, GaplessNoGap
<1>9. Disjoint(disk.tables, v[l + 1])
  BY <1>4 DEF SortedLevels
<1>10. \A n \in v[l + 1] \ R : Apart(disk.tables[n], UNION {disk.tables[i] : i \in S \cup R})
  BY <1>2, <1>5, <1>7, <1>9, LeftAlone
<1> QED
  BY <1>5, <1>6, <1>7, <1>8, <1>10 DEF ChosenApart

(* The move: one file, with nothing of its range in the next level. *)
LEMMA SortedMove ==
  ASSUME NEW T, NEW v, SortedLevels(T, v), NEW l \in Level, l \in Nat, l + 1 \in Level, NEW x,
         \A n \in v[l + 1] : Apart(T[n], T[x])
  PROVE  SortedLevels(T, Edited(v, MoveEdit(l, {x})))
<1>1. PICK lv \in Level : lv = l + 1 /\ lv # l
  OBVIOUS
<1> DEFINE edit == MoveEdit(l, {x})
<1>2. edit.add = [NoFiles EXCEPT ![lv] = {x}] /\ edit.del = [NoFiles EXCEPT ![l] = {x}]
  BY <1>1, MoveEditIs
<1>3. edit.del[lv] = {}
  BY <1>1, <1>2 DEF NoFiles
<1>4. \A m \in v[lv] \ {} : \A o \in {x} : Apart(T[m], T[o])
  BY <1>1
<1> DEFINE S == {x}
           gone == {}
<1>5. /\ edit.add = [NoFiles EXCEPT ![lv] = S] /\ edit.del[lv] = gone
      /\ \A o, p \in S : o # p => Apart(T[o], T[p]) \/ T[o] = T[p]
      /\ \A m \in v[lv] \ gone : \A o \in S : Apart(T[m], T[o])
  BY <1>2, <1>3, <1>4
<1> HIDE DEF edit, S, gone
<1>6. SortedLevels(T, Edited(v, edit))
  BY <1>5, SortedReplaced
<1> QED
  BY <1>6 DEF edit

(* The compaction as it starts. *)
LEMMA MergeStarts ==
  ASSUME NEW T, NEW v, NEW c, NEW S, NEW R, c.level \in Level, c.level \in Nat, c.level + 1 \in Level,
         c.inputs = <<S, R>>, S \subseteq v[c.level], R \subseteq v[c.level + 1], NoGap(T, S \cup R),
         c.outputs = {}, c.builder = 0, c.prev = [key |-> -1, seq |-> 0],
         c.todo = UNION {T[n] : n \in S \cup R},
         \A n \in S \cup R : T[n] \in EntrySets,
         \A n \in v[c.level + 1] \ R : Apart(T[n], UNION {T[i] : i \in S \cup R})
  PROVE  MergeOf(T, c, v) /\ Beside(T, c, v)
<1>1. Inputs(c) = S \cup R /\ c.inputs[1] = S /\ c.inputs[2] = R
  BY DEF Inputs
<1>2. InputEntries(T, c) = UNION {T[n] : n \in S \cup R}
  BY <1>1 DEF InputEntries
<1>3. Beside(T, c, v)
  BY <1>1, <1>2 DEF Beside
<1>4. InputsIn(c, v)
  BY <1>1 DEF InputsIn
<1>5. OutputsSorted(T, c)
  BY DEF OutputsSorted
<1>6. Ordered(T, c)
  <2>1. \A e \in c.todo : e.key \in Nat
    BY KeysAreNumbers
  <2>2. c.prev.key = -1
    OBVIOUS
  <2>3. \A e \in c.todo : c.prev.key <= e.key
    BY <2>1, <2>2
  <2>4. c.prev.key \in Int
    BY <2>2
  <2>5. c.todo \subseteq InputEntries(T, c)
    BY <1>2
  <2> QED
    BY <2>1, <2>3, <2>4, <2>5 DEF Ordered
<1>7. NoGap(T, Inputs(c))
  BY <1>1
<1> QED
  BY <1>3, <1>4, <1>5, <1>6, <1>7 DEF MergeOf

LEMMA BeginsLevels ==
  ASSUME FilesInv, RecordsInv, LevelsInv, CompactionBegins
  PROVE  LevelsInv'
<1> DEFINE T == disk.tables
           V == vset.files
<1>1. /\ Standing /\ bg.pc = "scheduled" /\ compaction = NoCompaction
      /\ UnderCurrent.files = V /\ db.imm = 0 /\ ~db.bg_error
      /\ \E l \in Level : l + 1 \in Level /\ \E f \in V[l] : CompactionStarts(l, f)
  BY CompactionStartsIs DEF CompactionBegins
<1>2. PICK l \in Level : l + 1 \in Level /\ \E f \in V[l] : CompactionStarts(l, f)
  BY <1>1
<1>3. PICK f \in V[l] : CompactionStarts(l, f)
  BY <1>2
<1>4. db.state = "open" /\ db'.state = "open" /\ disk'.tables = T /\ UnderCurrent' = UnderCurrent
      /\ vset'.files = V /\ db'.imm = 0 /\ mems' = mems
  BY <1>1 DEF Standing
<1>5. SortedLevels(T, V)
  <2>1. V \in Versions
    BY VersionsAre
  <2> QED
    BY <1>4, <2>1 DEF LevelsInv, SortedVersions
<1>6. PICK S, R : /\ Chosen(V, l, f) = <<S, R>> /\ IsFiniteSet(S)
                  /\ S \subseteq V[l] /\ R \subseteq V[l + 1] /\ NoGap(T, S \cup R)
                  /\ \A n \in V[l + 1] \ R : Apart(T[n], UNION {T[i] : i \in S \cup R})
  <2>1. ChosenApart(vset.files, l, f)
    BY <1>2, <1>4, <1>5, ChosenBeside DEF RecordsInv
  <2> QED
    BY <2>1 DEF ChosenApart
<1>7. l \in Nat
  BY DEF Level
<1>8. ASSUME \A v \in Versions' : SortedLevels(T, v), Merges', bg'.pc # "built",
             bg'.pc = "manifest" => bg'.kind # "memtable", bg'.pc # "install"
      PROVE  LevelsInv'
  <2>1. MemTableInv'
    BY <1>8 DEF MemTableInv, Recorded
  <2>2. Twins'
    BY <1>4 DEF Twins
  <2> QED
    BY <1>4, <1>8, <2>1, <2>2, SortedOpen DEF LevelsInv, MemTables
<1> HIDE DEF T, V
<1>9. CASE /\ IsTrivialMove(Chosen(V, l, f))
           /\ bg' = Logged("move", MoveEdit(l, Chosen(V, l, f)[1]), vset.log_number)
           /\ compaction' = compaction
  <2>1. Cardinality(S) = 1 /\ R = {}
    BY <1>6, <1>9 DEF IsTrivialMove
  <2>2. PICK x : S = {x}
    BY <1>6, <2>1, FS_Singleton
  <2>3. bg' = Logged("move", MoveEdit(l, {x}), vset.log_number)
    BY <1>6, <1>9, <2>2
  <2>4. bg'.pc = "manifest" /\ bg'.kind = "move" /\ bg'.edit = MoveEdit(l, {x})
    BY <2>3, LoggedIs
  <2>5. \A n \in V[l + 1] : Apart(T[n], T[x])
    <3> SUFFICES ASSUME NEW n \in V[l + 1] PROVE Apart(T[n], T[x])
      OBVIOUS
    <3>1. Apart(T[n], UNION {T[i] : i \in S \cup R})
      BY <1>6, <2>1
    <3>2. T[x] \in SUBSET UNION {T[i] : i \in S \cup R}
      BY <2>2
    <3> QED
      BY <3>1, <3>2, ApartSubset
  <2>6. SortedLevels(T, Edited(V, MoveEdit(l, {x})))
    BY <1>2, <1>5, <1>7, <2>5, SortedMove
  <2>7. \A v \in Versions' : v = V \/ v = Edited(V, MoveEdit(l, {x}))
    BY <1>1, <1>4, <2>4, VersionsAreNext DEF V
  <2>8. \A v \in Versions' : SortedLevels(T, v)
    BY <1>5, <2>6, <2>7
  <2>9. Merges'
    BY <1>1, <1>9 DEF Merges, Merging
  <2> QED
    BY <1>8, <2>4, <2>8, <2>9
<1>10. CASE bg' = [pc |-> "work"] /\ compaction' = StartCompaction(l, Chosen(V, l, f))
  <2>1. \A v \in Versions' : v = V
    BY <1>1, <1>4, <1>10, VersionsAreNext DEF Recorded, V
  <2>2. \A v \in Versions' : SortedLevels(T, v)
    BY <1>5, <2>1
  <2> DEFINE c == StartCompaction(l, Chosen(V, l, f))
  <2>3. /\ c.level = l /\ c.inputs = <<S, R>> /\ c.outputs = {} /\ c.builder = 0
        /\ c.prev = [key |-> -1, seq |-> 0] /\ c.todo = UNION {T[n] : n \in S \cup R}
    <3>1. /\ c.level = l /\ c.inputs = Chosen(V, l, f) /\ c.outputs = {} /\ c.builder = 0
          /\ c.prev = [key |-> -1, seq |-> 0]
          /\ c.todo = UNION {T[n] : n \in Chosen(V, l, f)[1] \cup Chosen(V, l, f)[2]}
      BY StartCompactionIs DEF T
    <3>2. Chosen(V, l, f)[1] = S /\ Chosen(V, l, f)[2] = R
      BY <1>6
    <3> QED
      BY <1>6, <3>1, <3>2
  <2> HIDE DEF c
  <2>4. \A n \in S \cup R : T[n] \in EntrySets
    <3> SUFFICES ASSUME NEW n \in S \cup R PROVE T[n] \in EntrySets
      OBVIOUS
    <3>1. n \in FilesOf(V)
      BY <1>2, <1>6, FilesOfIs
    <3>2. n \in Tables
      BY <1>4, <3>1, VersionsHeld DEF V
    <3> QED
      BY <3>2 DEF RecordsInv, TablesStored, TableSets, Tables, T
  <2>5. MergeOf(T, c, V) /\ Beside(T, c, V)
    BY <1>2, <1>6, <1>7, <2>3, <2>4, MergeStarts
  <2>6. MergeInv'
    BY <1>4, <1>10, <2>1, <2>5 DEF MergeInv, c
  <2>7. Merges'
    BY <2>6 DEF Merges
  <2> QED
    BY <1>8, <1>10, <2>2, <2>7
<1> QED
  BY <1>3, <1>9, <1>10 DEF CompactionStarts, V

(***************************************************************************)
(* DoCompactionWork takes the entries in their order, so every output      *)
(* begins after the previous one ends.                                     *)
(***************************************************************************)

(* The CompactionState d after c, with the entry e done. *)
EntryDone(c, d, e) ==
  /\ d.level = c.level /\ d.inputs = c.inputs
  /\ e \in c.todo /\ Foremost(c.todo, e)
  /\ d.todo = c.todo \ {e} /\ d.prev.key = e.key

LEMMA SameInputs ==
  ASSUME NEW T, NEW c, NEW d, d.level = c.level, d.inputs = c.inputs
  PROVE  /\ Inputs(d) = Inputs(c) /\ InputEntries(T, d) = InputEntries(T, c)
         /\ \A v : InputsIn(c, v) => InputsIn(d, v)
         /\ \A v : Beside(T, c, v) => Beside(T, d, v)
<1>1. Inputs(d) = Inputs(c)
  BY DEF Inputs
<1>2. InputEntries(T, d) = InputEntries(T, c)
  BY <1>1 DEF InputEntries
<1>3. \A v : InputsIn(c, v) => InputsIn(d, v)
  BY DEF InputsIn
<1>4. \A v : Beside(T, c, v) => Beside(T, d, v)
  BY <1>2 DEF Beside
<1> QED
  BY <1>1, <1>2, <1>3, <1>4

LEMMA OrderedDone ==
  ASSUME NEW T, NEW c, NEW d, NEW e, EntryDone(c, d, e), Ordered(T, c)
  PROVE  /\ Ordered(T, d) /\ e.key \in Nat /\ c.prev.key \in Int /\ c.prev.key <= e.key
         /\ e \in InputEntries(T, c)
<1>1. /\ c.prev.key \in Int /\ e \in InputEntries(T, c)
      /\ e.key \in Nat /\ c.prev.key <= e.key
  BY DEF Ordered, EntryDone
<1>2. InputEntries(T, d) = InputEntries(T, c)
  BY SameInputs DEF EntryDone
<1>3. \A y \in d.todo : y \in c.todo /\ y \in InputEntries(T, c) /\ y.key \in Nat
  BY DEF Ordered, EntryDone
<1>4. \A y \in d.todo : e.key <= y.key
  <2> SUFFICES ASSUME NEW y \in d.todo PROVE e.key <= y.key
    OBVIOUS
  <2>1. e.key < y.key \/ e.key = y.key
    BY <1>3 DEF EntryDone, Foremost
  <2> QED
    BY <1>1, <1>3, <2>1
<1>5. d.prev.key = e.key
  BY DEF EntryDone
<1> QED
  BY <1>1, <1>2, <1>3, <1>4, <1>5 DEF Ordered

LEMMA MergeDropped ==
  ASSUME NEW T, NEW c, NEW d, NEW e, NEW v, MergeOf(T, c, v), EntryDone(c, d, e),
         d.outputs = c.outputs, d.builder = c.builder
  PROVE  MergeOf(T, d, v)
<1>1. InputsIn(c, v) /\ NoGap(T, Inputs(c)) /\ OutputsSorted(T, c) /\ Ordered(T, c)
  BY DEF MergeOf
<1>2. Inputs(d) = Inputs(c) /\ InputEntries(T, d) = InputEntries(T, c) /\ InputsIn(d, v)
  BY <1>1, SameInputs DEF EntryDone
<1>3. Ordered(T, d) /\ e.key \in Nat /\ c.prev.key \in Int /\ c.prev.key <= e.key
  BY <1>1, OrderedDone
<1>4. OutputsSorted(T, d)
  <2>1. \A o \in d.outputs : \A x \in T[o] : x.key \in Nat /\ x.key <= d.prev.key
    <3> SUFFICES ASSUME NEW o \in d.outputs, NEW x \in T[o]
                 PROVE  x.key \in Nat /\ x.key <= d.prev.key
      OBVIOUS
    <3>1. x.key \in Nat /\ x.key <= c.prev.key
      BY <1>1 DEF OutputsSorted
    <3>2. d.prev.key = e.key
      BY DEF EntryDone
    <3> QED
      BY <1>3, <3>1, <3>2
  <2> QED
    BY <1>1, <1>2, <2>1 DEF OutputsSorted
<1> QED
  BY <1>1, <1>2, <1>3, <1>4 DEF MergeOf

(* The output file out has one entry more. *)
Written(T, R, c, d, e, out) ==
  /\ d.outputs = c.outputs \cup {out} /\ d.builder \in {0, out}
  /\ c.builder = 0 => out \notin c.outputs /\ R[out] = {e}
  /\ c.builder # 0 => out = c.builder /\ out \in c.outputs /\ R[out] = {e} \cup T[out]
  /\ \A o \in c.outputs \ {out} : R[o] = T[o]

LEMMA OutputsWritten ==
  ASSUME NEW T, NEW R, NEW c, NEW d, NEW e, NEW out, OutputsSorted(T, c), Ordered(T, c),
         EntryDone(c, d, e), c.prev.key # e.key, Written(T, R, c, d, e, out),
         InputEntries(R, d) = InputEntries(T, c)
  PROVE  OutputsSorted(R, d)
<1>1. /\ e.key \in Nat /\ c.prev.key \in Int /\ c.prev.key <= e.key /\ e \in InputEntries(T, c)
      /\ d.prev.key = e.key
  BY OrderedDone DEF EntryDone
<1>2. c.prev.key < e.key
  BY <1>1
<1>3. \A o \in c.outputs : \A x \in T[o] : x.key \in Nat /\ x.key < e.key
  <2> SUFFICES ASSUME NEW o \in c.outputs, NEW x \in T[o] PROVE x.key \in Nat /\ x.key < e.key
    OBVIOUS
  <2>1. x.key \in Nat /\ x.key <= c.prev.key
    BY DEF OutputsSorted
  <2> QED
    BY <1>1, <1>2, <2>1
<1>4. \A x \in R[out] : x = e \/ (out \in c.outputs /\ x \in T[out])
  BY DEF Written
<1>5. ASSUME NEW o \in d.outputs, o # out PROVE o \in c.outputs /\ R[o] = T[o]
  BY <1>5 DEF Written
<1>6. ASSUME NEW o \in d.outputs, o # out PROVE Below(R[o], R[out])
  <2> SUFFICES ASSUME NEW x \in R[o], NEW y \in R[out] PROVE x.key < y.key
    BY DEF Below
  <2>1. o \in c.outputs /\ x \in T[o] /\ x.key < e.key
    BY <1>3, <1>5, <1>6
  <2>2. CASE y = e
    BY <2>1, <2>2
  <2>3. CASE y # e
    <3>1. out \in c.outputs /\ y \in T[out] /\ c.builder # 0 /\ out = c.builder
      BY <1>4, <2>3 DEF Written
    <3>2. Below(T[o], T[out])
      BY <1>6, <2>1, <3>1 DEF OutputsSorted
    <3> QED
      BY <2>1, <3>1, <3>2 DEF Below
  <2> QED
    BY <2>2, <2>3
<1>7. \A o, p \in d.outputs : o # p => Apart(R[o], R[p])
  <2> SUFFICES ASSUME NEW o \in d.outputs, NEW p \in d.outputs, o # p PROVE Apart(R[o], R[p])
    OBVIOUS
  <2>1. CASE o = out
    BY <1>6, <2>1 DEF Apart
  <2>2. CASE p = out
    BY <1>6, <2>2 DEF Apart
  <2>3. CASE o # out /\ p # out
    <3>1. o \in c.outputs /\ p \in c.outputs /\ R[o] = T[o] /\ R[p] = T[p]
      BY <1>5, <2>3
    <3> QED
      BY <3>1 DEF OutputsSorted
  <2> QED
    BY <2>1, <2>2, <2>3
<1>8. d.builder # 0 => \A o \in d.outputs \ {d.builder} : Below(R[o], R[d.builder])
  BY <1>6 DEF Written
<1>9. \A o \in d.outputs : R[o] \subseteq InputEntries(R, d)
  <2> SUFFICES ASSUME NEW o \in d.outputs, NEW x \in R[o] PROVE x \in InputEntries(T, c)
    OBVIOUS
  <2>1. CASE o # out
    BY <1>5, <2>1 DEF OutputsSorted
  <2>2. CASE o = out
    BY <1>1, <1>4, <2>2 DEF OutputsSorted
  <2> QED
    BY <2>1, <2>2
<1>10. \A o \in d.outputs : \A x \in R[o] : x.key \in Nat /\ x.key <= d.prev.key
  <2> SUFFICES ASSUME NEW o \in d.outputs, NEW x \in R[o] PROVE x.key \in Nat /\ x.key <= e.key
    BY <1>1
  <2>1. CASE x = e
    BY <1>1, <2>1
  <2>2. CASE x # e
    <3>1. \E p \in c.outputs : x \in T[p]
      BY <1>4, <1>5, <2>2
    <3>2. x.key \in Nat /\ x.key < e.key
      BY <1>3, <3>1
    <3> QED
      BY <1>1, <3>2
  <2> QED
    BY <2>1, <2>2
<1> QED
  BY <1>7, <1>8, <1>9, <1>10 DEF OutputsSorted

LEMMA MergeWritten ==
  ASSUME NEW T, NEW R, NEW c, NEW d, NEW e, NEW out, NEW v, MergeOf(T, c, v),
         EntryDone(c, d, e), c.prev.key # e.key, Written(T, R, c, d, e, out),
         \A n \in FilesOf(v) : R[n] = T[n]
  PROVE  MergeOf(R, d, v) /\ InputEntries(R, c) = InputEntries(T, c)
<1>1. InputsIn(c, v) /\ NoGap(T, Inputs(c)) /\ OutputsSorted(T, c) /\ Ordered(T, c)
  BY DEF MergeOf
<1>2. Inputs(d) = Inputs(c) /\ InputsIn(d, v) /\ InputEntries(R, d) = InputEntries(R, c)
      /\ InputEntries(T, d) = InputEntries(T, c)
  BY <1>1, SameInputs DEF EntryDone
<1>3. /\ \A n \in Inputs(c) : R[n] = T[n]
      /\ InputEntries(R, c) = InputEntries(T, c)
  <2>1. \A n \in FilesOf(v) : R[n] = T[n]
    OBVIOUS
  <2> QED
    BY ONLY <1>1, <2>1, InputsKept
<1>4. NoGap(R, Inputs(d))
  BY <1>1, <1>2, <1>3 DEF NoGap
<1>5. OutputsSorted(R, d)
  BY <1>1, <1>2, <1>3, OutputsWritten
<1>6. Ordered(R, d)
  <2>1. Ordered(T, d)
    BY <1>1, OrderedDone
  <2> QED
    BY <1>2, <1>3, <2>1 DEF Ordered
<1> QED
  BY <1>2, <1>3, <1>4, <1>5, <1>6 DEF MergeOf


LEMMA CompactEntryLevels ==
  ASSUME FilesInv, RecordsInv, FreshInv, SequenceInv, LevelsInv, CompactEntry
  PROVE  LevelsInv'
<1> DEFINE c == compaction
           d == compaction'
           e == NextEntry(c)
           T == disk.tables
           R == disk'.tables
<1>1. /\ db.state = "open" /\ db'.state = "open" /\ bg.pc \in {"work", "entry"} /\ bg'.pc = "work"
      /\ c # NoCompaction /\ UnderCurrent' = UnderCurrent /\ vset'.files = vset.files
      /\ db'.imm = db.imm /\ mems' = mems
      /\ (EntryDropped /\ disk' = disk) \/ EntryWritten
      /\ c.todo # {} /\ {"todo", "prev", "files", "outputs", "builder"} \subseteq DOMAIN c
  BY CompactEntryStep
<1>2. {"level", "inputs", "smallest_snapshot"} \subseteq DOMAIN c
  BY <1>1 DEF FreshInv
<1>3. e \in c.todo /\ Foremost(c.todo, e)
  <2>1. c.todo \in TableSets
    BY <1>1 DEF RecordsInv, CompactionStored, TableSets
  <2> QED
    BY <2>1, NextEntryIs
<1>4. Merging
  BY <1>1 DEF Merging, Recorded
<1>5. MergeOf(T, c, vset.files) /\ \A v \in Versions : Beside(T, c, v)
  BY <1>1, <1>4 DEF LevelsInv, Merges, MergeInv
<1>6. SnapshotInv(T, c, vset.last_sequence)
  BY <1>1 DEF SequenceInv, CompactionUpto
<1>7. \A n \in FilesOf(vset.files) \cup FilesOf(UnderCurrent.files) : R[n] = T[n]
  BY <1>1, EntryWrittenTables
<1>8. Settled
  BY <1>1, <1>7 DEF Settled, Recorded, Stopped
<1>9. ASSUME MergeOf(R, d, vset.files), InputEntries(R, c) = InputEntries(T, c),
             d.level = c.level, d.inputs = c.inputs
      PROVE  MergeInv'
  <2>1. ASSUME NEW v \in Versions' PROVE Beside(R, d, v)
    <3>1. v \in {vset.files, UnderCurrent.files} /\ v \in Versions
      BY <1>8, VersionsLeft DEF Settled
    <3>2. Beside(T, c, v) /\ \A n \in FilesOf(v) : R[n] = T[n]
      BY <1>5, <1>7, <3>1
    <3>3. c.level + 1 \in Level
      BY <1>5 DEF MergeOf, InputsIn
    <3>4. Beside(R, c, v)
      BY <1>9, <3>2, <3>3, BesideKept
    <3> QED
      BY <1>9, <3>4, SameInputs
  <2> QED
    BY <1>1, <1>9, <2>1 DEF MergeInv
<1> HIDE DEF c, d, e, T, R
<1>10. CASE EntryDropped /\ disk' = disk
  <2>1. d = AfterEntry(c) /\ R = T
    BY <1>10 DEF EntryDropped, c, d, T, R
  <2>2. /\ AfterEntry(c).todo = c.todo \ {e} /\ AfterEntry(c).prev = [key |-> e.key, seq |-> e.seq]
        /\ AfterEntry(c).outputs = c.outputs /\ AfterEntry(c).builder = c.builder
        /\ AfterEntry(c).level = c.level /\ AfterEntry(c).inputs = c.inputs
    BY <1>1, <1>2, AfterEntryIs DEF e
  <2>3. EntryDone(c, d, e)
    BY <1>3, <2>1, <2>2 DEF EntryDone
  <2>4. MergeOf(T, d, vset.files)
    BY <1>5, <2>1, <2>2, <2>3, MergeDropped
  <2>5. MergeInv'
    BY <1>9, <2>1, <2>2, <2>4
  <2> QED
    BY <1>8, <2>5, SettledSorted, SettledMemTables DEF LevelsInv, Merges
<1>11. CASE EntryWritten
  <2> DEFINE out == OutputOf(c)
  <2>1. /\ d.todo = c.todo \ {e} /\ d.prev = [key |-> e.key, seq |-> e.seq]
        /\ d.outputs = c.outputs \cup {out} /\ d.builder \in {0, out}
        /\ d.level = c.level /\ d.inputs = c.inputs
        /\ R[out] = ContentOf(c)
        /\ c.builder = 0 => out \notin c.outputs
        /\ c.builder # 0 => out = c.builder /\ out \in c.outputs
    BY <1>1, <1>2, <1>11, EntryWrittenIs DEF c, d, e, R
  <2>2. ~Dropped(c)
    BY <1>11 DEF EntryWritten, c
  <2>3. c.prev.key # e.key
    BY <1>6, <2>2 DEF Dropped, SnapshotInv, e
  <2>4. \A o \in c.outputs \ {out} : R[o] = T[o]
    BY <1>11, EntryWrittenTables DEF c, R, T
  <2>5. /\ c.builder = 0 => R[out] = {e}
        /\ c.builder # 0 => R[out] = {e} \cup T[out]
    BY <2>1 DEF ContentOf, e, T
  <2> HIDE DEF out
  <2>6. EntryDone(c, d, e)
    BY <1>3, <2>1 DEF EntryDone
  <2>7. Written(T, R, c, d, e, out)
    BY <2>1, <2>4, <2>5 DEF Written
  <2>8. \A n \in FilesOf(vset.files) : R[n] = T[n]
    BY <1>7
  <2>9. MergeOf(R, d, vset.files) /\ InputEntries(R, c) = InputEntries(T, c)
    BY ONLY <1>5, <2>3, <2>6, <2>7, <2>8, MergeWritten
  <2>10. MergeInv'
    BY <1>9, <2>1, <2>9
  <2> QED
    BY <1>8, <2>10, SettledSorted, SettledMemTables DEF LevelsInv, Merges
<1> QED
  BY <1>1, <1>10, <1>11

(***************************************************************************)
(* DB::Open and crashes.                                                   *)
(***************************************************************************)

(* Only the sorted levels matter while the store is not open. *)
LEMMA SortedClosed ==
  ASSUME db'.state # "open", db'.state \in {"closed", "aborted"} => vset'.files = NoFiles,
         disk'.current # 0 => SortedLevels(disk'.tables, UnderCurrent'.files),
         db'.state = "recovering" => \A l \in Level \ {0} : bg'.edit.add[l] = {},
         db'.state = "opening" => SortedLevels(disk'.tables, vset'.files)
  PROVE  LevelsInv'
BY DEF LevelsInv, ClosedFiles, SortedCurrent, SortedRecovery, SortedOpening, SortedVersions,
       MemTables, Merges

LEMMA RecoverLevels ==
  ASSUME FilesInv, FilesInv', LevelsInv, Recovered
  PROVE  LevelsInv'
<1>1. /\ disk'.tables = disk.tables /\ db'.state = "recovering"
      /\ UnderCurrent'.files = vset'.files /\ bg'.edit = NoEdit
      /\ \/ disk.current # 0 /\ UnderCurrent' = UnderCurrent
         \/ vset'.files = NoFiles
  BY RecoveredIs
<1>2. SortedLevels(disk'.tables, UnderCurrent'.files)
  BY <1>1, SortedNone DEF LevelsInv, SortedCurrent
<1>3. \A l \in Level \ {0} : bg'.edit.add[l] = {}
  BY <1>1 DEF NoEdit, NoFiles
<1> QED
  BY <1>1, <1>2, <1>3, SortedClosed

LEMMA RecoverLogFileLevels ==
  ASSUME FilesInv, LogsReadable, RecordsInv, LevelsInv, RecoverLogFile
  PROVE  LevelsInv'
<1>1. /\ db.state = "recovering" /\ db' = db /\ UnderCurrent' = UnderCurrent /\ disk.current # 0
      /\ \A n \in FilesOf(UnderCurrent.files) : disk'.tables[n] = disk.tables[n]
      /\ \A l \in Level \ {0} : bg'.edit.add[l] = bg.edit.add[l]
  BY RecoverLogFileStep
<1>2. SortedLevels(disk'.tables, UnderCurrent'.files)
  BY <1>1, SortedKept DEF LevelsInv, SortedCurrent
<1>3. \A l \in Level \ {0} : bg'.edit.add[l] = {}
  BY <1>1 DEF LevelsInv, SortedRecovery
<1> QED
  BY <1>1, <1>2, <1>3, SortedClosed

LEMMA NewManifestLevels ==
  ASSUME FilesInv, LevelsInv, NewManifest
  PROVE  LevelsInv'
<1>1. /\ disk'.tables = disk.tables /\ db.state = "recovering" /\ db'.state = "opening"
      /\ disk.current # 0 /\ UnderCurrent' = UnderCurrent
      /\ vset'.files = Edited(vset.files, bg.edit)
  BY NewManifestIs
<1>2. SortedLevels(disk.tables, UnderCurrent.files)
  BY <1>1 DEF LevelsInv, SortedCurrent
<1>3. vset.files = UnderCurrent.files
  BY <1>1 DEF FilesInv, RecoveringInv
<1>4. SortedLevels(disk.tables, Edited(vset.files, bg.edit))
  <2> SUFFICES ASSUME NEW l \in Level \ {0} PROVE Disjoint(disk.tables, Edited(vset.files, bg.edit)[l])
    BY DEF SortedLevels
  <2>1. bg.edit.add[l] = {}
    BY <1>1 DEF LevelsInv, SortedRecovery
  <2>2. Edited(vset.files, bg.edit)[l] \in SUBSET vset.files[l]
    BY <2>1 DEF Edited
  <2>3. Disjoint(disk.tables, vset.files[l])
    BY <1>2, <1>3 DEF SortedLevels
  <2> QED
    BY <2>2, <2>3, SortedSubset
<1> QED
  BY <1>1, <1>2, <1>4, SortedClosed

LEMMA SetCurrentFileLevels ==
  ASSUME FilesInv, LevelsInv, SetCurrentFile
  PROVE  LevelsInv'
<1>1. /\ disk'.tables = disk.tables /\ db.state = "opening"
      /\ UnderCurrent' = disk.manifests[vset.manifest]
      /\ db' = db /\ vset' = vset
      /\ disk.manifests[vset.manifest].files = vset.files
  BY SetCurrentFileIs
<1>2. SortedLevels(disk.tables, vset.files)
  BY <1>1 DEF LevelsInv, SortedOpening
<1> QED
  BY <1>1, <1>2, SortedClosed

LEMMA OpenReturnsLevels ==
  ASSUME FilesInv, LevelsInv, OpenReturns
  PROVE  LevelsInv'
<1>1. /\ db.state = "opening" /\ db'.state = "open" /\ compaction' = NoCompaction
      /\ UNCHANGED <<disk, vset, mems>> /\ bg'.pc \in {"idle", "scheduled"} /\ db'.imm = 0
      /\ UnderCurrent.files = vset.files /\ UnderCurrent' = UnderCurrent
  BY OpenReturnsIs
<1>2. SortedLevels(disk.tables, vset.files)
  BY <1>1 DEF LevelsInv, SortedOpening
<1>3. \A v \in Versions' : SortedLevels(disk'.tables, v)
  <2>1. \A v \in Versions' : v = vset.files
    BY <1>1, VersionsAreNext DEF Recorded
  <2> QED
    BY <1>1, <1>2, <2>1
<1>4. MemTables' /\ Merges'
  BY <1>1 DEF MemTables, MemTableInv, Twins, Merges, Merging, Recorded
<1> QED
  BY <1>1, <1>3, <1>4, SortedOpen DEF LevelsInv

LEMMA CrashLevels ==
  ASSUME FilesInv, LevelsInv, Crash
  PROVE  LevelsInv'
<1>1. /\ disk'.current = disk.current /\ db'.state = "closed"
      /\ disk.current # 0 => UnderCurrent' = UnderCurrent
      /\ disk.current # 0 => \A n \in FilesOf(UnderCurrent.files) : disk'.tables[n] = disk.tables[n]
  BY CrashIs
<1>2. vset'.files = NoFiles
  BY DEF Crash, NewVersionSet
<1>3. disk'.current # 0 => SortedLevels(disk'.tables, UnderCurrent'.files)
  BY <1>1, SortedKept DEF LevelsInv, SortedCurrent
<1> QED
  BY <1>1, <1>2, <1>3, SortedClosed

LEMMA LevelsInit == LevelDBInit => LevelsInv
<1> SUFFICES ASSUME LevelDBInit PROVE LevelsInv
  OBVIOUS
<1>1. db.state = "closed" /\ vset.files = NoFiles
  BY DEF LevelDBInit, Closed, NewVersionSet
<1>2. disk.current # 0 => SortedLevels(disk.tables, UnderCurrent.files)
  <2>1. CASE disk = NoDatabase
    BY <2>1 DEF NoDatabase
  <2>2. CASE disk = OldDatabase
    <3>1. UnderCurrent.files = [NoFiles EXCEPT ![1] = {6}]
      BY <2>2, OldDatabaseIs
    <3>2. \A l \in Level : \A m, n \in UnderCurrent.files[l] : m = n
      BY <3>1 DEF NoFiles
    <3> QED
      BY <3>2 DEF SortedLevels, Disjoint
  <2> QED
    BY <2>1, <2>2 DEF LevelDBInit
<1> QED
  BY <1>1, <1>2 DEF LevelsInv, ClosedFiles, SortedCurrent, SortedRecovery, SortedOpening,
                    SortedVersions, MemTables, Merges

LEMMA LevelsSame ==
  ASSUME LevelsInv, UNCHANGED ldbVars
  PROVE  LevelsInv'
BY DEF ldbVars, LevelsInv, ClosedFiles, SortedCurrent, SortedRecovery, SortedOpening, SortedVersions,
       MemTables, MemTableInv, Twins, Ahead, Merges, MergeInv, Merging, Recorded, Stopped, Versions,
       UnderCurrent

LEMMA LevelsNext ==
  ASSUME FilesInv, FilesInv', LogsReadable, QueueInv, RecordsInv, FreshInv, SequenceInv, LevelsInv,
         [LevelDBNext]_ldbVars
  PROVE  LevelsInv'
<1>1. CASE CallsMove
  BY <1>1, CallsLevels
<1>2. CASE Quiet \/ MemTableStarts \/ CompactionBegins
  BY <1>2, QuietLevels, MemTableStartsLevels, BeginsLevels
<1>3. CASE BuildTable \/ LogMemTable \/ CompactEntry \/ InstallCompactionResults
  BY <1>3, BuildTableLevels, LogMemTableLevels, CompactEntryLevels, ResultsLevels
<1>4. CASE WriteManifest \/ ManifestFails \/ Install \/ RemoveObsoleteFiles
  BY <1>4, WriteManifestLevels, ManifestFailsLevels, InstallLevels, RemovalLevels DEF RecordsInv
<1>5. CASE Recovered \/ RecoverLogFile \/ NewManifest \/ SetCurrentFile \/ OpenReturns \/ Crash
  BY <1>5, RecoverLevels, RecoverLogFileLevels, NewManifestLevels, SetCurrentFileLevels,
     OpenReturnsLevels, CrashLevels
<1>6. CASE Aborted
  <2>1. /\ db.state = "closed" /\ db'.state = "aborted" /\ UnderCurrent' = UnderCurrent
        /\ disk' = disk /\ vset' = vset
    BY <1>6, AbortedFrame
  <2>2. disk'.current # 0 => SortedLevels(disk'.tables, UnderCurrent'.files)
    BY <2>1 DEF LevelsInv, SortedCurrent
  <2>3. vset'.files = NoFiles
    BY <2>1 DEF LevelsInv, ClosedFiles
  <2> QED
    BY <2>1, <2>2, <2>3, SortedClosed
<1>7. CASE UNCHANGED ldbVars
  BY <1>7, LevelsSame
<1> QED
  BY <1>1, <1>2, <1>3, <1>4, <1>5, <1>6, <1>7, StepIs

(***************************************************************************)
(* The version of the process, and the one it is about to install, hold no *)
(* two tables of one memtable either: Recover starts from a version that   *)
(* passed the assertions of the Builder.                                   *)
(***************************************************************************)

StrictLevels(T, v) ==
  \A l \in Level \ {0} : \A m, n \in v[l] : m # n => Apart(T[m], T[n])

StrictVersion ==
  db.state \in {"recovering", "opening", "open"} => StrictLevels(disk.tables, vset.files)
StrictEdited ==
  db.state = "open" /\ Recorded => StrictLevels(disk.tables, Edited(vset.files, bg.edit))
StrictInv == StrictVersion /\ StrictEdited

LEMMA StrictKept ==
  ASSUME NEW T, NEW R, NEW v, StrictLevels(T, v), \A n \in FilesOf(v) : R[n] = T[n]
  PROVE  StrictLevels(R, v)
<1> SUFFICES ASSUME NEW l \in Level \ {0}, NEW m \in v[l], NEW n \in v[l], m # n
             PROVE  Apart(R[m], R[n])
  BY DEF StrictLevels
<1>1. R[m] = T[m] /\ R[n] = T[n]
  BY FilesOfIs
<1> QED
  BY <1>1 DEF StrictLevels

(* Tables that replace others in level lv, and files gone elsewhere. *)
LEMMA StrictReplaced ==
  ASSUME NEW T, NEW v, StrictLevels(T, v), NEW edit, NEW lv, NEW S, NEW gone,
         edit.add = [NoFiles EXCEPT ![lv] = S], edit.del[lv] = gone,
         \A o, p \in S : o # p => Apart(T[o], T[p]),
         \A m \in v[lv] \ gone : \A o \in S : m # o => Apart(T[m], T[o])
  PROVE  StrictLevels(T, Edited(v, edit))
<1> SUFFICES ASSUME NEW l \in Level \ {0}
             PROVE  \A m, n \in Edited(v, edit)[l] : m # n => Apart(T[m], T[n])
  BY DEF StrictLevels
<1>0. l \in Level
  OBVIOUS
<1>1. Edited(v, edit)[l] = (v[l] \ edit.del[l]) \cup edit.add[l]
  BY <1>0 DEF Edited
<1>2. edit.add[l] = (IF l = lv THEN S ELSE {})
  BY DEF NoFiles
<1>3. \A m, n \in v[l] : m # n => Apart(T[m], T[n])
  BY DEF StrictLevels
<1>4. CASE l # lv
  BY <1>1, <1>2, <1>3, <1>4
<1>5. CASE l = lv
  <2>1. Edited(v, edit)[l] = (v[l] \ gone) \cup S
    BY <1>1, <1>2, <1>5
  <2>2. \A m \in v[l] \ gone : \A o \in S : m # o => Apart(T[m], T[o]) /\ Apart(T[o], T[m])
    BY <1>5, ApartSwaps
  <2> QED
    BY <1>3, <2>1, <2>2
<1> QED
  BY <1>4, <1>5

(* No new version of the process, and nothing of it is written to. *)
LEMMA StrictStays ==
  ASSUME StrictInv, db.state = "open", db'.state = "open", vset'.files = vset.files,
         \A n \in FilesOf(vset.files) : disk'.tables[n] = disk.tables[n],
         Recorded' => Recorded /\ bg'.edit = bg.edit /\ disk'.tables = disk.tables
  PROVE  StrictInv'
<1>1. StrictLevels(disk'.tables, vset'.files)
  BY StrictKept DEF StrictInv, StrictVersion
<1>2. Recorded' => StrictLevels(disk'.tables, Edited(vset'.files, bg'.edit))
  BY DEF StrictInv, StrictEdited
<1> QED
  BY <1>1, <1>2 DEF StrictInv, StrictVersion, StrictEdited

(* A record is about to be written. *)
LEMMA StrictRecord ==
  ASSUME StrictInv, Standing, StrictLevels(disk.tables, Edited(vset.files, bg'.edit))
  PROVE  StrictInv'
BY DEF Standing, StrictInv, StrictVersion, StrictEdited

(* A table that overlaps nothing of level lv, added to it. *)
LEMMA StrictOneMore ==
  ASSUME NEW T, NEW v, StrictLevels(T, v), NEW lv, NEW n,
         lv \in Level \ {0} => \A m \in v[lv] : Apart(T[m], T[n])
  PROVE  StrictLevels(T, Edited(v, AddFile(lv, n)))
<1> SUFFICES ASSUME NEW l \in Level \ {0}
             PROVE  \A i, j \in Edited(v, AddFile(lv, n))[l] : i # j => Apart(T[i], T[j])
  BY DEF StrictLevels
<1>0. l \in Level
  OBVIOUS
<1>1. AddFile(lv, n).add = [NoFiles EXCEPT ![lv] = {n}] /\ AddFile(lv, n).del = NoFiles
  BY AddFileIs
<1>2. Edited(v, AddFile(lv, n))[l] = (v[l] \ NoFiles[l]) \cup [NoFiles EXCEPT ![lv] = {n}][l]
  BY <1>0, <1>1 DEF Edited
<1>3. NoFiles[l] = {} /\ [NoFiles EXCEPT ![lv] = {n}][l] = (IF l = lv THEN {n} ELSE {})
  BY DEF NoFiles
<1>4. \A i, j \in v[l] : i # j => Apart(T[i], T[j])
  BY DEF StrictLevels
<1>5. CASE l # lv
  <2>1. Edited(v, AddFile(lv, n))[l] = v[l]
    BY <1>2, <1>3, <1>5
  <2> QED
    BY <1>4, <2>1
<1>6. CASE l = lv
  <2>1. Edited(v, AddFile(lv, n))[l] = v[l] \cup {n}
    BY <1>2, <1>3, <1>6
  <2>2. \A m \in v[l] : Apart(T[m], T[n])
    BY <1>6
  <2>3. \A m \in v[l] : Apart(T[n], T[m])
    BY <2>2, ApartSwaps
  <2> QED
    BY <1>4, <2>1, <2>2, <2>3
<1> QED
  BY <1>5, <1>6

LEMMA LogMemTableStrict ==
  ASSUME FilesInv, RecordsInv, StrictInv, LogMemTable
  PROVE  StrictInv'
<1> DEFINE f == bg.file
           lv == PickLevelForMemTableOutput(vset.files, f)
           T == disk.tables
           V == vset.files
<1>1. Standing /\ bg'.edit = AddFile(lv, f) /\ f \in Tables
  BY LogMemTableIs
<1>2. db.state = "open" /\ StrictLevels(T, V)
  BY <1>1 DEF Standing, StrictInv, StrictVersion
<1>3. lv \in Level \ {0} => \A m \in V[lv] : Apart(T[m], T[f])
  <2> SUFFICES ASSUME lv \in Level \ {0}, NEW m \in V[lv] PROVE Apart(T[m], T[f])
    OBVIOUS
  <2> HIDE DEF f, lv, T, V
  <2>1. lv \in Nat /\ \A j \in 0 .. lv : \A i \in V[j] : Apart(T[i], T[f])
    BY <1>1, <1>2, PickedApart DEF RecordsInv, f, lv, T, V
  <2>2. lv \in 0 .. lv
    BY <2>1
  <2> QED
    BY <2>1, <2>2
<1> HIDE DEF f, lv, T, V
<1>4. StrictLevels(T, Edited(V, AddFile(lv, f)))
  BY <1>2, <1>3, StrictOneMore
<1> QED
  BY <1>1, <1>4, StrictRecord DEF T, V

LEMMA ResultsStrict ==
  ASSUME FilesInv, LevelsInv, StrictInv, InstallCompactionResults
  PROVE  StrictInv'
<1> DEFINE c == compaction
           T == disk.tables
           v == vset.files
           edit == ResultsEdit(c)
           S == c.outputs
           gone == c.inputs[2]
<1>1. Standing /\ bg.pc = "work" /\ c # NoCompaction /\ bg'.edit = edit
  BY InstallCompactionResultsIs
<1>2. db.state = "open" /\ StrictLevels(T, v)
  BY <1>1 DEF Standing, StrictInv, StrictVersion
<1>3. MergeOf(T, c, v) /\ Beside(T, c, v)
  <2>1. Merging /\ v \in Versions
    BY <1>1, VersionsAre DEF Merging, Recorded
  <2> QED
    BY <1>2, <2>1 DEF LevelsInv, Merges, MergeInv
<1>4. InputsIn(c, v) /\ OutputsSorted(T, c)
  BY <1>3 DEF MergeOf
<1>5. PICK l \in Level : l = c.level + 1 /\ l # c.level
  BY <1>4 DEF InputsIn
<1>6. edit.add = [NoFiles EXCEPT ![l] = S]
  BY <1>5, ResultsEditIs
<1>7. edit.del[l] = gone
  <2>1. edit.del = [NoFiles EXCEPT ![c.level] = c.inputs[1], ![l] = c.inputs[2]]
    BY <1>5, ResultsEditIs
  <2>2. l \in DOMAIN NoFiles
    BY DEF NoFiles
  <2> QED
    BY <2>1, <2>2
<1> HIDE DEF edit, T, c, v
<1>8. \A o, p \in S : o # p => Apart(T[o], T[p])
  BY <1>4 DEF OutputsSorted
<1>9. \A m \in v[l] \ gone : \A o \in S : m # o => Apart(T[m], T[o])
  <2> SUFFICES ASSUME NEW m \in v[l] \ gone, NEW o \in S PROVE Apart(T[m], T[o])
    OBVIOUS
  <2>1. Apart(T[m], InputEntries(T, c))
    BY <1>3, <1>5 DEF Beside
  <2>2. T[o] \in SUBSET InputEntries(T, c)
    BY <1>4 DEF OutputsSorted
  <2> QED
    BY <2>1, <2>2, ApartSubset
<1> HIDE DEF S, gone
<1>10. StrictLevels(T, Edited(v, edit))
  BY <1>2, <1>6, <1>7, <1>8, <1>9, StrictReplaced
<1> QED
  BY <1>1, <1>10, StrictRecord DEF T, v

LEMMA BeginsStrict ==
  ASSUME FilesInv, RecordsInv, LevelsInv, StrictInv, CompactionBegins
  PROVE  StrictInv'
<1> DEFINE T == disk.tables
           V == vset.files
<1>1. /\ Standing /\ bg.pc = "scheduled"
      /\ \E l \in Level : l + 1 \in Level /\ \E f \in V[l] : CompactionStarts(l, f)
  BY CompactionStartsIs DEF CompactionBegins
<1>2. PICK l \in Level : l + 1 \in Level /\ \E f \in V[l] : CompactionStarts(l, f)
  BY <1>1
<1>3. PICK f \in V[l] : CompactionStarts(l, f)
  BY <1>2
<1>4. /\ db.state = "open" /\ db'.state = "open" /\ disk'.tables = T /\ vset'.files = V
      /\ StrictLevels(T, V) /\ SortedLevels(T, V)
  <2>1. V \in Versions
    BY VersionsAre
  <2> QED
    BY <1>1, <2>1 DEF Standing, LevelsInv, SortedVersions, StrictInv, StrictVersion
<1>5. PICK S, R : /\ Chosen(V, l, f) = <<S, R>> /\ IsFiniteSet(S)
                  /\ \A n \in V[l + 1] \ R : Apart(T[n], UNION {T[i] : i \in S \cup R})
  <2>1. ChosenApart(vset.files, l, f)
    BY <1>2, <1>4, ChosenBeside DEF RecordsInv
  <2> QED
    BY <2>1 DEF ChosenApart
<1>6. l \in Nat
  BY DEF Level
<1> HIDE DEF T, V
<1>7. CASE /\ IsTrivialMove(Chosen(V, l, f))
           /\ bg' = Logged("move", MoveEdit(l, Chosen(V, l, f)[1]), vset.log_number)
  <2>1. Cardinality(S) = 1 /\ R = {}
    BY <1>5, <1>7 DEF IsTrivialMove
  <2>2. PICK x : S = {x}
    BY <1>5, <2>1, FS_Singleton
  <2> DEFINE edit == MoveEdit(l, {x})
             P == {x}
             gone == {}
  <2>3. bg' = Logged("move", edit, vset.log_number)
    BY <1>5, <1>7, <2>2
  <2>4. bg'.edit = edit
    BY <2>3, LoggedIs
  <2>5. PICK lv \in Level : lv = l + 1 /\ lv # l
    BY <1>2, <1>6
  <2>6. edit.add = [NoFiles EXCEPT ![lv] = P] /\ edit.del = [NoFiles EXCEPT ![l] = {x}]
    BY <2>5, MoveEditIs
  <2>7. edit.del[lv] = gone
    BY <2>5, <2>6 DEF NoFiles
  <2>8. \A m \in V[lv] \ gone : \A o \in P : m # o => Apart(T[m], T[o])
    <3> SUFFICES ASSUME NEW n \in V[lv] PROVE Apart(T[n], T[x])
      OBVIOUS
    <3>1. Apart(T[n], UNION {T[i] : i \in S \cup R})
      BY <1>5, <2>1, <2>5
    <3>2. T[x] \in SUBSET UNION {T[i] : i \in S \cup R}
      BY <2>2
    <3> QED
      BY <3>1, <3>2, ApartSubset
  <2>9. \A o, p \in P : o # p => Apart(T[o], T[p])
    OBVIOUS
  <2> HIDE DEF edit, P, gone
  <2>10. StrictLevels(T, Edited(V, edit))
    BY <1>4, <2>6, <2>7, <2>8, <2>9, StrictReplaced
  <2> QED
    BY <1>1, <2>4, <2>10, StrictRecord DEF T, V
<1>8. CASE bg' = [pc |-> "work"]
  BY <1>4, <1>8, StrictStays DEF Recorded, T, V
<1> QED
  BY <1>3, <1>7, <1>8 DEF CompactionStarts, V

(* Two equal tables would precede themselves. *)
LEMMA PrecedesItself ==
  ASSUME NEW m, NEW n, disk.tables[m] \in TableSets, disk.tables[n] = disk.tables[m]
  PROVE  ~Precedes(m, n)
<1>1. PICK e : e \in disk.tables[m]
  BY DEF TableSets
<1>2. e.key \in Nat /\ e.seq \in Nat
  BY <1>1, LevelDBAssumption DEF TableSets, EntrySets, Entry
<1> QED
  BY <1>1, <1>2 DEF Precedes

LEMMA RecoverStrict ==
  ASSUME FilesInv, FilesInv', RecordsInv, LevelsInv, Recovered, "release" \notin Builds
  PROVE  StrictInv'
<1>1. /\ disk'.tables = disk.tables /\ db'.state = "recovering"
      /\ UnderCurrent'.files = vset'.files
      /\ \/ disk.current # 0 /\ UnderCurrent' = UnderCurrent
         \/ vset'.files = NoFiles
  BY RecoveredIs
<1> DEFINE V == vset'.files
           T == disk.tables
<1>2. MustNotOverlap(V)
  <2>1. "release" \in Builds \/ MustNotOverlap(V)
    BY DEF Recovered, Recover, Closed
  <2> QED
    BY <2>1
<1>3. CASE V = NoFiles
  <2>1. StrictLevels(T, NoFiles)
    BY DEF StrictLevels, NoFiles
  <2> QED
    BY <1>1, <1>3, <2>1 DEF StrictInv, StrictVersion, StrictEdited
<1>4. CASE disk.current # 0 /\ UnderCurrent' = UnderCurrent
  <2>1. V = UnderCurrent.files
    BY <1>1, <1>4
  <2> HIDE DEF V, T
  <2>2. SortedLevels(T, V) /\ FilesOf(V) \subseteq Tables
    BY <1>4, <2>1 DEF LevelsInv, SortedCurrent, FilesInv, CurrentHeld, Held, T
  <2>3. ASSUME NEW l \in Level \ {0}, NEW m \in V[l], NEW n \in V[l], m # n
        PROVE  Apart(T[m], T[n])
    <3>1. m \in Tables /\ n \in Tables
      BY <2>2, FilesOfIs
    <3>2. T[m] \in TableSets /\ T[n] \in TableSets
      BY <3>1 DEF RecordsInv, TablesStored, Tables, T
    <3>3. Precedes(m, n) \/ Precedes(n, m)
      BY <1>2, <2>3 DEF MustNotOverlap
    <3>4. T[m] # T[n]
      BY <3>2, <3>3, PrecedesItself DEF T
    <3> QED
      BY <2>2, <2>3, <3>4 DEF SortedLevels, Disjoint
  <2>4. StrictLevels(T, V)
    BY <2>3 DEF StrictLevels
  <2> QED
    BY <1>1, <2>4 DEF StrictInv, StrictVersion, StrictEdited, V, T
<1> QED
  BY <1>1, <1>3, <1>4

LEMMA OpenStrict ==
  ASSUME FilesInv, LogsReadable, RecordsInv, LevelsInv, StrictInv,
         RecoverLogFile \/ NewManifest \/ SetCurrentFile \/ OpenReturns
  PROVE  StrictInv'
<1>1. ASSUME db.state \in {"recovering", "opening"}, db'.state \in {"recovering", "opening", "open"},
             vset'.files = vset.files, \A n \in FilesOf(vset.files) : disk'.tables[n] = disk.tables[n],
             db'.state = "open" => ~Recorded'
      PROVE  StrictInv'
  <2>1. StrictLevels(disk'.tables, vset'.files)
    BY <1>1, StrictKept DEF StrictInv, StrictVersion
  <2> QED
    BY <1>1, <2>1 DEF StrictInv, StrictVersion, StrictEdited
<1>2. CASE RecoverLogFile
  <2>1. /\ db.state = "recovering" /\ db' = db /\ vset'.files = vset.files
        /\ \A n \in FilesOf(UnderCurrent.files) : disk'.tables[n] = disk.tables[n]
    BY <1>2, RecoverLogFileStep
  <2>2. vset.files = UnderCurrent.files
    BY <2>1 DEF FilesInv, RecoveringInv
  <2> QED
    BY <1>1, <2>1, <2>2
<1>3. CASE NewManifest
  <2>1. /\ disk'.tables = disk.tables /\ db.state = "recovering" /\ db'.state = "opening"
        /\ vset'.files = Edited(vset.files, bg.edit)
    BY <1>3, NewManifestIs
  <2>2. StrictLevels(disk.tables, Edited(vset.files, bg.edit))
    <3> SUFFICES ASSUME NEW l \in Level \ {0}, NEW m \in Edited(vset.files, bg.edit)[l],
                        NEW n \in Edited(vset.files, bg.edit)[l], m # n
                 PROVE  Apart(disk.tables[m], disk.tables[n])
      BY DEF StrictLevels
    <3>1. bg.edit.add[l] = {}
      BY <2>1 DEF LevelsInv, SortedRecovery
    <3>2. Edited(vset.files, bg.edit)[l] \in SUBSET vset.files[l]
      BY <3>1, EditedIs
    <3> QED
      BY <2>1, <3>2 DEF StrictInv, StrictVersion, StrictLevels
  <2> QED
    BY <2>1, <2>2 DEF StrictInv, StrictVersion, StrictEdited
<1>4. CASE SetCurrentFile
  <2>1. disk'.tables = disk.tables /\ db.state = "opening" /\ db' = db /\ vset' = vset
    BY <1>4, SetCurrentFileIs
  <2> QED
    BY <1>1, <2>1
<1>5. CASE OpenReturns
  <2>1. /\ db.state = "opening" /\ db'.state = "open" /\ UNCHANGED <<disk, vset>>
        /\ bg'.pc \in {"idle", "scheduled"}
    BY <1>5, OpenReturnsIs
  <2> QED
    BY <1>1, <2>1 DEF Recorded
<1> QED
  BY <1>2, <1>3, <1>4, <1>5

LEMMA StrictNext ==
  ASSUME FilesInv, FilesInv', LogsReadable, QueueInv, RecordsInv, FreshInv, SequenceInv, LevelsInv,
         StrictInv, "release" \notin Builds, [LevelDBNext]_ldbVars
  PROVE  StrictInv'
<1>1. CASE CallsMove
  <2>1. /\ db.state = "open" /\ db'.state = "open" /\ disk'.tables = disk.tables
        /\ vset'.files = vset.files
        /\ bg' = bg \/ (bg.pc = "idle" /\ bg' = [pc |-> "scheduled"])
    BY <1>1, CallsMoveIs
  <2>2. Recorded' => Recorded /\ bg'.edit = bg.edit
    BY <2>1 DEF Recorded
  <2> QED
    BY <2>1, <2>2, StrictStays
<1>2. CASE Quiet \/ MemTableStarts
  <2>1. Standing /\ bg'.pc \in {"entry", "idle", "scheduled", "build"}
    BY <1>2, QuietIs, CompactMemTableIs DEF Quiet, MemTableStarts
  <2> QED
    BY <2>1, StrictStays DEF Standing, Recorded
<1>3. CASE CompactionBegins \/ LogMemTable \/ InstallCompactionResults
  BY <1>3, BeginsStrict, LogMemTableStrict, ResultsStrict
<1>4. CASE BuildTable
  <2>1. bg'.pc = "built" /\ db.state = "open" /\ db'.state = "open" /\ vset' = vset
    BY <1>4, BuildTableIs
  <2> QED
    BY <1>4, <2>1, BuildTableTables, StrictStays DEF Recorded
<1>5. CASE CompactEntry
  <2>1. /\ db.state = "open" /\ db'.state = "open" /\ bg'.pc = "work" /\ vset'.files = vset.files
        /\ (EntryDropped /\ disk' = disk) \/ EntryWritten
    BY <1>5, CompactEntryStep
  <2>2. \A n \in FilesOf(vset.files) : disk'.tables[n] = disk.tables[n]
    BY <1>5, <2>1, EntryWrittenTables
  <2> QED
    BY <2>1, <2>2, StrictStays DEF Recorded
<1>6. CASE WriteManifest
  <2>1. /\ Recorded /\ db.state = "open" /\ bg'.edit = bg.edit /\ UNCHANGED <<db, vset>>
        /\ disk'.tables = disk.tables
    BY <1>6, WriteManifestIs
  <2> QED
    BY <2>1, StrictStays
<1>7. CASE ManifestFails
  <2>1. /\ db.state = "open" /\ db'.state = "open" /\ disk'.tables = disk.tables /\ vset' = vset
        /\ bg'.pc \in {"entry", "idle", "scheduled"}
    BY <1>7, ManifestFailsIs
  <2> QED
    BY <2>1, StrictStays DEF Recorded
<1>8. CASE Install
  <2>1. /\ Recorded /\ db.state = "open" /\ db'.state = "open" /\ disk' = disk
        /\ vset'.files = Edited(vset.files, bg.edit) /\ bg'.pc \in {"delete", "idle", "scheduled"}
    BY <1>8, InstallIs DEF RecordsInv
  <2>2. ~Recorded'
    BY <2>1 DEF Recorded
  <2> QED
    BY <2>1, <2>2 DEF StrictInv, StrictVersion, StrictEdited
<1>9. CASE RemoveObsoleteFiles
  <2>1. /\ db.state \in {"opening", "open"} /\ UNCHANGED <<db, vset, bg>>
        /\ db.state = "open" => bg.pc = "delete"
    BY <1>9, RemoveObsoleteFilesIs
  <2>2. StrictLevels(disk'.tables, vset.files)
    BY <1>9, <2>1, RemovalTables, StrictKept DEF StrictInv, StrictVersion
  <2> QED
    BY <2>1, <2>2 DEF StrictInv, StrictVersion, StrictEdited, Recorded
<1>10. CASE Recovered
  BY <1>10, RecoverStrict
<1>11. CASE RecoverLogFile \/ NewManifest \/ SetCurrentFile \/ OpenReturns
  BY <1>11, OpenStrict
<1>12. CASE Aborted
  <2>1. db.state = "closed" /\ db'.state = "aborted" /\ vset' = vset
    BY <1>12, AbortedFrame
  <2> QED
    BY <2>1 DEF StrictInv, StrictVersion, StrictEdited
<1>13. CASE Crash
  <2>1. db'.state = "closed" /\ vset'.files = NoFiles
    BY <1>13 DEF Crash, NewVersionSet, Closed
  <2> QED
    BY <2>1 DEF StrictInv, StrictVersion, StrictEdited
<1>14. CASE UNCHANGED ldbVars
  BY <1>14 DEF ldbVars, StrictInv, StrictVersion, StrictEdited, Recorded
<1> QED
  BY <1>1, <1>2, <1>3, <1>4, <1>5, <1>6, <1>7, <1>8, <1>9, <1>10, <1>11, <1>12, <1>13, <1>14, StepIs

LEMMA LevelsAre ==
  ASSUME FilesInv, RecordsInv, LevelsInv, "release" \notin Builds => StrictInv
  PROVE  LevelsDisjoint
<1> SUFFICES ASSUME NEW l \in Level \ {0}, NEW m \in vset.files[l], NEW n \in vset.files[l], m # n
             PROVE  \/ Largest(m) < Smallest(n) \/ Largest(n) < Smallest(m)
                    \/ "release" \in Builds /\ disk.tables[m] = disk.tables[n]
  BY DEF LevelsDisjoint
<1>1. m \in FilesOf(vset.files) /\ n \in FilesOf(vset.files)
  BY FilesOfIs
<1>2. db.state \notin {"closed", "aborted"}
  BY DEF LevelsInv, ClosedFiles, NoFiles
<1>3. SortedLevels(disk.tables, vset.files) /\ FilesOf(vset.files) \subseteq Tables
  <2>1. CASE db.state = "recovering"
    <3>1. vset.files = UnderCurrent.files /\ disk.current # 0
      BY <2>1 DEF FilesInv, RecoveringInv, CurrentHeld
    <3> QED
      BY <3>1 DEF LevelsInv, SortedCurrent, FilesInv, CurrentHeld, Held
  <2>2. CASE db.state = "opening"
    BY <2>2 DEF LevelsInv, SortedOpening, FilesInv, ServingInv, Held
  <2>3. CASE db.state = "open"
    <3>1. vset.files \in Versions
      BY VersionsAre
    <3> QED
      BY <2>3, <3>1 DEF LevelsInv, SortedVersions, FilesInv, ServingInv, Held
  <2> QED
    BY <1>2, <2>1, <2>2, <2>3 DEF FilesInv, Shapes
<1>4. disk.tables[m] \in TableSets /\ disk.tables[n] \in TableSets
  BY <1>1, <1>3 DEF RecordsInv, TablesStored, Tables
<1>5. Apart(disk.tables[m], disk.tables[n]) \/ disk.tables[m] = disk.tables[n]
  BY <1>3 DEF SortedLevels, Disjoint
<1>6. CASE "release" \in Builds
  BY <1>4, <1>5, <1>6, BelowIs DEF Apart
<1>7. CASE "release" \notin Builds
  <2>1. db.state \in {"recovering", "opening", "open"}
    BY <1>2 DEF FilesInv, Shapes
  <2>2. Apart(disk.tables[m], disk.tables[n])
    BY <1>7, <2>1 DEF StrictInv, StrictVersion, StrictLevels
  <2> QED
    BY <1>4, <2>2, BelowIs DEF Apart
<1> QED
  BY <1>6, <1>7

(* DBImpl keeps the tables of every level above 0 of its version apart,    *)
(* also when a memtable is compacted in the middle of a level compaction,  *)
(* whatever fails and whenever the process ends: without exception in a    *)
(* debug build, where DB::Open ends the process that meets two tables of   *)
(* one memtable (what the run Reopen shows), and but for such equal tables *)
(* in a release build.                                                     *)
THEOREM LevelsDisjointHolds == LevelDBSpec => []LevelsDisjoint
<1> DEFINE Strict == "release" \notin Builds => StrictInv
<1>1. LevelDBInit => QueueInv /\ RecordsInv /\ FreshInv /\ SequenceInv /\ LevelsInv /\ Strict
  <2>1. LevelDBInit => StrictInv
    BY DEF LevelDBInit, Closed, NewVersionSet, StrictInv, StrictVersion, StrictEdited
  <2> QED
    BY <2>1, QueueInit, RecordsInit, FreshInit, SequenceInit, LevelsInit
<1>2. ASSUME FilesInv, FilesInv', LogsReadable, QueueInv, RecordsInv, FreshInv, SequenceInv, LevelsInv,
             Strict, [LevelDBNext]_ldbVars
      PROVE  QueueInv' /\ RecordsInv' /\ FreshInv' /\ SequenceInv' /\ LevelsInv' /\ Strict'
  <2>1. QueueInv' /\ RecordsInv'
    BY <1>2, QueueNext, RecordsNext
  <2>2. FreshInv'
    BY <1>2, FreshNext DEF RecordsInv
  <2>3. Strict'
    BY <1>2, StrictNext
  <2> QED
    BY <1>2, <2>1, <2>2, <2>3, SequenceNext, LevelsNext
<1>3. FilesInv /\ RecordsInv /\ LevelsInv /\ Strict => LevelsDisjoint
  BY LevelsAre
<1> HIDE DEF Strict
<1> QED
  BY <1>1, <1>2, <1>3, FilesInvHolds, PTL DEF LevelDBSpec

-----------------------------------------------------------------------------
(***************************************************************************)
(* What the steps leave alone.                                             *)
(***************************************************************************)

(* What a call does to the store. *)
LEMMA CallsAre ==
  ASSUME CallsMove
  PROVE  \/ UNCHANGED <<disk, db, vset, mems>>
         \/ /\ \E err \in BOOLEAN : SwitchMemTable(err)
            /\ db.imm = 0 /\ ~db.bg_error /\ Cardinality(mems[db.mem]) > WriteBufferSize
         \/ \E t \in Thread : AddRecord(t) \/ FinishWrite(t) \/ GetReturns(t)
<1>1. ASSUME NEW t, NEW q, NEW T, NEW b, MakeRoomForWrite(t, q, T, b)
      PROVE  \/ UNCHANGED <<disk, db, vset, mems>>
             \/ /\ \E err \in BOOLEAN : SwitchMemTable(err)
                /\ db.imm = 0 /\ ~db.bg_error /\ Cardinality(mems[db.mem]) > WriteBufferSize
  BY <1>1 DEF MakeRoomForWrite
<1>2. PICK t \in Thread, k \in Key : Write(t, k) \/ Get(t, k) \/ ThreadStep(t)
  BY DEF CallsMove
<1>3. CASE Write(t, k)
  BY <1>1, <1>3 DEF Write
<1>4. CASE Get(t, k)
  BY <1>4 DEF Get
<1>5. CASE Resume(t)
  BY <1>1, <1>5 DEF Resume
<1>6. CASE Return(t)
  BY <1>6 DEF Return
<1> QED
  BY <1>2, <1>3, <1>4, <1>5, <1>6 DEF ThreadStep

(* A step of the background thread under mutex_. *)
Locked == Quiet \/ MemTableStarts \/ CompactionBegins \/ LogMemTable \/ InstallCompactionResults

LEMMA FinishCallThreads ==
  ASSUME NEW err, NEW imm, NEW v, FinishCall(th, err, imm, v) \/ MemTableDone(err, imm, v)
  PROVE  th' = Awakened(th)
BY DEF FinishCall, MemTableDone

LEMMA LockedFrame ==
  ASSUME FilesInv, QueueInv, Locked
  PROVE  /\ Standing /\ disk' = disk /\ db'.mem = db.mem /\ doomed' = doomed
         /\ writers' = writers /\ th' \in {th, Awakened(th)} /\ bounds'.puts = bounds.puts
         /\ vset'.log_number = vset.log_number /\ vset'.manifest = vset.manifest
         /\ vset'.next_file \in {vset.next_file, vset.next_file + 1}
         /\ bg'.pc \notin {"install", "built"}
         /\ db.bg_error => db'.bg_error
<1>1. Shapes /\ bounds \in Bounds
  BY DEF FilesInv, QueueInv, Bounds
<1>2. [bounds EXCEPT !["faults"] = @ + 1].puts = bounds.puts
  BY <1>1 DEF Bounds
<1>3. CASE BackgroundCall
  <2>1. CASE db.bg_error
    <3>1. Standing /\ bg'.pc \in {"entry", "idle", "scheduled"}
      BY <1>3, <2>1, QuietIs
    <3>2. UNCHANGED <<disk, db, vset, writers, doomed, bounds>> /\ th' = Awakened(th)
      BY <1>3, <2>1, FinishCallThreads, BackgroundCallIs
    <3> QED
      BY <3>1, <3>2
  <2>2. CASE ~db.bg_error /\ db.imm # 0
    <3>1. CompactMemTable /\ UNCHANGED <<disk, mems, writers, th, compaction, doomed, bounds>> /\ bg.pc = "scheduled"
      BY <1>3, <2>2, BackgroundCallIs
    <3>2. Standing /\ bg'.pc = "build"
      BY <3>1, CompactMemTableIs
    <3> QED
      BY <1>1, <2>2, <3>1, <3>2 DEF CompactMemTable, Shapes, VersionSetShape, DBShape
  <2>3. CASE ~db.bg_error /\ db.imm = 0
    <3>1. /\ UNCHANGED <<disk, mems, writers, th, doomed, bounds, db, vset>> /\ Standing
          /\ \E l \in Level : l + 1 \in Level /\ \E f \in vset.files[l] : CompactionStarts(l, f)
      BY <1>3, <2>3, BackgroundCallIs, CompactionStartsIs
    <3>2. bg'.pc \in {"manifest", "work"}
      BY <3>1, LoggedIs DEF CompactionStarts
    <3> QED
      BY <2>3, <3>1, <3>2
  <2> QED
    BY <2>1, <2>2, <2>3
<1>4. CASE BuildTableFails \/ ObsoleteFilesRemoved \/ CompactionFails
  <2>1. Standing /\ bg'.pc \in {"entry", "idle", "scheduled"}
    BY <1>4, QuietIs
  <2>2. /\ UNCHANGED <<disk, vset, writers, doomed>> /\ th' = Awakened(th)
        /\ bounds' = bounds \/ bounds' = [bounds EXCEPT !["faults"] = @ + 1]
        /\ \/ db' = db
           \/ \E x : db' = [db EXCEPT !.bg_error = TRUE, !.pending = x]
    BY <1>4, FinishCallThreads DEF BuildTableFails, ObsoleteFilesRemoved, CompactionFails, Count
  <2>3. db'.mem = db.mem /\ (db.bg_error => db'.bg_error)
    BY <1>1, <2>2 DEF Shapes, DBShape
  <2> QED
    BY <1>2, <2>1, <2>2, <2>3
<1>5. CASE MemTableStarts
  <2>1. Standing /\ bg'.pc = "build"
    BY <1>5, CompactMemTableIs DEF MemTableStarts
  <2> QED
    BY <1>1, <1>5, <2>1 DEF MemTableStarts, CompactMemTable, Shapes, VersionSetShape, DBShape
<1>6. CASE LogMemTable
  <2>1. Standing /\ bg'.pc = "manifest"
    BY <1>6, LogMemTableIs
  <2> QED
    BY <1>1, <1>6, <2>1 DEF LogMemTable, Shapes, DBShape
<1>7. CASE InstallCompactionResults
  <2>1. Standing /\ bg'.pc = "manifest"
    BY <1>7, InstallCompactionResultsIs
  <2> QED
    BY <1>7, <2>1 DEF InstallCompactionResults
<1> QED
  BY <1>3, <1>4, <1>5, <1>6, <1>7 DEF Locked, Quiet, CompactionBegins

(* A record reaches the MANIFEST. *)
LEMMA RecordFrame ==
  ASSUME FilesInv, bg.pc = "manifest",
         disk' = [disk EXCEPT !.manifests[vset.manifest] = WithRecord(@, bg)]
  PROVE  /\ disk'.logs = disk.logs /\ DOMAIN disk'.manifests = DOMAIN disk.manifests
         /\ disk'.tables = disk.tables /\ disk'.current = disk.current
         /\ UnderCurrent'.files = Edited(UnderCurrent.files, bg.edit)
         /\ UnderCurrent'.last_sequence = bg.last_sequence
         /\ UnderCurrent'.log_number = bg.log_number /\ UnderCurrent'.next_file = bg.next_file
<1>1. db.state = "open" /\ Shapes /\ OpenInv /\ CurrentHeld
  BY DEF FilesInv, NobodyYet
<1>2. /\ DiskShape /\ disk.current = vset.manifest
      /\ (disk.current # 0 => disk.current \in DOMAIN disk.manifests) /\ disk.current # 0
  BY <1>1 DEF Shapes, OpenInv, CurrentHeld
<1>3. /\ disk'.manifests = [disk.manifests EXCEPT ![vset.manifest] = WithRecord(@, bg)]
      /\ disk'.current = disk.current /\ disk'.logs = disk.logs
  BY <1>2 DEF DiskShape
<1>4. UnderCurrent' = WithRecord(UnderCurrent, bg)
  BY <1>2, <1>3 DEF UnderCurrent
<1>5. WithRecord(UnderCurrent, bg).log_number = bg.log_number
      /\ WithRecord(UnderCurrent, bg).next_file = bg.next_file
  BY DEF WithRecord
<1> QED
  BY <1>3, <1>4, <1>5, ManifestIs

RecordWrites == disk' = [disk EXCEPT !.manifests[vset.manifest] = WithRecord(@, bg)]

LEMMA ManifestFailsFrame ==
  ASSUME FilesInv, QueueInv, ManifestFails
  PROVE  /\ disk' = disk \/ RecordWrites
         /\ db'.mem = db.mem /\ writers' = writers /\ th' = Awakened(th) /\ doomed' = doomed
         /\ bounds'.puts = bounds.puts
<1>1. Shapes /\ bounds \in Bounds
  BY DEF FilesInv, QueueInv, Bounds
<1>2. [bounds EXCEPT !["faults"] = @ + 1].puts = bounds.puts
  BY <1>1 DEF Bounds
<1>3. th' = Awakened(th)
  BY FinishCallThreads DEF ManifestFails
<1> QED
  BY <1>1, <1>2, <1>3 DEF ManifestFails, RecordWrites, Count, Shapes, DBShape

LEMMA InstallFrame ==
  ASSUME FilesInv, MemsStored, Install
  PROVE  /\ db'.mem = db.mem /\ vset'.log_number = bg.log_number /\ vset'.next_file = vset.next_file
         /\ vset'.manifest = vset.manifest
         /\ writers' = writers /\ th' \in {th, Awakened(th)} /\ bounds' = bounds
         /\ bg.kind = "memtable" => bg.log_number = db.mem
         /\ bg.kind # "memtable" => bg.log_number = vset.log_number
         /\ mems'[db.mem] = mems[db.mem]
<1>1. Recorded /\ db.state = "open" /\ db'.state = "open"
  BY InstallIs
<1>2. Shapes /\ EditInv /\ bg.kind \in {"memtable", "compaction", "move"}
  BY <1>1, RecordedIs DEF FilesInv
<1>3. th' \in {th, Awakened(th)}
  BY FinishCallThreads DEF Install
<1>4. /\ bg.kind = "memtable" => bg.log_number = db.mem
      /\ bg.kind # "memtable" => bg.log_number = vset.log_number
  BY <1>2 DEF EditInv
<1>5. vset'.log_number = bg.log_number /\ vset'.next_file = vset.next_file /\ vset'.manifest = vset.manifest
  BY <1>2 DEF Install, Installed, Shapes, VersionSetShape
<1>6. db'.mem = db.mem
  BY <1>2 DEF Install, Shapes, DBShape
<1>7. mems'[db.mem] = mems[db.mem]
  <2>1. CASE bg.kind = "memtable"
    <3>1. mems' = Restrict(mems, Referenced(th, db'))
      BY <2>1 DEF Install
    <3>2. db.mem \in Referenced(th, db')
      BY <1>1, <1>6, ReferencedIs DEF MemsStored
    <3> QED
      BY <3>1, <3>2 DEF Restrict
  <2> QED
    BY <1>2, <2>1, InstallIs
<1> QED
  BY <1>3, <1>4, <1>5, <1>6, <1>7 DEF Install

(* Files go, one of those that were doomed or all. *)
LEMMA RemovalFrame ==
  ASSUME FilesInv, NEW S \in SUBSET doomed, disk' = Removed(S)
  PROVE  /\ disk'.current = disk.current
         /\ \A n : n \in DOMAIN disk'.logs <=> n \in DOMAIN disk.logs /\ <<"log", n>> \notin S
         /\ \A n \in DOMAIN disk'.logs : disk'.logs[n] = disk.logs[n]
         /\ \A n : n \in Tables' <=> n \in Tables /\ <<"table", n>> \notin S
         /\ \A n \in Tables' : disk'.tables[n] = disk.tables[n]
         /\ \A n \in DOMAIN disk'.manifests : n \in DOMAIN disk.manifests /\ disk'.manifests[n] = disk.manifests[n]
<1>1. DiskShape
  BY DEF FilesInv, Shapes
<1> DEFINE L == disk'.logs
           M == disk'.manifests
           T == disk'.tables
<1>2. /\ disk'.current = disk.current
      /\ L = [n \in {m \in DOMAIN disk.logs : <<"log", m>> \notin S} |-> disk.logs[n]]
      /\ M = [n \in {m \in DOMAIN disk.manifests : <<"manifest", m>> \notin S} |-> disk.manifests[n]]
      /\ T = [n \in {m \in DOMAIN disk.tables : <<"table", m>> \notin S} |-> disk.tables[n]]
  BY <1>1, RemovedIs
<1> HIDE DEF L, M, T
<1>3. \A n : n \in DOMAIN L <=> n \in DOMAIN disk.logs /\ <<"log", n>> \notin S
  BY ONLY <1>2
<1>4. \A n \in DOMAIN L : L[n] = disk.logs[n]
  BY ONLY <1>2
<1>5. \A n : n \in DOMAIN T <=> n \in DOMAIN disk.tables /\ <<"table", n>> \notin S
  BY ONLY <1>2
<1>6. \A n \in DOMAIN T : T[n] = disk.tables[n]
  BY ONLY <1>2
<1>7. \A n \in DOMAIN M : n \in DOMAIN disk.manifests /\ M[n] = disk.manifests[n]
  BY ONLY <1>2
<1> QED
  BY <1>2, <1>3, <1>4, <1>5, <1>6, <1>7 DEF L, M, T, Tables

-----------------------------------------------------------------------------
(***************************************************************************)
(* File numbers: which logs a restart would read, and that every file is   *)
(* numbered below next_file_number_ once the store is open.                *)
(***************************************************************************)

FilesTyped(v) == v \in [Level -> SUBSET (Nat \ {0})]

NothingStored ==
  disk.current = 0 => DOMAIN disk.logs = {} /\ DOMAIN disk.tables = {} /\ DOMAIN disk.manifests = {}

CurrentNumbers ==
  disk.current # 0 =>
    /\ UnderCurrent.log_number \in Nat /\ UnderCurrent.log_number < UnderCurrent.next_file
    /\ \A m \in DOMAIN disk.manifests : m \in Nat /\ m <= UnderCurrent.next_file
    /\ FilesTyped(UnderCurrent.files)

RecoveringNumbers ==
  db.state = "recovering" =>
    /\ vset.log_number = UnderCurrent.log_number /\ db.pending = {}
    /\ \A n \in DOMAIN disk.logs : n >= UnderCurrent.log_number => n \in bg.logs \/ n < vset.next_file
    /\ bg.edit.del = NoFiles /\ FilesTyped(bg.edit.add)
    /\ \A n \in FilesOf(bg.edit.add) : vset.manifest < n

OpeningNumbers ==
  db.state = "opening" =>
    /\ FilesTyped(vset.files) /\ db.pending = {}
    /\ vset.log_number = db.mem /\ \A n \in DOMAIN disk.logs : n <= db.mem
    /\ disk.logs[db.mem] = <<>> /\ mems[db.mem] = {}
    /\ disk.current # vset.manifest =>
         vset.manifest = UnderCurrent.next_file /\ UnderCurrent.log_number < db.mem
    /\ disk.manifests[vset.manifest].log_number = vset.log_number
    /\ disk.current = vset.manifest =>
         \A n \in Tables : n \in FilesOf(vset.files) \/ <<"table", n>> \in doomed

OpenNumbers ==
  db.state = "open" =>
    /\ FilesTyped(vset.files)
    /\ db.imm = 0 => vset.log_number = db.mem
    /\ db.imm # 0 => vset.log_number = db.imm
    /\ \A n \in DOMAIN disk.logs : n < vset.log_number \/ n = db.mem \/ n = db.imm
    /\ UnderCurrent.log_number \in {vset.log_number, db.mem}
    /\ \A n \in Tables : n \in Nat /\ n < vset.next_file

(* The files a step of the background thread is about to add. *)
AddedNumbers ==
  db.state = "open" =>
    /\ bg.pc = "install" => UnderCurrent.log_number = bg.log_number
    /\ Recorded => FilesTyped(bg.edit.add) /\ bg.log_number < bg.next_file
    /\ compaction # NoCompaction => compaction.outputs \subseteq Nat \ {0}
    /\ bg.pc \in {"build", "built"} =>
         /\ bg.file \in Nat \ {0}
         /\ \A n \in vset.files[0] \cup UnderCurrent.files[0] : n < bg.file

NumbersInv ==
  /\ NothingStored /\ CurrentNumbers /\ RecoveringNumbers /\ OpeningNumbers
  /\ OpenNumbers /\ AddedNumbers

LEMMA LevelIs == Level \subseteq Nat /\ 0 \in Level
BY LevelDBAssumption DEF Level

LEMMA FilesTypedNone == FilesTyped(NoFiles)
BY DEF FilesTyped, NoFiles

LEMMA FilesTypedOne ==
  ASSUME NEW l, NEW S \in SUBSET (Nat \ {0})
  PROVE  FilesTyped([NoFiles EXCEPT ![l] = S])
<1>1. [NoFiles EXCEPT ![l] = S] = [m \in Level |-> IF m = l THEN S ELSE {}]
  BY DEF NoFiles
<1> QED
  BY <1>1 DEF FilesTyped

LEMMA FilesTypedEdited ==
  ASSUME NEW v, FilesTyped(v), NEW edit, FilesTyped(edit.add)
  PROVE  FilesTyped(Edited(v, edit))
BY DEF FilesTyped, Edited

LEMMA FilesTypedMembers ==
  ASSUME NEW v, FilesTyped(v)
  PROVE  /\ \A l \in Level : v[l] \subseteq Nat \ {0}
         /\ \A n \in FilesOf(v) : n \in Nat \ {0}
BY FilesOfIs DEF FilesTyped

LEMMA NumbersInit == LevelDBInit => NumbersInv
<1> SUFFICES ASSUME LevelDBInit PROVE NumbersInv
  OBVIOUS
<1>1. db.state = "closed"
  BY DEF LevelDBInit, Closed
<1>2. CASE disk = NoDatabase
  BY <1>1, <1>2 DEF NoDatabase, NumbersInv, NothingStored, CurrentNumbers, RecoveringNumbers,
     OpeningNumbers, OpenNumbers, AddedNumbers
<1>3. CASE disk = OldDatabase
  <2>1. /\ disk.current = 5 /\ DOMAIN disk.manifests = {5}
        /\ UnderCurrent.log_number = 7 /\ UnderCurrent.next_file = 8
        /\ UnderCurrent.files = [NoFiles EXCEPT ![1] = {6}]
    BY <1>3 DEF OldDatabase, UnderCurrent
  <2>2. FilesTyped(UnderCurrent.files)
    BY <2>1, FilesTypedOne
  <2> QED
    BY <1>1, <2>1, <2>2 DEF NumbersInv, NothingStored, CurrentNumbers, RecoveringNumbers,
       OpeningNumbers, OpenNumbers, AddedNumbers
<1> QED
  BY <1>2, <1>3 DEF LevelDBInit

(* The numbers stay when the files do. *)
LEMMA NumbersOpen ==
  ASSUME FilesInv, FilesInv', NumbersInv, db.state = "open", db'.state = "open",
         disk'.current = disk.current, \A m \in DOMAIN disk'.manifests : m \in DOMAIN disk.manifests,
         UnderCurrent'.next_file \in Nat, UnderCurrent.next_file <= UnderCurrent'.next_file,
         UnderCurrent'.log_number \in Nat, UnderCurrent'.log_number < UnderCurrent'.next_file,
         FilesTyped(UnderCurrent'.files), OpenNumbers', AddedNumbers'
  PROVE  NumbersInv'
<1>1. disk.current # 0 /\ UnderCurrent.next_file \in Nat
  BY DEF FilesInv, CurrentHeld
<1>2. \A m \in DOMAIN disk.manifests : m \in Nat /\ m <= UnderCurrent.next_file
  BY <1>1 DEF NumbersInv, CurrentNumbers
<1>3. CurrentNumbers'
  BY <1>1, <1>2 DEF CurrentNumbers
<1> QED
  BY <1>1, <1>3 DEF NumbersInv, NothingStored, RecoveringNumbers, OpeningNumbers

LEMMA CurrentNumbersOpen ==
  ASSUME FilesInv, NumbersInv, db.state = "open"
  PROVE  /\ disk.current # 0 /\ disk.current \in DOMAIN disk.manifests
         /\ UnderCurrent.next_file \in Nat /\ UnderCurrent.log_number \in Nat
         /\ UnderCurrent.log_number < UnderCurrent.next_file /\ FilesTyped(UnderCurrent.files)
         /\ UnderCurrent.next_file <= vset.next_file /\ vset.next_file \in Nat /\ vset.next_file # 0
         /\ vset.log_number \in Nat /\ db.mem \in Nat /\ db.imm \in Nat
         /\ db.mem < vset.next_file /\ vset.log_number <= db.mem
<1>1. disk.current # 0
  BY DEF FilesInv, CurrentHeld
<1> QED
  BY <1>1 DEF FilesInv, CurrentHeld, OpenInv, ServingInv, LogsHeld, NumbersInv, CurrentNumbers

LEMMA CallsNumbers ==
  ASSUME FilesInv, FilesInv', MemsStored, NumbersInv, CallsMove
  PROVE  NumbersInv'
<1>1. /\ ThreadsMove /\ db.state = "open" /\ db'.state = "open" /\ UnderCurrent' = UnderCurrent
      /\ compaction' = compaction /\ vset'.files = vset.files
      /\ bg' = bg \/ (bg.pc = "idle" /\ bg' = [pc |-> "scheduled"])
  BY CallsMoveIs
<1>2. /\ disk'.current = disk.current /\ disk'.manifests = disk.manifests /\ disk'.tables = disk.tables
      /\ vset'.log_number = vset.log_number /\ vset'.next_file \in Nat /\ vset.next_file <= vset'.next_file
  BY <1>1 DEF ThreadsMove
<1>3. /\ OpenNumbers /\ AddedNumbers /\ UnderCurrent.next_file \in Nat
      /\ UnderCurrent.log_number \in Nat /\ UnderCurrent.log_number < UnderCurrent.next_file
      /\ FilesTyped(UnderCurrent.files) /\ vset.next_file \in Nat /\ db.mem \in Nat
      /\ db.mem < vset.next_file
  BY <1>1, CurrentNumbersOpen DEF NumbersInv
<1>4. AddedNumbers'
  BY <1>1, <1>3 DEF AddedNumbers, Recorded
<1>5. Tables' = Tables
  BY <1>2 DEF Tables
<1>6. \/ DOMAIN disk'.logs = DOMAIN disk.logs /\ db'.mem = db.mem /\ db'.imm = db.imm
      \/ /\ db.imm = 0 /\ db'.imm = db.mem /\ db'.mem = vset.next_file /\ db.mem # 0
         /\ DOMAIN disk'.logs = DOMAIN disk.logs \cup {vset.next_file}
  <2>1. Shapes /\ LogsHeld
    BY <1>1 DEF FilesInv, ServingInv
  <2>2. ASSUME NEW err \in BOOLEAN, SwitchMemTable(err), db.imm = 0
        PROVE  /\ db'.imm = db.mem /\ db'.mem = vset.next_file
               /\ DOMAIN disk'.logs = DOMAIN disk.logs \cup {vset.next_file}
    BY <2>1, <2>2 DEF SwitchMemTable, WithFile, Shapes, DBShape, DiskShape
  <2>3. ASSUME NEW t \in Thread, AddRecord(t) \/ FinishWrite(t) \/ GetReturns(t)
        PROVE  DOMAIN disk'.logs = DOMAIN disk.logs /\ db'.mem = db.mem /\ db'.imm = db.imm
    BY <2>1, <2>3 DEF AddRecord, FinishWrite, GetReturns, Shapes, DiskShape
  <2>4. db.mem # 0
    BY <1>1 DEF MemsStored
  <2> QED
    BY <2>2, <2>3, <2>4, CallsAre
<1>7. OpenNumbers'
  <2>1. CASE DOMAIN disk'.logs = DOMAIN disk.logs /\ db'.mem = db.mem /\ db'.imm = db.imm
    BY <1>1, <1>2, <1>3, <1>5, <2>1 DEF OpenNumbers
  <2>2. CASE /\ db.imm = 0 /\ db'.imm = db.mem /\ db'.mem = vset.next_file /\ db.mem # 0
             /\ DOMAIN disk'.logs = DOMAIN disk.logs \cup {vset.next_file}
    BY <1>1, <1>2, <1>3, <1>5, <2>2 DEF OpenNumbers
  <2> QED
    BY <1>6, <2>1, <2>2
<1> QED
  BY <1>1, <1>2, <1>3, <1>4, <1>7, NumbersOpen

(* The files that a record of the background thread would add. *)
LEMMA LockedAdded ==
  ASSUME FilesInv, FilesInv', QueueInv, TablesStored, NumbersInv, Locked
  PROVE  AddedNumbers'
<1>1. /\ Standing /\ disk' = disk /\ bg'.pc \notin {"install", "built"}
  BY LockedFrame
<1>2. /\ db.state = "open" /\ AddedNumbers /\ OpenNumbers /\ FilesTyped(vset.files)
      /\ FilesTyped(UnderCurrent.files) /\ vset.next_file \in Nat /\ vset.next_file # 0
      /\ UnderCurrent' = UnderCurrent /\ vset'.files = vset.files
  BY <1>1, CurrentNumbersOpen DEF Standing, NumbersInv, OpenNumbers
<1>3. ASSUME Recorded' => FilesTyped(bg'.edit.add) /\ bg'.log_number < bg'.next_file,
             compaction' # NoCompaction => compaction'.outputs \subseteq Nat \ {0},
             bg'.pc = "build" =>
               /\ bg'.file \in Nat \ {0}
               /\ \A n \in vset.files[0] \cup UnderCurrent.files[0] : n < bg'.file
      PROVE  AddedNumbers'
  BY <1>1, <1>2, <1>3 DEF AddedNumbers
<1>10. ASSUME NEW kind, NEW edit, NEW n \in {vset.log_number, db.mem}, bg' = Logged(kind, edit, n)
       PROVE  bg'.log_number < bg'.next_file
  <2>1. bg'.log_number = n /\ bg'.next_file = vset.next_file
    BY <1>10 DEF Logged
  <2> QED
    BY <1>2, <2>1, CurrentNumbersOpen
<1>4. compaction # NoCompaction => compaction.outputs \subseteq Nat \ {0}
  BY <1>2 DEF AddedNumbers
<1>5. CASE Quiet
  <2>1. bg'.pc \in {"entry", "idle", "scheduled"} /\ compaction' \in {compaction, NoCompaction}
    BY <1>5, QuietIs DEF Quiet
  <2> QED
    BY <1>3, <1>4, <2>1 DEF Recorded
<1>6. CASE MemTableStarts
  <2>1. bg'.pc = "build" /\ bg'.file = vset.next_file /\ compaction' = compaction
    BY <1>6, CompactMemTableIs DEF MemTableStarts
  <2>2. \A n \in FilesOf(vset.files) \cup FilesOf(UnderCurrent.files) : n \in Nat /\ n < vset.next_file
    <3>1. /\ Held(Tables, vset.files, vset.next_file) /\ disk.current # 0
          /\ Held(Tables, UnderCurrent.files, UnderCurrent.next_file)
          /\ UnderCurrent.next_file <= vset.next_file /\ UnderCurrent.next_file \in Nat
      BY <1>2, CurrentNumbersOpen DEF FilesInv, ServingInv, CurrentHeld
    <3> QED
      BY <1>2, <3>1 DEF Held
  <2>3. \A n \in vset.files[0] \cup UnderCurrent.files[0] : n < vset.next_file
    BY <2>2, LevelIs, FilesOfIs
  <2> QED
    BY <1>2, <1>3, <1>4, <2>1, <2>3 DEF Recorded
<1>7. CASE CompactionBegins
  <2>1. PICK l \in Level : l + 1 \in Level /\ \E f \in vset.files[l] : CompactionStarts(l, f)
    BY <1>7, CompactionStartsIs DEF CompactionBegins
  <2>2. PICK f \in vset.files[l] : CompactionStarts(l, f)
    BY <2>1
  <2> DEFINE in == Chosen(vset.files, l, f)
  <2>3. in[1] \subseteq vset.files[l]
    BY <1>2, <2>1, ChosenStored
  <2>4. in[1] \in SUBSET (Nat \ {0})
    BY <1>2, <2>3, FilesTypedMembers
  <2> HIDE DEF in
  <2>5. CASE bg' = Logged("move", MoveEdit(l, in[1]), vset.log_number) /\ compaction' = compaction
    <3>1. bg'.pc = "manifest" /\ bg'.edit = MoveEdit(l, in[1])
      BY <2>5, LoggedIs
    <3>2. FilesTyped(bg'.edit.add)
      <4>1. bg'.edit.add = [NoFiles EXCEPT ![l + 1] = in[1]]
        <5>1. MoveEdit(l, in[1]).add = [NoFiles EXCEPT ![l + 1] = in[1]]
          BY MoveEditIs
        <5> QED
          BY ONLY <3>1, <5>1
      <4>2. FilesTyped([NoFiles EXCEPT ![l + 1] = in[1]])
        BY <2>4, FilesTypedOne
      <4> QED
        BY ONLY <4>1, <4>2
    <3> QED
      BY <1>3, <1>4, <1>10, <2>5, <3>1, <3>2
  <2>6. CASE bg' = [pc |-> "work"] /\ compaction' = StartCompaction(l, in)
    <3>1. bg'.pc = "work" /\ compaction'.outputs = {}
      BY <2>6, StartCompactionIs
    <3> QED
      BY <1>3, <3>1 DEF Recorded
  <2> QED
    BY <2>2, <2>5, <2>6 DEF CompactionStarts, in
<1>8. CASE LogMemTable
  <2>1. /\ bg'.pc = "manifest" /\ compaction' = compaction /\ bg.pc = "built"
        /\ bg'.edit = AddFile(PickLevelForMemTableOutput(vset.files, bg.file), bg.file)
    BY <1>8, LogMemTableIs
  <2>2. bg.file \in Nat \ {0}
    BY <1>2, <2>1 DEF AddedNumbers
  <2>3. {bg.file} \in SUBSET (Nat \ {0})
    BY <2>2
  <2>4. FilesTyped(bg'.edit.add)
    <3> DEFINE lv == PickLevelForMemTableOutput(vset.files, bg.file)
    <3>1. bg'.edit.add = [NoFiles EXCEPT ![lv] = {bg.file}]
      <4> HIDE DEF lv
      <4>1. AddFile(lv, bg.file).add = [NoFiles EXCEPT ![lv] = {bg.file}]
        BY AddFileIs
      <4>2. bg'.edit = AddFile(lv, bg.file)
        BY <2>1 DEF lv
      <4> QED
        BY ONLY <4>1, <4>2
    <3> HIDE DEF lv
    <3>2. FilesTyped([NoFiles EXCEPT ![lv] = {bg.file}])
      BY <2>3, FilesTypedOne
    <3> QED
      BY ONLY <3>1, <3>2
  <2>5. bg'.log_number < bg'.next_file
    BY <1>8, <1>10 DEF LogMemTable
  <2> QED
    BY <1>3, <1>4, <2>1, <2>4, <2>5
<1>9. CASE InstallCompactionResults
  <2>1. /\ bg'.pc = "manifest" /\ compaction' = compaction /\ compaction # NoCompaction
        /\ bg'.edit = ResultsEdit(compaction)
    BY <1>9, InstallCompactionResultsIs
  <2>2. FilesTyped(bg'.edit.add)
    <3>1. bg'.edit.add = [NoFiles EXCEPT ![compaction.level + 1] = compaction.outputs]
      BY <2>1, ResultsEditIs
    <3>2. FilesTyped([NoFiles EXCEPT ![compaction.level + 1] = compaction.outputs])
      BY <1>4, <2>1, FilesTypedOne
    <3> QED
      BY ONLY <3>1, <3>2
  <2>3. bg'.log_number < bg'.next_file
    BY <1>9, <1>10 DEF InstallCompactionResults
  <2> QED
    BY <1>3, <1>4, <2>1, <2>2, <2>3
<1> QED
  BY <1>5, <1>6, <1>7, <1>8, <1>9 DEF Locked

LEMMA LockedNumbers ==
  ASSUME FilesInv, FilesInv', QueueInv, TablesStored, NumbersInv, Locked
  PROVE  NumbersInv'
<1>1. /\ Standing /\ disk' = disk /\ db'.mem = db.mem /\ vset'.log_number = vset.log_number
      /\ vset'.next_file \in {vset.next_file, vset.next_file + 1}
  BY LockedFrame
<1>2. db.state = "open" /\ OpenNumbers /\ vset.next_file \in Nat
  BY <1>1, CurrentNumbersOpen DEF Standing, NumbersInv
<1>3. OpenNumbers'
  BY <1>1, <1>2 DEF OpenNumbers, Standing, Tables
<1> QED
  BY <1>1, <1>2, <1>3, LockedAdded, CurrentNumbersOpen, NumbersOpen DEF Standing

LEMMA BuildTableNumbers ==
  ASSUME FilesInv, FilesInv', NumbersInv, BuildTable
  PROVE  NumbersInv'
<1>1. /\ bg.pc = "build" /\ bg'.pc = "built" /\ bg'.file = bg.file /\ compaction' = compaction
      /\ db.state = "open" /\ disk'.current = disk.current /\ UnderCurrent' = UnderCurrent
      /\ vset' = vset /\ db' = db
  BY BuildTableIs
<1>2. /\ DiskShape /\ bg.file < vset.next_file
  BY <1>1 DEF FilesInv, Shapes, OpenInv, BackgroundInv, BuildInv, Unclaimed
<1>3. /\ disk'.logs = disk.logs /\ disk'.manifests = disk.manifests
      /\ disk'.tables = WithFile(disk.tables, bg.file, mems[db.imm])
  BY <1>2 DEF BuildTable, DiskShape
<1>4. Tables' = Tables \cup {bg.file}
  BY <1>3 DEF Tables, WithFile
<1>5. OpenNumbers /\ AddedNumbers
  BY DEF NumbersInv
<1>6. AddedNumbers'
  BY <1>1, <1>5 DEF AddedNumbers, Recorded
<1>7. OpenNumbers'
  BY <1>1, <1>2, <1>3, <1>4, <1>5 DEF OpenNumbers, AddedNumbers
<1> QED
  BY <1>1, <1>3, <1>6, <1>7, CurrentNumbersOpen, NumbersOpen

LEMMA CompactEntryNumbers ==
  ASSUME FilesInv, FilesInv', NumbersInv, CompactEntry
  PROVE  NumbersInv'
<1>1. /\ db.state = "open" /\ db'.state = "open" /\ disk'.current = disk.current
      /\ bg'.pc = "work" /\ compaction # NoCompaction
      /\ UnderCurrent' = UnderCurrent /\ vset'.files = vset.files /\ db'.imm = db.imm
      /\ (EntryDropped /\ disk' = disk) \/ EntryWritten
      /\ {"todo", "prev", "files", "outputs", "builder"} \subseteq DOMAIN compaction
  BY CompactEntryStep
<1>2. Shapes /\ CompactionInv /\ vset.next_file \in Nat /\ vset.next_file # 0
  BY <1>1, CurrentNumbersOpen DEF FilesInv, OpenInv
<1>3. OpenNumbers /\ AddedNumbers
  BY DEF NumbersInv
<1>4. CASE EntryDropped /\ disk' = disk
  <2>1. compaction' = AfterEntry(compaction) /\ UNCHANGED <<db, vset>>
    BY <1>4 DEF EntryDropped
  <2>2. compaction'.outputs = compaction.outputs
    BY <1>1, <2>1, AfterEntryIs
  <2>3. AddedNumbers'
    BY <1>1, <1>3, <2>2 DEF AddedNumbers, Recorded
  <2>4. OpenNumbers'
    BY <1>1, <1>3, <1>4, <2>1 DEF OpenNumbers, Tables
  <2> QED
    BY <1>1, <1>4, <2>3, <2>4, CurrentNumbersOpen, NumbersOpen
<1>5. CASE EntryWritten
  <2> DEFINE out == OutputOf(compaction)
  <2>1. /\ disk'.tables = WithFile(disk.tables, out, ContentOf(compaction))
        /\ disk'.logs = disk.logs /\ disk'.manifests = disk.manifests
    BY <1>2, <1>5 DEF EntryWritten, Shapes, DiskShape
  <2>2. /\ vset'.next_file = IF compaction.builder = 0 THEN vset.next_file + 1 ELSE vset.next_file
        /\ vset'.log_number = vset.log_number /\ db'.mem = db.mem
    BY <1>2, <1>5 DEF EntryWritten, Shapes, VersionSetShape, DBShape
  <2>3. compaction'.outputs = compaction.outputs \cup {out}
    BY <1>1, <1>5, EntryWrittenIs
  <2>4. /\ out \in Nat \ {0} /\ out < vset'.next_file /\ vset'.next_file \in Nat
        /\ vset.next_file <= vset'.next_file
    <3>1. CASE compaction.builder = 0
      BY <1>2, <2>2, <3>1 DEF OutputOf
    <3>2. CASE compaction.builder # 0
      <4>1. compaction.builder \in compaction.outputs
        BY <1>1, <1>2, <3>2 DEF CompactionInv
      <4>2. compaction.builder \in Nat /\ compaction.builder < vset.next_file
        BY <1>1, <1>2, <4>1 DEF CompactionInv
      <4> QED
        BY <1>2, <2>2, <3>2, <4>2 DEF OutputOf
    <3> QED
      BY <3>1, <3>2
  <2>5. Tables' = Tables \cup {out}
    BY <2>1 DEF Tables, WithFile
  <2> HIDE DEF out
  <2>6. AddedNumbers'
    BY <1>1, <1>3, <2>3, <2>4 DEF AddedNumbers, Recorded
  <2>7. \A n \in Tables' : n \in Nat /\ n < vset'.next_file
    BY <1>1, <1>2, <1>3, <2>4, <2>5 DEF OpenNumbers
  <2>8. OpenNumbers'
    BY <1>1, <1>3, <2>1, <2>2, <2>7 DEF OpenNumbers
  <2> QED
    BY <1>1, <2>1, <2>6, <2>8, CurrentNumbersOpen, NumbersOpen
<1> QED
  BY <1>1, <1>4, <1>5

LEMMA RecordNumbers ==
  ASSUME FilesInv, NumbersInv, bg.pc = "manifest", RecordWrites
  PROVE  /\ disk'.logs = disk.logs /\ DOMAIN disk'.manifests = DOMAIN disk.manifests
         /\ Tables' = Tables /\ disk'.current = disk.current
         /\ UnderCurrent'.log_number = bg.log_number /\ bg.log_number \in {vset.log_number, db.mem}
         /\ UnderCurrent'.log_number \in Nat /\ UnderCurrent'.log_number < UnderCurrent'.next_file
         /\ UnderCurrent'.next_file \in Nat /\ UnderCurrent.next_file <= UnderCurrent'.next_file
         /\ FilesTyped(UnderCurrent'.files)
<1>1. db.state = "open" /\ EditInv
  BY RecordedIs DEF Recorded
<1>2. /\ disk'.logs = disk.logs /\ DOMAIN disk'.manifests = DOMAIN disk.manifests
      /\ disk'.tables = disk.tables /\ disk'.current = disk.current
      /\ UnderCurrent'.files = Edited(UnderCurrent.files, bg.edit)
      /\ UnderCurrent'.log_number = bg.log_number /\ UnderCurrent'.next_file = bg.next_file
  BY RecordFrame DEF RecordWrites
<1>3. AddedNumbers /\ FilesTyped(UnderCurrent.files) /\ vset.log_number \in Nat /\ db.mem \in Nat
  BY <1>1, CurrentNumbersOpen DEF NumbersInv
<1>4. FilesTyped(bg.edit.add) /\ bg.log_number < bg.next_file
  BY <1>1, <1>3 DEF AddedNumbers, Recorded
<1>5. FilesTyped(Edited(UnderCurrent.files, bg.edit))
  BY <1>3, <1>4, FilesTypedEdited
<1>6. /\ bg.log_number \in {vset.log_number, db.mem} /\ bg.next_file \in Nat
      /\ UnderCurrent.next_file <= bg.next_file
  BY <1>1 DEF EditInv
<1> QED
  BY <1>2, <1>3, <1>4, <1>5, <1>6 DEF Tables

LEMMA WriteManifestNumbers ==
  ASSUME FilesInv, FilesInv', NumbersInv, WriteManifest
  PROVE  NumbersInv'
<1>1. /\ bg.pc = "manifest" /\ Recorded /\ db.state = "open" /\ bg'.pc = "install"
      /\ bg'.edit = bg.edit /\ UNCHANGED <<db, vset, mems, compaction>>
  BY WriteManifestIs
<1>2. bg'.log_number = bg.log_number /\ bg'.next_file = bg.next_file
  <2>1. EditInv
    BY <1>1, RecordedIs
  <2> QED
    BY <2>1 DEF WriteManifest, EditInv
<1>3. RecordWrites
  BY DEF WriteManifest, RecordWrites
<1>4. OpenNumbers /\ AddedNumbers
  BY DEF NumbersInv
<1>5. AddedNumbers'
  BY <1>1, <1>2, <1>3, <1>4, RecordNumbers DEF AddedNumbers, Recorded
<1>6. OpenNumbers'
  BY <1>1, <1>3, <1>4, RecordNumbers DEF OpenNumbers
<1> QED
  BY <1>1, <1>3, <1>5, <1>6, RecordNumbers, NumbersOpen

LEMMA ManifestFailsNumbers ==
  ASSUME FilesInv, FilesInv', QueueInv, NumbersInv, ManifestFails
  PROVE  NumbersInv'
<1>1. /\ bg.pc = "manifest" /\ db.state = "open" /\ db'.state = "open" /\ vset' = vset
      /\ db'.imm = db.imm /\ compaction' \in {compaction, NoCompaction}
      /\ bg'.pc \in {"entry", "idle", "scheduled"}
  BY ManifestFailsIs
<1>2. db'.mem = db.mem /\ (disk' = disk \/ RecordWrites)
  BY ManifestFailsFrame
<1>3. OpenNumbers /\ AddedNumbers
  BY DEF NumbersInv
<1>4. AddedNumbers'
  BY <1>1, <1>3 DEF AddedNumbers, Recorded
<1>5. CASE disk' = disk
  <2>1. UnderCurrent' = UnderCurrent /\ Tables' = Tables
    BY <1>5 DEF UnderCurrent, Tables
  <2>2. OpenNumbers'
    BY <1>1, <1>2, <1>3, <1>5, <2>1 DEF OpenNumbers
  <2> QED
    BY <1>1, <1>4, <1>5, <2>1, <2>2, CurrentNumbersOpen, NumbersOpen
<1>6. CASE RecordWrites
  <2>1. OpenNumbers'
    BY <1>1, <1>2, <1>3, <1>6, RecordNumbers DEF OpenNumbers
  <2> QED
    BY <1>1, <1>4, <1>6, <2>1, RecordNumbers, NumbersOpen
<1> QED
  BY <1>2, <1>5, <1>6

LEMMA InstallNumbers ==
  ASSUME FilesInv, FilesInv', MemsStored, NumbersInv, Install
  PROVE  NumbersInv'
<1>1. /\ bg.pc = "install" /\ Recorded /\ db.state = "open" /\ db'.state = "open"
      /\ disk' = disk /\ UnderCurrent' = UnderCurrent
      /\ vset'.files = Edited(vset.files, bg.edit)
      /\ bg'.pc \in {"delete", "idle", "scheduled"}
      /\ compaction' \in {compaction, NoCompaction}
      /\ \/ bg.kind = "memtable" /\ db'.imm = 0
         \/ bg.kind \in {"compaction", "move"} /\ db'.imm = db.imm
  BY InstallIs
<1>2. /\ db'.mem = db.mem /\ vset'.log_number = bg.log_number /\ vset'.next_file = vset.next_file
      /\ bg.kind = "memtable" => bg.log_number = db.mem
      /\ bg.kind # "memtable" => bg.log_number = vset.log_number
  BY InstallFrame
<1>3. OpenNumbers /\ AddedNumbers
  BY DEF NumbersInv
<1>4. AddedNumbers'
  BY <1>1, <1>3 DEF AddedNumbers, Recorded
<1>5. FilesTyped(vset'.files)
  <2>1. FilesTyped(vset.files) /\ FilesTyped(bg.edit.add)
    BY <1>1, <1>3 DEF OpenNumbers, AddedNumbers
  <2> QED
    BY <1>1, <2>1, FilesTypedEdited
<1>6. /\ db'.imm = 0 => vset'.log_number = db'.mem
      /\ db'.imm # 0 => vset'.log_number = db'.imm
      /\ UnderCurrent'.log_number \in {vset'.log_number, db'.mem}
  BY <1>1, <1>2, <1>3 DEF OpenNumbers, AddedNumbers
<1>7. \A n \in DOMAIN disk'.logs : n < vset'.log_number \/ n = db'.mem \/ n = db'.imm
  <2>1. /\ DOMAIN disk.logs \subseteq Nat /\ vset.log_number \in Nat /\ db.mem \in Nat
        /\ vset.log_number <= db.mem /\ (db.imm # 0 => vset.log_number = db.imm)
    BY <1>1, <1>3, CurrentNumbersOpen DEF FilesInv, Shapes, OpenNumbers
  <2>2. \A n \in DOMAIN disk.logs : n < vset.log_number \/ n = db.mem \/ n = db.imm
    BY <1>1, <1>3 DEF OpenNumbers
  <2>3. CASE bg.kind = "memtable"
    <3>1. db.imm # 0
      BY <1>1, <2>3, RecordedIs
    <3> QED
      BY <1>1, <1>2, <2>1, <2>2, <2>3, <3>1
  <2>4. CASE bg.kind \in {"compaction", "move"}
    BY <1>1, <1>2, <2>2, <2>4
  <2> QED
    BY <1>1, <2>3, <2>4
<1>8. OpenNumbers'
  BY <1>1, <1>2, <1>3, <1>5, <1>6, <1>7 DEF OpenNumbers, Tables
<1> QED
  BY <1>1, <1>4, <1>8, CurrentNumbersOpen, NumbersOpen

LEMMA RemovalNumbers ==
  ASSUME FilesInv, FilesInv', NumbersInv, RemoveObsoleteFiles
  PROVE  NumbersInv'
<1>1. /\ db.state \in {"opening", "open"} /\ disk'.current = disk.current /\ disk.current # 0
      /\ UnderCurrent' = UnderCurrent /\ disk.current = vset.manifest
      /\ UNCHANGED <<db, vset, mems, bg, compaction>>
      /\ db.state = "open" => bg.pc = "delete"
  BY RemoveObsoleteFilesIs
<1>2. /\ \A n : n \in DOMAIN disk'.logs <=> n \in DOMAIN disk.logs /\ <<"log", n>> \notin doomed
      /\ \A n \in DOMAIN disk'.logs : disk'.logs[n] = disk.logs[n]
      /\ \A n : n \in Tables' <=> n \in Tables /\ <<"table", n>> \notin doomed
      /\ \A n \in DOMAIN disk'.manifests : n \in DOMAIN disk.manifests /\ disk'.manifests[n] = disk.manifests[n]
  BY RemovalFrame DEF RemoveObsoleteFiles
<1>3. CurrentNumbers' /\ NothingStored' /\ RecoveringNumbers'
  BY <1>1, <1>2 DEF NumbersInv, CurrentNumbers, NothingStored, RecoveringNumbers
<1>4. AddedNumbers'
  BY <1>1 DEF NumbersInv, AddedNumbers, Recorded
<1>5. OpenNumbers'
  BY <1>1, <1>2 DEF NumbersInv, OpenNumbers
<1>6. OpeningNumbers'
  <2> SUFFICES ASSUME db.state = "opening"
               PROVE  OpeningNumbers'
    BY <1>1 DEF OpeningNumbers
  <2>1. OpeningNumbers /\ ServingInv /\ ServingInv' /\ OpeningInv'
    BY DEF NumbersInv, FilesInv
  <2>2. db.mem \in DOMAIN disk'.logs
    BY <1>1, <2>1 DEF ServingInv, LogsHeld
  <2>3. disk'.logs[db.mem] = disk.logs[db.mem]
    BY <1>2, <2>2
  <2>4. disk'.manifests[vset.manifest] = disk.manifests[vset.manifest]
    BY <1>1 DEF UnderCurrent
  <2> QED
    BY <1>1, <1>2, <2>1, <2>3, <2>4 DEF OpeningNumbers
<1> QED
  BY <1>3, <1>4, <1>5, <1>6 DEF NumbersInv

LEMMA CrashNumbers ==
  ASSUME FilesInv, NumbersInv, Crash
  PROVE  NumbersInv'
<1>1. /\ disk'.current = disk.current /\ db'.state = "closed"
      /\ disk.current # 0 => UnderCurrent' = UnderCurrent
  BY CrashIs
<1>2. PICK S \in SUBSET doomed : disk' = Removed(S)
  BY DEF Crash
<1>3. /\ \A n : n \in DOMAIN disk'.logs <=> n \in DOMAIN disk.logs /\ <<"log", n>> \notin S
      /\ \A n : n \in Tables' <=> n \in Tables /\ <<"table", n>> \notin S
      /\ \A n \in DOMAIN disk'.manifests : n \in DOMAIN disk.manifests
  BY <1>2, RemovalFrame
<1>4. CurrentNumbers'
  BY <1>1, <1>3 DEF NumbersInv, CurrentNumbers
<1>5. NothingStored'
  BY <1>1, <1>3 DEF NumbersInv, NothingStored, Tables
<1> QED
  BY <1>1, <1>4, <1>5 DEF NumbersInv, RecoveringNumbers, OpeningNumbers, OpenNumbers, AddedNumbers

-----------------------------------------------------------------------------
(* What the steps of DB::Open do. *)

(* The tables of the log that is read, and their numbers. *)
LogRead == Min(bg.logs)
TablesRead == TablesOfLog(disk.logs[LogRead])
NumbersRead == vset.next_file .. vset.next_file + Len(TablesRead) - 1

LEMMA RecoverLogFrame ==
  ASSUME FilesInv, LogsReadable, LogsStored, RecoverLogFile
  PROVE  /\ db.state = "recovering" /\ db' = db /\ disk.current # 0
         /\ LogRead \in bg.logs /\ LogRead \in DOMAIN disk.logs /\ LogRead \in Nat
         /\ \A m \in bg.logs : LogRead <= m
         /\ TablesRead \in Seq(TableSets) /\ Len(TablesRead) \in Nat /\ vset.next_file \in Nat
         /\ disk'.logs = disk.logs /\ disk'.manifests = disk.manifests /\ disk'.current = disk.current
         /\ UnderCurrent' = UnderCurrent
         /\ disk'.tables = [i \in NumbersRead \cup DOMAIN disk.tables |->
              IF i \in NumbersRead THEN TablesRead[i - vset.next_file + 1] ELSE disk.tables[i]]
         /\ bg'.logs = bg.logs \ {LogRead} /\ bg'.edit.del = bg.edit.del
         /\ bg'.edit.add = [bg.edit.add EXCEPT ![0] = @ \cup NumbersRead]
         /\ bg'.max_sequence = Max({bg.max_sequence} \cup {e.seq : e \in UNION Range(TablesRead)})
         /\ vset'.files = vset.files /\ vset'.log_number = vset.log_number
         /\ vset'.manifest = vset.manifest /\ vset'.last_sequence = vset.last_sequence
         /\ vset'.next_file \in Nat /\ vset.next_file + Len(TablesRead) <= vset'.next_file
         /\ LogRead < vset'.next_file
         /\ UNCHANGED <<db, mems, writers, th, compaction, doomed, bounds>>
<1> DEFINE n == LogRead
           full == TablesRead
           numbers == NumbersRead
           q == Max({bg.max_sequence} \cup {e.seq : e \in UNION Range(full)})
           tables == [i \in numbers \cup DOMAIN disk.tables |->
                        IF i \in numbers THEN full[i - vset.next_file + 1] ELSE disk.tables[i]]
           top == Max({vset.next_file + Len(full), n + 1})
<1>1. /\ db.state = "recovering" /\ bg.logs # {}
      /\ disk' = [disk EXCEPT !.tables = tables] /\ vset' = [vset EXCEPT !.next_file = top]
      /\ bg' = [bg EXCEPT !.logs = @ \ {n}, !.edit.add[0] = @ \cup numbers, !.max_sequence = q]
      /\ UNCHANGED <<db, mems, writers, th, compaction, doomed, bounds>>
  BY DEF RecoverLogFile, LogRead, TablesRead, NumbersRead
<1>2. /\ DiskShape /\ VersionSetShape /\ vset.next_file \in Nat /\ disk.current # 0
      /\ bg.logs \subseteq DOMAIN disk.logs /\ bg.logs \subseteq Nat
      /\ bg = [pc |-> "open", edit |-> bg.edit, max_sequence |-> bg.max_sequence, logs |-> bg.logs]
      /\ bg.edit = [del |-> bg.edit.del, add |-> bg.edit.add]
  BY <1>1 DEF FilesInv, Shapes, RecoveringInv, CurrentHeld
<1>3. n \in bg.logs /\ \A m \in bg.logs : n <= m
  <2>1. \E m \in bg.logs : \A y \in bg.logs : m <= y
    BY <1>1, <1>2, LeastNumber
  <2> QED
    BY <2>1 DEF Min, LogRead
<1>4. n \in DOMAIN disk.logs /\ n \in Nat
  BY <1>2, <1>3
<1>5. full \in Seq(TableSets)
  BY <1>4, TablesOfLogStored DEF LogsReadable, LogsStored, TablesRead
<1>6. Len(full) \in Nat
  BY <1>5, SequenceIs
<1>7. top \in Nat /\ vset.next_file + Len(full) <= top /\ n < top
  <2>1. vset.next_file + Len(full) \in Nat /\ n + 1 \in Nat
    BY <1>2, <1>4, <1>6
  <2> QED
    BY <1>4, <2>1, MaxOfTwo
<1> HIDE DEF n, full, numbers, q, tables, top
<1>8. /\ disk'.tables = tables /\ disk'.logs = disk.logs /\ disk'.manifests = disk.manifests
      /\ disk'.current = disk.current
  BY <1>1, <1>2 DEF DiskShape
<1>9. /\ vset'.files = vset.files /\ vset'.log_number = vset.log_number
      /\ vset'.manifest = vset.manifest /\ vset'.last_sequence = vset.last_sequence
      /\ vset'.next_file = top
  BY <1>1, <1>2 DEF VersionSetShape
<1>10. /\ bg'.max_sequence = q /\ bg'.edit.add = [bg.edit.add EXCEPT ![0] = @ \cup numbers]
       /\ bg'.edit.del = bg.edit.del /\ bg'.logs = bg.logs \ {n}
  <2> DEFINE e2 == [bg.edit EXCEPT !.add[0] = @ \cup numbers]
             logs == bg.logs \ {n}
             b2 == [bg EXCEPT !.logs = logs]
             b3 == [b2 EXCEPT !.edit = e2]
  <2>1. bg' = [b3 EXCEPT !.max_sequence = q]
    BY <1>1
  <2>2. e2.add = [bg.edit.add EXCEPT ![0] = @ \cup numbers] /\ e2.del = bg.edit.del
    BY <1>2
  <2> HIDE DEF e2
  <2>3. b2 = [pc |-> "open", edit |-> bg.edit, max_sequence |-> bg.max_sequence, logs |-> logs]
    BY <1>2
  <2> HIDE DEF b2
  <2>4. b3 = [pc |-> "open", edit |-> e2, max_sequence |-> bg.max_sequence, logs |-> logs]
    BY <2>3
  <2> HIDE DEF b3
  <2>5. bg' = [pc |-> "open", edit |-> e2, max_sequence |-> q, logs |-> logs]
    BY <2>1, <2>4
  <2> QED
    BY <2>2, <2>5
<1>11. UnderCurrent' = UnderCurrent
  BY <1>8 DEF UnderCurrent
<1>12. vset.next_file + Len(full) <= vset'.next_file /\ vset'.next_file \in Nat /\ n < vset'.next_file
  BY <1>7, <1>9
<1> USE DEF n, full, numbers
<1> QED
  BY <1>1, <1>2, <1>3, <1>4, <1>5, <1>6, <1>8, <1>9, <1>10, <1>11, <1>12 DEF tables, q

LEMMA RecoverFrame ==
  ASSUME FilesInv, FilesInv', NumbersInv, Recovered
  PROVE  /\ db.state = "closed" /\ db'.state = "recovering" /\ db'.pending = {}
         /\ disk'.logs = disk.logs /\ disk'.tables = disk.tables /\ disk'.current # 0
         /\ vset'.files = UnderCurrent'.files /\ vset'.log_number = UnderCurrent'.log_number
         /\ vset'.last_sequence = UnderCurrent'.last_sequence
         /\ bg'.edit = NoEdit /\ bg'.max_sequence = 0
         /\ bg'.logs = {n \in DOMAIN disk.logs : n >= UnderCurrent'.log_number}
         /\ \/ /\ disk.current # 0 /\ disk' = disk /\ UnderCurrent' = UnderCurrent
            \/ /\ disk.current = 0 /\ DOMAIN disk'.manifests = {1}
               /\ DOMAIN disk.logs = {} /\ DOMAIN disk.tables = {}
               /\ UnderCurrent' = [files |-> NoFiles, log_number |-> 0, next_file |-> 2,
                                   last_sequence |-> 0]
         /\ UNCHANGED <<mems, writers, th, compaction, doomed, bounds>>
<1> DEFINE m == disk'.manifests[disk'.current]
           logs == {n \in DOMAIN disk.logs : n >= m.log_number}
<1>1. /\ disk' = (IF disk.current = 0 THEN NewDB ELSE disk)
      /\ vset' = [files |-> m.files, log_number |-> m.log_number, next_file |-> m.next_file + 1,
                  manifest |-> m.next_file, last_sequence |-> m.last_sequence]
      /\ \E s : db' = [Closed EXCEPT !.state = s]
      /\ bg' = [pc |-> "open", edit |-> NoEdit, max_sequence |-> 0, logs |-> logs]
      /\ db.state = "closed" /\ UNCHANGED <<mems, writers, th, compaction, doomed, bounds>>
  BY DEF Recovered, Recover, Closed
<1>2. DiskShape
  BY DEF FilesInv, Shapes
<1>3. db'.state = "recovering" /\ db'.pending = {}
  <2>1. db'.pending = {}
    BY <1>1 DEF Closed
  <2> QED
    BY <2>1, RecoveredIs
<1>4. m = UnderCurrent'
  BY DEF UnderCurrent
<1> HIDE DEF m
<1>5. /\ vset'.files = m.files /\ vset'.log_number = m.log_number
      /\ vset'.last_sequence = m.last_sequence
      /\ bg'.edit = NoEdit /\ bg'.max_sequence = 0 /\ bg'.logs = logs
  BY <1>1
<1>6. CASE disk.current # 0
  <2>1. disk' = disk /\ UnderCurrent' = UnderCurrent
    BY <1>1, <1>6 DEF UnderCurrent
  <2> QED
    BY <1>1, <1>3, <1>4, <1>5, <1>6, <2>1
<1>7. CASE disk.current = 0
  <2> DEFINE new == [files |-> NoFiles, log_number |-> 0, next_file |-> 2, last_sequence |-> 0]
  <2>1. DOMAIN disk.logs = {} /\ DOMAIN disk.tables = {} /\ DOMAIN disk.manifests = {}
    BY <1>7 DEF NumbersInv, NothingStored
  <2>2. /\ disk'.manifests = WithFile(disk.manifests, 1, new) /\ disk'.current = 1
        /\ disk'.logs = disk.logs /\ disk'.tables = disk.tables
    BY <1>1, <1>2, <1>7 DEF NewDB, DiskShape
  <2>3. DOMAIN disk'.manifests = {1} /\ UnderCurrent' = new
    BY <2>1, <2>2 DEF WithFile, UnderCurrent
  <2> QED
    BY <1>1, <1>3, <1>4, <1>5, <1>7, <2>1, <2>2, <2>3
<1> QED
  BY <1>6, <1>7

LEMMA NewManifestFrame ==
  ASSUME FilesInv, NewManifest
  PROVE  /\ db.state = "recovering" /\ db'.state = "opening" /\ bg.logs = {} /\ disk.current # 0
         /\ disk'.current = disk.current /\ UnderCurrent' = UnderCurrent /\ disk'.tables = disk.tables
         /\ vset.next_file \in Nat /\ db'.mem = vset.next_file /\ db'.imm = db.imm /\ db'.pending = db.pending
         /\ vset'.files = Edited(vset.files, bg.edit) /\ vset'.log_number = vset.next_file
         /\ vset'.manifest = vset.manifest /\ vset.manifest = UnderCurrent.next_file
         /\ vset.manifest # disk.current
         /\ disk'.logs = WithFile(disk.logs, vset.next_file, <<>>)
         /\ DOMAIN disk'.manifests = DOMAIN disk.manifests \cup {vset.manifest}
         /\ disk'.manifests[vset.manifest].log_number = vset.next_file
         /\ mems' = [i \in {vset.next_file} |-> {}]
         /\ UNCHANGED <<writers, th, bg, compaction, doomed, bounds>>
<1> DEFINE log == vset.next_file
           last == Max({vset.last_sequence, bg.max_sequence})
           record == [files |-> Edited(vset.files, bg.edit), log_number |-> log,
                      next_file |-> log + 1, last_sequence |-> last]
<1>1. /\ db.state = "recovering" /\ bg.logs = {}
      /\ vset' = [vset EXCEPT !.next_file = log + 1, !.last_sequence = last,
                              !.files = Edited(@, bg.edit), !.log_number = log]
      /\ disk' = [disk EXCEPT !.logs = WithFile(@, log, <<>>),
                              !.manifests = WithFile(@, vset.manifest, record)]
      /\ db' = [db EXCEPT !.state = "opening", !.mem = log]
      /\ mems' = [i \in {log} |-> {}]
      /\ UNCHANGED <<writers, th, bg, compaction, doomed, bounds>>
  BY DEF NewManifest
<1> HIDE DEF last
<1>2. /\ DiskShape /\ DBShape /\ VersionSetShape /\ disk.current # 0 /\ vset.next_file \in Nat
      /\ vset.manifest = UnderCurrent.next_file /\ disk.current < UnderCurrent.next_file
      /\ disk.current \in Nat /\ UnderCurrent.next_file \in Nat
  BY <1>1 DEF FilesInv, Shapes, CurrentHeld, RecoveringInv
<1>3. record.log_number = log
  OBVIOUS
<1> HIDE DEF record
<1>4. /\ disk'.logs = WithFile(disk.logs, log, <<>>) /\ disk'.tables = disk.tables
      /\ disk'.current = disk.current /\ disk'.manifests = WithFile(disk.manifests, vset.manifest, record)
  BY <1>1, <1>2 DEF DiskShape
<1>5. /\ DOMAIN disk'.manifests = DOMAIN disk.manifests \cup {vset.manifest}
      /\ disk'.manifests[vset.manifest] = record
  BY <1>4 DEF WithFile
<1>6. db'.state = "opening" /\ db'.mem = log /\ db'.imm = db.imm /\ db'.pending = db.pending
  BY <1>1, <1>2 DEF DBShape
<1>7. /\ vset'.files = Edited(vset.files, bg.edit) /\ vset'.log_number = log
      /\ vset'.manifest = vset.manifest
  BY <1>1, <1>2 DEF VersionSetShape
<1>8. UnderCurrent' = UnderCurrent
  BY NewManifestIs
<1>9. vset.manifest # disk.current
  BY <1>2
<1> QED
  BY <1>1, <1>2, <1>3, <1>4, <1>5, <1>6, <1>7, <1>8, <1>9

LEMMA RecoverNumbers ==
  ASSUME FilesInv, FilesInv', NumbersInv, Recovered
  PROVE  NumbersInv'
<1>1. /\ db'.state = "recovering" /\ db'.pending = {}
      /\ disk'.logs = disk.logs /\ disk'.tables = disk.tables /\ disk'.current # 0
      /\ vset'.files = UnderCurrent'.files /\ vset'.log_number = UnderCurrent'.log_number
      /\ bg'.edit = NoEdit /\ bg'.logs = {n \in DOMAIN disk.logs : n >= UnderCurrent'.log_number}
      /\ \/ /\ disk.current # 0 /\ disk' = disk /\ UnderCurrent' = UnderCurrent
         \/ /\ disk.current = 0 /\ DOMAIN disk'.manifests = {1}
            /\ UnderCurrent' = [files |-> NoFiles, log_number |-> 0, next_file |-> 2,
                                last_sequence |-> 0]
  BY RecoverFrame
<1>2. CurrentNumbers'
  <2>1. CASE disk.current # 0 /\ disk' = disk /\ UnderCurrent' = UnderCurrent
    BY <2>1 DEF NumbersInv, CurrentNumbers
  <2>2. CASE /\ DOMAIN disk'.manifests = {1}
             /\ UnderCurrent' = [files |-> NoFiles, log_number |-> 0, next_file |-> 2,
                                last_sequence |-> 0]
    <3>1. /\ UnderCurrent'.log_number = 0 /\ UnderCurrent'.next_file = 2
          /\ UnderCurrent'.files = NoFiles
      BY <2>2
    <3> QED
      BY <2>2, <3>1, FilesTypedNone DEF CurrentNumbers
  <2> QED
    BY <1>1, <2>1, <2>2
<1>3. bg'.edit.del = NoFiles /\ bg'.edit.add = NoFiles
  BY <1>1 DEF NoEdit
<1>4. RecoveringNumbers'
  BY <1>1, <1>3, FilesTypedNone, FilesOfNone DEF RecoveringNumbers
<1> QED
  BY <1>1, <1>2, <1>4 DEF NumbersInv, NothingStored, OpeningNumbers, OpenNumbers, AddedNumbers

LEMMA RecoverLogNumbers ==
  ASSUME FilesInv, FilesInv', LogsReadable, LogsStored, NumbersInv, RecoverLogFile
  PROVE  NumbersInv'
<1> DEFINE add == bg.edit.add
           add2 == bg'.edit.add
<1>1. /\ db.state = "recovering" /\ db' = db /\ disk.current # 0
      /\ LogRead \in Nat /\ LogRead \in bg.logs /\ Len(TablesRead) \in Nat /\ vset.next_file \in Nat
      /\ disk'.logs = disk.logs /\ disk'.manifests = disk.manifests /\ disk'.current = disk.current
      /\ UnderCurrent' = UnderCurrent
      /\ bg'.logs = bg.logs \ {LogRead} /\ bg'.edit.del = bg.edit.del
      /\ add2 = [add EXCEPT ![0] = @ \cup NumbersRead]
      /\ vset'.log_number = vset.log_number /\ vset'.manifest = vset.manifest
      /\ vset'.next_file \in Nat /\ vset.next_file + Len(TablesRead) <= vset'.next_file
      /\ LogRead < vset'.next_file
  BY RecoverLogFrame
<1>2. RecoveringNumbers /\ RecoveringInv /\ CurrentHeld /\ DOMAIN disk.logs \subseteq Nat
  BY DEF NumbersInv, FilesInv, Shapes
<1>3. /\ FilesTyped(add) /\ vset.manifest < vset.next_file /\ vset.manifest \in Nat
      /\ bg.edit.del = NoFiles /\ vset.log_number = UnderCurrent.log_number /\ db.pending = {}
      /\ \A n \in FilesOf(add) : vset.manifest < n
  BY <1>1, <1>2 DEF RecoveringNumbers, RecoveringInv, CurrentHeld
<1>4. \A n \in NumbersRead : n \in Nat \ {0} /\ vset.manifest < n
  BY <1>1, <1>3 DEF NumbersRead
<1> HIDE DEF add, add2
<1>5. FilesTyped(add2)
  BY <1>1, <1>3, <1>4, LevelIs DEF FilesTyped
<1>6. ASSUME NEW n \in FilesOf(add2) PROVE vset.manifest < n
  <2>1. PICK l \in Level : n \in add2[l]
    BY FilesOfIs
  <2>2. n \in add[l] \/ n \in NumbersRead
    BY <1>1, <1>3, <2>1 DEF FilesTyped
  <2> QED
    BY <1>3, <1>4, <2>2, FilesOfIs
<1>7. \A n \in DOMAIN disk.logs : n >= UnderCurrent.log_number => n \in bg'.logs \/ n < vset'.next_file
  <2> SUFFICES ASSUME NEW n \in DOMAIN disk.logs, n >= UnderCurrent.log_number
               PROVE  n \in bg'.logs \/ n < vset'.next_file
    OBVIOUS
  <2>1. n \in bg.logs \/ n < vset.next_file
    BY <1>1, <1>2 DEF RecoveringNumbers
  <2>2. n \in Nat
    BY <1>2
  <2> QED
    BY <1>1, <2>1, <2>2
<1>8. RecoveringNumbers'
  BY <1>1, <1>3, <1>5, <1>6, <1>7 DEF RecoveringNumbers, add, add2
<1>9. CurrentNumbers'
  BY <1>1 DEF NumbersInv, CurrentNumbers
<1> QED
  BY <1>1, <1>8, <1>9 DEF NumbersInv, NothingStored, OpeningNumbers, OpenNumbers, AddedNumbers

LEMMA NewManifestNumbers ==
  ASSUME FilesInv, FilesInv', NumbersInv, NewManifest
  PROVE  NumbersInv'
<1>1. /\ db.state = "recovering" /\ db'.state = "opening" /\ bg.logs = {} /\ disk.current # 0
      /\ disk'.current = disk.current /\ UnderCurrent' = UnderCurrent
      /\ vset.next_file \in Nat /\ db'.mem = vset.next_file /\ db'.pending = db.pending
      /\ vset'.files = Edited(vset.files, bg.edit) /\ vset'.log_number = vset.next_file
      /\ vset'.manifest = vset.manifest /\ vset.manifest = UnderCurrent.next_file
      /\ vset.manifest # disk.current
      /\ disk'.logs = WithFile(disk.logs, vset.next_file, <<>>)
      /\ DOMAIN disk'.manifests = DOMAIN disk.manifests \cup {vset.manifest}
      /\ disk'.manifests[vset.manifest].log_number = vset.next_file
      /\ mems' = [i \in {vset.next_file} |-> {}]
  BY NewManifestFrame
<1>2. /\ RecoveringNumbers /\ CurrentNumbers /\ vset.files = UnderCurrent.files
      /\ vset.manifest < vset.next_file /\ UnderCurrent.next_file \in Nat /\ DOMAIN disk.logs \subseteq Nat
  BY <1>1 DEF NumbersInv, FilesInv, RecoveringInv, CurrentHeld, Shapes
<1>3. CurrentNumbers'
  BY <1>1, <1>2 DEF CurrentNumbers
<1>4. FilesTyped(Edited(vset.files, bg.edit))
  BY <1>1, <1>2, FilesTypedEdited DEF CurrentNumbers, RecoveringNumbers
<1>5. /\ DOMAIN disk'.logs = DOMAIN disk.logs \cup {vset.next_file}
      /\ disk'.logs[vset.next_file] = <<>> /\ mems'[vset.next_file] = {}
  BY <1>1 DEF WithFile
<1>6. \A n \in DOMAIN disk.logs : n <= vset.next_file
  BY <1>1, <1>2 DEF RecoveringNumbers, CurrentNumbers
<1>7. UnderCurrent.log_number < vset.next_file
  BY <1>1, <1>2 DEF CurrentNumbers
<1>8. OpeningNumbers'
  BY <1>1, <1>2, <1>4, <1>5, <1>6, <1>7 DEF OpeningNumbers, RecoveringNumbers
<1> QED
  BY <1>1, <1>3, <1>8 DEF NumbersInv, NothingStored, RecoveringNumbers, OpenNumbers, AddedNumbers

LEMMA SetCurrentNumbers ==
  ASSUME FilesInv, FilesInv', NumbersInv, SetCurrentFile
  PROVE  NumbersInv'
<1>1. /\ disk'.tables = disk.tables /\ disk'.manifests = disk.manifests /\ db.state = "opening"
      /\ UnderCurrent' = disk.manifests[vset.manifest]
      /\ UNCHANGED <<db, vset, mems, th, bg, compaction>>
      /\ disk.manifests[vset.manifest].files = vset.files
  BY SetCurrentFileIs
<1>2. /\ disk.current # vset.manifest /\ disk' = [disk EXCEPT !.current = vset.manifest]
      /\ doomed' = ObsoleteFiles(db, vset, NoCompaction) /\ DiskShape
  BY DEF SetCurrentFile, FilesInv, Shapes
<1>3. disk'.current = vset.manifest /\ disk'.logs = disk.logs
  BY <1>2 DEF DiskShape
<1>4. /\ OpeningNumbers /\ OpeningInv /\ CurrentNumbers /\ disk.current # 0 /\ ServingInv
      /\ UnderCurrent.next_file \in Nat
  BY <1>1 DEF NumbersInv, FilesInv, CurrentHeld
<1>5. /\ FilesTyped(vset.files) /\ vset.log_number = db.mem /\ vset.manifest = UnderCurrent.next_file
      /\ UnderCurrent'.log_number = vset.log_number /\ UnderCurrent'.next_file = vset.next_file
      /\ vset.manifest < vset.next_file /\ vset.next_file \in Nat /\ db.mem < vset.next_file
      /\ db.mem \in Nat /\ db.pending = {} /\ db.bg_error = FALSE /\ vset.manifest # 0
      /\ disk.logs[db.mem] = <<>> /\ mems[db.mem] = {} /\ \A n \in DOMAIN disk.logs : n <= db.mem
  BY <1>1, <1>2, <1>4 DEF OpeningNumbers, OpeningInv, ServingInv, LogsHeld
<1>6. CurrentNumbers'
  <2>1. \A m \in DOMAIN disk'.manifests : m \in Nat /\ m <= UnderCurrent'.next_file
    BY <1>1, <1>4, <1>5 DEF CurrentNumbers
  <2> QED
    BY <1>1, <1>5, <2>1 DEF CurrentNumbers
<1>7. ASSUME NEW n \in Tables PROVE n \in FilesOf(vset.files) \/ <<"table", n>> \in doomed'
  <2>1. ASSUME n \in LiveFiles(vset, NoCompaction) PROVE n \in FilesOf(vset.files)
    <3>1. \A t \in Thread : th[t].pc # "reading"
      BY <1>1 DEF FilesInv, NobodyYet
    <3> QED
      BY <2>1, <3>1 DEF LiveFiles
  <2>2. CASE n \notin LiveFiles(vset, NoCompaction)
    BY <1>2, <1>5, <2>2 DEF ObsoleteFiles, Tables
  <2> QED
    BY <2>1, <2>2
<1>8. OpeningNumbers'
  BY <1>1, <1>3, <1>5, <1>7 DEF OpeningNumbers, Tables
<1> QED
  BY <1>1, <1>3, <1>5, <1>6, <1>8 DEF NumbersInv, NothingStored, RecoveringNumbers, OpenNumbers,
     AddedNumbers

LEMMA OpenReturnsNumbers ==
  ASSUME FilesInv, FilesInv', NumbersInv, OpenReturns
  PROVE  NumbersInv'
<1>1. /\ db.state = "opening" /\ db'.state = "open" /\ compaction' = NoCompaction
      /\ UNCHANGED <<disk, vset, mems>> /\ bg'.pc \in {"idle", "scheduled"} /\ db'.imm = 0
      /\ disk.current = vset.manifest
      /\ disk.current # 0 /\ UnderCurrent' = UnderCurrent
  BY OpenReturnsIs
<1>2. db'.mem = db.mem /\ doomed = {}
  BY DEF OpenReturns, FilesInv, Shapes, DBShape
<1>3. /\ OpeningNumbers /\ ServingInv /\ DOMAIN disk.logs \subseteq Nat
  BY DEF NumbersInv, FilesInv, Shapes
<1>4. /\ FilesTyped(vset.files) /\ vset.log_number = db.mem /\ db.mem \in Nat
      /\ UnderCurrent.log_number = vset.log_number
      /\ \A n \in DOMAIN disk.logs : n <= db.mem
      /\ \A n \in Tables : n \in FilesOf(vset.files)
      /\ Held(Tables, vset.files, vset.next_file)
  BY <1>1, <1>2, <1>3 DEF OpeningNumbers, ServingInv, LogsHeld, UnderCurrent
<1>5. \A n \in DOMAIN disk.logs : n < db.mem \/ n = db.mem
  BY <1>3, <1>4
<1>6. OpenNumbers'
  BY <1>1, <1>2, <1>4, <1>5 DEF OpenNumbers, Tables, Held
<1>7. AddedNumbers'
  BY <1>1 DEF AddedNumbers, Recorded
<1>8. CurrentNumbers'
  BY <1>1 DEF NumbersInv, CurrentNumbers
<1> QED
  BY <1>1, <1>6, <1>7, <1>8 DEF NumbersInv, NothingStored, RecoveringNumbers, OpeningNumbers

LEMMA NumbersSame ==
  ASSUME NumbersInv, UNCHANGED ldbVars
  PROVE  NumbersInv'
BY DEF ldbVars, NumbersInv, NothingStored, CurrentNumbers, RecoveringNumbers, OpeningNumbers,
   OpenNumbers, AddedNumbers, Recorded, Tables, UnderCurrent, FilesOf

LEMMA AbortedNumbers ==
  ASSUME FilesInv, NumbersInv, Aborted
  PROVE  NumbersInv'
<1>1. /\ db.state = "closed" /\ db'.state = "aborted" /\ UnderCurrent' = UnderCurrent
      /\ UNCHANGED <<disk, vset, bg, compaction>>
  BY AbortedFrame
<1> QED
  BY <1>1 DEF NumbersInv, NothingStored, CurrentNumbers, RecoveringNumbers, OpeningNumbers,
     OpenNumbers, AddedNumbers

LEMMA NumbersNext ==
  ASSUME FilesInv, FilesInv', LogsReadable, QueueInv, RecordsInv, NumbersInv, [LevelDBNext]_ldbVars
  PROVE  NumbersInv'
<1>1. TablesStored /\ MemsStored /\ LogsStored
  BY DEF RecordsInv
<1>2. CASE Quiet \/ MemTableStarts \/ CompactionBegins \/ LogMemTable \/ InstallCompactionResults
  BY <1>1, <1>2, LockedNumbers DEF Locked
<1> QED
  BY <1>1, <1>2, StepIs, CallsNumbers, BuildTableNumbers, CompactEntryNumbers, WriteManifestNumbers,
     ManifestFailsNumbers, InstallNumbers, RemovalNumbers, RecoverNumbers, RecoverLogNumbers,
     NewManifestNumbers, SetCurrentNumbers, OpenReturnsNumbers, CrashNumbers, NumbersSame,
     AbortedNumbers

-----------------------------------------------------------------------------
(* What is read from a log was in it. *)
LEMMA ReadRecordsOf ==
  ASSUME NEW E, NEW log, IsLog(log), \A i \in DOMAIN log : log[i].entry \in E
  PROVE  ReadRecords(log) \in Seq(SUBSET E)
<1> DEFINE n == Len(log)
           g == CHOOSE f : ReadAll(log, f)
           Read == [records : Seq(SUBSET E), scratch : SUBSET E]
           Bad == {k \in Nat : k <= n /\ g[1..k] \notin Read}
<1>1. n \in Nat /\ DOMAIN log = 1..n
  BY SequencePositions DEF IsLog
<1>2. ReadAll(log, g)
  BY <1>1, ReadAllExists
<1> HIDE DEF g, n
<1>3. Bad = {}
  <2> SUFFICES ASSUME Bad # {} PROVE FALSE
    OBVIOUS
  <2>1. PICK m \in Bad : \A y \in Bad : m <= y
    BY LeastNumber
  <2>2. m \in Nat /\ m <= n /\ g[1..m] \notin Read
    BY <2>1
  <2>3. (1..m) \in SUBSET DOMAIN log
    BY <1>1, <2>2
  <2>4. CASE m = 0
    <3>1. 1..m = {}
      BY <2>4
    <3>2. g[1..m] = [records |-> <<>>, scratch |-> {}]
      BY <1>2, <2>3, <3>1 DEF ReadAll
    <3>3. <<>> \in Seq(SUBSET E)
      OBVIOUS
    <3> QED
      BY <2>2, <3>2, <3>3
  <2>5. CASE m # 0
    <3> DEFINE a == g[1..(m - 1)]
               f == log[m]
    <3>1. /\ Max(1..m) = m /\ (1..m) \ {m} = 1..(m - 1) /\ 1..m # {} /\ m - 1 \in Nat
      BY <2>2, <2>5, LastPosition
    <3>2. g[1..m] = ReadFragment(a, f)
      BY <1>2, <2>3, <3>1 DEF ReadAll
    <3>3. m - 1 \notin Bad /\ m - 1 <= n
      <4>1. ~(m <= m - 1) /\ m - 1 <= n
        BY <1>1, <2>2, <3>1
      <4> HIDE DEF Bad
      <4> QED
        BY <2>1, <4>1
    <3>4. a \in Read
      BY <3>1, <3>3
    <3>5. f.type \in FragmentType /\ f.entry \in E
      BY <1>1, <2>2, <2>5 DEF IsLog
    <3> HIDE DEF a, f
    <3>6. a.records \in Seq(SUBSET E) /\ a.scratch \in SUBSET E
          /\ a = [records |-> a.records, scratch |-> a.scratch]
      BY <3>4
    <3> DEFINE e == f.entry
               s == a.scratch \cup {e}
    <3>e. {e} \in SUBSET E
      BY <3>5
    <3>s. s \in SUBSET E
      BY <3>5, <3>6
    <3> HIDE DEF e, s
    <3>7. Append(a.records, {e}) \in Seq(SUBSET E) /\ Append(a.records, s) \in Seq(SUBSET E)
      BY <3>6, <3>e, <3>s, AppendProperties
    <3>8. CASE f.type = "full"
      <4>1. ReadFragment(a, f) = [records |-> Append(a.records, {e}), scratch |-> {}]
        BY <3>8 DEF ReadFragment, e
      <4> QED
        BY <2>2, <3>2, <3>7, <4>1
    <3>9. CASE f.type = "first"
      <4>1. ReadFragment(a, f) = [a EXCEPT !.scratch = {e}]
        BY <3>9 DEF ReadFragment, e
      <4> QED
        BY <2>2, <3>2, <3>4, <3>e, <4>1
    <3>10. CASE f.type = "middle"
      <4>1. ReadFragment(a, f) = [a EXCEPT !.scratch = s]
        BY <3>10 DEF ReadFragment, s, e
      <4> QED
        BY <2>2, <3>2, <3>4, <3>s, <4>1
    <3>11. CASE f.type = "last"
      <4>1. ReadFragment(a, f) = [records |-> Append(a.records, s), scratch |-> {}]
        BY <3>11 DEF ReadFragment, s, e
      <4> QED
        BY <2>2, <3>2, <3>7, <4>1
    <3> QED
      BY <3>5, <3>8, <3>9, <3>10, <3>11 DEF FragmentType
  <2> QED
    BY <2>4, <2>5
<1>4. g[1..n] \in Read
  BY <1>1, <1>3
<1> QED
  BY <1>1, <1>4, ReadRecordsIs DEF g

LEMMA TablesOfLogOf ==
  ASSUME NEW E, NEW log, IsLog(log), \A i \in DOMAIN log : log[i].entry \in E
  PROVE  TablesOfLog(log) \in Seq(SUBSET E)
<1> DEFINE records == ReadRecords(log)
           n == Len(records)
           g == CHOOSE f : InsertAll(records, f)
           Bad == {k \in Nat : k <= n /\ g[1..k] \notin Seq(SUBSET E)}
<1>0. records \in Seq(SUBSET E)
  BY ReadRecordsOf
<1> HIDE DEF records
<1>1. n \in Nat /\ DOMAIN records = 1..n /\ \A i \in 1..n : records[i] \in SUBSET E
  BY <1>0, SequenceIs
<1>2. InsertAll(records, g)
  BY <1>1, InsertAllExists
<1> HIDE DEF g, n
<1>3. Bad = {}
  <2> SUFFICES ASSUME Bad # {} PROVE FALSE
    OBVIOUS
  <2>1. PICK m \in Bad : \A y \in Bad : m <= y
    BY LeastNumber
  <2>2. m \in Nat /\ m <= n /\ g[1..m] \notin Seq(SUBSET E)
    BY <2>1
  <2>3. (1..m) \in SUBSET DOMAIN records
    BY <1>1, <2>2
  <2>4. CASE m = 0
    <3>1. 1..m = {}
      BY <2>4
    <3>2. g[1..m] = <<>>
      BY <1>2, <2>3, <3>1 DEF InsertAll
    <3>3. <<>> \in Seq(SUBSET E)
      OBVIOUS
    <3> QED
      BY <2>2, <3>2, <3>3
  <2>5. CASE m # 0
    <3> DEFINE a == g[1..(m - 1)]
               r == records[m]
    <3>1. /\ Max(1..m) = m /\ (1..m) \ {m} = 1..(m - 1) /\ 1..m # {} /\ m - 1 \in Nat
      BY <2>2, <2>5, LastPosition
    <3>2. g[1..m] = InsertRecord(a, r)
      BY <1>2, <2>3, <3>1 DEF InsertAll
    <3>3. m - 1 \notin Bad /\ m - 1 <= n
      <4>1. ~(m <= m - 1) /\ m - 1 <= n
        BY <1>1, <2>2, <3>1
      <4> HIDE DEF Bad
      <4> QED
        BY <2>1, <4>1
    <3>4. a \in Seq(SUBSET E) /\ r \in SUBSET E
      BY <1>1, <2>2, <2>5, <3>1, <3>3
    <3> HIDE DEF a, r
    <3>5. Append(a, r) \in Seq(SUBSET E)
      BY <3>4, AppendProperties
    <3>6. ASSUME a # <<>> PROVE Front(a) \o <<Last(a) \cup r>> \in Seq(SUBSET E)
      <4>1. Last(a) \in SUBSET E /\ Front(a) \in Seq(SUBSET E)
        BY <3>4, <3>6, LastOf
      <4>2. Last(a) \cup r \in SUBSET E
        BY <3>4, <4>1
      <4> DEFINE x == Last(a) \cup r
                 f == Front(a)
      <4> HIDE DEF x, f
      <4>3. f \o <<x>> \in Seq(SUBSET E)
        BY <4>1, <4>2 DEF x, f
      <4> QED
        BY <4>3 DEF x, f
    <3>7. InsertRecord(a, r) \in Seq(SUBSET E)
      BY <3>5, <3>6 DEF InsertRecord
    <3> QED
      BY <2>2, <3>2, <3>7
  <2> QED
    BY <2>4, <2>5
<1>4. g[1..n] \in Seq(SUBSET E)
  BY <1>1, <1>3
<1> QED
  BY <1>1, <1>4, TablesOfLogIs DEF g, records

-----------------------------------------------------------------------------
(***************************************************************************)
(* Sequence numbers: no more than there were calls of Put, on disk or in   *)
(* memory.                                                                 *)
(***************************************************************************)

LogUpto(log, q) == \A i \in DOMAIN log : log[i].entry.seq <= q
Issued == bounds.puts + 1
CurrentIssued == disk.current # 0 => UnderCurrent.last_sequence <= Issued
LogsIssued == \A n \in DOMAIN disk.logs : LogUpto(disk.logs[n], Issued)
RecoveryIssued == db.state = "recovering" => bg.max_sequence <= Issued
QueueIssued == vset.last_sequence + Len(writers) <= Issued
IssuedInv == CurrentIssued /\ LogsIssued /\ RecoveryIssued /\ QueueIssued

LEMMA NobodyWrites ==
  ASSUME FilesInv, QueueInv, db.state # "open"
  PROVE  writers = <<>> /\ Len(writers) = 0
<1>1. \A t \in Thread : th[t].pc = "idle"
  BY DEF FilesInv, NobodyYet
<1>2. writers \in Seq(Thread) /\ \A i \in DOMAIN writers : th[writers[i]].pc \in InQueue
  BY SequenceIs DEF QueueInv, QueueOf
<1>3. \A i \in DOMAIN writers : writers[i] \in Thread
  BY <1>2, SequenceIs
<1>4. ~(1 \in DOMAIN writers)
  BY <1>1, <1>2, <1>3 DEF InQueue, WriterPcs
<1>5. writers = <<>>
  BY <1>2, <1>4, SequenceIs
<1> QED
  BY <1>5

LEMMA QueueKnown ==
  ASSUME QueueInv
  PROVE  /\ writers \in Seq(Thread) /\ Len(writers) \in Nat /\ bounds.puts \in Nat
         /\ Issued \in Nat /\ Issued <= MaxPuts + 1 /\ bounds.puts <= MaxPuts
<1>1. writers \in Seq(Thread) /\ bounds.puts \in 0 .. MaxPuts
  BY DEF QueueInv, QueueOf
<1>2. MaxPuts \in Nat
  BY LevelDBAssumption
<1> QED
  BY <1>1, <1>2, SequenceIs DEF Issued

(* How the queue shrinks and grows. *)
LEMMA MakeRoomCounts ==
  ASSUME NEW t, NEW q \in Seq(Thread), q # <<>>, NEW T, NEW b \in Bounds, MakeRoomForWrite(t, q, T, b)
  PROVE  Len(writers') \in Nat /\ Len(writers') <= Len(q) /\ bounds'.puts = b.puts
<1>1. Len(q) \in Nat /\ Len(Tail(q)) \in Nat /\ Len(Tail(q)) <= Len(q)
  BY HeadTailProperties, SequenceIs
<1>2. writers' = q \/ writers' = Tail(q)
  BY DEF MakeRoomForWrite, Refused
<1>3. bounds' = b \/ bounds' = [b EXCEPT !.faults = @ + 1]
  BY DEF MakeRoomForWrite
<1>4. bounds'.puts = b.puts
  BY <1>3 DEF Bounds
<1> QED
  BY <1>1, <1>2, <1>4

LEMMA CallsCount ==
  ASSUME FilesInv, QueueInv, QueueInv', vset.last_sequence \in Nat, CallsMove
  PROVE  /\ vset'.last_sequence \in Nat /\ bounds'.puts \in Nat /\ bounds.puts <= bounds'.puts
         /\ QueueIssued => QueueIssued'
<1>1. PICK t \in Thread, k \in Key : Write(t, k) \/ Get(t, k) \/ ThreadStep(t)
  BY DEF CallsMove
<1>2. /\ writers \in Seq(Thread) /\ Len(writers) \in Nat /\ bounds.puts \in Nat /\ bounds \in Bounds
      /\ Len(writers') \in Nat /\ bounds'.puts \in Nat
  BY QueueKnown DEF QueueInv, Bounds
<1>3. vset'.last_sequence \in Nat
  BY <1>1, ThreadSequence
<1>4. ASSUME NEW q \in Seq(Thread), q # <<>>, NEW T, NEW b \in Bounds, MakeRoomForWrite(t, q, T, b),
             b.puts \in Nat, bounds.puts <= b.puts, Len(q) + bounds.puts <= Len(writers) + b.puts
      PROVE  bounds.puts <= bounds'.puts /\ (QueueIssued => QueueIssued')
  <2>1. vset'.last_sequence = vset.last_sequence
    BY <1>4, MakeRoomSequence
  <2>2. Len(writers') <= Len(q) /\ bounds'.puts = b.puts /\ Len(q) \in Nat
    BY <1>4, MakeRoomCounts, SequenceIs
  <2> QED
    BY <1>2, <1>4, <2>1, <2>2 DEF QueueIssued, Issued
<1>5. CASE Write(t, k)
  <2> DEFINE b == [bounds EXCEPT !.puts = @ + 1]
  <2>1. b \in Bounds /\ b.puts = bounds.puts + 1
    BY <1>2, <1>5, BoundsCount DEF Write, Bounds
  <2>2. CASE writers = <<>>
    <3> DEFINE q == <<t>>
    <3>1. PICK T : MakeRoomForWrite(t, q, T, b)
      BY <1>5, <2>2 DEF Write
    <3>2. q \in Seq(Thread) /\ q # <<>> /\ Len(q) = 1
      OBVIOUS
    <3> HIDE DEF b, q
    <3>3. b.puts \in Nat /\ bounds.puts <= b.puts /\ Len(q) + bounds.puts <= Len(writers) + b.puts
      BY <1>2, <2>1, <3>2
    <3>4. bounds.puts <= bounds'.puts /\ (QueueIssued => QueueIssued')
      BY <1>4, <2>1, <3>1, <3>2, <3>3
    <3> QED
      BY <1>2, <1>3, <3>4
  <2>3. CASE writers # <<>>
    <3>1. writers' = Append(writers, t) /\ bounds' = b /\ vset' = vset
      BY <1>5, <2>3 DEF Write
    <3>2. Len(writers') = Len(writers) + 1
      BY <1>2, <3>1
    <3> HIDE DEF b
    <3> QED
      BY <1>2, <1>3, <2>1, <3>1, <3>2 DEF QueueIssued, Issued
  <2> QED
    BY <2>2, <2>3
<1>6. CASE Resume(t)
  <2>1. MakeRoomForWrite(t, writers, th, bounds) /\ th[t].pc \in InQueue
    BY <1>6 DEF Resume, InQueue, WriterPcs
  <2>2. writers # <<>>
    BY <2>1 DEF QueueInv, QueueOf
  <2> QED
    BY <1>2, <1>3, <1>4, <2>1, <2>2
<1>7. CASE FinishWrite(t)
  <2> DEFINE n == th[t].group
  <2>1. /\ th[t].pc = "logged" /\ vset' = [vset EXCEPT !.last_sequence = @ + n] /\ bounds' = bounds
        /\ writers' = SubSeq(writers, n + 1, Len(writers))
    BY <1>7 DEF FinishWrite
  <2>2. n \in 1 .. Len(writers)
    BY <2>1 DEF QueueInv, QueueOf, CallOK
  <2>3. vset'.last_sequence = vset.last_sequence + n
    BY <2>1 DEF FilesInv, Shapes, VersionSetShape
  <2>4. Len(writers') = Len(writers) - n
    <3> HIDE DEF n
    <3> QED
      BY <1>2, <2>1, <2>2
  <2> HIDE DEF n
  <2> QED
    BY <1>2, <1>3, <2>1, <2>2, <2>3, <2>4 DEF QueueIssued, Issued
<1>8. CASE Get(t, k) \/ AddRecord(t) \/ Return(t) \/ GetReturns(t)
  <2>1. vset' = vset /\ writers' = writers /\ bounds' = bounds
    BY <1>8 DEF Get, AddRecord, Return, GetReturns
  <2> QED
    BY <1>2, <1>3, <2>1 DEF QueueIssued, Issued
<1>9. \/ Write(t, k) \/ Resume(t) \/ FinishWrite(t)
      \/ Get(t, k) \/ AddRecord(t) \/ Return(t) \/ GetReturns(t)
  BY <1>1 DEF ThreadStep
<1> QED
  BY ONLY <1>5, <1>6, <1>7, <1>8, <1>9

(* What a leader adds to the log of the memtable. *)
LEMMA AddRecordIs ==
  ASSUME FilesInv, QueueInv, NEW t \in Thread, AddRecord(t)
  PROVE  /\ th[t].pc = "logging" /\ db.state = "open" /\ db.mem \in DOMAIN disk.logs
         /\ th[t].sent \in Nat /\ th[t].group \in 1 .. Len(writers) /\ th[t].sent < th[t].group
         /\ \E type : disk'.logs = [disk.logs EXCEPT ![db.mem] =
              Append(@, [type |-> type, entry |-> GroupEntry(writers, th[t].sent + 1)])]
<1> DEFINE n == th[t].group
           i == th[t].sent + 1
           type == CASE n = 1 -> "full" [] n > 1 /\ i = 1 -> "first"
                     [] n > 1 /\ i = n -> "last" [] OTHER -> "middle"
           f == [type |-> type, entry |-> GroupEntry(writers, i)]
<1>1. disk' = [disk EXCEPT !.logs[db.mem] = Append(@, f)] /\ th[t].pc = "logging"
  BY DEF AddRecord
<1>2. CallOK(th[t], Len(writers)) /\ Len(writers) \in Nat
  BY DEF QueueInv, QueueOf
<1>3. th[t] \in Call
  <2>1. Idle.pc = "idle"
    BY IdleShape
  <2> QED
    BY <1>1, <1>2, <2>1 DEF CallOK
<1>4. Cardinality(Thread) \in Nat
  BY LevelDBAssumption, FS_CardinalityType
<1>5. th[t].sent \in 0 .. Cardinality(Thread)
  BY <1>3 DEF Call
<1>6. th[t].sent \in Nat
  BY <1>4, <1>5
<1>7. n \in 1 .. Len(writers) /\ th[t].sent < n
  BY <1>1, <1>2 DEF CallOK
<1>8. db.state = "open" /\ DiskShape
  BY <1>1 DEF FilesInv, NobodyYet, Shapes
<1>9. db.mem \in DOMAIN disk.logs
  BY <1>8 DEF FilesInv, ServingInv, LogsHeld
<1> HIDE DEF type
<1>10. disk'.logs = [disk.logs EXCEPT ![db.mem] = Append(@, f)]
  BY <1>1, <1>8 DEF DiskShape
<1> QED
  BY <1>1, <1>6, <1>7, <1>8, <1>9, <1>10

(* How the logs change. *)
LogsSince ==
  \A n \in DOMAIN disk'.logs :
    (n \in DOMAIN disk.logs /\ disk'.logs[n] = disk.logs[n]) \/ disk'.logs[n] = <<>>

LEMMA LogsMove ==
  ASSUME FilesInv, FilesInv', NumbersInv, LogsReadable, LogsStored, [LevelDBNext]_ldbVars
  PROVE  LogsSince \/ \E t \in Thread : AddRecord(t)
<1>1. DiskShape
  BY DEF FilesInv, Shapes
<1>2. ASSUME disk'.logs = disk.logs PROVE LogsSince
  BY <1>2 DEF LogsSince
<1>3. ASSUME NEW n, disk'.logs = WithFile(disk.logs, n, <<>>) PROVE LogsSince
  <2>1. /\ DOMAIN disk'.logs = DOMAIN disk.logs \cup {n} /\ disk'.logs[n] = <<>>
        /\ \A i \in DOMAIN disk.logs : i # n => disk'.logs[i] = disk.logs[i]
    BY ONLY <1>3 DEF WithFile
  <2> QED
    BY <2>1 DEF LogsSince
<1>4. ASSUME NEW S \in SUBSET doomed, disk' = Removed(S) PROVE LogsSince
  BY <1>4, RemovalFrame DEF LogsSince
<1>5. ASSUME NEW err, SwitchMemTable(err) PROVE LogsSince
  <2>1. disk' = [disk EXCEPT !.logs = WithFile(@, vset.next_file, <<>>)]
    BY <1>5 DEF SwitchMemTable
  <2>2. disk'.logs = WithFile(disk.logs, vset.next_file, <<>>)
    BY <1>1, <2>1 DEF DiskShape
  <2> QED
    BY <1>3, <2>2
<1>6. CASE CallsMove
  <2>1. ASSUME NEW t \in Thread, FinishWrite(t) \/ GetReturns(t) PROVE disk' = disk
    BY <2>1 DEF FinishWrite, GetReturns
  <2> QED
    BY <1>2, <1>5, <1>6, <2>1, CallsAre
<1>7. CASE Quiet \/ MemTableStarts \/ CompactionBegins \/ LogMemTable \/ InstallCompactionResults
  <2>1. disk' = disk
    BY <1>7 DEF Quiet, MemTableStarts, CompactionBegins, LogMemTable, InstallCompactionResults,
                BackgroundCall, BuildTableFails, ObsoleteFilesRemoved, CompactionFails
  <2> QED
    BY <1>2, <2>1
<1>8. CASE BuildTable \/ CompactEntry \/ WriteManifest \/ ManifestFails \/ Install
  <2>1. CASE BuildTable
    BY <1>1, <1>2, <2>1 DEF BuildTable, DiskShape
  <2>2. CASE CompactEntry
    BY <1>1, <1>2, <2>2 DEF CompactEntry, DiskShape
  <2>3. CASE WriteManifest \/ ManifestFails \/ Install
    BY <1>1, <1>2, <2>3 DEF WriteManifest, ManifestFails, Install, DiskShape
  <2> QED
    BY <1>8, <2>1, <2>2, <2>3
<1>9. CASE RemoveObsoleteFiles
  BY <1>4, <1>9 DEF RemoveObsoleteFiles
<1>10. CASE Recovered \/ RecoverLogFile \/ SetCurrentFile \/ OpenReturns
  <2>1. CASE Recovered
    BY <1>2, <2>1, RecoverFrame
  <2>2. CASE RecoverLogFile
    BY <1>2, <2>2, RecoverLogFrame
  <2>3. CASE SetCurrentFile \/ OpenReturns
    BY <1>1, <1>2, <2>3 DEF SetCurrentFile, OpenReturns, DiskShape
  <2> QED
    BY <1>10, <2>1, <2>2, <2>3
<1>11. CASE NewManifest
  BY <1>3, <1>11, NewManifestFrame
<1>12. CASE Crash
  BY <1>4, <1>12 DEF Crash
<1>13. CASE Aborted \/ UNCHANGED ldbVars
  BY <1>2, <1>13, AbortedFrame DEF ldbVars
<1> QED
  BY <1>6, <1>7, <1>8, <1>9, <1>10, <1>11, <1>12, <1>13, StepIs

LEMMA IssuedInit == LevelDBInit => IssuedInv
<1> SUFFICES ASSUME LevelDBInit PROVE IssuedInv
  OBVIOUS
<1>1. vset.last_sequence = 0 /\ writers = <<>> /\ db.state = "closed"
  BY DEF LevelDBInit, NewVersionSet, Closed
<1>2. CASE disk = NoDatabase /\ bounds = NothingYet
  <2>1. disk.current = 0 /\ DOMAIN disk.logs = {} /\ bounds.puts = 0
    BY <1>2 DEF NoDatabase, NothingYet
  <2> QED
    BY <1>1, <2>1 DEF IssuedInv, CurrentIssued, LogsIssued, RecoveryIssued, QueueIssued, Issued
<1>3. CASE disk = OldDatabase /\ bounds = [NothingYet EXCEPT !.puts = 1]
  <2> DEFINE f == [type |-> "full", entry |-> [seq |-> 2, key |-> Min(Key), val |-> 1]]
  <2>1. bounds.puts = 1 /\ UnderCurrent.last_sequence = 1
    BY <1>3, OldDatabaseIs DEF NothingYet
  <2>2. disk.logs = [i \in {7} |-> <<f>>]
    BY <1>3 DEF OldDatabase
  <2>3. f.entry.seq = 2
    OBVIOUS
  <2> HIDE DEF f
  <2>4. \A i \in DOMAIN <<f>> : <<f>>[i] = f
    OBVIOUS
  <2>5. LogUpto(<<f>>, Issued)
    BY <2>1, <2>3, <2>4 DEF LogUpto, Issued
  <2>6. LogsIssued
    BY <2>2, <2>5 DEF LogsIssued
  <2> QED
    BY <1>1, <2>1, <2>6 DEF IssuedInv, CurrentIssued, RecoveryIssued, QueueIssued, Issued
<1> QED
  BY <1>2, <1>3 DEF LevelDBInit

(* Nobody but Write counts calls of Put. *)
LEMMA PutsCounted ==
  ASSUME FilesInv, QueueInv, QueueInv', vset.last_sequence \in Nat, [LevelDBNext]_ldbVars
  PROVE  /\ bounds.puts <= bounds'.puts
         /\ CallsMove \/ (bounds'.puts = bounds.puts /\ (writers' = writers \/ Crash))
<1>1. bounds \in Bounds /\ bounds.puts \in Nat
  BY QueueKnown DEF QueueInv, Bounds
<1>2. ASSUME bounds'.puts = bounds.puts PROVE bounds.puts <= bounds'.puts
  BY <1>1, <1>2
<1>3. ASSUME NEW b \in {"faults", "crashes"}, Count(b) PROVE bounds'.puts = bounds.puts
  BY <1>1, <1>3 DEF Count, Bounds
<1>4. CASE CallsMove
  BY <1>4, CallsCount
<1>5. CASE BackgroundStep \/ OpenStep
  <2>1. bounds' = bounds /\ writers' = writers
    BY <1>5 DEF BackgroundStep, BackgroundCall, BuildTable, LogMemTable, CompactMemTableFirst, CompactEntry,
       InstallCompactionResults, WriteManifest, Install, RemoveObsoleteFiles, ObsoleteFilesRemoved,
       OpenStep, Recover, RecoverLogFile, NewManifest, SetCurrentFile, OpenReturns
  <2> QED
    BY <1>2, <2>1
<1>6. CASE BuildTableFails \/ CompactionFails \/ ManifestFails
  <2>1. Count("faults") /\ writers' = writers
    BY <1>6 DEF BuildTableFails, CompactionFails, ManifestFails
  <2> QED
    BY <1>2, <1>3, <2>1
<1>7. CASE Crash
  <2>1. Count("crashes")
    BY <1>7 DEF Crash
  <2> QED
    BY <1>2, <1>3, <1>7, <2>1
<1>8. CASE UNCHANGED ldbVars
  BY <1>2, <1>8 DEF ldbVars
<1>9. ASSUME NEW t \in Thread, NEW k \in Key, Write(t, k) \/ Get(t, k) PROVE CallsMove
  BY <1>9 DEF CallsMove
<1>10. ASSUME NEW t \in Thread, ThreadStep(t) PROVE CallsMove
  BY <1>10, LevelDBAssumption DEF CallsMove
<1> QED
  BY <1>4, <1>5, <1>6, <1>7, <1>8, <1>9, <1>10 DEF LevelDBNext

LEMMA LogsIssuedNext ==
  ASSUME FilesInv, FilesInv', NumbersInv, LogsReadable, QueueInv, QueueInv', RecordsInv, IssuedInv,
         [LevelDBNext]_ldbVars
  PROVE  LogsIssued'
<1>1. /\ vset.last_sequence \in Nat /\ Len(writers) \in Nat /\ Issued \in Nat /\ Issued' \in Nat
      /\ bounds.puts \in Nat /\ bounds'.puts \in Nat
  BY QueueKnown DEF RecordsInv, SequencesKnown, QueueInv, Issued
<1>2. bounds.puts <= bounds'.puts
  BY <1>1, PutsCounted
<1>3. Issued <= Issued'
  BY <1>1, <1>2 DEF Issued
<1>4. ASSUME NEW log, EntriesOfLog(log), LogUpto(log, Issued) PROVE LogUpto(log, Issued')
  <2> SUFFICES ASSUME NEW i \in DOMAIN log PROVE log[i].entry.seq <= Issued'
    BY DEF LogUpto
  <2>1. log[i].entry.seq \in Nat /\ log[i].entry.seq <= Issued
    BY <1>4 DEF LogUpto, EntriesOfLog, Entry
  <2> QED
    BY <1>1, <1>3, <2>1
<1>5. \A n \in DOMAIN disk.logs : LogUpto(disk.logs[n], Issued')
  BY <1>4 DEF IssuedInv, LogsIssued, RecordsInv, LogsStored
<1>6. CASE LogsSince
  <2>1. LogUpto(<<>>, Issued')
    BY DEF LogUpto
  <2> QED
    BY <1>5, <1>6, <2>1 DEF LogsSince, LogsIssued
<1>7. ASSUME NEW t \in Thread, AddRecord(t) PROVE LogsIssued'
  <2>1. PICK type : disk'.logs = [disk.logs EXCEPT ![db.mem] =
              Append(@, [type |-> type, entry |-> GroupEntry(writers, th[t].sent + 1)])]
    BY <1>7, AddRecordIs
  <2> DEFINE f == [type |-> type, entry |-> GroupEntry(writers, th[t].sent + 1)]
             log == disk.logs[db.mem]
  <2>2. th[t].sent \in Nat /\ th[t].group \in 1 .. Len(writers) /\ th[t].sent < th[t].group
        /\ db.mem \in DOMAIN disk.logs
    BY <1>7, AddRecordIs
  <2>3. f.entry.seq = vset.last_sequence + (th[t].sent + 1)
    BY DEF GroupEntry
  <2>4. disk'.logs = [disk.logs EXCEPT ![db.mem] = Append(log, f)]
    BY <2>1
  <2>5. IsLog(log) /\ LogUpto(log, Issued')
    BY <1>5, <2>2 DEF LogsReadable
  <2> HIDE DEF f, log
  <2>6. f.entry.seq <= Issued
    <3>1. vset.last_sequence + Len(writers) <= Issued
      BY DEF IssuedInv, QueueIssued
    <3> QED
      BY <1>1, <2>2, <2>3, <3>1
  <2>7. f.entry.seq <= Issued' /\ f.entry.seq \in Nat
    BY <1>1, <1>3, <2>2, <2>3, <2>6
  <2>8. PICK A : log \in Seq(A)
    BY <2>5 DEF IsLog, IsSequence
  <2>9. log \in Seq(A \cup {f})
    BY <2>8
  <2>10. ASSUME NEW j \in DOMAIN Append(log, f)
         PROVE  (j \in DOMAIN log /\ Append(log, f)[j] = log[j]) \/ Append(log, f)[j] = f
    BY <2>9
  <2>11. LogUpto(Append(log, f), Issued')
    BY <2>5, <2>7, <2>10 DEF LogUpto
  <2> QED
    BY <1>5, <2>4, <2>11 DEF LogsIssued
<1> QED
  BY <1>6, <1>7, LogsMove DEF RecordsInv

(* While the store is open the queue says it all. *)
LEMMA IssuedOpen ==
  ASSUME RecordsInv', SequenceInv', QueueInv', db'.state = "open", QueueIssued'
  PROVE  CurrentIssued' /\ RecoveryIssued'
<1>1. /\ vset'.last_sequence \in Nat /\ (disk'.current # 0 => UnderCurrent'.last_sequence \in Nat)
      /\ UnderCurrent'.last_sequence <= vset'.last_sequence
  BY DEF RecordsInv, SequencesKnown, SequenceInv, RecordUpto
<1>2. writers' \in Seq(Thread) /\ bounds'.puts \in 0 .. MaxPuts
  BY DEF QueueInv, QueueOf
<1>3. Len(writers') \in Nat /\ Issued' \in Nat
  BY <1>2, LevelDBAssumption, SequenceIs DEF Issued
<1>4. vset'.last_sequence + Len(writers') <= Issued'
  BY DEF QueueIssued
<1>5. disk'.current # 0 => UnderCurrent'.last_sequence <= Issued'
  BY <1>1, <1>3, <1>4
<1> QED
  BY <1>5 DEF CurrentIssued, RecoveryIssued

LEMMA GreatestBelow ==
  ASSUME NEW q \in Nat, NEW S \in SUBSET (0 .. q), NEW r \in S
  PROVE  Max(S) \in S /\ Max(S) <= q
<1>1. IsFiniteSet(0 .. q)
  BY FS_Interval
<1>2. IsFiniteSet(S)
  BY <1>1, FS_Subset
<1>3. S \in SUBSET Nat /\ S # {}
  OBVIOUS
<1>4. Max(S) \in S
  BY <1>2, <1>3, GreatestOf
<1>5. \A x \in S : x <= q
  OBVIOUS
<1> QED
  BY ONLY <1>4, <1>5

(* The tables of a log hold what the log holds. *)
LEMMA RecoveredUpto ==
  ASSUME NEW log, IsLog(log), EntriesOfLog(log), NEW q \in Nat, NEW r \in Nat, r <= q, LogUpto(log, q)
  PROVE  Max({r} \cup {e.seq : e \in UNION Range(TablesOfLog(log))}) <= q
<1> DEFINE E == {e \in Entry : e.seq <= q}
           full == TablesOfLog(log)
           S == {r} \cup {e.seq : e \in UNION Range(full)}
<1>1. \A i \in DOMAIN log : log[i].entry \in E
  BY DEF EntriesOfLog, LogUpto
<1> HIDE DEF E
<1>2. full \in Seq(SUBSET E)
  BY <1>1, TablesOfLogOf
<1> HIDE DEF full
<1>3. \A i \in DOMAIN full : full[i] \in SUBSET E
  BY <1>2, SequenceIs
<1>4. \A e \in UNION Range(full) : e \in E
  BY <1>3 DEF Range
<1>5. \A e \in E : e.seq \in Nat /\ e.seq <= q
  BY DEF E, Entry
<1>6. S \in SUBSET (0 .. q)
  BY <1>4, <1>5
<1>7. r \in S
  OBVIOUS
<1> HIDE DEF S
<1>8. Max(S) <= q
  BY <1>6, <1>7, GreatestBelow
<1> QED
  BY <1>8 DEF S, full

LEMMA IssuedOpening ==
  ASSUME FilesInv, FilesInv', NumbersInv, LogsReadable, QueueInv, RecordsInv, RecordsInv', IssuedInv,
         bounds'.puts = bounds.puts, writers' = writers,
         Recovered \/ RecoverLogFile \/ NewManifest \/ SetCurrentFile \/ OpenReturns
  PROVE  CurrentIssued' /\ RecoveryIssued' /\ QueueIssued'
<1>1. Issued' = Issued /\ Issued \in Nat /\ bounds.puts \in Nat
  BY QueueKnown DEF Issued
<1>2. Len(writers) = 0 /\ Len(writers') = 0
  <2>1. db.state # "open"
    BY DEF Recovered, Recover, RecoverLogFile, NewManifest, SetCurrentFile, OpenReturns
  <2> QED
    BY <2>1, NobodyWrites
<1>3. vset.last_sequence \in Nat /\ vset'.last_sequence \in Nat
  BY DEF RecordsInv, SequencesKnown
<1>4. vset.last_sequence <= Issued
  BY <1>1, <1>2, <1>3 DEF IssuedInv, QueueIssued
<1>5. ASSUME vset'.last_sequence <= Issued PROVE QueueIssued'
  <2>1. vset'.last_sequence + Len(writers') <= Issued'
    BY <1>1, <1>2, <1>3, <1>5
  <2> QED
    BY <2>1 DEF QueueIssued
<1>6. CASE Recovered
  <2>1. /\ vset'.last_sequence = UnderCurrent'.last_sequence /\ bg'.max_sequence = 0
        /\ \/ disk.current # 0 /\ UnderCurrent' = UnderCurrent
           \/ UnderCurrent' = [files |-> NoFiles, log_number |-> 0, next_file |-> 2, last_sequence |-> 0]
    BY <1>6, RecoverFrame
  <2>2. UnderCurrent'.last_sequence <= Issued
    <3>1. CASE disk.current # 0 /\ UnderCurrent' = UnderCurrent
      BY <3>1 DEF IssuedInv, CurrentIssued
    <3>2. CASE UnderCurrent' = [files |-> NoFiles, log_number |-> 0, next_file |-> 2, last_sequence |-> 0]
      BY <1>1, <3>2
    <3> QED
      BY <2>1, <3>1, <3>2
  <2>3. CurrentIssued' /\ RecoveryIssued'
    BY <1>1, <2>1, <2>2 DEF CurrentIssued, RecoveryIssued
  <2> QED
    BY <1>5, <2>1, <2>2, <2>3
<1>7. CASE RecoverLogFile
  <2>1. /\ db.state = "recovering" /\ UnderCurrent' = UnderCurrent /\ disk'.current = disk.current
        /\ LogRead \in DOMAIN disk.logs /\ vset'.last_sequence = vset.last_sequence
        /\ bg'.max_sequence = Max({bg.max_sequence} \cup {e.seq : e \in UNION Range(TablesRead)})
    BY <1>7, RecoverLogFrame DEF RecordsInv
  <2> DEFINE log == disk.logs[LogRead]
  <2>2. IsLog(log) /\ EntriesOfLog(log) /\ LogUpto(log, Issued)
    BY <2>1 DEF LogsReadable, RecordsInv, LogsStored, IssuedInv, LogsIssued
  <2>3. bg.max_sequence \in Nat /\ bg.max_sequence <= Issued
    BY <2>1 DEF RecordsInv, SequencesKnown, IssuedInv, RecoveryIssued
  <2> HIDE DEF log
  <2>4. bg'.max_sequence <= Issued
    <3>1. Max({bg.max_sequence} \cup {e.seq : e \in UNION Range(TablesOfLog(log))}) <= Issued
      BY <1>1, <2>2, <2>3, RecoveredUpto
    <3> QED
      BY <2>1, <3>1 DEF log, TablesRead
  <2>5. CurrentIssued' /\ RecoveryIssued'
    BY <1>1, <2>1, <2>4 DEF IssuedInv, CurrentIssued, RecoveryIssued
  <2> QED
    BY <1>4, <1>5, <2>1, <2>5
<1>8. CASE NewManifest
  <2>1. /\ db.state = "recovering" /\ db'.state = "opening" /\ UnderCurrent' = UnderCurrent
        /\ disk'.current = disk.current
        /\ vset'.last_sequence = Max({vset.last_sequence, bg.max_sequence})
    BY <1>8, NewManifestIs
  <2>2. bg.max_sequence \in Nat /\ bg.max_sequence <= Issued
    BY <2>1 DEF RecordsInv, SequencesKnown, IssuedInv, RecoveryIssued
  <2>3. Max({vset.last_sequence, bg.max_sequence}) \in {vset.last_sequence, bg.max_sequence}
    <3> DEFINE S == {vset.last_sequence, bg.max_sequence}
    <3>0. S \in SUBSET (0 .. Issued) /\ vset.last_sequence \in S
      BY <1>1, <1>3, <1>4, <2>2
    <3> HIDE DEF S
    <3>2. Max(S) \in S
      BY <1>1, <3>0, GreatestBelow
    <3> QED
      BY <3>2 DEF S
  <2>4. vset'.last_sequence <= Issued
    BY <1>4, <2>1, <2>2, <2>3
  <2>5. CurrentIssued' /\ RecoveryIssued'
    BY <1>1, <2>1 DEF IssuedInv, CurrentIssued, RecoveryIssued
  <2> QED
    BY <1>5, <2>4, <2>5
<1>9. CASE SetCurrentFile
  <2>1. /\ db.state = "opening" /\ UnderCurrent' = disk.manifests[vset.manifest] /\ UNCHANGED <<db, vset>>
    BY <1>9, SetCurrentFileIs
  <2>2. UnderCurrent'.last_sequence = vset.last_sequence
    BY <2>1 DEF RecordsInv, SequencesKnown
  <2> QED
    BY <1>1, <1>4, <1>5, <2>1, <2>2 DEF CurrentIssued, RecoveryIssued
<1>10. CASE OpenReturns
  <2>1. db'.state = "open" /\ vset' = vset /\ UnderCurrent' = UnderCurrent /\ disk' = disk
    BY <1>10, OpenReturnsIs
  <2> QED
    BY <1>1, <1>4, <1>5, <2>1 DEF IssuedInv, CurrentIssued, RecoveryIssued
<1> QED
  BY <1>6, <1>7, <1>8, <1>9, <1>10

LEMMA IssuedNext ==
  ASSUME FilesInv, FilesInv', NumbersInv, LogsReadable, QueueInv, QueueInv', RecordsInv, RecordsInv',
         SequenceInv', IssuedInv, [LevelDBNext]_ldbVars
  PROVE  IssuedInv'
<1>1. LogsIssued'
  BY LogsIssuedNext
<1>2. vset.last_sequence \in Nat /\ vset'.last_sequence \in Nat /\ Issued \in Nat
  BY QueueKnown DEF RecordsInv, SequencesKnown
<1>3. CASE CallsMove
  <2>1. QueueIssued' /\ db'.state = "open"
    BY <1>2, <1>3, CallsCount, CallsMoveIs DEF IssuedInv
  <2>2. CurrentIssued' /\ RecoveryIssued'
    BY <2>1, IssuedOpen
  <2> QED
    BY <1>1, <2>1, <2>2 DEF IssuedInv
<1>4. CASE ~CallsMove
  <2>1. bounds'.puts = bounds.puts /\ (writers' = writers \/ Crash)
    BY <1>2, <1>4, PutsCounted
  <2>2. Issued' = Issued
    BY <2>1 DEF Issued
  <2>3. CASE Recovered \/ RecoverLogFile \/ NewManifest \/ SetCurrentFile \/ OpenReturns
    <3>1. writers' = writers
      BY <2>3 DEF Recovered, Recover, RecoverLogFile, NewManifest, SetCurrentFile, OpenReturns
    <3> QED
      BY <1>1, <2>1, <2>3, <3>1, IssuedOpening DEF IssuedInv
  <2>11. CASE Aborted
    <3>1. /\ db'.state = "aborted" /\ UnderCurrent' = UnderCurrent /\ UNCHANGED <<disk, vset, writers>>
      BY <2>11, AbortedFrame
    <3> QED
      BY <1>1, <2>2, <3>1 DEF IssuedInv, CurrentIssued, RecoveryIssued, QueueIssued
  <2>4. CASE Crash
    <3>1. /\ disk'.current = disk.current /\ db'.state = "closed" /\ vset'.last_sequence = 0
          /\ disk.current # 0 => UnderCurrent' = UnderCurrent
      BY <2>4, CrashIs
    <3>2. writers' = <<>>
      BY <2>4 DEF Crash
    <3>3. CurrentIssued' /\ RecoveryIssued'
      BY <2>2, <3>1 DEF IssuedInv, CurrentIssued, RecoveryIssued
    <3>4. vset'.last_sequence + Len(writers') <= Issued'
      BY <1>2, <2>2, <3>1, <3>2
    <3> QED
      BY <1>1, <3>3, <3>4 DEF IssuedInv, QueueIssued
  <2>5. ASSUME vset'.last_sequence = vset.last_sequence, writers' = writers,
               \/ disk'.current = disk.current /\ UnderCurrent' = UnderCurrent /\ db' = db /\ bg' = bg
               \/ db'.state = "open"
        PROVE  IssuedInv'
    <3>1. QueueIssued'
      BY <2>2, <2>5 DEF IssuedInv, QueueIssued
    <3>2. CurrentIssued' /\ RecoveryIssued'
      <4>1. CASE db'.state = "open"
        BY <3>1, <4>1, IssuedOpen
      <4>2. CASE disk'.current = disk.current /\ UnderCurrent' = UnderCurrent /\ db' = db /\ bg' = bg
        BY <2>2, <4>2 DEF IssuedInv, CurrentIssued, RecoveryIssued
      <4> QED
        BY <2>5, <4>1, <4>2
    <3> QED
      BY <1>1, <3>1, <3>2 DEF IssuedInv
  <2>6. CASE RemoveObsoleteFiles
    BY <2>5, <2>6, RemoveObsoleteFilesIs DEF RemoveObsoleteFiles
  <2>7. CASE (BackgroundStep /\ ~RemoveObsoleteFiles) \/ BuildTableFails \/ CompactionFails \/ ManifestFails
    <3>1. vset'.last_sequence = vset.last_sequence /\ db'.state = db.state
      BY <2>7, BackgroundSame
    <3>2. writers' = writers
      BY <2>7 DEF BackgroundStep, BackgroundCall, BuildTable, LogMemTable, CompactMemTableFirst, CompactEntry,
         InstallCompactionResults, WriteManifest, Install, RemoveObsoleteFiles, ObsoleteFilesRemoved,
         BuildTableFails, CompactionFails, ManifestFails
    <3>3. bg.pc \notin {"idle", "open"}
      BY <2>7 DEF BackgroundStep, BackgroundCall, BuildTable, LogMemTable, CompactMemTableFirst, CompactEntry,
         InstallCompactionResults, WriteManifest, Install, ObsoleteFilesRemoved,
         BuildTableFails, CompactionFails, ManifestFails
    <3>4. db.state = "open"
      BY <3>3 DEF FilesInv, NobodyYet
    <3> QED
      BY <2>5, <3>1, <3>2, <3>4
  <2>8. CASE UNCHANGED ldbVars
    BY <2>5, <2>8 DEF ldbVars, UnderCurrent
  <2>9. ASSUME NEW t \in Thread, NEW k \in Key, Write(t, k) \/ Get(t, k) PROVE FALSE
    BY <1>4, <2>9 DEF CallsMove
  <2>10. ASSUME NEW t \in Thread, ThreadStep(t) PROVE FALSE
    BY <1>4, <2>10, LevelDBAssumption DEF CallsMove
  <2> QED
    BY <2>3, <2>4, <2>6, <2>7, <2>8, <2>9, <2>10, <2>11, RecoverCases DEF LevelDBNext, OpenStep
<1> QED
  BY <1>3, <1>4

-----------------------------------------------------------------------------
(* What a Get finds in memtables with entries a and b and in the tables T  *)
(* of version v.                                                           *)
TableSource(T, v, r) == <<r, IF r > 0 THEN T[r] ELSE UNION {T[n] : n \in v[0 - r]}>>
TableSources(T, v) == {TableSource(T, v, r) : r \in VersionRanks(v)}
Top(v) == Max({0} \cup v[0])
Found(a, b, T, k, s, v) ==
  Search(k, s, {<<Top(v) + 2, a>>, <<Top(v) + 1, b>>} \cup TableSources(T, v))
ImmOf(M, i) == IF i = 0 THEN {} ELSE M[i]

(* The entries a search sees, and the one it returns: the newest of the    *)
(* highest rank.                                                           *)
Visible(k, s, x) == {f \in x : f.key = k /\ f.seq <= s}
SeenOf(k, s, x) == {[rank |-> x[1], seq |-> e.seq, val |-> e.val] : e \in Visible(k, s, x[2])}
Newest(seen) ==
  LET first == {c \in seen : \A d \in seen : d.rank < c.rank \/ (d.rank = c.rank /\ d.seq <= c.seq)}
  IN  IF seen = {} THEN NoValue ELSE (CHOOSE c \in first : TRUE).val
SeenBy(a, b, T, k, s, v) ==
  SeenOf(k, s, <<Top(v) + 2, a>>) \cup SeenOf(k, s, <<Top(v) + 1, b>>)
    \cup UNION {SeenOf(k, s, x) : x \in TableSources(T, v)}

LEMMA LookupIs ==
  ASSUME NEW k, NEW s, NEW m, NEW i, NEW v
  PROVE  Lookup(k, s, m, i, v) = Found(mems[m], ImmOf(mems, i), disk.tables, k, s, v)
<1> DEFINE S == {VersionSource(v, r) : r \in VersionRanks(v)}
<1>1. S = TableSources(disk.tables, v)
  BY DEF VersionSource, TableSource, TableSources
<1>2. Lookup(k, s, m, i, v) = Search(k, s, {<<Top(v) + 2, mems[m]>>, <<Top(v) + 1, ImmOf(mems, i)>>} \cup S)
  BY DEF Lookup, Top, ImmOf
<1> HIDE DEF S
<1> QED
  BY <1>1, <1>2 DEF Found

LEMMA FoundIs ==
  ASSUME NEW a, NEW b, NEW T, NEW k, NEW s, NEW v
  PROVE  Found(a, b, T, k, s, v) = Newest(SeenBy(a, b, T, k, s, v))
<1> DEFINE x == <<Top(v) + 2, a>>
           y == <<Top(v) + 1, b>>
           S == TableSources(T, v)
           A == {x, y} \cup S
<1>1. Found(a, b, T, k, s, v) = Search(k, s, A)
  BY DEF Found
<1>2. SeenBy(a, b, T, k, s, v) = SeenOf(k, s, x) \cup SeenOf(k, s, y) \cup UNION {SeenOf(k, s, z) : z \in S}
  BY DEF SeenBy
<1>3. Search(k, s, A) = Newest(UNION {SeenOf(k, s, z) : z \in A})
  BY Zenon DEF Search, Newest, SeenOf, Visible
<1> HIDE DEF x, y, S
<1>4. UNION {SeenOf(k, s, z) : z \in A} = SeenOf(k, s, x) \cup SeenOf(k, s, y) \cup UNION {SeenOf(k, s, z) : z \in S}
  OBVIOUS
<1> HIDE DEF A
<1> QED
  BY <1>1, <1>2, <1>3, <1>4

(* Only the files of the version and what is visible in the memtables      *)
(* count.                                                                  *)
LEMMA FoundSame ==
  ASSUME NEW T, NEW U, NEW k, NEW s, NEW v, NEW R, NEW n, Held(R, v, n),
         \A f \in FilesOf(v) : U[f] = T[f],
         NEW a, NEW b, NEW x, NEW y,
         Visible(k, s, x) = Visible(k, s, a), Visible(k, s, y) = Visible(k, s, b)
  PROVE  Found(x, y, U, k, s, v) = Found(a, b, T, k, s, v)
<1>1. 0 \in Level /\ Level \subseteq Nat
  BY LevelDBAssumption DEF Level
<1>2. ASSUME NEW r \in VersionRanks(v)
      PROVE  TableSource(U, v, r) = TableSource(T, v, r)
  <2>1. r \in v[0] \/ \E l \in Level \ {0} : r = 0 - l
    BY DEF VersionRanks
  <2>2. r \in v[0] => r \in FilesOf(v)
    BY <1>1, FilesOfIs
  <2>3. r \in Int /\ (r > 0 => r \in FilesOf(v)) /\ (~(r > 0) => 0 - r \in Level)
    <3>1. CASE r \in v[0]
      <4>1. r \in Nat
        BY <2>2, <3>1 DEF Held
      <4>2. ~(r > 0) => 0 - r = 0
        BY <4>1
      <4> QED
        BY <1>1, <2>2, <3>1, <4>1, <4>2
    <3>2. CASE \E l \in Level \ {0} : r = 0 - l
      <4>1. PICK l \in Level \ {0} : r = 0 - l
        BY <3>2
      <4>2. l \in Nat /\ l # 0
        BY <1>1, <4>1
      <4>3. r \in Int /\ ~(r > 0) /\ 0 - r = l
        BY <4>1, <4>2
      <4> QED
        BY <4>1, <4>3
    <3> QED
      BY <2>1, <3>1, <3>2
  <2>4. CASE r > 0
    BY <2>3, <2>4 DEF TableSource
  <2>5. CASE ~(r > 0)
    <3>1. \A f \in v[0 - r] : U[f] = T[f]
      BY <2>3, <2>5, FilesOfIs
    <3>2. {U[f] : f \in v[0 - r]} = {T[f] : f \in v[0 - r]}
      BY <3>1
    <3> QED
      BY <2>5, <3>2 DEF TableSource
  <2> QED
    BY <2>4, <2>5
<1>3. TableSources(U, v) = TableSources(T, v)
  BY <1>2 DEF TableSources
<1>4. \A r : SeenOf(k, s, <<r, x>>) = SeenOf(k, s, <<r, a>>) /\ SeenOf(k, s, <<r, y>>) = SeenOf(k, s, <<r, b>>)
  BY DEF SeenOf
<1>5. SeenBy(x, y, U, k, s, v) = SeenBy(a, b, T, k, s, v)
  BY <1>3, <1>4 DEF SeenBy
<1> QED
  BY <1>5, FoundIs

RankedUpto(c, n, s) ==
  c.rank \in Int /\ c.rank <= n /\ c.seq \in Nat /\ c.seq <= s
Beats(c, d) == d.rank < c.rank \/ (d.rank = c.rank /\ d.seq <= c.seq)

LEMMA NewestIs ==
  ASSUME NEW seen, seen # {}, NEW n \in Nat, NEW s \in Nat, \A c \in seen : RankedUpto(c, n, s)
  PROVE  \E c \in seen : (\A d \in seen : Beats(c, d)) /\ Newest(seen) = c.val
<1> DEFINE R == {n - c.rank : c \in seen}
<1>1. R \in SUBSET Nat /\ R # {}
  BY DEF RankedUpto
<1>2. PICK m \in R : \A y \in R : m <= y
  BY <1>1, LeastNumber
<1>3. PICK a \in seen : m = n - a.rank
  BY <1>2
<1>4. \A d \in seen : d.rank <= a.rank
  <2> SUFFICES ASSUME NEW d \in seen PROVE d.rank <= a.rank
    OBVIOUS
  <2>1. n - d.rank \in R
    OBVIOUS
  <2>2. n - a.rank <= n - d.rank
    BY <1>2, <1>3, <2>1
  <2> QED
    BY <2>2 DEF RankedUpto
<1> DEFINE top == {c \in seen : c.rank = a.rank}
           Q == {s - c.seq : c \in top}
<1>5. a \in top /\ Q \in SUBSET Nat /\ Q # {}
  BY DEF RankedUpto
<1>6. PICK q \in Q : \A y \in Q : q <= y
  BY <1>5, LeastNumber
<1>7. PICK b \in top : q = s - b.seq
  BY <1>6
<1>8. \A d \in top : d.seq <= b.seq
  <2> SUFFICES ASSUME NEW d \in top PROVE d.seq <= b.seq
    OBVIOUS
  <2>1. s - d.seq \in Q
    OBVIOUS
  <2>2. s - b.seq <= s - d.seq
    BY <1>6, <1>7, <2>1
  <2> QED
    BY <2>2 DEF RankedUpto
<1>9. b \in seen /\ b.rank = a.rank
  BY <1>7
<1>10. ASSUME NEW d \in seen PROVE Beats(b, d)
  <2>1. d.rank \in Int /\ a.rank \in Int /\ d.rank <= a.rank
    BY <1>4 DEF RankedUpto
  <2>2. CASE d.rank = a.rank
    BY <1>8, <1>9, <2>2 DEF Beats
  <2>3. CASE d.rank # a.rank
    BY <1>9, <2>1, <2>3 DEF Beats
  <2> QED
    BY <2>2, <2>3
<1> DEFINE first == {c \in seen : \A d \in seen : Beats(c, d)}
<1>11. b \in first
  BY <1>9, <1>10
<1>12. Newest(seen) = (CHOOSE c \in first : TRUE).val
  BY DEF Newest, Beats
<1>13. (CHOOSE c \in first : TRUE) \in first
  BY <1>11
<1> QED
  BY <1>12, <1>13

LEMMA TopIs ==
  ASSUME NEW S, NEW v, NEW n \in Nat, Held(S, v, n)
  PROVE  Top(v) \in Nat /\ Top(v) <= n
<1> DEFINE A == {0} \cup v[0]
           B == {n - y : y \in A}
<1>1. \A f \in v[0] : f \in Nat /\ f < n
  BY LevelIs, FilesOfIs DEF Held
<1>2. A \in SUBSET Nat /\ \A y \in A : y <= n
  BY <1>1
<1>3. B \in SUBSET Nat /\ B # {}
  BY <1>2
<1>4. PICK m \in B : \A y \in B : m <= y
  BY <1>3, LeastNumber
<1>5. PICK a \in A : m = n - a
  BY <1>4
<1>6. \A y \in A : y <= a
  <2> SUFFICES ASSUME NEW y \in A PROVE y <= a
    OBVIOUS
  <2>1. n - y \in B
    OBVIOUS
  <2>2. n - a <= n - y /\ a \in Nat /\ y \in Nat
    BY <1>2, <1>4, <1>5, <2>1
  <2> QED
    BY <2>2
<1> HIDE DEF A, B
<1>7. Max(A) = a
  BY <1>2, <1>6, MaxIs
<1> QED
  BY <1>2, <1>7 DEF A, Top

(* What a Get finds for a key is a value that was put. *)
LEMMA FoundValue ==
  ASSUME NEW T, NEW S, NEW k, NEW s \in Nat, NEW v, FilesTyped(v), NEW n \in Nat, Held(S, v, n),
         \A f \in FilesOf(v) : T[f] \in TableSets, NEW a \in SUBSET Entry, NEW b \in SUBSET Entry
  PROVE  Found(a, b, T, k, s, v) \in (0 .. MaxPuts) \cup {NoValue}
<1> DEFINE seen == SeenBy(a, b, T, k, s, v)
           Good(c) == RankedUpto(c, n + 2, s) /\ c.val \in 0 .. MaxPuts
<1>1. Found(a, b, T, k, s, v) = Newest(seen)
  BY FoundIs
<1>2. ASSUME NEW r \in Int, r <= n + 2, NEW x \in SUBSET Entry, NEW c \in SeenOf(k, s, <<r, x>>)
      PROVE  Good(c)
  <2>1. PICK e \in x : e.seq <= s /\ c = [rank |-> r, seq |-> e.seq, val |-> e.val]
    BY <1>2 DEF SeenOf, Visible
  <2>2. e.seq \in Nat /\ e.val \in 0 .. MaxPuts
    BY <1>2, <2>1 DEF Entry
  <2> QED
    BY <1>2, <2>1, <2>2 DEF RankedUpto
<1>3. ASSUME NEW r \in VersionRanks(v), NEW c \in SeenOf(k, s, TableSource(T, v, r)) PROVE Good(c)
  <2> DEFINE x == IF r > 0 THEN T[r] ELSE UNION {T[m] : m \in v[0 - r]}
  <2>1. TableSource(T, v, r) = <<r, x>>
    BY DEF TableSource
  <2>2. r \in Int /\ r <= n /\ x \in SUBSET Entry
    <3>1. CASE r \in v[0]
      <4>1. r \in FilesOf(v) /\ r \in Nat \ {0}
        BY <3>1, LevelIs, FilesOfIs DEF FilesTyped
      <4>2. r \in Nat /\ r > 0 /\ r < n /\ T[r] \in TableSets
        BY <4>1 DEF Held
      <4> QED
        BY <4>2 DEF TableSets, EntrySets
    <3>2. CASE r \notin v[0]
      <4>1. PICK l \in Level \ {0} : r = 0 - l
        BY <1>3, <3>2 DEF VersionRanks
      <4>2. l \in Nat /\ l # 0
        BY <4>1, LevelIs
      <4>3. r \in Int /\ ~(r > 0) /\ r <= n /\ 0 - r = l
        BY <4>1, <4>2
      <4>4. \A m \in v[l] : m \in FilesOf(v)
        BY <4>1, FilesOfIs
      <4>5. \A m \in v[l] : T[m] \subseteq Entry
        BY <4>4 DEF TableSets, EntrySets
      <4>6. x = UNION {T[m] : m \in v[l]}
        BY <4>3
      <4> QED
        BY <4>3, <4>5, <4>6
    <3> QED
      BY <3>1, <3>2
  <2> HIDE DEF x, Good
  <2>3. r <= n + 2
    BY <2>2
  <2> QED
    BY <1>2, <1>3, <2>1, <2>2, <2>3
<1>4. ASSUME NEW c \in seen PROVE Good(c)
  <2>1. Top(v) + 2 \in Int /\ Top(v) + 2 <= n + 2 /\ Top(v) + 1 \in Int /\ Top(v) + 1 <= n + 2
    BY TopIs
  <2> HIDE DEF Good
  <2>2. \/ c \in SeenOf(k, s, <<Top(v) + 2, a>>) \/ c \in SeenOf(k, s, <<Top(v) + 1, b>>)
        \/ \E r \in VersionRanks(v) : c \in SeenOf(k, s, TableSource(T, v, r))
    BY <1>4 DEF SeenBy, TableSources
  <2> QED
    BY <1>2, <1>3, <2>1, <2>2
<1> HIDE DEF seen
<1>5. CASE seen = {}
  BY <1>1, <1>5 DEF Newest
<1>6. CASE seen # {}
  <2>1. \E c \in seen : Newest(seen) = c.val
    BY <1>4, <1>6, NewestIs
  <2> QED
    BY <1>1, <1>4, <2>1
<1> QED
  BY <1>5, <1>6

-----------------------------------------------------------------------------
(* The calls of Get. *)
ReadCall == [pc : {"reading"}, key : Key, snapshot : 0 .. MaxPuts + 1, mem : Nat, imm : Nat,
             files : [Level -> SUBSET Nat], seen : (0 .. MaxPuts) \cup {NoValue}]
ReadsTyped == \A t \in Thread : th[t].pc = "reading" => th[t] \in ReadCall

LEMMA GetTyped ==
  ASSUME FilesInv, NumbersInv, QueueInv, RecordsInv, IssuedInv, ReadsTyped, NEW t \in Thread,
         NEW k \in Key, Get(t, k)
  PROVE  ReadsTyped'
<1> DEFINE seen == Lookup(k, vset.last_sequence, db.mem, db.imm, vset.files)
           r == [pc |-> "reading", key |-> k, snapshot |-> vset.last_sequence,
                 mem |-> db.mem, imm |-> db.imm, files |-> vset.files, seen |-> seen]
<1>1. db.state = "open" /\ th' = [th EXCEPT ![t] = r]
  BY DEF Get
<1>2. /\ DOMAIN th = Thread /\ db.mem \in Nat /\ db.imm \in Nat /\ vset.next_file \in Nat
      /\ Held(Tables, vset.files, vset.next_file) /\ FilesTyped(vset.files)
  BY <1>1 DEF FilesInv, Shapes, ServingInv, LogsHeld, NumbersInv, OpenNumbers
<1>3. vset.last_sequence \in Nat /\ vset.last_sequence \in 0 .. MaxPuts + 1
  <2>1. vset.last_sequence \in Nat /\ vset.last_sequence + Len(writers) <= Issued /\ MaxPuts \in Nat
    BY LevelDBAssumption DEF RecordsInv, SequencesKnown, IssuedInv, QueueIssued
  <2>2. Len(writers) \in Nat /\ Issued \in Nat /\ Issued <= MaxPuts + 1
    BY QueueKnown
  <2> QED
    BY <2>1, <2>2
<1>4. seen \in (0 .. MaxPuts) \cup {NoValue}
  <2> DEFINE a == mems[db.mem]
             b == ImmOf(mems, db.imm)
  <2>1. seen = Found(a, b, disk.tables, k, vset.last_sequence, vset.files)
    BY LookupIs
  <2>2. \A f \in FilesOf(vset.files) : disk.tables[f] \in TableSets
    BY <1>2 DEF Held, Tables, RecordsInv, TablesStored
  <2>3. a \in SUBSET Entry /\ b \in SUBSET Entry
    <3>1. \A m \in {db.mem, db.imm} \ {0} : m \in DOMAIN mems /\ mems[m] \in SUBSET Entry
      BY ReferencedIs DEF RecordsInv, MemsStored, EntrySets
    <3>2. db.mem # 0
      BY <1>1 DEF RecordsInv, MemsStored
    <3> QED
      BY <3>1, <3>2 DEF ImmOf
  <2> HIDE DEF seen, a, b
  <2> QED
    BY <1>2, <1>3, <2>1, <2>2, <2>3, FoundValue
<1>5. vset.files \in [Level -> SUBSET Nat]
  BY <1>2 DEF FilesTyped
<1> HIDE DEF seen
<1>6. r \in ReadCall
  BY <1>1, <1>2, <1>3, <1>4, <1>5 DEF ReadCall
<1> HIDE DEF r
<1>7. ASSUME NEW u \in Thread, th'[u].pc = "reading" PROVE th'[u] \in ReadCall
  <2>1. CASE u = t
    BY <1>1, <1>2, <1>6, <2>1
  <2>2. CASE u # t
    BY <1>1, <1>2, <1>7, <2>2 DEF ReadsTyped
  <2> QED
    BY <2>1, <2>2
<1> QED
  BY <1>7 DEF ReadsTyped

LEMMA ReadsTypedNext ==
  ASSUME FilesInv, FilesInv', NumbersInv, QueueInv, RecordsInv, IssuedInv, LogsReadable, ReadsTyped,
         [LevelDBNext]_ldbVars
  PROVE  ReadsTyped'
<1>1. ASSUME ReadersStay(th') PROVE ReadsTyped'
  BY <1>1, ReadersStayMoves DEF ReadsTyped, ReadersStay
<1>2. ASSUME th' \in {th, Awakened(th)} PROVE ReadsTyped'
  <2>1. ThreadsKept
    BY <1>2, AwakenedKept DEF FilesInv
  <2> QED
    BY <2>1 DEF ThreadsKept, ReadsTyped
<1>3. CASE CallsMove
  <2>1. PICK t \in Thread, k \in Key : Write(t, k) \/ Get(t, k) \/ ThreadStep(t)
    BY <1>3 DEF CallsMove
  <2>2. CASE Get(t, k)
    BY <2>2, GetTyped
  <2>3. CASE ~Get(t, k)
    BY <1>1, <2>1, <2>3, WriteMoves, ResumeMoves, AddRecordMoves, FinishWriteMoves, ReturnMoves,
       GetReturnsMoves DEF ThreadStep
  <2> QED
    BY <2>2, <2>3
<1>4. CASE Quiet \/ MemTableStarts \/ CompactionBegins \/ LogMemTable \/ InstallCompactionResults
  BY <1>2, <1>4, LockedFrame DEF Locked
<1>5. CASE BuildTable \/ CompactEntry \/ WriteManifest \/ RemoveObsoleteFiles
           \/ Recovered \/ RecoverLogFile \/ NewManifest \/ SetCurrentFile \/ OpenReturns
  <2>1. th' = th
    BY <1>5 DEF BuildTable, CompactEntry, WriteManifest, RemoveObsoleteFiles, Recovered, Recover, RecoverLogFile,
                NewManifest, SetCurrentFile, OpenReturns
  <2> QED
    BY <1>2, <2>1
<1>6. CASE ManifestFails \/ Install
  BY <1>2, <1>6, ManifestFailsFrame, InstallFrame DEF RecordsInv
<1>7. CASE Crash
  BY <1>7 DEF Crash, ReadsTyped, Idle
<1>8. CASE Aborted \/ UNCHANGED ldbVars
  BY <1>2, <1>8, AbortedFrame DEF ldbVars
<1> QED
  BY <1>3, <1>4, <1>5, <1>6, <1>7, <1>8, StepIs

-----------------------------------------------------------------------------
(***************************************************************************)
(* A Get finds what it would have found at once: its memtables grow by     *)
(* entries above its snapshot only, and no file of its version is written  *)
(* to.                                                                     *)
(***************************************************************************)

FoundBy(M, T, g) == Found(M[g.mem], ImmOf(M, g.imm), T, g.key, g.snapshot, g.files)

ReaderKnown(g) ==
  /\ g.snapshot \in Nat /\ g.snapshot <= vset.last_sequence
  /\ g.mem \in Nat \ {0} /\ g.mem < vset.next_file /\ g.imm \in Nat /\ g.imm < vset.next_file
  /\ bg.pc = "build" => bg.file \notin FilesOf(g.files)

ReadsStable ==
  \A t \in Thread : th[t].pc = "reading" =>
    ReaderKnown(th[t]) /\ th[t].seen = FoundBy(mems, disk.tables, th[t])

LEMMA ReaderHeld ==
  ASSUME FilesInv, NEW t \in Thread, th[t].pc = "reading"
  PROVE  /\ db.state = "open" /\ Held(Tables, th[t].files, vset.next_file) /\ vset.next_file \in Nat
         /\ compaction # NoCompaction => FilesOf(th[t].files) \cap compaction.outputs = {}
<1>1. db.state = "open"
  BY DEF FilesInv, NobodyYet
<1> QED
  BY <1>1 DEF FilesInv, OpenInv, ServingInv, ReadersInv, Reading

(* What the calls and the background thread do to the memtables of a Get. *)
SameSight(g) ==
  \A m \in {g.mem, g.imm} \ {0} :
    Visible(g.key, g.snapshot, mems'[m]) = Visible(g.key, g.snapshot, mems[m])

LEMMA ReadStays ==
  ASSUME FilesInv, ReadsStable, NEW u \in Thread, th[u].pc = "reading",
         SameSight(th[u]), \A f \in FilesOf(th[u].files) : disk'.tables[f] = disk.tables[f],
         vset'.last_sequence \in Nat, vset.last_sequence \in Nat,
         vset.last_sequence <= vset'.last_sequence,
         vset'.next_file \in Nat, vset.next_file <= vset'.next_file,
         bg'.pc = "build" => bg'.file \notin FilesOf(th[u].files), th'[u] = th[u]
  PROVE  ReaderKnown(th[u])' /\ th'[u].seen = FoundBy(mems', disk'.tables, th'[u])
<1> DEFINE g == th[u]
           k == g.key
           s == g.snapshot
           v == g.files
           T == disk.tables
           U == disk'.tables
           a == mems[g.mem]
           x == mems'[g.mem]
           b == ImmOf(mems, g.imm)
           y == ImmOf(mems', g.imm)
           q == vset.last_sequence
           r == vset'.last_sequence
           n == vset.next_file
           p == vset'.next_file
<1>1. /\ s \in Nat /\ s <= q /\ g.mem \in Nat \ {0} /\ g.mem < n /\ g.imm \in Nat /\ g.imm < n
      /\ g.seen = Found(a, b, T, k, s, v)
  BY DEF ReadsStable, ReaderKnown, FoundBy
<1>2. Held(Tables, v, n) /\ n \in Nat
  BY ReaderHeld
<1>3. Visible(k, s, x) = Visible(k, s, a) /\ Visible(k, s, y) = Visible(k, s, b)
  <2>1. g.mem \in {g.mem, g.imm} \ {0} /\ (g.imm # 0 => g.imm \in {g.mem, g.imm} \ {0})
    BY <1>1
  <2>2. Visible(k, s, x) = Visible(k, s, a) /\ (g.imm # 0 => Visible(k, s, mems'[g.imm]) = Visible(k, s, mems[g.imm]))
    BY <2>1 DEF SameSight
  <2> QED
    BY <2>2 DEF ImmOf
<1>4. s <= r /\ g.mem < p /\ g.imm < p
  <2>1. q \in Nat /\ r \in Nat /\ q <= r /\ n \in Nat /\ p \in Nat /\ n <= p
    BY <1>2
  <2> HIDE DEF g, s, q, r, n, p
  <2> QED
    BY <1>1, <2>1
<1>5. \A f \in FilesOf(v) : U[f] = T[f]
  OBVIOUS
<1>6. /\ g = th'[u] /\ x = mems'[th'[u].mem] /\ y = ImmOf(mems', th'[u].imm)
      /\ k = th'[u].key /\ s = th'[u].snapshot /\ v = th'[u].files
  OBVIOUS
<1>7. ReaderKnown(th[u])'
  BY <1>1, <1>4, <1>6 DEF ReaderKnown
<1> HIDE DEF k, s, v, T, U, a, x, b, y
<1>8. Found(x, y, U, k, s, v) = Found(a, b, T, k, s, v)
  BY <1>2, <1>3, <1>5, FoundSame
<1>9. FoundBy(mems', disk'.tables, th'[u]) = Found(x, y, U, k, s, v)
  BY <1>6 DEF FoundBy, U
<1> QED
  BY <1>1, <1>6, <1>7, <1>8, <1>9

(* The sequence and file numbers in an open store only grow. *)
Advances ==
  /\ vset.last_sequence \in Nat /\ vset'.last_sequence \in Nat
  /\ vset.last_sequence <= vset'.last_sequence
  /\ vset'.next_file \in Nat /\ vset.next_file <= vset'.next_file

LEMMA ReadsStay ==
  ASSUME FilesInv, ReadsStable, Advances,
         \A u \in Thread : th'[u].pc = "reading" =>
           /\ th'[u] = th[u] /\ SameSight(th[u])
           /\ \A f \in FilesOf(th[u].files) : disk'.tables[f] = disk.tables[f]
           /\ bg'.pc = "build" => bg'.file \notin FilesOf(th[u].files)
  PROVE  ReadsStable'
<1> SUFFICES ASSUME NEW u \in Thread, th'[u].pc = "reading"
             PROVE  ReaderKnown(th[u])' /\ th'[u].seen = FoundBy(mems', disk'.tables, th'[u])
  BY DEF ReadsStable
<1>1. /\ th'[u] = th[u] /\ SameSight(th[u])
      /\ \A f \in FilesOf(th[u].files) : disk'.tables[f] = disk.tables[f]
      /\ bg'.pc = "build" => bg'.file \notin FilesOf(th[u].files)
  OBVIOUS
<1>2. th[u].pc = "reading"
  BY <1>1
<1> QED
  BY <1>1, <1>2, ReadStays DEF Advances

(* The memtables that somebody reads stay as they are. *)
LEMMA SightKept ==
  ASSUME FilesInv, MemsStored, MemsStored', NEW u \in Thread, th[u].pc = "reading", th'[u] = th[u],
         \A m \in DOMAIN mems' : m \in DOMAIN mems => mems'[m] = mems[m]
  PROVE  SameSight(th[u])
<1> SUFFICES ASSUME NEW m \in {th[u].mem, th[u].imm} \ {0} PROVE mems'[m] = mems[m]
  BY DEF SameSight
<1>1. m \in Referenced(th, db) /\ m \in Referenced(th', db')
  BY ReferencedIs
<1> QED
  BY <1>1 DEF MemsStored

(* A step beside the calls that writes to no table of a Get. *)
LEMMA ReadsStayBeside ==
  ASSUME FilesInv, MemsStored, MemsStored', ReadsStable, Advances,
         th' \in {th, Awakened(th)},
         \A m \in DOMAIN mems' : m \in DOMAIN mems => mems'[m] = mems[m],
         \A u \in Thread : th[u].pc = "reading" =>
           \A f \in FilesOf(th[u].files) : disk'.tables[f] = disk.tables[f],
         \A u \in Thread : th[u].pc = "reading" =>
           (bg'.pc = "build" => bg'.file \notin FilesOf(th[u].files))
  PROVE  ReadsStable'
<1>1. ThreadsKept
  BY AwakenedKept DEF FilesInv
<1>2. ASSUME NEW u \in Thread, th'[u].pc = "reading" PROVE th'[u] = th[u] /\ SameSight(th[u])
  <2>1. th'[u] = th[u]
    BY <1>1, <1>2 DEF ThreadsKept
  <2> QED
    BY <1>2, <2>1, SightKept
<1>3. \A u \in Thread : th'[u].pc = "reading" =>
        /\ th'[u] = th[u] /\ SameSight(th[u])
        /\ \A f \in FilesOf(th[u].files) : disk'.tables[f] = disk.tables[f]
        /\ bg'.pc = "build" => bg'.file \notin FilesOf(th[u].files)
  BY <1>2
<1> QED
  BY <1>3, ReadsStay

(* FinishWrite publishes entries above every snapshot. *)
LEMMA FinishWriteReads ==
  ASSUME FilesInv, QueueInv, RecordsInv, ReadsStable, NEW t \in Thread, FinishWrite(t),
         NEW u \in Thread, th[u].pc = "reading"
  PROVE  SameSight(th[u])
<1> DEFINE n == th[t].group
           group == {GroupEntry(writers, i) : i \in 1 .. n}
           last == vset.last_sequence
           k == th[u].key
           s == th[u].snapshot
<1>1. th[t].pc = "logged" /\ mems' = [mems EXCEPT ![db.mem] = @ \cup group]
  BY DEF FinishWrite
<1>2. n \in 1 .. Len(writers)
  BY <1>1 DEF QueueInv, QueueOf, CallOK
<1>3. last \in Nat /\ s \in Nat /\ s <= last
  BY DEF RecordsInv, SequencesKnown, ReadsStable, ReaderKnown
<1>4. ASSUME NEW e \in group PROVE ~(e.seq <= s)
  <2>1. PICK i \in 1 .. n : e = GroupEntry(writers, i)
    BY <1>4
  <2>2. e.seq = last + i
    BY <2>1 DEF GroupEntry
  <2>3. i \in Nat /\ i >= 1
    BY <1>2, <2>1
  <2> HIDE DEF last, s
  <2> QED
    BY <1>3, <2>2, <2>3
<1> HIDE DEF group, last, n, k, s
<1> SUFFICES ASSUME NEW m \in {th[u].mem, th[u].imm} \ {0}
             PROVE  Visible(k, s, mems'[m]) = Visible(k, s, mems[m])
  BY DEF SameSight, k, s
<1>5. m \in DOMAIN mems
  BY ReferencedIs DEF RecordsInv, MemsStored
<1>6. mems'[m] = mems[m] \/ mems'[m] = mems[m] \cup group
  BY <1>1, <1>5
<1> QED
  BY <1>4, <1>6 DEF Visible

LEMMA SwitchReads ==
  ASSUME FilesInv, MemsStored, ReadsStable, NEW err, SwitchMemTable(err), NEW u \in Thread, th[u].pc = "reading"
  PROVE  SameSight(th[u])
<1> DEFINE log == vset.next_file
<1>1. mems' = WithFile(mems, log, {})
  BY DEF SwitchMemTable
<1>2. /\ th[u].mem \in Nat \ {0} /\ th[u].mem < log /\ th[u].imm \in Nat /\ th[u].imm < log
      /\ log \in Nat
  BY ReaderHeld DEF ReadsStable, ReaderKnown
<1> HIDE DEF log
<1> SUFFICES ASSUME NEW m \in {th[u].mem, th[u].imm} \ {0} PROVE mems'[m] = mems[m]
  BY DEF SameSight
<1>3. m # log /\ m \in DOMAIN mems
  BY <1>2, ReferencedIs DEF MemsStored
<1> QED
  BY <1>1, <1>3 DEF WithFile

LEMMA CallsReads ==
  ASSUME FilesInv, QueueInv, RecordsInv, MemsStored', SequenceInv, ReadsStable, CallsMove
  PROVE  ReadsStable'
<1>1. PICK t \in Thread, k \in Key : Write(t, k) \/ Get(t, k) \/ ThreadStep(t)
  BY DEF CallsMove
<1>2. /\ ThreadsMove /\ db.state = "open" /\ disk'.tables = disk.tables
      /\ bg' = bg \/ (bg.pc = "idle" /\ bg' = [pc |-> "scheduled"])
  BY CallsMoveIs
<1>3. Advances
  <2>1. vset.last_sequence \in Nat /\ vset'.last_sequence \in Nat /\ vset.last_sequence <= vset'.last_sequence
    BY CallsMems DEF RecordsInv, SequencesKnown, SequenceInv
  <2> QED
    BY <1>2, <2>1 DEF Advances, ThreadsMove
<1>4. \A u \in Thread : th[u].pc = "reading" /\ bg'.pc = "build" => bg'.file \notin FilesOf(th[u].files)
  BY <1>2 DEF ReadsStable, ReaderKnown
<1>5. CASE Get(t, k)
  <2> DEFINE g == [pc |-> "reading", key |-> k, snapshot |-> vset.last_sequence,
                   mem |-> db.mem, imm |-> db.imm, files |-> vset.files,
                   seen |-> Lookup(k, vset.last_sequence, db.mem, db.imm, vset.files)]
  <2>1. th' = [th EXCEPT ![t] = g] /\ UNCHANGED <<disk, db, vset, mems, bg>>
    BY <1>5 DEF Get
  <2>2. DOMAIN th = Thread
    BY DEF FilesInv, Shapes
  <2>3. LogsHeld /\ vset.next_file \in Nat /\ db.mem # 0 /\ (db.imm # 0 => db.imm < db.mem)
    BY <1>2 DEF FilesInv, ServingInv, RecordsInv, MemsStored
  <2>4. g.mem \in Nat \ {0} /\ g.mem < vset.next_file /\ g.imm \in Nat /\ g.imm < vset.next_file
    <3>1. db.mem \in Nat /\ db.imm \in Nat /\ db.mem < vset.next_file
      BY <2>3 DEF LogsHeld
    <3> QED
      BY <2>3, <3>1
  <2>5. bg.pc = "build" => bg.file \notin FilesOf(vset.files)
    BY <1>2 DEF FilesInv, OpenInv, BackgroundInv, BuildInv, Unclaimed
  <2>6. g.seen = FoundBy(mems, disk.tables, g)
    BY LookupIs DEF FoundBy
  <2>7. g.snapshot = vset.last_sequence /\ g.files = vset.files
    OBVIOUS
  <2> HIDE DEF g
  <2>8. ASSUME NEW u \in Thread, th'[u].pc = "reading"
        PROVE  ReaderKnown(th[u])' /\ th'[u].seen = FoundBy(mems', disk'.tables, th'[u])
    <3>1. CASE u = t
      <4>1. th'[u] = g
        BY <2>1, <2>2, <3>1
      <4>2. vset.last_sequence \in Nat /\ vset.last_sequence <= vset.last_sequence
        BY <1>3 DEF Advances
      <4>3. ReaderKnown(th[u])'
        BY <2>1, <2>4, <2>5, <2>7, <4>1, <4>2 DEF ReaderKnown
      <4> QED
        BY <2>1, <2>6, <4>1, <4>3
    <3>2. CASE u # t
      <4>1. th'[u] = th[u]
        BY <2>1, <2>2, <3>2
      <4>2. ReaderKnown(th[u]) /\ th[u].seen = FoundBy(mems, disk.tables, th[u])
        BY <2>8, <4>1 DEF ReadsStable
      <4> QED
        BY <2>1, <4>1, <4>2 DEF ReaderKnown
    <3> QED
      BY <3>1, <3>2
  <2> QED
    BY <2>8 DEF ReadsStable
<1>6. CASE ~Get(t, k)
  <2>1. \A u \in Thread : th'[u].pc = "reading" => th'[u] = th[u]
    <3>1. ReadersStay(th')
      BY <1>1, <1>6, WriteMoves, ResumeMoves, AddRecordMoves, FinishWriteMoves, ReturnMoves,
         GetReturnsMoves DEF ThreadStep
    <3> QED
      BY <3>1 DEF ReadersStay
  <2>2. ASSUME NEW u \in Thread, th[u].pc = "reading", th'[u] = th[u] PROVE SameSight(th[u])
    <3>1. MemsStored
      BY DEF RecordsInv
    <3>2. CASE mems' = mems
      BY <2>2, <3>2 DEF SameSight
    <3>3. CASE \E err \in BOOLEAN : SwitchMemTable(err)
      BY <2>2, <3>1, <3>3, SwitchReads
    <3>4. CASE \E w \in Thread : FinishWrite(w)
      BY <2>2, <3>4, FinishWriteReads
    <3>5. CASE \E w \in Thread : GetReturns(w)
      <4>1. \A m \in DOMAIN mems' : m \in DOMAIN mems /\ mems'[m] = mems[m]
        BY <3>1, <3>5, GetReturnsMems
      <4> QED
        BY <2>2, <3>1, <4>1, SightKept
    <3>6. (\E w \in Thread : AddRecord(w)) => mems' = mems
      BY DEF AddRecord
    <3> QED
      BY <3>2, <3>3, <3>4, <3>5, <3>6, CallsAre
  <2>3. \A u \in Thread : th'[u].pc = "reading" =>
          /\ th'[u] = th[u] /\ SameSight(th[u])
          /\ \A f \in FilesOf(th[u].files) : disk'.tables[f] = disk.tables[f]
          /\ bg'.pc = "build" => bg'.file \notin FilesOf(th[u].files)
    BY <1>2, <1>4, <2>1, <2>2
  <2> QED
    BY <1>3, <2>3, ReadsStay
<1> QED
  BY <1>5, <1>6

(* A step of the background thread under mutex_. *)
LEMMA LockedReads ==
  ASSUME FilesInv, QueueInv, RecordsInv, MemsStored', ReadsStable, Locked
  PROVE  ReadsStable'
<1>1. /\ Standing /\ disk' = disk /\ th' \in {th, Awakened(th)}
      /\ vset'.next_file \in {vset.next_file, vset.next_file + 1} /\ vset.next_file \in Nat
  BY LockedFrame DEF Standing, FilesInv, ServingInv
<1>2. Advances /\ mems' = mems
  BY <1>1 DEF Advances, Standing, RecordsInv, SequencesKnown
<1>3. ASSUME bg'.pc = "build" PROVE bg'.file = vset.next_file
  <2>1. CASE MemTableStarts
    BY <2>1, CompactMemTableIs DEF MemTableStarts
  <2>2. CASE Quiet
    BY <1>3, <2>2, QuietIs DEF Quiet
  <2>3. CASE LogMemTable \/ InstallCompactionResults
    BY <1>3, <2>3, LogMemTableIs, InstallCompactionResultsIs
  <2>4. CASE CompactionBegins
    <3>1. \E l \in Level : \E f \in vset.files[l] : CompactionStarts(l, f)
      BY <2>4, CompactionStartsIs DEF CompactionBegins
    <3>2. bg'.pc \in {"manifest", "work"}
      BY <3>1, LoggedIs DEF CompactionStarts
    <3> QED
      BY <1>3, <3>2
  <2> QED
    BY <2>1, <2>2, <2>3, <2>4 DEF Locked
<1>4. ASSUME NEW u \in Thread, th[u].pc = "reading", bg'.pc = "build"
      PROVE  bg'.file \notin FilesOf(th[u].files)
  <2>1. Held(Tables, th[u].files, vset.next_file)
    BY <1>4, ReaderHeld
  <2> QED
    BY <1>1, <1>3, <1>4, <2>1 DEF Held
<1> QED
  BY <1>1, <1>2, <1>4, ReadsStayBeside DEF RecordsInv

LEMMA CompactEntryReads ==
  ASSUME FilesInv, QueueInv, RecordsInv, MemsStored', ReadsStable, CompactEntry
  PROVE  ReadsStable'
<1> DEFINE out == OutputOf(compaction)
<1>1. /\ db.state = "open" /\ bg'.pc = "work" /\ compaction # NoCompaction
      /\ vset'.last_sequence = vset.last_sequence /\ mems' = mems
      /\ (EntryDropped /\ disk' = disk) \/ EntryWritten
      /\ {"todo", "prev", "files", "outputs", "builder"} \subseteq DOMAIN compaction
  BY CompactEntryStep
<1>2. th' = th
  BY DEF CompactEntry
<1>3. Advances
  <2>1. vset'.next_file \in {vset.next_file, vset.next_file + 1} /\ vset.next_file \in Nat
    BY <1>1 DEF CompactEntry, FilesInv, Shapes, VersionSetShape, ServingInv
  <2> QED
    BY <1>1, <2>1 DEF Advances, RecordsInv, SequencesKnown
<1>4. ASSUME NEW u \in Thread, th[u].pc = "reading", NEW f \in FilesOf(th[u].files)
      PROVE  disk'.tables[f] = disk.tables[f]
  <2>1. CASE disk' = disk
    BY <2>1
  <2>2. CASE EntryWritten
    <3>1. /\ Held(Tables, th[u].files, vset.next_file) /\ vset.next_file \in Nat
          /\ FilesOf(th[u].files) \cap compaction.outputs = {}
      BY <1>1, <1>4, ReaderHeld
    <3>2. /\ \A n : n # out /\ n \in Tables => disk'.tables[n] = disk.tables[n]
          /\ compaction.builder = 0 => out = vset.next_file
          /\ compaction.builder # 0 => out \in compaction.outputs
      BY <1>1, <2>2, EntryWrittenIs
    <3>3. f \in Tables /\ f \in Nat /\ f < vset.next_file
      BY <1>4, <3>1 DEF Held
    <3> HIDE DEF out
    <3>4. f # out
      BY <1>4, <3>1, <3>2, <3>3
    <3> QED
      BY <3>2, <3>3, <3>4
  <2> QED
    BY <1>1, <2>1, <2>2
<1> QED
  BY <1>1, <1>2, <1>3, <1>4, ReadsStayBeside DEF RecordsInv

(* The other unlocked steps of the background thread. *)
LEMMA UnlockedReads ==
  ASSUME FilesInv, QueueInv, RecordsInv, MemsStored', ReadsStable, db.state = "open",
         BuildTable \/ WriteManifest \/ ManifestFails \/ Install \/ RemoveObsoleteFiles
  PROVE  ReadsStable'
<1>1. vset.next_file \in Nat /\ vset.last_sequence \in Nat /\ MemsStored
  BY DEF FilesInv, ServingInv, RecordsInv, SequencesKnown
<1>2. Advances
  <2>1. vset'.last_sequence = vset.last_sequence /\ vset'.next_file = vset.next_file
    <3>1. Install => vset'.last_sequence = vset.last_sequence /\ vset'.next_file = vset.next_file
      BY <1>1, InstallIs, InstallFrame
    <3>2. ~Install => vset' = vset
      BY DEF BuildTable, WriteManifest, ManifestFails, RemoveObsoleteFiles
    <3> QED
      BY <3>1, <3>2
  <2> QED
    BY <1>1, <2>1 DEF Advances
<1>3. th' \in {th, Awakened(th)}
  <2>1. BuildTable \/ WriteManifest \/ RemoveObsoleteFiles => th' = th
    BY DEF BuildTable, WriteManifest, RemoveObsoleteFiles
  <2> QED
    BY <1>1, <2>1, ManifestFailsFrame, InstallFrame
<1>4. \A m \in DOMAIN mems' : m \in DOMAIN mems => mems'[m] = mems[m]
  <2>1. ~Install => mems' = mems
    BY DEF BuildTable, WriteManifest, ManifestFails, RemoveObsoleteFiles
  <2> QED
    BY <1>1, <2>1, InstallIs
<1>5. bg'.pc # "build"
  <2>1. CASE RemoveObsoleteFiles
    BY <2>1, RemoveObsoleteFilesIs
  <2>2. CASE ~RemoveObsoleteFiles
    BY <1>1, <2>2, BuildTableIs, WriteManifestIs, ManifestFailsIs, InstallIs
  <2> QED
    BY <2>1, <2>2
<1>6. ASSUME NEW u \in Thread, th[u].pc = "reading", NEW f \in FilesOf(th[u].files)
      PROVE  disk'.tables[f] = disk.tables[f]
  <2>1. f \in Tables
    BY <1>6, ReaderHeld DEF Held
  <2>2. CASE BuildTable
    <3>1. bg.file # f
      BY <1>6, <2>2, BuildTableIs DEF ReadsStable, ReaderKnown
    <3> QED
      BY <2>1, <2>2, <3>1, BuildTableIs
  <2>3. CASE RemoveObsoleteFiles
    <3>1. f \in Needed
      BY <1>6, NeededIs
    <3> QED
      BY <2>1, <2>3, <3>1, RemoveObsoleteFilesIs
  <2>4. CASE WriteManifest \/ ManifestFails \/ Install
    BY <1>1, <2>4, WriteManifestIs, ManifestFailsIs, InstallIs
  <2> QED
    BY <2>2, <2>3, <2>4
<1> QED
  BY <1>1, <1>2, <1>3, <1>4, <1>5, <1>6, ReadsStayBeside

LEMMA ReadsStableNext ==
  ASSUME FilesInv, FilesInv', QueueInv, RecordsInv, RecordsInv', SequenceInv, ReadsStable,
         [LevelDBNext]_ldbVars
  PROVE  ReadsStable'
<1>0. MemsStored'
  BY DEF RecordsInv
<1>1. ASSUME db'.state # "open" PROVE ReadsStable'
  BY <1>1 DEF FilesInv, NobodyYet, ReadsStable
<1>2. CASE CallsMove
  BY <1>0, <1>2, CallsReads
<1>3. CASE Quiet \/ MemTableStarts \/ CompactionBegins \/ LogMemTable \/ InstallCompactionResults
  BY <1>0, <1>3, LockedReads DEF Locked
<1>4. CASE CompactEntry
  BY <1>0, <1>4, CompactEntryReads
<1>5. CASE BuildTable \/ WriteManifest \/ ManifestFails \/ Install \/ RemoveObsoleteFiles
  <2>1. db'.state = db.state
    BY <1>5, BuildTableIs, WriteManifestIs, ManifestFailsIs, InstallIs, RemoveObsoleteFilesIs DEF RecordsInv
  <2> QED
    BY <1>0, <1>1, <1>5, <2>1, UnlockedReads
<1>6. CASE Recovered \/ RecoverLogFile \/ NewManifest \/ SetCurrentFile \/ OpenReturns
  <2>1. db.state # "open" /\ th' = th
    BY <1>6, OpenStepIs DEF Recovered, Recover, RecoverLogFile, NewManifest, SetCurrentFile, OpenReturns
  <2> QED
    BY <2>1 DEF FilesInv, NobodyYet, ReadsStable
<1>7. CASE Aborted \/ Crash
  <2>1. db'.state # "open"
    BY <1>7, AbortedFrame DEF Crash, Closed
  <2> QED
    BY <1>1, <2>1
<1>8. CASE UNCHANGED ldbVars
  BY <1>8 DEF ldbVars, ReadsStable, ReaderKnown
<1> QED
  BY <1>2, <1>3, <1>4, <1>5, <1>6, <1>7, <1>8, StepIs

LEMMA ReadsStableIs ==
  ASSUME FilesInv, ReadsStable
  PROVE  StableReads
<1> SUFFICES ASSUME NEW t \in Thread, th[t].pc = "reading"
             PROVE  /\ FilesOf(th[t].files) \subseteq DOMAIN disk.tables
                    /\ Lookup(th[t].key, th[t].snapshot, th[t].mem, th[t].imm, th[t].files) = th[t].seen
  BY DEF StableReads
<1>1. Held(Tables, th[t].files, vset.next_file)
  BY ReaderHeld
<1>2. Lookup(th[t].key, th[t].snapshot, th[t].mem, th[t].imm, th[t].files) = FoundBy(mems, disk.tables, th[t])
  BY LookupIs DEF FoundBy
<1> QED
  BY <1>1, <1>2 DEF ReadsStable, Held, Tables

(* A DBImpl::Get that searches without mutex_ returns what it would have   *)
(* returned with it held, whatever other threads put meanwhile, whenever   *)
(* they switch memtables, and whatever the background thread compacts and  *)
(* RemoveObsoleteFiles unlinks: what it refers to stays, no file it refers *)
(* to is written to, and its snapshot hides what the memtables gain.       *)
THEOREM StableReadsHolds == LevelDBSpec => []StableReads
<1> DEFINE Inv == QueueInv /\ RecordsInv /\ FreshInv /\ SequenceInv /\ ReadsStable
<1>1. LevelDBInit => Inv
  <2>1. LevelDBInit => ReadsStable
    BY DEF LevelDBInit, ReadsStable, Idle
  <2> QED
    BY <2>1, QueueInit, RecordsInit, FreshInit, SequenceInit
<1>2. ASSUME FilesInv, FilesInv', LogsReadable, Inv, [LevelDBNext]_ldbVars
      PROVE  Inv'
  <2>1. QueueInv' /\ RecordsInv'
    BY <1>2, QueueNext, RecordsNext
  <2>2. FreshInv' /\ SequenceInv'
    BY <1>2, <2>1, FreshNext, SequenceNext DEF RecordsInv
  <2>3. ReadsStable'
    BY <1>2, <2>1, ReadsStableNext
  <2> QED
    BY <2>1, <2>2, <2>3
<1>3. FilesInv /\ Inv => StableReads
  BY ReadsStableIs
<1> QED
  BY <1>1, <1>2, <1>3, FilesInvHolds, PTL DEF LevelDBSpec

-----------------------------------------------------------------------------
(* Once CURRENT names it, the MANIFEST of this process is the newest. *)
ManifestsInv ==
  db.state \in {"opening", "open"} /\ disk.current = vset.manifest =>
    \A m \in DOMAIN disk.manifests : m <= vset.manifest

LEMMA ManifestsNext ==
  ASSUME FilesInv, FilesInv', NumbersInv, QueueInv, RecordsInv, LogsReadable, ManifestsInv,
         [LevelDBNext]_ldbVars
  PROVE  ManifestsInv'
<1>1. ASSUME vset'.manifest = vset.manifest, disk'.current = disk.current,
             \A m \in DOMAIN disk'.manifests : m \in DOMAIN disk.manifests,
             db.state \in {"opening", "open"}
      PROVE  ManifestsInv'
  BY <1>1 DEF ManifestsInv
<1>2. ASSUME db.state \in {"opening", "open"}, vset'.manifest = vset.manifest, disk' = disk PROVE ManifestsInv'
  BY <1>1, <1>2
<1>3. CASE CallsMove
  <2>1. db.state = "open" /\ ThreadsMove
    BY <1>3, CallsMoveIs
  <2> QED
    BY <1>1, <2>1 DEF ThreadsMove
<1>4. CASE Quiet \/ MemTableStarts \/ CompactionBegins \/ LogMemTable \/ InstallCompactionResults
  BY <1>2, <1>4, LockedFrame DEF Locked, Standing
<1>5. CASE BuildTable \/ CompactEntry
  <2>1. /\ disk'.current = disk.current /\ disk'.manifests = disk.manifests /\ vset'.manifest = vset.manifest
        /\ bg.pc \in {"build", "work", "entry"}
    <3>1. CASE BuildTable
      BY <3>1 DEF BuildTable, FilesInv, Shapes, DiskShape
    <3>2. CASE CompactEntry
      BY <3>2 DEF CompactEntry, FilesInv, Shapes, DiskShape, VersionSetShape
    <3> QED
      BY <1>5, <3>1, <3>2
  <2>2. db.state = "open"
    BY <2>1 DEF FilesInv, NobodyYet
  <2> QED
    BY <1>1, <2>1, <2>2
<1>6. CASE WriteManifest \/ ManifestFails
  <2>1. bg.pc = "manifest" /\ vset' = vset /\ (disk' = disk \/ RecordWrites)
    BY <1>6 DEF WriteManifest, ManifestFails, RecordWrites
  <2>2. db.state = "open"
    BY <2>1 DEF FilesInv, NobodyYet
  <2>3. disk'.current = disk.current /\ DOMAIN disk'.manifests = DOMAIN disk.manifests
    BY <2>1, RecordFrame DEF RecordWrites
  <2> QED
    BY <1>1, <2>1, <2>2, <2>3
<1>7. CASE Install
  BY <1>2, <1>7, InstallIs, InstallFrame DEF RecordsInv
<1>8. CASE RemoveObsoleteFiles
  <2>1. disk' = Removed(doomed) /\ vset' = vset
    BY <1>8 DEF RemoveObsoleteFiles
  <2>2. /\ disk'.current = disk.current
        /\ \A n \in DOMAIN disk'.manifests : n \in DOMAIN disk.manifests
    BY <2>1, RemovalFrame
  <2>3. db.state \in {"opening", "open"}
    BY <1>8, RemoveObsoleteFilesIs
  <2> QED
    BY <1>1, <2>1, <2>2, <2>3
<1>9. CASE Recovered \/ RecoverLogFile \/ Crash \/ Aborted
  <2>1. db'.state \notin {"opening", "open"}
    BY <1>9, AbortedFrame, RecoverFrame, RecoverLogFrame, CrashIs DEF RecordsInv
  <2> QED
    BY <2>1 DEF ManifestsInv
<1>10. CASE NewManifest
  <2>1. disk'.current = disk.current /\ vset'.manifest = vset.manifest /\ vset.manifest # disk.current
    BY <1>10, NewManifestFrame
  <2> QED
    BY <2>1 DEF ManifestsInv
<1>11. CASE SetCurrentFile
  <2>1. /\ db.state = "opening" /\ disk.current # vset.manifest /\ vset' = vset
        /\ disk'.manifests = disk.manifests /\ disk.current # 0
    BY <1>11, SetCurrentFileIs DEF SetCurrentFile, FilesInv, CurrentHeld
  <2>2. vset.manifest = UnderCurrent.next_file
    BY <2>1 DEF NumbersInv, OpeningNumbers
  <2>3. \A m \in DOMAIN disk.manifests : m <= vset.manifest
    BY <2>1, <2>2 DEF NumbersInv, CurrentNumbers
  <2> QED
    BY <2>1, <2>3 DEF ManifestsInv
<1>12. CASE OpenReturns
  BY <1>2, <1>12, OpenReturnsIs
<1>13. CASE UNCHANGED ldbVars
  BY <1>13 DEF ldbVars, ManifestsInv
<1> QED
  BY <1>3, <1>4, <1>5, <1>6, <1>7, <1>8, <1>9, <1>10, <1>11, <1>12, <1>13, StepIs

LEMMA FilesNumbered ==
  ASSUME FilesInv, NumbersInv, ManifestsInv, db.state = "open",
         NEW n \in DOMAIN disk.tables \cup DOMAIN disk.logs \cup DOMAIN disk.manifests
  PROVE  n < vset.next_file
<1>1. /\ vset.next_file \in Nat /\ vset.manifest \in Nat /\ vset.manifest < vset.next_file
      /\ LogsHeld /\ disk.current = vset.manifest /\ disk.current # 0 /\ DOMAIN disk.logs \subseteq Nat
  BY DEF FilesInv, ServingInv, OpenInv, CurrentHeld, Shapes
<1>2. CASE n \in DOMAIN disk.tables
  BY <1>2 DEF NumbersInv, OpenNumbers, Tables
<1>3. CASE n \in DOMAIN disk.logs
  <2>1. n \in Nat /\ (n < vset.log_number \/ n = db.mem \/ n = db.imm)
    BY <1>1, <1>3 DEF NumbersInv, OpenNumbers
  <2>2. /\ vset.log_number \in Nat /\ db.mem \in Nat /\ db.imm \in Nat
        /\ vset.log_number <= db.mem /\ db.mem < vset.next_file
    BY <1>1 DEF LogsHeld
  <2>3. db.imm # 0 => db.imm = vset.log_number
    BY DEF NumbersInv, OpenNumbers
  <2> QED
    BY <1>1, <2>1, <2>2, <2>3
<1>4. CASE n \in DOMAIN disk.manifests
  <2>1. n \in Nat /\ n <= vset.manifest
    BY <1>1, <1>4 DEF NumbersInv, CurrentNumbers, ManifestsInv
  <2> QED
    BY <1>1, <2>1
<1> QED
  BY <1>2, <1>3, <1>4

LEMMA TypeIs ==
  ASSUME FilesInv, QueueInv, RecordsInv, NumbersInv, ManifestsInv, ReadsTyped
  PROVE  LevelDBTypeOK
<1>1. /\ db.state \in {"closed", "recovering", "opening", "open", "corrupt", "aborted"}
      /\ DOMAIN th = Thread
  BY DEF FilesInv, Shapes
<1>2. QueueOf(th, writers) /\ Idle.pc = "idle"
  BY IdleShape DEF QueueInv
<1>3. ASSUME NEW t \in Thread
      PROVE  th[t] = Idle \/ th[t] \in Call \/ th[t] \in ReadCall
  BY <1>2 DEF QueueOf, CallOK, ReadsTyped
<1>4. ASSUME NEW t \in Thread
      PROVE  th[t].pc \in InQueue <=> Writing(t) /\ th[t].pc # "done"
  <2>1. CASE th[t] = Idle
    BY <1>2, <2>1 DEF Writing, InQueue, WriterPcs
  <2>2. CASE th[t] \in Call
    BY <2>2 DEF Writing, InQueue, WriterPcs, Call
  <2>3. CASE th[t] \in ReadCall
    BY <2>3 DEF Writing, InQueue, WriterPcs, ReadCall
  <2> QED
    BY <1>3, <2>1, <2>2, <2>3
<1>5. Range(writers) = {t \in Thread : Writing(t) /\ th[t].pc # "done"}
  <2>1. \A i \in DOMAIN writers : writers[i] \in Thread
    BY <1>2, SequenceIs DEF QueueOf
  <2>2. \A t \in Thread : t \in Range(writers) <=> th[t].pc \in InQueue
    BY <1>2 DEF QueueOf, Range
  <2>3. \A t \in Range(writers) : t \in Thread
    BY <2>1 DEF Range
  <2> QED
    BY <1>4, <2>2, <2>3
<1>6. IsInjective(writers)
  BY <1>2 DEF QueueOf, IsInjective
<1>7. DOMAIN mems = Referenced(th, db)
  BY DEF RecordsInv, MemsStored
<1>8. db.state = "open" =>
        \A n \in DOMAIN disk.tables \cup DOMAIN disk.logs \cup DOMAIN disk.manifests : n < vset.next_file
  BY FilesNumbered
<1>9. \A t \in Thread :
       \/ th[t] = Idle
       \/ th[t] \in [pc : {"queued", "woken", "delayed", "bgwait", "bgwoken", "logging",
                           "logged", "done"},
                     key : Key, val : 1 .. MaxPuts, slept : BOOLEAN,
                     group : 0 .. Cardinality(Thread), sent : 0 .. Cardinality(Thread)]
       \/ th[t] \in [pc : {"reading"}, key : Key, snapshot : 0 .. MaxPuts + 1, mem : Nat, imm : Nat,
                     files : [Level -> SUBSET Nat], seen : (0 .. MaxPuts) \cup {NoValue}]
  BY <1>3, Zenon DEF Call, ReadCall, WriterPcs
<1> QED
  BY <1>1, <1>5, <1>6, <1>7, <1>8, <1>9, Zenon DEF LevelDBTypeOK

(* The variables of the store keep their types: a Get sees no snapshot     *)
(* that no Put made and no value that nobody put, the queue holds exactly  *)
(* the calls of Write that wait or work, the memtables are the ones        *)
(* somebody refers to, and next_file_number_ is above every file on disk.  *)
THEOREM LevelDBTypeOKHolds == LevelDBSpec => []LevelDBTypeOK
<1> DEFINE Inv == /\ QueueInv /\ RecordsInv /\ FreshInv /\ SequenceInv /\ NumbersInv
                  /\ IssuedInv /\ ManifestsInv /\ ReadsTyped
<1>1. LevelDBInit => Inv
  <2>1. LevelDBInit => ManifestsInv /\ ReadsTyped
    BY DEF LevelDBInit, ManifestsInv, ReadsTyped, Closed, Idle
  <2> QED
    BY <2>1, QueueInit, RecordsInit, FreshInit, SequenceInit, NumbersInit, IssuedInit
<1>2. ASSUME FilesInv, FilesInv', LogsReadable, Inv, [LevelDBNext]_ldbVars
      PROVE  Inv'
  <2>1. QueueInv' /\ RecordsInv'
    BY <1>2, QueueNext, RecordsNext
  <2>2. FreshInv' /\ SequenceInv'
    BY <1>2, <2>1, FreshNext, SequenceNext DEF RecordsInv
  <2>3. NumbersInv' /\ ManifestsInv'
    BY <1>2, NumbersNext, ManifestsNext
  <2>4. IssuedInv' /\ ReadsTyped'
    BY <1>2, <2>1, <2>2, IssuedNext, ReadsTypedNext
  <2> QED
    BY <2>1, <2>2, <2>3, <2>4
<1>3. FilesInv /\ Inv => LevelDBTypeOK
  BY TypeIs
<1> QED
  BY <1>1, <1>2, <1>3, FilesInvHolds, PTL DEF LevelDBSpec
-----------------------------------------------------------------------------
(***************************************************************************)
(* The write-ahead rule.  While a leader writes the record of its group,   *)
(* the log holds the memtable and the fragments sent so far; once the      *)
(* record is complete it holds the memtable and the whole group.           *)
(***************************************************************************)

Ending == {"full", "last"}
Leading == {"logging", "logged"}
AllEntries(log) == {log[i].entry : i \in DOMAIN log}

(* The first n entries of the group of queue q, after sequence number s. *)
FirstOf(T, q, s, n) ==
  {[seq |-> s + i, key |-> T[q[i]].key, val |-> T[q[i]].val] : i \in 1 .. n}

WrittenAhead(log, m, T, q, s) ==
  /\ (\A t \in Thread : T[t].pc \notin Leading) => Complete(log) = m /\ AllEntries(log) = m
  /\ \A t \in Thread : T[t].pc = "logging" =>
       Complete(log) = m /\ AllEntries(log) = m \cup FirstOf(T, q, s, T[t].sent)
  /\ \A t \in Thread : T[t].pc = "logged" =>
       /\ Complete(log) = m \cup FirstOf(T, q, s, T[t].group)
       /\ AllEntries(log) = m \cup FirstOf(T, q, s, T[t].group)

WriteAheadInv ==
  db.state = "open" =>
    /\ WrittenAhead(disk.logs[db.mem], mems[db.mem], th, writers, vset.last_sequence)
    /\ db.imm # 0 => Complete(disk.logs[db.imm]) = mems[db.imm]

LEMMA GroupIs ==
  ASSUME NEW n
  PROVE  {GroupEntry(writers, i) : i \in 1 .. n} = FirstOf(th, writers, vset.last_sequence, n)
BY DEF GroupEntry, FirstOf

LEMMA CompleteNone == Complete(<<>>) = {} /\ AllEntries(<<>>) = {}
BY DEF Complete, AllEntries

(* One more fragment. *)
LEMMA CompleteAppend ==
  ASSUME NEW log, IsSequence(log), NEW f
  PROVE  /\ AllEntries(Append(log, f)) = AllEntries(log) \cup {f.entry}
         /\ f.type \in Ending => Complete(Append(log, f)) = AllEntries(Append(log, f))
         /\ f.type \notin Ending => Complete(Append(log, f)) = Complete(log)
<1> DEFINE n == Len(log)
           p == Append(log, f)
<1>1. PICK A : log \in Seq(A)
  BY DEF IsSequence
<1>2. log \in Seq(A \cup {f})
  BY <1>1
<1>3. n \in Nat /\ DOMAIN log = 1..n
  BY <1>1, SequenceIs
<1>4. DOMAIN p = 1..(n + 1) /\ Len(p) = n + 1 /\ p[n + 1] = f /\ \A i \in 1..n : p[i] = log[i]
  BY <1>2
<1> HIDE DEF n, p
<1>5. AllEntries(p) = AllEntries(log) \cup {f.entry}
  <2>1. \A i : i \in 1..(n + 1) <=> i \in 1..n \/ i = n + 1
    BY <1>3
  <2>2. ASSUME NEW x \in AllEntries(p) PROVE x \in AllEntries(log) \cup {f.entry}
    <3>1. PICK i \in DOMAIN p : x = p[i].entry
      BY DEF AllEntries
    <3> QED
      BY <1>3, <1>4, <2>1, <3>1 DEF AllEntries
  <2>3. ASSUME NEW x \in AllEntries(log) PROVE x \in AllEntries(p)
    <3>1. PICK i \in DOMAIN log : x = log[i].entry
      BY <2>3 DEF AllEntries
    <3>2. i \in DOMAIN p /\ p[i] = log[i]
      BY <1>3, <1>4, <2>1, <3>1
    <3> QED
      BY <3>1, <3>2 DEF AllEntries
  <2>4. f.entry \in AllEntries(p)
    <3>1. n + 1 \in DOMAIN p
      BY <1>3, <1>4
    <3> QED
      BY <1>4, <3>1 DEF AllEntries
  <2> QED
    BY <2>2, <2>3, <2>4
<1>6. ASSUME f.type \in Ending PROVE Complete(p) = AllEntries(p)
  <2>1. ASSUME NEW j \in DOMAIN p PROVE \E m \in j..Len(p) : p[m].type \in {"full", "last"}
    <3>1. n + 1 \in j..Len(p) /\ p[n + 1].type \in {"full", "last"}
      BY <1>3, <1>4, <1>6 DEF Ending
    <3> QED
      BY <3>1
  <2> QED
    BY <2>1 DEF Complete, AllEntries
<1>7. ASSUME f.type \notin Ending PROVE Complete(p) = Complete(log)
  <2>1. ASSUME NEW j PROVE (j \in DOMAIN p /\ \E m \in j..Len(p) : p[m].type \in {"full", "last"})
                           <=> (j \in DOMAIN log /\ \E m \in j..Len(log) : log[m].type \in {"full", "last"})
    <3>1. ASSUME j \in DOMAIN p, NEW m \in j..Len(p), p[m].type \in {"full", "last"}
          PROVE  j \in DOMAIN log /\ m \in j..Len(log) /\ log[m].type \in {"full", "last"}
      <4>1. m # n + 1
        BY <1>4, <1>7, <3>1 DEF Ending
      <4>2. j \in 1..n /\ m \in j..n /\ m \in 1..n
        BY <1>3, <1>4, <3>1, <4>1
      <4> QED
        BY <1>3, <1>4, <3>1, <4>2 DEF n
    <3>2. ASSUME j \in DOMAIN log, NEW m \in j..Len(log), log[m].type \in {"full", "last"}
          PROVE  j \in DOMAIN p /\ m \in j..Len(p) /\ p[m].type \in {"full", "last"}
      <4>1. j \in 1..n /\ m \in j..n
        BY <1>3, <3>2 DEF n
      <4>2. j \in 1..(n + 1) /\ m \in j..(n + 1) /\ m \in 1..n
        BY <1>3, <4>1
      <4> QED
        BY <1>4, <3>2, <4>2
    <3> QED
      BY <3>1, <3>2
  <2>2. \A j \in DOMAIN log : p[j] = log[j]
    BY <1>3, <1>4
  <2> DEFINE P == {j \in DOMAIN p : \E m \in j..Len(p) : p[m].type \in {"full", "last"}}
             Q == {j \in DOMAIN log : \E m \in j..Len(log) : log[m].type \in {"full", "last"}}
  <2>3. P = Q /\ Q \subseteq DOMAIN log
    BY <2>1
  <2>4. Complete(p) = {p[i].entry : i \in P} /\ Complete(log) = {log[i].entry : i \in Q}
    BY DEF Complete
  <2> HIDE DEF P, Q
  <2> QED
    BY <2>2, <2>3, <2>4
<1> QED
  BY <1>5, <1>6, <1>7 DEF p

(* Nobody writes a record, or one that has just begun. *)
LEMMA AheadStarts ==
  ASSUME NEW log, NEW m, NEW T, NEW q, NEW s, Complete(log) = m, AllEntries(log) = m,
         \A t \in Thread : T[t].pc \in Leading => T[t].pc = "logging" /\ T[t].sent = 0
  PROVE  WrittenAhead(log, m, T, q, s)
<1>1. FirstOf(T, q, s, 0) = {}
  BY DEF FirstOf
<1> QED
  BY <1>1 DEF WrittenAhead, Leading

LEMMA AheadEnds ==
  ASSUME NEW log, NEW m, NEW T, NEW q, NEW s, WrittenAhead(log, m, T, q, s),
         \A t \in Thread : T[t].pc \notin Leading
  PROVE  Complete(log) = m /\ AllEntries(log) = m
BY DEF WrittenAhead

(* Other threads move, and more of them join the queue. *)
LEMMA AheadKept ==
  ASSUME NEW log, NEW m, NEW T, NEW q, NEW s, WrittenAhead(log, m, T, q, s), QueueOf(T, q), NEW S, NEW p,
         \A t \in Thread : T[t].pc \in Leading \/ S[t].pc \in Leading =>
           S[t].pc = T[t].pc /\ S[t].sent = T[t].sent /\ S[t].group = T[t].group,
         \A i \in DOMAIN q : p[i] = q[i] /\ S[q[i]].key = T[q[i]].key /\ S[q[i]].val = T[q[i]].val
  PROVE  WrittenAhead(log, m, S, p, s)
<1>1. DOMAIN q = 1..Len(q) /\ Len(q) \in Nat
  BY SequenceIs DEF QueueOf
<1>2. ASSUME NEW n, n \in Nat, n <= Len(q) PROVE FirstOf(S, p, s, n) = FirstOf(T, q, s, n)
  <2>1. \A i \in 1..n : i \in DOMAIN q
    BY <1>1, <1>2
  <2> QED
    BY <2>1 DEF FirstOf
<1>3. ASSUME NEW t \in Thread, T[t].pc = "logging" PROVE T[t].sent \in Nat /\ T[t].sent <= Len(q)
  <2>1. CallOK(T[t], Len(q)) /\ T[t] \in Call
    BY <1>3, CallIsCall DEF QueueOf, WriterPcs
  <2>2. T[t].group \in 1..Len(q) /\ T[t].sent < T[t].group
    BY <1>3, <2>1 DEF CallOK
  <2>3. T[t].sent \in 0..Cardinality(Thread) /\ Cardinality(Thread) \in Nat
    BY <2>1, LevelDBAssumption, FS_CardinalityType DEF Call
  <2> QED
    BY <1>1, <2>2, <2>3
<1>4. ASSUME NEW t \in Thread, T[t].pc = "logged" PROVE T[t].group \in Nat /\ T[t].group <= Len(q)
  <2>1. T[t].group \in 1..Len(q)
    BY <1>4 DEF QueueOf, CallOK
  <2> QED
    BY <1>1, <2>1
<1>5. (\A t \in Thread : S[t].pc \notin Leading) => Complete(log) = m /\ AllEntries(log) = m
  BY DEF WrittenAhead
<1>6. ASSUME NEW t \in Thread, S[t].pc = "logging"
      PROVE  Complete(log) = m /\ AllEntries(log) = m \cup FirstOf(S, p, s, S[t].sent)
  <2>1. T[t].pc = "logging" /\ S[t].sent = T[t].sent
    BY <1>6 DEF Leading
  <2>2. FirstOf(S, p, s, S[t].sent) = FirstOf(T, q, s, T[t].sent)
    BY <1>2, <1>3, <2>1
  <2> QED
    BY <2>1, <2>2 DEF WrittenAhead
<1>7. ASSUME NEW t \in Thread, S[t].pc = "logged"
      PROVE  /\ Complete(log) = m \cup FirstOf(S, p, s, S[t].group)
             /\ AllEntries(log) = m \cup FirstOf(S, p, s, S[t].group)
  <2>1. T[t].pc = "logged" /\ S[t].group = T[t].group
    BY <1>7 DEF Leading
  <2>2. FirstOf(S, p, s, S[t].group) = FirstOf(T, q, s, T[t].group)
    BY <1>2, <1>4, <2>1
  <2> QED
    BY <2>1, <2>2 DEF WrittenAhead
<1> QED
  BY <1>5, <1>6, <1>7 DEF WrittenAhead

(* What Awakened changes of a thread, nobody that leads a group sees. *)
LEMMA AwakenedCalm ==
  ASSUME NEW T, NEW q, QueueOf(T, q), NEW S, S \in {T, Awakened(T)}
  PROVE  /\ \A t \in Thread : T[t].pc \in Leading \/ S[t].pc \in Leading =>
              S[t].pc = T[t].pc /\ S[t].sent = T[t].sent /\ S[t].group = T[t].group
         /\ \A i \in DOMAIN q : S[q[i]].key = T[q[i]].key /\ S[q[i]].val = T[q[i]].val
<1>1. \A i \in DOMAIN q : q[i] \in Thread
  BY SequenceIs DEF QueueOf
<1>2. ASSUME NEW t \in Thread
      PROVE  S[t] = T[t] \/ (T[t].pc = "bgwait" /\ S[t] = [T[t] EXCEPT !.pc = "bgwoken"])
  BY DEF Awakened
<1>3. ASSUME NEW t \in Thread, S[t] # T[t]
      PROVE  /\ T[t].pc \notin Leading /\ S[t].pc \notin Leading
             /\ S[t].key = T[t].key /\ S[t].val = T[t].val
  <2> DEFINE r == T[t]
  <2>1. r.pc = "bgwait" /\ S[t] = [r EXCEPT !.pc = "bgwoken"]
    BY <1>2, <1>3
  <2>2. r \in Call
    BY <2>1, CallIsCall DEF QueueOf, WriterPcs
  <2> HIDE DEF r
  <2>3. "bgwoken" \in WriterPcs
    BY DEF WriterPcs
  <2>4. S[t].pc = "bgwoken" /\ S[t].key = r.key /\ S[t].val = r.val
    BY <2>1, <2>2, <2>3, CallMoves
  <2> QED
    BY <2>1, <2>4 DEF r, Leading
<1>4. ASSUME NEW t \in Thread, T[t].pc \in Leading \/ S[t].pc \in Leading
      PROVE  S[t].pc = T[t].pc /\ S[t].sent = T[t].sent /\ S[t].group = T[t].group
  BY <1>3, <1>4
<1>5. ASSUME NEW i \in DOMAIN q PROVE S[q[i]].key = T[q[i]].key /\ S[q[i]].val = T[q[i]].val
  BY <1>1, <1>3
<1> QED
  BY <1>4, <1>5

LEMMA SignalledCalm ==
  ASSUME NEW T, DOMAIN T = Thread, \A u \in Thread : ThreadShape(T[u]) /\ T[u].pc \notin Leading,
         NEW q \in Seq(Thread)
  PROVE  \A u \in Thread : HeadSignalled(T, q)[u].pc \notin Leading
<1>1. CASE q # <<>> /\ T[Head(q)].pc = "queued"
  <2> DEFINE h == Head(q)
             r == [T[h] EXCEPT !.pc = "woken"]
  <2>1. HeadSignalled(T, q) = [T EXCEPT ![h] = r]
    BY <1>1 DEF HeadSignalled
  <2>2. h \in Thread
    BY <1>1, SequenceIs
  <2>3. r.pc = "woken"
    BY <2>2 DEF ThreadShape
  <2> HIDE DEF h, r
  <2> QED
    BY <2>1, <2>3 DEF Leading
<1>2. CASE ~(q # <<>> /\ T[Head(q)].pc = "queued")
  BY <1>2 DEF HeadSignalled
<1> QED
  BY <1>1, <1>2

(* Only the head of the queue leads a group. *)
LEMMA OneLeads ==
  ASSUME NEW T, NEW q, QueueOf(T, q), NEW t \in Thread, T[t].pc \in InQueue \ {"queued"}
  PROVE  \A u \in Thread \ {t} : T[u].pc \notin Leading
<1>1. ASSUME NEW u \in Thread, T[u].pc \in Leading PROVE u = t
  <2>1. T[u].pc \in InQueue \ {"queued"}
    BY <1>1 DEF Leading, InQueue, WriterPcs
  <2>2. q[1] = u
    BY <2>1, QueueHead
  <2>3. q[1] = t
    BY QueueHead
  <2> QED
    BY <2>2, <2>3
<1> QED
  BY <1>1

(* The log and the memtable of writes in progress stay. *)
LEMMA AheadStays ==
  ASSUME WriteAheadInv, QueueInv, db.state = "open",
         db'.mem = db.mem, disk'.logs[db.mem] = disk.logs[db.mem], mems'[db.mem] = mems[db.mem],
         vset'.last_sequence = vset.last_sequence, writers' = writers, th' \in {th, Awakened(th)},
         db'.imm # 0 => /\ db'.imm = db.imm /\ disk'.logs[db.imm] = disk.logs[db.imm]
                        /\ mems'[db.imm] = mems[db.imm]
  PROVE  WriteAheadInv'
<1>1. QueueOf(th, writers)
  BY DEF QueueInv
<1>2. WrittenAhead(disk.logs[db.mem], mems[db.mem], th, writers, vset.last_sequence)
  BY DEF WriteAheadInv
<1>3. WrittenAhead(disk.logs[db.mem], mems[db.mem], th', writers, vset.last_sequence)
  <2> DEFINE S == th'
             log == disk.logs[db.mem]
             m == mems[db.mem]
             s == vset.last_sequence
  <2>1. S \in {th, Awakened(th)} /\ WrittenAhead(log, m, th, writers, s)
    BY <1>2
  <2> HIDE DEF S, log, m, s
  <2>2. /\ \A t \in Thread : th[t].pc \in Leading \/ S[t].pc \in Leading =>
              S[t].pc = th[t].pc /\ S[t].sent = th[t].sent /\ S[t].group = th[t].group
        /\ \A i \in DOMAIN writers : S[writers[i]].key = th[writers[i]].key /\ S[writers[i]].val = th[writers[i]].val
    BY ONLY <1>1, <2>1, AwakenedCalm
  <2>3. WrittenAhead(log, m, S, writers, s)
    BY ONLY <1>1, <2>1, <2>2, AheadKept
  <2> QED
    BY <2>3 DEF S, log, m, s
<1>4. WrittenAhead(disk'.logs[db'.mem], mems'[db'.mem], th', writers', vset'.last_sequence)
  BY <1>3
<1>5. db'.imm # 0 => Complete(disk'.logs[db'.imm]) = mems'[db'.imm]
  BY DEF WriteAheadInv
<1> QED
  BY <1>4, <1>5 DEF WriteAheadInv

(* Nobody leads a group before the step, and at most one group starts. *)
LEMMA AheadFresh ==
  ASSUME WriteAheadInv, db.state = "open", \A u \in Thread : th[u].pc \notin Leading,
         \A u \in Thread : th'[u].pc \in Leading => th'[u].pc = "logging" /\ th'[u].sent = 0,
         \/ UNCHANGED <<disk, db, mems>>
         \/ /\ db'.mem \in DOMAIN disk'.logs /\ disk'.logs[db'.mem] = <<>> /\ mems'[db'.mem] = {}
            /\ db'.imm = db.mem
            /\ disk'.logs[db.mem] = disk.logs[db.mem] /\ mems'[db.mem] = mems[db.mem]
  PROVE  WriteAheadInv'
<1> DEFINE log == disk'.logs[db'.mem]
           m == mems'[db'.mem]
<1>1. Complete(disk.logs[db.mem]) = mems[db.mem] /\ AllEntries(disk.logs[db.mem]) = mems[db.mem]
  BY DEF WriteAheadInv, WrittenAhead
<1>2. Complete(log) = m /\ AllEntries(log) = m
  BY <1>1, CompleteNone
<1>3. db'.imm # 0 => Complete(disk'.logs[db'.imm]) = mems'[db'.imm]
  BY <1>1 DEF WriteAheadInv
<1>4. WrittenAhead(log, m, th', writers', vset'.last_sequence)
  <2> HIDE DEF log, m
  <2> DEFINE T == th'
             q == writers'
             s == vset'.last_sequence
  <2>1. \A u \in Thread : T[u].pc \in Leading => T[u].pc = "logging" /\ T[u].sent = 0
    OBVIOUS
  <2> HIDE DEF T, q, s
  <2>2. WrittenAhead(log, m, T, q, s)
    BY ONLY <1>2, <2>1, AheadStarts
  <2> QED
    BY <2>2 DEF T, q, s
<1> QED
  BY <1>3, <1>4 DEF WriteAheadInv

(* The new log and memtable. *)
LEMMA SwitchIs ==
  ASSUME FilesInv, MemsStored, db.state = "open", NEW err, SwitchMemTable(err)
  PROVE  /\ db'.mem \in DOMAIN disk'.logs /\ disk'.logs[db'.mem] = <<>> /\ mems'[db'.mem] = {}
         /\ db'.imm = db.mem
         /\ disk'.logs[db.mem] = disk.logs[db.mem] /\ mems'[db.mem] = mems[db.mem]
<1> DEFINE log == vset.next_file
<1>1. DiskShape /\ DBShape /\ log \in Nat /\ db.mem \in Nat /\ db.mem < log /\ db.mem \in DOMAIN disk.logs
  BY DEF FilesInv, Shapes, ServingInv, LogsHeld
<1>2. db'.mem = log /\ db'.imm = db.mem /\ mems' = WithFile(mems, log, {})
  BY <1>1 DEF SwitchMemTable, DBShape
<1>3. disk'.logs = WithFile(disk.logs, log, <<>>)
  BY <1>1 DEF SwitchMemTable, DiskShape
<1>4. db.mem # log /\ db.mem \in DOMAIN mems
  BY <1>1, ReferencedIs DEF MemsStored
<1> HIDE DEF log
<1> QED
  BY <1>1, <1>2, <1>3, <1>4 DEF WithFile

LEMMA MakeRoomAhead ==
  ASSUME FilesInv, MemsStored, WriteAheadInv, db.state = "open",
         \A u \in Thread : th[u].pc \notin Leading,
         NEW t \in Thread, NEW q \in Seq(Thread), q # <<>>, NEW T, DOMAIN T = Thread, NEW b,
         \A u \in Thread : ThreadShape(T[u]) /\ T[u].pc \notin Leading, T[t] \in Call, T[t].sent = 0,
         MakeRoomForWrite(t, q, T, b)
  PROVE  WriteAheadInv'
<1>1. \/ UNCHANGED <<disk, db, mems>>
      \/ \E err : SwitchMemTable(err)
  BY DEF MakeRoomForWrite
<1>2. \/ UNCHANGED <<disk, db, mems>>
      \/ /\ db'.mem \in DOMAIN disk'.logs /\ disk'.logs[db'.mem] = <<>> /\ mems'[db'.mem] = {}
         /\ db'.imm = db.mem
         /\ disk'.logs[db.mem] = disk.logs[db.mem] /\ mems'[db.mem] = mems[db.mem]
  BY <1>1, SwitchIs
<1>3. \/ Refused(t, q, T)
      \/ th' = [T EXCEPT ![t].pc = "delayed", ![t].slept = TRUE]
      \/ th' = [T EXCEPT ![t].pc = "bgwait"]
      \/ th' = BuildBatchGroup(T, t, q)
  BY DEF MakeRoomForWrite
<1>4. "delayed" \in WriterPcs /\ "bgwait" \in WriterPcs /\ Idle.pc = "idle" /\ ThreadShape(Idle)
  BY IdleShape DEF WriterPcs
<1>5. ASSUME Refused(t, q, T) PROVE \A u \in Thread : th'[u].pc \notin Leading
  <2> DEFINE S == [T EXCEPT ![t] = Idle]
             p == Tail(q)
  <2>1. th' = HeadSignalled(S, p) /\ p \in Seq(Thread)
    BY <1>5, HeadTailProperties DEF Refused
  <2>2. DOMAIN S = Thread /\ \A u \in Thread : ThreadShape(S[u]) /\ S[u].pc \notin Leading
    BY <1>4 DEF Leading
  <2> HIDE DEF S, p
  <2>3. \A u \in Thread : HeadSignalled(S, p)[u].pc \notin Leading
    BY ONLY <2>1, <2>2, SignalledCalm
  <2> QED
    BY ONLY <2>1, <2>3
<1>6. ASSUME NEW r, r.pc \in Leading => r.pc = "logging" /\ r.sent = 0, th' = [T EXCEPT ![t] = r]
      PROVE  \A u \in Thread : th'[u].pc \in Leading => th'[u].pc = "logging" /\ th'[u].sent = 0
  BY <1>6
<1> DEFINE x == T[t]
<1>7. x \in Call /\ x.sent = 0
  OBVIOUS
<1>8. \A u \in Thread : th'[u].pc \in Leading => th'[u].pc = "logging" /\ th'[u].sent = 0
  <2>1. CASE th' = [T EXCEPT ![t].pc = "delayed", ![t].slept = TRUE]
    <3>1. th' = [T EXCEPT ![t] = [x EXCEPT !.pc = "delayed", !.slept = TRUE]]
      BY <2>1
    <3>2. [x EXCEPT !.pc = "delayed", !.slept = TRUE].pc = "delayed"
      <4> HIDE DEF x
      <4> QED
        BY <1>4, <1>7, CallSlept
    <3> QED
      BY <1>6, <3>1, <3>2 DEF Leading
  <2>2. CASE th' = [T EXCEPT ![t].pc = "bgwait"]
    <3>1. th' = [T EXCEPT ![t] = [x EXCEPT !.pc = "bgwait"]]
      BY <2>2
    <3>2. [x EXCEPT !.pc = "bgwait"].pc = "bgwait"
      <4> HIDE DEF x
      <4> QED
        BY <1>4, <1>7, CallMoves
    <3> QED
      BY <1>6, <3>1, <3>2 DEF Leading
  <2>3. CASE th' = BuildBatchGroup(T, t, q)
    <3> DEFINE n == Len(q)
    <3>1. th' = [T EXCEPT ![t] = [x EXCEPT !.pc = "logging", !.group = n]]
      BY <2>3 DEF BuildBatchGroup
    <3>2. /\ [x EXCEPT !.pc = "logging", !.group = n].pc = "logging"
          /\ [x EXCEPT !.pc = "logging", !.group = n].sent = 0
      <4> HIDE DEF x, n
      <4> QED
        BY ONLY <1>7 DEF Call
    <3> QED
      BY <1>6, <3>1, <3>2
  <2> QED
    BY <1>3, <1>5, <2>1, <2>2, <2>3
<1> QED
  BY <1>2, <1>8, AheadFresh

LEMMA ThreadsShaped ==
  ASSUME FilesInv, QueueInv
  PROVE  DOMAIN th = Thread /\ QueueOf(th, writers) /\ (\A u \in Thread : ThreadShape(th[u])) /\ DiskShape
BY DEF FilesInv, Shapes, QueueInv

LEMMA WriteAhead ==
  ASSUME FilesInv, MemsStored, QueueInv, WriteAheadInv, NEW t \in Thread, NEW k \in Key, Write(t, k)
  PROVE  WriteAheadInv'
<1> DEFINE call == [pc |-> "queued", key |-> k, val |-> bounds.puts + 1,
                    slept |-> FALSE, group |-> 0, sent |-> 0]
           T == [th EXCEPT ![t] = call]
           b == [bounds EXCEPT !.puts = @ + 1]
<1>1. DOMAIN th = Thread /\ QueueOf(th, writers) /\ bounds \in Bounds /\ \A u \in Thread : ThreadShape(th[u])
  BY ThreadsShaped DEF QueueInv, Bounds
<1>2. th[t].pc = "idle" /\ bounds.puts < MaxPuts /\ db.state = "open"
  BY DEF Write
<1>3. \/ writers = <<>> /\ MakeRoomForWrite(t, <<t>>, T, b)
      \/ writers # <<>> /\ writers' = Append(writers, t) /\ th' = T /\ UNCHANGED <<disk, db, vset, mems>>
  BY DEF Write
<1>4. call \in Call /\ call.pc = "queued" /\ call.sent = 0 /\ ThreadShape(call)
  <2>1. bounds.puts + 1 \in 1 .. MaxPuts
    BY <1>1, <1>2, LevelDBAssumption DEF Bounds
  <2>2. 0 \in 0 .. Cardinality(Thread)
    BY LevelDBAssumption, FS_CardinalityType
  <2> QED
    BY <2>1, <2>2 DEF Call, WriterPcs, ThreadShape
<1> HIDE DEF call, b
<1>5. DOMAIN T = Thread /\ T[t] = call /\ \A u \in Thread \ {t} : T[u] = th[u]
  BY <1>1
<1> HIDE DEF T
<1>6. CASE writers = <<>> /\ MakeRoomForWrite(t, <<t>>, T, b)
  <2>1. \A u \in Thread : th[u].pc \notin InQueue
    BY <1>1, <1>6 DEF QueueOf
  <2>2. \A u \in Thread : th[u].pc \notin Leading
    BY <2>1 DEF InQueue, WriterPcs, Leading
  <2>3. \A u \in Thread : ThreadShape(T[u]) /\ T[u].pc \notin Leading
    BY <1>1, <1>4, <1>5, <2>2 DEF Leading
  <2> DEFINE q == <<t>>
  <2>4. q \in Seq(Thread) /\ q # <<>> /\ MakeRoomForWrite(t, q, T, b)
    BY <1>6
  <2> HIDE DEF q
  <2> QED
    BY <1>2, <1>4, <1>5, <2>2, <2>3, <2>4, MakeRoomAhead
<1>7. CASE writers # <<>> /\ writers' = Append(writers, t) /\ th' = T /\ UNCHANGED <<disk, db, vset, mems>>
  <2> DEFINE log == disk.logs[db.mem]
             m == mems[db.mem]
             s == vset.last_sequence
             p == Append(writers, t)
  <2>1. WrittenAhead(log, m, th, writers, s)
    BY <1>2 DEF WriteAheadInv
  <2>2. \A i \in DOMAIN writers : p[i] = writers[i] /\ writers[i] \in Thread /\ writers[i] # t
    <3>1. \A i \in DOMAIN writers : writers[i] # t
      BY <1>1, <1>2 DEF QueueOf, InQueue, WriterPcs
    <3>2. writers \in Seq(Thread)
      BY <1>1 DEF QueueOf
    <3> QED
      BY <3>1, <3>2
  <2> HIDE DEF log, m, s, p
  <2>3. \A u \in Thread : th[u].pc \in Leading \/ T[u].pc \in Leading =>
           T[u].pc = th[u].pc /\ T[u].sent = th[u].sent /\ T[u].group = th[u].group
    BY <1>2, <1>4, <1>5 DEF Leading
  <2>4. \A i \in DOMAIN writers : p[i] = writers[i] /\ T[writers[i]].key = th[writers[i]].key
                                  /\ T[writers[i]].val = th[writers[i]].val
    BY <1>5, <2>2
  <2>5. WrittenAhead(log, m, T, p, s)
    BY ONLY <1>1, <2>1, <2>3, <2>4, AheadKept
  <2>6. WrittenAhead(disk'.logs[db'.mem], mems'[db'.mem], th', writers', vset'.last_sequence)
    BY <1>7, <2>5 DEF log, m, s, p
  <2> QED
    BY <1>7, <2>6 DEF WriteAheadInv
<1> QED
  BY <1>3, <1>6, <1>7

LEMMA ResumeAhead ==
  ASSUME FilesInv, MemsStored, QueueInv, WriteAheadInv, NEW t \in Thread, Resume(t)
  PROVE  WriteAheadInv'
<1>1. DOMAIN th = Thread /\ QueueOf(th, writers) /\ \A u \in Thread : ThreadShape(th[u])
  BY ThreadsShaped
<1>2. th[t].pc \in {"woken", "delayed", "bgwoken"} /\ MakeRoomForWrite(t, writers, th, bounds)
  BY DEF Resume
<1>3. th[t].pc \in InQueue \ {"queued", "logging", "logged"} /\ th[t].pc \in WriterPcs
  BY <1>2 DEF InQueue, WriterPcs
<1>4. writers # <<>> /\ writers \in Seq(Thread)
  BY <1>1, <1>3, QueueHead DEF QueueOf
<1>5. \A u \in Thread : th[u].pc \notin Leading
  BY <1>1, <1>3, OneLeads DEF Leading
<1>6. th[t] \in Call /\ th[t].sent = 0
  BY <1>1, <1>3, CallIsCall DEF QueueOf, CallOK
<1>7. db.state = "open"
  BY <1>2 DEF FilesInv, NobodyYet
<1> QED
  BY <1>1, <1>2, <1>4, <1>5, <1>6, <1>7, MakeRoomAhead

(* A fragment of the record reaches the log. *)
LEMMA AddRecordAhead ==
  ASSUME FilesInv, MemsStored, LogsReadable, QueueInv, WriteAheadInv, NEW t \in Thread, AddRecord(t)
  PROVE  WriteAheadInv'
<1> DEFINE n == th[t].group
           i == th[t].sent + 1
           type == CASE n = 1 -> "full" [] n > 1 /\ i = 1 -> "first"
                     [] n > 1 /\ i = n -> "last" [] OTHER -> "middle"
           f == [type |-> type, entry |-> GroupEntry(writers, i)]
           log == disk.logs[db.mem]
           m == mems[db.mem]
           s == vset.last_sequence
           r == [th[t] EXCEPT !.sent = i, !.pc = IF i = n THEN "logged" ELSE "logging"]
<1>1. /\ th[t].pc = "logging" /\ db.state = "open" /\ db.mem \in DOMAIN disk.logs
      /\ th[t].sent \in Nat /\ n \in 1 .. Len(writers) /\ th[t].sent < n
  BY AddRecordIs
<1>2. DOMAIN th = Thread /\ QueueOf(th, writers) /\ DiskShape /\ Len(writers) \in Nat /\ DOMAIN writers = 1..Len(writers)
  BY ThreadsShaped, SequenceIs DEF QueueOf
<1>3. disk' = [disk EXCEPT !.logs[db.mem] = Append(@, f)] /\ UNCHANGED <<db, vset, mems, writers>>
  BY DEF AddRecord
<1>4. th' = [th EXCEPT ![t] = r]
  BY <1>2 DEF AddRecord
<1>5. n \in Nat /\ i \in Nat /\ i <= n
  BY <1>1, <1>2
<1>6. i = n => type \in Ending
  <2>1. CASE n = 1
    BY <2>1 DEF Ending
  <2>2. CASE n # 1 /\ i = n
    <3>1. n > 1 /\ ~(n = 1) /\ ~(i = 1)
      BY <1>1, <1>5, <2>2
    <3>2. type = "last"
      BY <2>2, <3>1
    <3> QED
      BY <3>2 DEF Ending
  <2> QED
    BY <2>1, <2>2
<1>7. i # n => type \notin Ending
  BY <1>1, <1>5 DEF Ending
<1>8. f.type = type /\ f.entry = GroupEntry(writers, i)
  OBVIOUS
<1>9. th[t] \in Call
  BY <1>1, <1>2, CallIsCall DEF QueueOf, WriterPcs
<1>10. r.sent = i /\ r.group = n /\ r.key = th[t].key /\ r.val = th[t].val
       /\ (i = n => r.pc = "logged") /\ (i # n => r.pc = "logging")
  <2> DEFINE x == th[t]
             pc == IF i = n THEN "logged" ELSE "logging"
  <2>1. x \in Call /\ n = x.group
    BY <1>9
  <2> HIDE DEF x, pc, i
  <2>2. /\ [x EXCEPT !.sent = i, !.pc = pc].sent = i
        /\ [x EXCEPT !.sent = i, !.pc = pc].group = x.group
        /\ [x EXCEPT !.sent = i, !.pc = pc].key = x.key
        /\ [x EXCEPT !.sent = i, !.pc = pc].val = x.val
        /\ [x EXCEPT !.sent = i, !.pc = pc].pc = pc
    BY ONLY <2>1 DEF Call
  <2> QED
    BY <2>2 DEF x, pc
<1> HIDE DEF type, r
<1>11. IsSequence(log)
  BY <1>1 DEF LogsReadable, IsLog
<1>12. disk'.logs[db.mem] = Append(log, f) /\ \A j \in DOMAIN disk.logs : j # db.mem => disk'.logs[j] = disk.logs[j]
  <2>1. disk'.logs = [disk.logs EXCEPT ![db.mem] = Append(@, f)]
    BY <1>2, <1>3 DEF DiskShape
  <2> QED
    BY <1>1, <2>1
<1>13. Complete(log) = m /\ AllEntries(log) = m \cup FirstOf(th, writers, s, th[t].sent)
  BY <1>1 DEF WriteAheadInv, WrittenAhead
<1>14. GroupEntry(writers, i) = [seq |-> s + i, key |-> th[writers[i]].key, val |-> th[writers[i]].val]
  BY DEF GroupEntry
<1>15. FirstOf(th, writers, s, th[t].sent) \cup {f.entry} = FirstOf(th, writers, s, i)
  <2>1. \A j : j \in 1..i <=> j \in 1..th[t].sent \/ j = i
    BY <1>1
  <2> QED
    BY <1>8, <1>14, <2>1 DEF FirstOf
<1> HIDE DEF f, log, m, s, i, n
<1>16. ASSUME NEW k \in 1..Len(writers) PROVE FirstOf(th', writers, s, k) = FirstOf(th, writers, s, k)
  <2>1. \A j \in 1..k : j \in DOMAIN writers
    BY <1>2
  <2>2. \A u \in Thread : th'[u].key = th[u].key /\ th'[u].val = th[u].val
    BY <1>2, <1>4, <1>10
  <2>3. \A j \in DOMAIN writers : writers[j] \in Thread
    BY <1>2, SequenceIs DEF QueueOf
  <2> QED
    BY <2>1, <2>2, <2>3 DEF FirstOf
<1>17. AllEntries(Append(log, f)) = m \cup FirstOf(th, writers, s, i)
       /\ (i = n => Complete(Append(log, f)) = AllEntries(Append(log, f)))
       /\ (i # n => Complete(Append(log, f)) = m)
  BY <1>6, <1>7, <1>8, <1>11, <1>13, <1>15, CompleteAppend
<1>18. \A u \in Thread \ {t} : th'[u].pc \notin Leading
  <2>1. th[t].pc \in InQueue \ {"queued"}
    BY <1>1 DEF InQueue, WriterPcs
  <2>2. \A u \in Thread \ {t} : th[u].pc \notin Leading
    BY <1>2, <2>1, OneLeads
  <2> QED
    BY <1>2, <1>4, <2>2
<1>19. th'[t] = r /\ i \in 1..Len(writers)
  BY <1>1, <1>2, <1>4, <1>5 DEF i
<1>20. WrittenAhead(Append(log, f), m, th', writers, s)
  <2>1. CASE i = n
    BY <1>10, <1>16, <1>17, <1>18, <1>19, <2>1 DEF WrittenAhead, Leading
  <2>2. CASE i # n
    BY <1>10, <1>16, <1>17, <1>18, <1>19, <2>2 DEF WrittenAhead, Leading
  <2> QED
    BY <2>1, <2>2
<1>21. WrittenAhead(disk'.logs[db'.mem], mems'[db'.mem], th', writers', vset'.last_sequence)
  BY <1>3, <1>12, <1>20 DEF m, s
<1>22. ASSUME db'.imm # 0 PROVE Complete(disk'.logs[db'.imm]) = mems'[db'.imm]
  <2>1. db'.imm = db.imm /\ mems' = mems
    BY <1>3
  <2>2. db.imm \in DOMAIN disk.logs /\ db.imm \in Nat /\ db.mem \in Nat
    BY <1>1, <1>22, <2>1 DEF FilesInv, ServingInv, LogsHeld
  <2>3. db.imm # db.mem
    BY <1>22, <2>1, <2>2 DEF MemsStored
  <2> QED
    BY <1>1, <1>12, <1>22, <2>1, <2>2, <2>3 DEF WriteAheadInv
<1> QED
  BY <1>21, <1>22 DEF WriteAheadInv

(* The group enters the memtable and leaves the queue. *)
LEMMA FinishWriteAhead ==
  ASSUME FilesInv, MemsStored, QueueInv, WriteAheadInv, vset.last_sequence \in Nat,
         NEW t \in Thread, FinishWrite(t)
  PROVE  WriteAheadInv'
<1> DEFINE n == th[t].group
           group == {writers[i] : i \in 1 .. n}
           rest == SubSeq(writers, n + 1, Len(writers))
           T == [u \in Thread |-> IF u = t THEN Idle
                                  ELSE IF u \in group THEN [th[u] EXCEPT !.pc = "done"]
                                  ELSE th[u]]
           new == {GroupEntry(writers, i) : i \in 1 .. n}
<1>1. th[t].pc = "logged" /\ th' = HeadSignalled(T, rest) /\ disk' = disk /\ db' = db
      /\ mems' = [mems EXCEPT ![db.mem] = @ \cup new]
  BY DEF FinishWrite
<1>2. DOMAIN th = Thread /\ QueueOf(th, writers) /\ \A u \in Thread : ThreadShape(th[u])
  BY ThreadsShaped
<1>3. db.state = "open" /\ db.mem \in DOMAIN mems
  <2>1. db.state = "open"
    BY <1>1 DEF FilesInv, NobodyYet
  <2> QED
    BY <2>1, ReferencedIs DEF MemsStored
<1>4. \A u \in Thread \ {t} : th[u].pc \notin Leading
  <2>1. th[t].pc \in InQueue \ {"queued"}
    BY <1>1 DEF InQueue, WriterPcs
  <2> QED
    BY <1>2, <2>1, OneLeads
<1>5. DOMAIN T = Thread /\ \A u \in Thread : ThreadShape(T[u]) /\ T[u].pc \notin Leading
  <2>1. ASSUME NEW u \in Thread PROVE ThreadShape(T[u]) /\ T[u].pc \notin Leading
    <3> DEFINE x == th[u]
    <3>1. ThreadShape(x)
      BY <1>2
    <3>2. T[u] = Idle \/ T[u] = [x EXCEPT !.pc = "done"] \/ (T[u] = x /\ u # t)
      OBVIOUS
    <3>3. ThreadShape(Idle) /\ Idle.pc = "idle"
      BY IdleShape
    <3> HIDE DEF x, T
    <3>4. ThreadShape([x EXCEPT !.pc = "done"]) /\ [x EXCEPT !.pc = "done"].pc = "done"
      BY <3>1 DEF ThreadShape
    <3>5. CASE T[u] = Idle
      BY <3>3, <3>5 DEF Leading
    <3>6. CASE T[u] = [x EXCEPT !.pc = "done"]
      BY <3>4, <3>6 DEF Leading
    <3>7. CASE T[u] = x /\ u # t
      BY <1>4, <3>1, <3>7 DEF x
    <3> QED
      BY <3>2, <3>5, <3>6, <3>7
  <2> QED
    BY <2>1
<1>6. rest \in Seq(Thread)
  <2>1. writers \in Seq(Thread) /\ n \in 1..Len(writers) /\ Len(writers) \in Nat
    BY <1>1, <1>2, SequenceIs DEF QueueOf, CallOK
  <2> QED
    BY <2>1
<1>7. \A u \in Thread : th'[u].pc \notin Leading
  <2> HIDE DEF T, rest
  <2>1. \A u \in Thread : HeadSignalled(T, rest)[u].pc \notin Leading
    BY ONLY <1>5, <1>6, SignalledCalm
  <2> QED
    BY <1>1, <2>1
<1>8. new = FirstOf(th, writers, vset.last_sequence, n)
  BY GroupIs
<1> HIDE DEF T, rest, group, new
<1> DEFINE log == disk.logs[db.mem]
           m == mems[db.mem]
<1>9. Complete(log) = m \cup new /\ AllEntries(log) = m \cup new
  BY <1>1, <1>3, <1>8 DEF WriteAheadInv, WrittenAhead
<1>10. mems'[db.mem] = m \cup new
  BY <1>1, <1>3
<1> HIDE DEF log, m
<1>11. WrittenAhead(log, m \cup new, th', writers', vset'.last_sequence)
  BY <1>7, <1>9 DEF WrittenAhead, Leading
<1>12. WrittenAhead(disk'.logs[db'.mem], mems'[db'.mem], th', writers', vset'.last_sequence)
  BY <1>1, <1>10, <1>11 DEF log
<1>13. db'.imm # 0 => Complete(disk'.logs[db'.imm]) = mems'[db'.imm]
  BY <1>1, <1>3, FinishWriteStored DEF WriteAheadInv
<1> QED
  BY <1>12, <1>13 DEF WriteAheadInv

(* A thread that is not in the queue returns or starts to read. *)
LEMMA BesideAhead ==
  ASSUME FilesInv, MemsStored, QueueInv, WriteAheadInv, NEW t \in Thread, NEW k \in Key,
         Return(t) \/ Get(t, k) \/ GetReturns(t)
  PROVE  WriteAheadInv'
<1>1. DOMAIN th = Thread /\ QueueOf(th, writers) /\ Idle.pc = "idle"
  BY ThreadsShaped, IdleShape
<1>2. /\ th[t].pc \in {"done", "idle", "reading"}
      /\ disk' = disk /\ vset' = vset /\ writers' = writers
  BY DEF Return, Get, GetReturns
<1>3. \E r : th' = [th EXCEPT ![t] = r] /\ (r = Idle \/ r.pc = "reading")
  BY DEF Return, Get, GetReturns
<1>4. PICK r : th' = [th EXCEPT ![t] = r] /\ (r = Idle \/ r.pc = "reading")
  BY <1>3
<1>5. db' = db /\ \A m \in {db.mem, db.imm} \ {0} : m \in DOMAIN mems' /\ mems'[m] = mems[m]
  <2>1. CASE GetReturns(t)
    BY <2>1, GetReturnsMems
  <2>2. CASE Return(t) \/ Get(t, k)
    BY <2>2, ReferencedIs DEF Return, Get, MemsStored
  <2> QED
    BY <2>1, <2>2
<1>6. CASE db.state = "open"
  <2> DEFINE S == th'
             log == disk.logs[db.mem]
             m == mems[db.mem]
             s == vset.last_sequence
  <2>1. WrittenAhead(log, m, th, writers, s)
    BY <1>6 DEF WriteAheadInv
  <2>2. r.pc \notin Leading /\ th[t].pc \notin Leading /\ th[t].pc \notin InQueue
    BY <1>1, <1>2, <1>4 DEF Leading, InQueue, WriterPcs
  <2>3. S[t] = r /\ \A u \in Thread \ {t} : S[u] = th[u]
    BY <1>1, <1>4
  <2>4. \A i \in DOMAIN writers : writers[i] \in Thread /\ writers[i] # t
    BY <1>1, <2>2, SequenceIs DEF QueueOf
  <2> HIDE DEF S, log, m, s
  <2>5. \A u \in Thread : th[u].pc \in Leading \/ S[u].pc \in Leading =>
           S[u].pc = th[u].pc /\ S[u].sent = th[u].sent /\ S[u].group = th[u].group
    BY <2>2, <2>3
  <2>6. \A i \in DOMAIN writers : writers[i] = writers[i] /\ S[writers[i]].key = th[writers[i]].key
                                  /\ S[writers[i]].val = th[writers[i]].val
    BY <2>3, <2>4
  <2>7. WrittenAhead(log, m, S, writers, s)
    BY ONLY <1>1, <2>1, <2>5, <2>6, AheadKept
  <2>8. db.mem # 0
    BY <1>6 DEF MemsStored
  <2>9. WrittenAhead(disk'.logs[db'.mem], mems'[db'.mem], th', writers', vset'.last_sequence)
    BY <1>2, <1>5, <2>7, <2>8 DEF S, log, m, s
  <2> QED
    BY <1>2, <1>5, <1>6, <2>8, <2>9 DEF WriteAheadInv
<1>7. CASE db.state # "open"
  BY <1>5, <1>7 DEF WriteAheadInv
<1> QED
  BY <1>6, <1>7

LEMMA CallsAhead ==
  ASSUME FilesInv, MemsStored, LogsReadable, QueueInv, WriteAheadInv, vset.last_sequence \in Nat, CallsMove
  PROVE  WriteAheadInv'
<1>1. PICK t \in Thread, k \in Key : Write(t, k) \/ Get(t, k) \/ ThreadStep(t)
  BY DEF CallsMove
<1>2. CASE Write(t, k)
  BY <1>2, WriteAhead
<1>3. CASE Resume(t)
  BY <1>3, ResumeAhead
<1>4. CASE AddRecord(t)
  BY <1>4, AddRecordAhead
<1>5. CASE FinishWrite(t)
  BY <1>5, FinishWriteAhead
<1>6. CASE Return(t) \/ Get(t, k) \/ GetReturns(t)
  BY <1>6, BesideAhead
<1> QED
  BY <1>1, <1>2, <1>3, <1>4, <1>5, <1>6 DEF ThreadStep

(* The background thread writes no log and changes no memtable. *)
LEMMA BackgroundAhead ==
  ASSUME FilesInv, FilesInv', MemsStored, QueueInv, WriteAheadInv,
         \/ Locked \/ BuildTable \/ CompactEntry \/ WriteManifest \/ ManifestFails \/ Install
  PROVE  WriteAheadInv'
<1>1. DiskShape /\ DBShape
  BY DEF FilesInv, Shapes
<1>2. CASE Locked
  BY <1>2, LockedFrame, AheadStays DEF Standing
<1>3. CASE BuildTable
  <2>1. disk'.logs = disk.logs /\ UNCHANGED <<db, vset, mems, writers, th>>
    BY <1>1, <1>3 DEF BuildTable, DiskShape
  <2> QED
    BY <1>3, <2>1, BuildTableIs, AheadStays
<1>4. CASE CompactEntry
  <2>1. disk'.logs = disk.logs /\ UNCHANGED <<mems, writers, th>> /\ db'.mem = db.mem
    BY <1>1, <1>4 DEF CompactEntry, DiskShape, DBShape
  <2> QED
    BY <1>4, <2>1, CompactEntryStep, AheadStays
<1>5. CASE WriteManifest
  <2>1. disk'.logs = disk.logs /\ UNCHANGED <<db, vset, mems, writers, th>>
    BY <1>1, <1>5 DEF WriteManifest, DiskShape
  <2> QED
    BY <1>5, <2>1, WriteManifestIs, AheadStays
<1>6. CASE ManifestFails
  <2>1. disk'.logs = disk.logs
    BY <1>1, <1>6, ManifestFailsFrame DEF RecordWrites, DiskShape
  <2> QED
    BY <1>6, <2>1, ManifestFailsIs, ManifestFailsFrame, AheadStays
<1>7. CASE Install
  <2>1. /\ disk' = disk /\ db.state = "open" /\ vset'.last_sequence = vset.last_sequence
        /\ \/ db'.imm = 0
           \/ db'.imm = db.imm /\ mems' = mems
    BY <1>7, InstallIs
  <2>2. /\ db'.mem = db.mem /\ writers' = writers /\ th' \in {th, Awakened(th)}
        /\ mems'[db.mem] = mems[db.mem]
    BY <1>7, InstallFrame
  <2> QED
    BY <2>1, <2>2, AheadStays
<1> QED
  BY <1>2, <1>3, <1>4, <1>5, <1>6, <1>7

LEMMA RemovalAhead ==
  ASSUME FilesInv, FilesInv', MemsStored, QueueInv, WriteAheadInv, RemoveObsoleteFiles
  PROVE  WriteAheadInv'
<1>1. disk' = Removed(doomed) /\ UNCHANGED <<db, vset, mems, writers, th>>
  BY DEF RemoveObsoleteFiles
<1>2. CASE db.state = "open"
  <2>1. db.mem \in DOMAIN disk'.logs /\ (db.imm # 0 => db.imm \in DOMAIN disk'.logs)
    BY <1>1, <1>2 DEF FilesInv, ServingInv, LogsHeld
  <2>2. \A n \in DOMAIN disk'.logs : disk'.logs[n] = disk.logs[n]
    BY <1>1, RemovalFrame
  <2> QED
    BY <1>1, <1>2, <2>1, <2>2, AheadStays
<1>3. CASE db.state # "open"
  BY <1>1, <1>3 DEF WriteAheadInv
<1> QED
  BY <1>2, <1>3

LEMMA OpenReturnsAhead ==
  ASSUME FilesInv, NumbersInv, OpenReturns
  PROVE  WriteAheadInv'
<1>1. db.state = "opening" /\ db'.imm = 0 /\ UNCHANGED <<disk, vset, mems>>
  BY OpenReturnsIs
<1>2. db'.mem = db.mem /\ th' = th /\ writers' = writers
  BY DEF OpenReturns, FilesInv, Shapes, DBShape
<1>3. disk.logs[db.mem] = <<>> /\ mems[db.mem] = {}
  BY <1>1 DEF NumbersInv, OpeningNumbers
<1>4. \A t \in Thread : th[t].pc \notin Leading
  BY <1>1 DEF FilesInv, NobodyYet, Leading
<1>5. WrittenAhead(disk.logs[db.mem], mems[db.mem], th, writers, vset.last_sequence)
  BY <1>3, <1>4, CompleteNone DEF WrittenAhead, Leading
<1> QED
  BY <1>1, <1>2, <1>5 DEF WriteAheadInv

LEMMA WriteAheadNext ==
  ASSUME FilesInv, FilesInv', LogsReadable, QueueInv, RecordsInv, NumbersInv, WriteAheadInv,
         [LevelDBNext]_ldbVars
  PROVE  WriteAheadInv'
<1>1. MemsStored /\ vset.last_sequence \in Nat
  BY DEF RecordsInv, SequencesKnown
<1>2. CASE CallsMove
  BY <1>1, <1>2, CallsAhead
<1>3. CASE Quiet \/ MemTableStarts \/ CompactionBegins \/ LogMemTable \/ InstallCompactionResults
  BY <1>1, <1>3, BackgroundAhead DEF Locked
<1>4. CASE BuildTable \/ CompactEntry \/ WriteManifest \/ ManifestFails \/ Install
  BY <1>1, <1>4, BackgroundAhead
<1>5. CASE RemoveObsoleteFiles
  BY <1>1, <1>5, RemovalAhead
<1>6. CASE OpenReturns
  BY <1>6, OpenReturnsAhead
<1>7. CASE (Recovered \/ RecoverLogFile \/ NewManifest \/ SetCurrentFile) /\ ~OpenReturns
  BY <1>7, OpenStepIs DEF WriteAheadInv
<1>8. CASE Crash
  BY <1>8, CrashIs DEF WriteAheadInv
<1>10. CASE Aborted
  BY <1>10, AbortedFrame DEF WriteAheadInv
<1>9. CASE UNCHANGED ldbVars
  BY <1>9 DEF ldbVars, WriteAheadInv
<1> QED
  BY <1>2, <1>3, <1>4, <1>5, <1>6, <1>7, <1>8, <1>9, <1>10, StepIs

LEMMA MemtablesAre ==
  ASSUME QueueInv, WriteAheadInv
  PROVE  MemtablesLogged
<1> SUFFICES ASSUME db.state = "open"
             PROVE  Complete(disk.logs[db.mem]) = mems[db.mem] \cup Unpublished
  BY DEF MemtablesLogged, WriteAheadInv
<1>1. QueueOf(th, writers)
  BY DEF QueueInv
<1>2. WrittenAhead(disk.logs[db.mem], mems[db.mem], th, writers, vset.last_sequence)
  BY DEF WriteAheadInv
<1>3. ASSUME NEW t \in Thread, th[t].pc \in Leading PROVE \A u \in Thread \ {t} : th[u].pc \notin Leading
  <2>1. th[t].pc \in InQueue \ {"queued"}
    BY <1>3 DEF Leading, InQueue, WriterPcs
  <2> QED
    BY <1>1, <2>1, OneLeads
<1>4. ASSUME NEW t \in Thread, th[t].pc = "logged"
      PROVE  Unpublished = FirstOf(th, writers, vset.last_sequence, th[t].group)
  <2>1. {u \in Thread : th[u].pc = "logged"} = {t}
    BY <1>3, <1>4 DEF Leading
  <2>2. Unpublished = {GroupEntry(writers, i) : i \in 1 .. th[t].group}
    BY <2>1 DEF Unpublished
  <2> QED
    BY <2>2, GroupIs
<1>5. ASSUME \A t \in Thread : th[t].pc # "logged" PROVE Unpublished = {}
  BY <1>5 DEF Unpublished
<1>6. CASE \E t \in Thread : th[t].pc = "logged"
  BY <1>2, <1>4, <1>6 DEF WrittenAhead
<1>7. CASE \A t \in Thread : th[t].pc # "logged"
  BY <1>2, <1>5, <1>7 DEF WrittenAhead, Leading
<1> QED
  BY <1>6, <1>7

(* LevelDB's write-ahead rule: in every state of an open store the         *)
(* memtable is what the complete records of its log say, but for the group *)
(* whose record DBImpl::Write has just finished, and the memtable that     *)
(* waits for its compaction is exactly its log.  A restart that replays    *)
(* the logs therefore rebuilds what memory held.                           *)
THEOREM MemtablesLoggedHolds == LevelDBSpec => []MemtablesLogged
<1> DEFINE Inv == QueueInv /\ RecordsInv /\ FreshInv /\ SequenceInv /\ NumbersInv /\ WriteAheadInv
<1>1. LevelDBInit => Inv
  <2>1. LevelDBInit => WriteAheadInv
    BY DEF LevelDBInit, WriteAheadInv, Closed
  <2> QED
    BY <2>1, QueueInit, RecordsInit, FreshInit, SequenceInit, NumbersInit
<1>2. ASSUME FilesInv, FilesInv', LogsReadable, Inv, [LevelDBNext]_ldbVars
      PROVE  Inv'
  <2>1. QueueInv' /\ RecordsInv'
    BY <1>2, QueueNext, RecordsNext
  <2>2. FreshInv' /\ SequenceInv'
    BY <1>2, <2>1, FreshNext, SequenceNext DEF RecordsInv
  <2>3. NumbersInv'
    BY <1>2, NumbersNext
  <2>4. WriteAheadInv'
    BY <1>2, WriteAheadNext
  <2> QED
    BY <2>1, <2>2, <2>3, <2>4
<1>3. FilesInv /\ Inv => MemtablesLogged
  BY MemtablesAre
<1> QED
  BY <1>1, <1>2, <1>3, FilesInvHolds, PTL DEF LevelDBSpec
=============================================================================
