---------------------------- MODULE ClientProofs ----------------------------
(***************************************************************************)
(* The client, for every file of transactions and every cluster: its       *)
(* types, the votes that are under way, the order in which the rows are    *)
(* submitted, and that it implements the coordinator which the servers'    *)
(* model assumes; and the placement of accounts and servers in clusters,   *)
(* for every number of accounts, clusters and servers per cluster.         *)
(***************************************************************************)
EXTENDS ClientProps, Sharding, TypesProofs

(***************************************************************************)
(* The reader.                                                             *)
(***************************************************************************)

(* The reader stands after n submitted rows: it has read no more than      *)
(* those, at the start and at the end of the file, or the next one, which  *)
(* is the first of a set.                                                  *)
ReaderAt(c, n) ==
  /\ c.currentSetNo \in Nat
  /\ \/ /\ c.next = <<>> /\ c.pos = n + 1
        /\ n = Len(Rows) \/ (n = 0 /\ c.currentSetNo = 0)
     \/ /\ n < Len(Rows) /\ c.next = <<Rows[n + 1]>> /\ c.pos = n + 2
        /\ Rows[n + 1].set_no = c.currentSetNo + 1

(* NextSetRow is the first row of set x + 1 from row p on, or the end. *)
LEMMA NextSetRowIs ==
  ASSUME NEW p \in 1..(Len(Rows) + 1), NEW x \in Nat
  PROVE  LET q == NextSetRow(p, x)
         IN  /\ q \in p..(Len(Rows) + 1)
             /\ q <= Len(Rows) => Rows[q].set_no = x + 1
             /\ \A i \in p..(q - 1) : Rows[i].set_no # x + 1
<1> DEFINE at == {i \in p..Len(Rows) : Rows[i].set_no = x + 1}
<1>0. Len(Rows) \in Nat
  BY ClientAssumption
<1>1. NextSetRow(p, x) = IF at = {} THEN Len(Rows) + 1 ELSE Min(at)
  BY DEF NextSetRow
<1>2. CASE at = {}
  BY <1>0, <1>1, <1>2
<1>3. CASE at # {}
  <2>1. at \in SUBSET Nat
    BY <1>0
  <2>2. PICK m \in at : \A y \in at : m <= y
    <3> HIDE DEF at
    <3> QED BY <2>1, <1>3, NatMin
  <2>3. Min(at) \in at /\ \A y \in at : Min(at) <= y
    BY <2>2 DEF Min
  <2>4. NextSetRow(p, x) = Min(at)
    BY <1>1, <1>3
  <2> HIDE DEF at
  <2> DEFINE q == Min(at)
  <2>5. q \in p..Len(Rows) /\ Rows[q].set_no = x + 1
    BY <2>3 DEF at
  <2> HIDE DEF q
  <2>6. ASSUME NEW i \in p..(q - 1) PROVE Rows[i].set_no # x + 1
    <3>1. i \in p..Len(Rows) /\ ~(q <= i)
      BY <1>0, <2>5
    <3> QED
      BY <2>3, <3>1 DEF at, q
  <2> QED
    BY <1>0, <2>4, <2>5, <2>6 DEF q
<1> QED
  BY <1>2, <1>3

(* The least of two numbers. *)
LEMMA MinOfTwo ==
  ASSUME NEW a \in Nat, NEW b \in Nat
  PROVE  Min({a, b}) = IF a <= b THEN a ELSE b
BY DEF Min

(* readNextSet returns the rows n + 1 .. m, the first of which carries the *)
(* number of the set, and leaves the reader after m rows.                  *)
LEMMA ReadNextSetIs ==
  ASSUME NEW c, NEW n \in 0..Len(Rows), ReaderAt(c, n)
  PROVE  \E m \in n..Len(Rows) :
           /\ ReadNextSet(c).rows = [i \in 1..(m - n) |-> Rows[n + i]]
           /\ ReaderAt(ReadNextSet(c).csv, m)
           /\ ReadNextSet(c).csv.currentSetNo = c.currentSetNo + 1
           /\ m > n => Rows[n + 1].set_no = c.currentSetNo + 1
           /\ m = n => n = Len(Rows)
           /\ \A i \in (n + 2)..m : Rows[i].set_no # c.currentSetNo + 2
<1> DEFINE x == c.currentSetNo + 1
           q == NextSetRow(c.pos, x)
           m == q - 1
           L == Len(Rows)
<1>1. L \in Nat /\ x \in Nat /\ c.currentSetNo \in Nat /\ Rows \in Seq(Row) /\ DOMAIN Rows = 1..L
  BY ClientAssumption DEF ReaderAt
<1>2. c.pos \in 1..(L + 1) /\ c.pos \in {n + 1, n + 2}
  <2>1. c.pos = n + 1 \/ (c.pos = n + 2 /\ n < L)
    BY DEF ReaderAt
  <2> QED
    BY <1>1, <2>1
<1>3. /\ q \in c.pos..(L + 1)
      /\ q <= L => Rows[q].set_no = x + 1
      /\ \A i \in c.pos..(q - 1) : Rows[i].set_no # x + 1
  BY <1>1, <1>2, NextSetRowIs
<1>4. ReadNextSet(c).rows = c.next \o SubSeq(Rows, c.pos, q - 1) /\ ReadNextSet(c).csv = ReadUpTo(q, x)
  BY DEF ReadNextSet
<1> HIDE DEF q, x, L
<1>5. m \in n..L /\ m + 1 = q /\ m = q - 1
  BY <1>1, <1>2, <1>3
<1>6. \A i \in (n + 2)..m : Rows[i].set_no # c.currentSetNo + 2
  <2>1. \A i \in (n + 2)..m : i \in c.pos..(q - 1)
    BY <1>1, <1>2, <1>3, <1>5
  <2> QED
    BY <1>1, <1>3, <2>1 DEF x
<1>7. ReaderAt(ReadUpTo(q, x), m) /\ ReadUpTo(q, x).currentSetNo = x
  <2>1. Min({q, L}) = IF q <= L THEN q ELSE L
    BY <1>1, <1>2, <1>3, MinOfTwo
  <2>2. CASE q <= L
    <3>1. ReadUpTo(q, x) = [pos |-> q + 1, currentSetNo |-> x, next |-> <<Rows[q]>>]
      BY <1>1, <1>2, <1>3, <2>1, <2>2 DEF ReadUpTo, L
    <3>2. m < L /\ m + 1 = q /\ m + 2 = q + 1
      BY <1>1, <1>2, <1>3, <2>2
    <3> HIDE DEF m
    <3>3. /\ m < Len(Rows)
          /\ ReadUpTo(q, x).next = <<Rows[m + 1]>> /\ ReadUpTo(q, x).pos = m + 2
          /\ Rows[m + 1].set_no = ReadUpTo(q, x).currentSetNo + 1
          /\ ReadUpTo(q, x).currentSetNo = x
      BY <1>3, <2>2, <3>1, <3>2 DEF L
    <3> QED
      BY ONLY <1>1, <3>3 DEF ReaderAt
  <2>3. CASE ~(q <= L)
    <3>1. q = L + 1 /\ m = L
      BY <1>1, <1>2, <1>3, <2>3
    <3>2. ReadUpTo(q, x) = [pos |-> L + 1, currentSetNo |-> x, next |-> <<>>]
      BY <1>1, <2>1, <2>3, <3>1 DEF ReadUpTo, L
    <3> HIDE DEF m
    <3>3. /\ ReadUpTo(q, x).next = <<>> /\ ReadUpTo(q, x).pos = m + 1 /\ m = Len(Rows)
          /\ ReadUpTo(q, x).currentSetNo = x
      BY <3>1, <3>2 DEF L
    <3> QED
      BY ONLY <1>1, <3>3 DEF ReaderAt
  <2> QED
    BY <2>2, <2>3
<1>8. m > n => Rows[n + 1].set_no = x
  <2>1. CASE c.next = <<>>
    <3>1. n = 0 \/ n = L
      BY <2>1 DEF ReaderAt, L
    <3>2. CASE n = 0 /\ n # L
      <4>1. c.currentSetNo = 0 /\ Rows # <<>>
        BY <2>1, <3>2, <1>1 DEF ReaderAt, L
      <4> QED
        BY <4>1, <3>2, ClientAssumption DEF x
    <3> QED
      BY <3>1, <3>2, <1>5, <1>1
  <2>2. CASE c.next # <<>>
    BY <2>2 DEF ReaderAt, x
  <2> QED
    BY <2>1, <2>2
<1>9. m = n => n = L
  <2>1. SUFFICES ASSUME m = n, n # L PROVE FALSE
    OBVIOUS
  <2>2. c.pos = n + 1 /\ q = n + 1
    BY <1>1, <1>2, <1>3, <2>1
  <2>3. n = 0 /\ c.currentSetNo = 0 /\ Rows # <<>>
    <3>1. ~(c.pos = n + 2)
      BY <2>2
    <3>2. n = Len(Rows) \/ (n = 0 /\ c.currentSetNo = 0)
      BY <3>1 DEF ReaderAt
    <3>3. n = 0 /\ c.currentSetNo = 0 /\ Len(Rows) # 0
      BY <2>1, <3>2 DEF L
    <3> QED
      BY <3>3
  <2>4. Rows[1].set_no = 1 /\ Rows[1].set_no = x + 1
    BY <1>1, <1>3, <1>5, <2>1, <2>2, <2>3, ClientAssumption
  <2> QED
    BY <2>3, <2>4 DEF x
<1>10. ReadNextSet(c).rows = [i \in 1..(m - n) |-> Rows[n + i]]
  <2> DEFINE u == SubSeq(Rows, c.pos, q - 1)
  <2>1. \A i \in c.pos..(q - 1) : Rows[i] \in Row
    BY <1>1, <1>2, <1>3
  <2>2. /\ u \in Seq(Row)
        /\ Len(u) = IF c.pos <= q - 1 THEN (q - 1) - c.pos + 1 ELSE 0
        /\ \A i \in 1..((q - 1) - c.pos + 1) : u[i] = Rows[c.pos + i - 1]
    <3>1. c.pos \in Int /\ q - 1 \in Int
      BY <1>1, <1>2, <1>3
    <3> QED
      BY <2>1, <3>1, SubSeqProperties
  <2> HIDE DEF u
  <2>3. c.next \in Seq(Row) /\ Len(c.next) = c.pos - n - 1
        /\ \A i \in 1..Len(c.next) : i = 1 /\ c.next[i] = Rows[n + 1]
    <3>1. CASE c.next = <<>> /\ c.pos = n + 1
      BY <3>1
    <3>2. CASE c.next = <<Rows[n + 1]>> /\ c.pos = n + 2 /\ n < L
      <4>1. Rows[n + 1] \in Row
        BY <1>1, <3>2
      <4>2. c.next \in Seq(Row) /\ Len(c.next) = 1 /\ c.next[1] = Rows[n + 1]
        BY <3>2, <4>1
      <4> QED BY <3>2, <4>2
    <3> QED
      BY <3>1, <3>2 DEF ReaderAt, L
  <2>4. Len(u) = q - c.pos
    BY <1>1, <1>2, <1>3, <2>2
  <2>5. Len(c.next) + Len(u) = m - n
    BY <1>1, <1>2, <1>3, <2>3, <2>4
  <2>6. /\ c.next \o u \in Seq(Row)
        /\ Len(c.next \o u) = m - n
        /\ \A i \in 1..(m - n) : (c.next \o u)[i] =
             IF i <= Len(c.next) THEN c.next[i] ELSE u[i - Len(c.next)]
    BY <2>2, <2>3, <2>5, ConcatProperties, SMTT(30)
  <2>7. ASSUME NEW i \in 1..(m - n) PROVE (c.next \o u)[i] = Rows[n + i]
    <3>1. CASE i <= Len(c.next)
      <4>1. i = 1
        BY <2>3, <3>1, <1>1, <1>5
      <4> QED BY <2>3, <2>6, <2>7, <3>1, <4>1
    <3>2. CASE ~(i <= Len(c.next))
      <4> DEFINE j == i - Len(c.next)
      <4> DEFINE a == Len(c.next)
                 b == Len(u)
                 p == c.pos
      <4>0. a \in Nat /\ b \in Nat /\ b = q - p /\ a = p - n - 1 /\ i > a /\ p \in Nat /\ q \in Nat
        <5>1. a \in Nat /\ b \in Nat
          BY <2>2, <2>3, LenProperties
        <5>2. b = q - p /\ a = p - n - 1
          BY <2>3, <2>4
        <5>3. p \in Nat /\ q \in Nat
          BY <1>1, <1>2, <1>3
        <5>4. i > a
          BY <3>2, <5>1, <2>7, <1>1, <1>5
        <5> QED BY <5>1, <5>2, <5>3, <5>4
      <4>1. j \in 1..((q - 1) - c.pos + 1) /\ c.pos + j - 1 = n + i
        <5> HIDE DEF a, b, p
        <5>1. i - a \in 1..((q - 1) - p + 1) /\ p + (i - a) - 1 = n + i
          BY <4>0, <2>7
        <5> QED BY <5>1 DEF a, p
      <4> HIDE DEF j
      <4>2. u[j] = Rows[n + i]
        BY <2>2, <4>1
      <4> QED BY <2>6, <3>2, <4>2 DEF j
    <3> QED BY <3>1, <3>2
  <2>8. c.next \o u = [i \in 1..(m - n) |-> (c.next \o u)[i]]
    BY <2>6
  <2> QED
    BY <1>4, <2>7, <2>8 DEF u
<1> QED
  BY <1>4, <1>5, <1>6, <1>7, <1>8, <1>9, <1>10 DEF x, L

(* The row that names the leaders of the set of the rows n + 1 .. m. *)
LEMMA HeaderRowIs ==
  ASSUME NEW n \in 0..Len(Rows), NEW m \in n..Len(Rows), n < m, NEW x \in Nat,
         Rows[n + 1].set_no = x
  PROVE  \E j \in (n + 1)..m :
           /\ HeaderRow([i \in 1..(m - n) |-> Rows[n + i]], x) = Rows[j]
           /\ Rows[j].set_no = x
<1> DEFINE rows == [i \in 1..(m - n) |-> Rows[n + i]]
           at == {i \in DOMAIN rows : rows[i].set_no = x}
<1>0. Len(Rows) \in Nat
  BY ClientAssumption
<1>1. at \in SUBSET Nat /\ 1 \in at /\ \A y \in at : y <= m - n /\ m - n \in Nat
  BY <1>0
<1>2. Max(at) \in at
  <2> HIDE DEF at
  <2>1. m - n \in Nat
    BY <1>0
  <2> QED BY <1>1, <2>1, MaxOfBounded
<1> DEFINE k == Max(at)
<1>3. k \in 1..(m - n) /\ rows[k].set_no = x /\ HeaderRow(rows, x) = rows[k]
  BY <1>2 DEF HeaderRow
<1> HIDE DEF k
<1>4. n + k \in (n + 1)..m /\ rows[k] = Rows[n + k]
  BY <1>0, <1>3
<1> HIDE DEF rows
<1>5. HeaderRow(rows, x) = Rows[n + k] /\ Rows[n + k].set_no = x
  BY <1>3, <1>4
<1> QED
  BY <1>4, <1>5 DEF rows

(* Of the rows of a set only the first one has a number. *)
LEMMA OnlyHeader ==
  ASSUME NEW n \in 0..Len(Rows), NEW m \in n..Len(Rows), NEW x \in Nat, x # 0,
         n < m, Rows[n + 1].set_no = x,
         \A i \in (n + 2)..m : Rows[i].set_no # x + 1,
         NEW i \in (n + 2)..m
  PROVE  Rows[i].set_no = 0
<1> DEFINE No(j) == Rows[j].set_no
<1>0. Len(Rows) \in Nat /\ DOMAIN Rows = 1..Len(Rows) /\ \A j \in 1..Len(Rows) : No(j) \in Nat
  <2>1. Rows \in Seq(Row) /\ \A r \in Row : r.set_no \in Nat
    BY ClientAssumption DEF Row
  <2>2. \A j \in 1..Len(Rows) : Rows[j] \in Row
    BY <2>1
  <2> QED
    BY <2>1, <2>2
<1>1. SUFFICES ASSUME No(i) # 0 PROVE FALSE
  OBVIOUS
<1>2. i \in 1..Len(Rows) /\ n + 1 \in 1..Len(Rows) /\ n + 1 \in 1..(i - 1)
  BY <1>0
<1>3. {No(j) : j \in 1..(i - 1)} \ {0} = 1..(No(i) - 1)
  BY <1>0, <1>1, <1>2, FileAssumption
<1>4. {No(j) : j \in 1..n} \ {0} = 1..(x - 1)
  <2>1. (n + 1) - 1 = n
    OBVIOUS
  <2> QED
    BY <1>0, <1>2, <2>1, FileAssumption
<1> HIDE DEF No
<1>5. No(n + 1) = x /\ \A j \in (n + 2)..m : No(j) # x + 1
  BY DEF No
<1>6. x \in 1..(No(i) - 1)
  BY <1>2, <1>3, <1>5
<1>7. No(i) # x + 1 /\ No(i) \in Nat
  BY <1>0, <1>2, <1>5
<1>8. x + 1 \in 1..(No(i) - 1)
  BY <1>6, <1>7
<1>9. PICK j \in 1..(i - 1) : No(j) = x + 1
  BY <1>3, <1>8
<1>10. j \notin 1..n
  <2>1. SUFFICES ASSUME j \in 1..n PROVE FALSE
    OBVIOUS
  <2>2. No(j) \in 1..(x - 1)
    <3>1. No(j) # 0 /\ No(j) \in {No(l) : l \in 1..n}
      BY <1>9, <2>1
    <3> QED
      BY <1>4, <3>1
  <2> QED
    BY <1>9, <2>2
<1>11. j # n + 1 /\ j \notin (n + 2)..m
  BY <1>5, <1>9
<1> QED
  BY <1>0, <1>10, <1>11

(***************************************************************************)
(* FlattenSeq.                                                             *)
(***************************************************************************)

(* f[i] is the concatenation of the first i of the n sequences ss. *)
Flattens(f, ss, n) == \A i \in 1..n : f[i] = IF i = 1 THEN ss[i] ELSE f[i - 1] \o ss[i]

(* The prefixes of a sequence of sequences can be flattened one by one. *)
LEMMA FlattenIs ==
  ASSUME NEW S, NEW n \in Nat, n > 0, NEW ss, Len(ss) = n, \A i \in 1..n : ss[i] \in Seq(S)
  PROVE  \E f : Flattens(f, ss, n) /\ FlattenSeq(ss) = f[n]
<1> DEFINE Flat(k, g) == g = [i \in 1..k |-> IF i = 1 THEN ss[i] ELSE g[i - 1] \o ss[i]]
           Bad == {k \in 1..n : ~ \E g : Flat(k, g)}
<1>1. \E g : Flat(1, g)
  <2> DEFINE g == [i \in 1..1 |-> ss[i]]
  <2>1. Flat(1, g)
    OBVIOUS
  <2> QED BY <2>1
<1>2. ASSUME NEW k \in 1..n, k + 1 \in 1..n, NEW g, Flat(k, g)
      PROVE  \E h : Flat(k + 1, h)
  <2> DEFINE h == [i \in 1..(k + 1) |-> IF i = k + 1 THEN g[k] \o ss[k + 1] ELSE g[i]]
  <2>1. \A i \in 1..k : h[i] = g[i]
    OBVIOUS
  <2>2. h[k + 1] = g[k] \o ss[k + 1]
    <3>1. k + 1 \in 1..(k + 1)
      OBVIOUS
    <3> QED BY <3>1
  <2>3. \A i \in 1..(k + 1) : h[i] = IF i = 1 THEN ss[i] ELSE h[i - 1] \o ss[i]
    <3> TAKE i \in 1..(k + 1)
    <3>1. CASE i = k + 1
      <4>1. i - 1 = k /\ i # 1 /\ k \in 1..k
        BY <3>1
      <4>2. h[i - 1] = g[k]
        BY <2>1, <4>1
      <4> HIDE DEF h
      <4> QED BY <2>2, <3>1, <4>1, <4>2
    <3>2. CASE i # k + 1
      <4>1. i \in 1..k
        BY <3>2
      <4>2. g[i] = IF i = 1 THEN ss[i] ELSE g[i - 1] \o ss[i]
        BY <1>2, <4>1
      <4>3. CASE i = 1
        BY <2>1, <4>1, <4>2, <4>3
      <4>4. CASE i # 1
        <5>1. i - 1 \in 1..k
          BY <4>1, <4>4
        <5>2. h[i - 1] = g[i - 1] /\ h[i] = g[i]
          BY <2>1, <4>1, <5>1
        <5> HIDE DEF h
        <5> QED BY <4>2, <4>4, <5>2
      <4> QED BY <4>3, <4>4
    <3> QED BY <3>1, <3>2
  <2>4. h = [i \in 1..(k + 1) |-> h[i]]
    OBVIOUS
  <2> HIDE DEF h
  <2>5. Flat(k + 1, h)
    BY <2>3, <2>4
  <2> QED
    BY <2>5
<1> HIDE DEF Flat
<1>3. Bad = {}
  <2>1. SUFFICES ASSUME Bad # {} PROVE FALSE
    OBVIOUS
  <2>2. Bad \in SUBSET Nat
    OBVIOUS
  <2> HIDE DEF Bad
  <2>3. PICK k \in Bad : \A j \in Bad : k <= j
    BY <2>1, <2>2, NatMin
  <2>4. k \in 1..n /\ ~ \E g : Flat(k, g)
    BY DEF Bad
  <2>5. k # 1
    BY <1>1, <2>4
  <2>6. k - 1 \in 1..n /\ ~(k <= k - 1) /\ (k - 1) + 1 = k
    BY <2>4, <2>5
  <2>7. \E g : Flat(k - 1, g)
    BY <2>3, <2>6 DEF Bad
  <2>8. \E g : Flat((k - 1) + 1, g)
    BY <1>2, <2>4, <2>6, <2>7
  <2> QED
    BY <2>4, <2>6, <2>8
<1>4. \E g : Flat(n, g)
  <2>1. n \in 1..n
    OBVIOUS
  <2> QED
    BY <1>3, <2>1
<1> DEFINE f == CHOOSE g : Flat(n, g)
<1>5. Flat(n, f)
  BY <1>4
<1>6. FlattenSeq(ss) = f[n]
  BY DEF FlattenSeq, Flat
<1>7. f = [i \in 1..n |-> IF i = 1 THEN ss[i] ELSE f[i - 1] \o ss[i]]
  BY <1>5 DEF Flat
<1> HIDE DEF f
<1>8. Flattens(f, ss, n)
  BY <1>7 DEF Flattens
<1> QED
  BY <1>6, <1>8

(***************************************************************************)
(* The steps that processTransactions has left.                            *)
(***************************************************************************)
RegisterSteps == [do : {"register"}, tid : Tid]
SendSteps == [do : {"send"}, type : {"TRANSFER", "TPC_PREPARE"}, tid : Tid, to : Server]
StepSet == RegisterSteps \cup SendSteps

Shards == {AccountCluster[a] : a \in Account}

(* Step e registers t; step e asks cluster k for its vote on t. *)
WillRegister(e, t) == e.do = "register" /\ e.tid = t
WillAsk(e, t, k) == e.do = "send" /\ e.tid = t /\ ServerCluster[e.to] = k

(* A step asks a cluster that takes part, with the call that the           *)
(* transaction calls for.                                                  *)
AsksRight(s) ==
  \A i \in DOMAIN s : s[i].do = "send" =>
    /\ ServerCluster[s[i].to] \in Participants(s[i].tid)
    /\ s[i].type = "TPC_PREPARE" <=> IsCrossShard(s[i].tid)

(* No step is made twice. *)
StepsOnce(s) ==
  \A i, j \in DOMAIN s, t \in Tid :
    /\ WillRegister(s[i], t) /\ WillRegister(s[j], t) => i = j
    /\ \A k \in Shards : WillAsk(s[i], t, k) /\ WillAsk(s[j], t, k) => i = j

(* A transaction is registered before it asks, and its prepares follow. *)
RegistersFirst(s) ==
  \A i \in DOMAIN s, t \in Tid : WillRegister(s[i], t) =>
    /\ IsCrossShard(t)
    /\ \A k \in Participants(t) : \E j \in DOMAIN s : WillAsk(s[j], t, k)
    /\ \A j \in DOMAIN s, k \in Shards : WillAsk(s[j], t, k) => i < j

WellQueued(s) == AsksRight(s) /\ StepsOnce(s) /\ RegistersFirst(s)

(* Whatever cross-shard transaction s asks about, it registers. *)
Registers(s) ==
  \A i \in DOMAIN s : IsCrossShard(s[i].tid) =>
    \E j \in DOMAIN s : WillRegister(s[j], s[i].tid)

(* The clusters that take part in a transaction are shards. *)
LEMMA ParticipantsType ==
  ASSUME NEW t \in Tid
  PROVE  /\ Txn[t].sender \in Account /\ Txn[t].receiver \in Account
         /\ Participants(t) \subseteq Shards
BY TypesAssumption DEF Participants, Shards

(* A step is of one of the two kinds. *)
LEMMA StepKinds ==
  ASSUME NEW e \in StepSet
  PROVE  /\ e.tid \in Tid /\ e.do \in {"register", "send"}
         /\ e.do = "send" => e.to \in Server /\ e.type \in {"TRANSFER", "TPC_PREPARE"}
<1>1. CASE e \in RegisterSteps
  BY <1>1 DEF RegisterSteps
<1>2. CASE e \in SendSteps
  BY <1>2 DEF SendSteps
<1> QED
  BY <1>1, <1>2 DEF StepSet

(* Two lists of steps about different transactions can be joined. *)
LEMMA WellQueuedConcat ==
  ASSUME NEW s \in Seq(StepSet), NEW u \in Seq(StepSet), WellQueued(s), WellQueued(u),
         \A i \in DOMAIN s, j \in DOMAIN u : s[i].tid # u[j].tid
  PROVE  WellQueued(s \o u)
<1> DEFINE w == s \o u
           m == Len(s)
           n == Len(u)
<1>1. m \in Nat /\ n \in Nat /\ DOMAIN s = 1..m /\ DOMAIN u = 1..n
  BY LenProperties
<1>2. /\ w \in Seq(StepSet) /\ DOMAIN w = 1..(m + n)
      /\ \A i \in 1..(m + n) : w[i] = IF i <= m THEN s[i] ELSE u[i - m]
  BY ConcatProperties
<1> HIDE DEF w, m, n
<1>3. ASSUME NEW i \in 1..(m + n)
      PROVE  (i \in 1..m /\ w[i] = s[i]) \/ (i > m /\ i - m \in 1..n /\ w[i] = u[i - m])
  BY <1>1, <1>2
<1>4. \A i \in 1..m : i \in DOMAIN w /\ w[i] = s[i]
  BY <1>1, <1>2
<1>5. \A i \in 1..n : i + m \in DOMAIN w /\ w[i + m] = u[i]
  <2> TAKE i \in 1..n
  <2>1. i + m \in 1..(m + n) /\ ~(i + m <= m) /\ (i + m) - m = i
    BY <1>1
  <2> QED BY <1>2, <2>1
<1>6. AsksRight(w)
  <2> DEFINE Right(e) == e.do = "send" =>
               /\ ServerCluster[e.to] \in Participants(e.tid)
               /\ e.type = "TPC_PREPARE" <=> IsCrossShard(e.tid)
  <2>1. (\A i \in 1..m : Right(s[i])) /\ \A i \in 1..n : Right(u[i])
    BY <1>1 DEF AsksRight, WellQueued
  <2> HIDE DEF Right
  <2>2. \A i \in 1..(m + n) : Right(w[i])
    BY <1>3, <2>1
  <2> QED
    BY <1>2, <2>2 DEF AsksRight, Right
<1>7. StepsOnce(w)
  <2> SUFFICES ASSUME NEW i \in 1..(m + n), NEW j \in 1..(m + n), NEW t \in Tid
               PROVE  /\ WillRegister(w[i], t) /\ WillRegister(w[j], t) => i = j
                      /\ \A k \in Shards : WillAsk(w[i], t, k) /\ WillAsk(w[j], t, k) => i = j
    BY <1>2 DEF StepsOnce
  <2>1. CASE i \in 1..m /\ j \in 1..m
    <3>1. w[i] = s[i] /\ w[j] = s[j]
      BY <1>4, <2>1
    <3> QED BY <1>1, <2>1, <3>1 DEF WellQueued, StepsOnce
  <2>2. CASE ~(i \in 1..m) /\ ~(j \in 1..m)
    <3> DEFINE a == i - m
               b == j - m
    <3>1. a \in 1..n /\ b \in 1..n /\ w[i] = u[a] /\ w[j] = u[b]
      BY <1>3, <2>2
    <3>2. a = b => i = j
      BY <1>1
    <3> HIDE DEF a, b
    <3> QED BY <1>1, <3>1, <3>2 DEF WellQueued, StepsOnce
  <2>3. CASE ~(i \in 1..m) /\ j \in 1..m
    <3>1. w[j].tid # w[i].tid
      BY <1>1, <1>3, <2>3
    <3> QED BY <3>1 DEF WillRegister, WillAsk
  <2>4. CASE i \in 1..m /\ ~(j \in 1..m)
    <3>1. w[j].tid # w[i].tid
      BY <1>1, <1>3, <2>4
    <3> QED BY <3>1 DEF WillRegister, WillAsk
  <2> QED
    BY <2>1, <2>2, <2>3, <2>4
<1>8. RegistersFirst(w)
  <2> SUFFICES ASSUME NEW i \in 1..(m + n), NEW t \in Tid, WillRegister(w[i], t)
               PROVE  /\ IsCrossShard(t)
                      /\ \A k \in Participants(t) : \E j \in DOMAIN w : WillAsk(w[j], t, k)
                      /\ \A j \in DOMAIN w, k \in Shards : WillAsk(w[j], t, k) => i < j
    BY <1>2 DEF RegistersFirst
  <2>1. CASE i \in 1..m
    <3>1. WillRegister(s[i], t)
      BY <1>4, <2>1
    <3>2. /\ IsCrossShard(t)
          /\ \A k \in Participants(t) : \E j \in 1..m : WillAsk(s[j], t, k)
          /\ \A j \in 1..m, k \in Shards : WillAsk(s[j], t, k) => i < j
      BY <1>1, <2>1, <3>1 DEF WellQueued, RegistersFirst
    <3>3. \A k \in Participants(t) : \E j \in DOMAIN w : WillAsk(w[j], t, k)
      BY <1>4, <3>2
    <3>4. ASSUME NEW j \in DOMAIN w, NEW k \in Shards, WillAsk(w[j], t, k) PROVE i < j
      BY <1>1, <1>2, <1>3, <2>1, <3>2, <3>4
    <3> QED BY <3>2, <3>3, <3>4
  <2>2. CASE ~(i \in 1..m)
    <3> DEFINE a == i - m
    <3>1. a \in 1..n /\ w[i] = u[a] /\ i = a + m
      BY <1>1, <1>3, <2>2
    <3> HIDE DEF a
    <3>2. WillRegister(u[a], t)
      BY <3>1
    <3>3. /\ IsCrossShard(t)
          /\ \A k \in Participants(t) : \E j \in 1..n : WillAsk(u[j], t, k)
          /\ \A j \in 1..n, k \in Shards : WillAsk(u[j], t, k) => a < j
      BY <1>1, <3>1, <3>2 DEF WellQueued, RegistersFirst
    <3>4. \A k \in Participants(t) : \E j \in DOMAIN w : WillAsk(w[j], t, k)
      BY <1>5, <3>3
    <3>5. ASSUME NEW j \in DOMAIN w, NEW k \in Shards, WillAsk(w[j], t, k) PROVE i < j
      <4>1. CASE j \in 1..m
        <5>1. s[j].tid = t /\ u[a].tid = t
          BY <1>4, <3>2, <3>5, <4>1 DEF WillAsk, WillRegister
        <5> QED BY <1>1, <3>1, <4>1, <5>1
      <4>2. CASE ~(j \in 1..m)
        <5> DEFINE b == j - m
        <5>1. b \in 1..n /\ w[j] = u[b] /\ j = b + m
          BY <1>1, <1>2, <1>3, <4>2
        <5> HIDE DEF b
        <5>2. a < b
          BY <3>3, <3>5, <5>1
        <5> QED BY <1>1, <3>1, <5>1, <5>2
      <4> QED BY <4>1, <4>2
    <3> QED BY <3>3, <3>4, <3>5
  <2> QED
    BY <2>1, <2>2
<1> QED
  BY <1>6, <1>7, <1>8 DEF WellQueued, w

(* The leaders have one for every shard. *)
Led(leaders) ==
  leaders \in SUBSET Server /\ \A a \in Account : \E s \in leaders : ServerCluster[s] = AccountCluster[a]

(* The steps of one transaction, sent to the leaders of its clusters. *)
LEMMA StepsWellQueued ==
  ASSUME NEW t \in Tid, NEW leaders, Led(leaders)
  PROVE  /\ Steps(t, leaders) \in Seq(StepSet) /\ WellQueued(Steps(t, leaders))
         /\ \A i \in DOMAIN Steps(t, leaders) : Steps(t, leaders)[i].tid = t
         /\ Registers(Steps(t, leaders))
<1> DEFINE x == AccountCluster[Txn[t].sender]
           y == AccountCluster[Txn[t].receiver]
           p == LeaderOf(leaders, x)
           q == LeaderOf(leaders, y)
           u == Steps(t, leaders)
<1>1. ClusterOf(t, "sender") = x /\ ClusterOf(t, "receiver") = y
  BY TypesAssumption DEF ClusterOf
<1>2. p \in Server /\ ServerCluster[p] = x /\ q \in Server /\ ServerCluster[q] = y
  <2>1. \E s \in leaders : ServerCluster[s] = x
    BY ParticipantsType DEF Led
  <2>2. \E s \in leaders : ServerCluster[s] = y
    BY ParticipantsType DEF Led
  <2> QED
    BY <2>1, <2>2 DEF LeaderOf, Led
<1>3. Participants(t) = {x, y} /\ (IsCrossShard(t) <=> x # y) /\ x \in Shards /\ y \in Shards
  BY ParticipantsType DEF Participants, IsCrossShard
<1>4. CASE ~IsCrossShard(t)
  <2> DEFINE e == Send("TRANSFER", t, p)
  <2>1. u = <<e>>
    BY <1>1, <1>4 DEF Steps
  <2>2. e \in StepSet /\ e.do = "send" /\ e.tid = t /\ e.to = p /\ e.type = "TRANSFER"
    BY <1>2 DEF Send, StepSet, SendSteps
  <2> HIDE DEF e, u, x, y, p, q
  <2>3. u \in Seq(StepSet) /\ DOMAIN u = {1} /\ u[1] = e
    BY <2>1, <2>2
  <2>4. AsksRight(u)
    BY <1>2, <1>3, <1>4, <2>2, <2>3 DEF AsksRight
  <2>5. StepsOnce(u) /\ RegistersFirst(u)
    BY <2>2, <2>3 DEF StepsOnce, RegistersFirst, WillRegister
  <2>6. Registers(u)
    BY <1>4, <2>2, <2>3 DEF Registers
  <2> QED
    BY <2>2, <2>3, <2>4, <2>5, <2>6 DEF WellQueued, u
<1>5. CASE IsCrossShard(t)
  <2> DEFINE r == Register(t)
             e == Send("TPC_PREPARE", t, p)
             f == Send("TPC_PREPARE", t, q)
  <2>1. u = <<r, e, f>>
    BY <1>1, <1>5 DEF Steps
  <2>2. e \in StepSet /\ e.do = "send" /\ e.tid = t /\ e.to = p /\ e.type = "TPC_PREPARE"
    BY <1>2 DEF Send, StepSet, SendSteps
  <2>3. f \in StepSet /\ f.do = "send" /\ f.tid = t /\ f.to = q /\ f.type = "TPC_PREPARE"
    BY <1>2 DEF Send, StepSet, SendSteps
  <2>4. r \in StepSet /\ r.do = "register" /\ r.tid = t
    BY DEF Register, StepSet, RegisterSteps
  <2> HIDE DEF e, f, r, u, x, y, p, q
  <2>5. u \in Seq(StepSet) /\ DOMAIN u = {1, 2, 3} /\ u[1] = r /\ u[2] = e /\ u[3] = f
    BY <2>1, <2>2, <2>3, <2>4
  <2>6. /\ \A v \in Tid : WillRegister(r, v) <=> v = t
        /\ \A v \in Tid, k \in Shards : ~WillAsk(r, v, k)
        /\ \A v \in Tid : ~WillRegister(e, v) /\ ~WillRegister(f, v)
        /\ \A v \in Tid, k \in Shards : WillAsk(e, v, k) <=> (v = t /\ k = x)
        /\ \A v \in Tid, k \in Shards : WillAsk(f, v, k) <=> (v = t /\ k = y)
    BY <1>2, <2>2, <2>3, <2>4 DEF WillRegister, WillAsk
  <2>7. AsksRight(u)
    BY <1>2, <1>3, <1>5, <2>2, <2>3, <2>4, <2>5 DEF AsksRight
  <2>8. StepsOnce(u)
    BY <1>3, <1>5, <2>5, <2>6 DEF StepsOnce
  <2>9. RegistersFirst(u)
    <3> SUFFICES ASSUME NEW i \in {1, 2, 3}, NEW v \in Tid, WillRegister(u[i], v)
                 PROVE  /\ IsCrossShard(v)
                        /\ \A k \in Participants(v) : \E j \in {1, 2, 3} : WillAsk(u[j], v, k)
                        /\ \A j \in {1, 2, 3}, k \in Shards : WillAsk(u[j], v, k) => i < j
      BY <2>5 DEF RegistersFirst
    <3>1. i = 1 /\ v = t
      BY <2>5, <2>6
    <3>2. WillAsk(u[2], v, x) /\ WillAsk(u[3], v, y) /\ \A k \in Shards : ~WillAsk(u[1], v, k)
      BY <1>3, <2>5, <2>6, <3>1
    <3> QED
      BY <1>3, <1>5, <3>1, <3>2
  <2>10. Registers(u)
    BY <2>2, <2>3, <2>4, <2>5 DEF Registers, WillRegister
  <2> QED
    BY <2>2, <2>3, <2>4, <2>5, <2>7, <2>8, <2>9, <2>10 DEF WellQueued, u
<1> QED
  BY <1>4, <1>5

(* The steps of several transactions, all different. *)
Submission(n, ts, leaders) ==
  /\ n \in Nat /\ n > 0 /\ ts \in [1..n -> Tid] /\ Led(leaders)
  /\ \A i, j \in 1..n : ts[i] = ts[j] => i = j

AllSteps(n, ts, leaders) == FlattenSeq([i \in 1..n |-> Steps(ts[i], leaders)])

WellSubmitted(w, n, ts) ==
  /\ w \in Seq(StepSet) /\ WellQueued(w) /\ Registers(w)
  /\ \A i \in DOMAIN w : \E j \in 1..n : w[i].tid = ts[j]

LEMMA FlattenWellQueued ==
  ASSUME NEW n, NEW ts, NEW leaders, Submission(n, ts, leaders)
  PROVE  WellSubmitted(AllSteps(n, ts, leaders), n, ts)
<1> DEFINE ss == [i \in 1..n |-> Steps(ts[i], leaders)]
<1>0. /\ n \in Nat /\ n > 0 /\ ts \in [1..n -> Tid] /\ Led(leaders)
      /\ \A i, j \in 1..n : ts[i] = ts[j] => i = j
  BY DEF Submission
<1> USE <1>0
<1>a. AllSteps(n, ts, leaders) = FlattenSeq(ss)
  BY DEF AllSteps
<1>1. Len(ss) = n /\ \A i \in 1..n : ss[i] = Steps(ts[i], leaders)
  OBVIOUS
<1>2. \A i \in 1..n : /\ ss[i] \in Seq(StepSet) /\ WellQueued(ss[i]) /\ Registers(ss[i])
                      /\ \A j \in DOMAIN ss[i] : ss[i][j].tid = ts[i]
  BY <1>1, StepsWellQueued
<1> HIDE DEF ss
<1>3. PICK f : Flattens(f, ss, n) /\ FlattenSeq(ss) = f[n]
  <2>1. n \in Nat /\ n > 0 /\ Len(ss) = n /\ \A i \in 1..n : ss[i] \in Seq(StepSet)
    BY <1>1, <1>2
  <2> QED
    BY ONLY <2>1, FlattenIs
<1> DEFINE Good(k) == /\ f[k] \in Seq(StepSet) /\ WellQueued(f[k]) /\ Registers(f[k])
                      /\ \A i \in DOMAIN f[k] : \E j \in 1..k : f[k][i].tid = ts[j]
           Bad == {k \in 1..n : ~Good(k)}
<1>4. Good(1)
  <2>1. f[1] = ss[1] /\ 1 \in 1..n
    BY <1>3 DEF Flattens
  <2> QED
    BY <1>2, <2>1
<1>5. ASSUME NEW k \in 1..n, k # 1, Good(k - 1) PROVE Good(k)
  <2> DEFINE s == f[k - 1]
             u == ss[k]
  <2>1. f[k] = s \o u
    BY <1>3, <1>5 DEF Flattens
  <2>2. /\ s \in Seq(StepSet) /\ WellQueued(s) /\ Registers(s)
        /\ \A i \in DOMAIN s : \E j \in 1..(k - 1) : s[i].tid = ts[j]
    BY <1>5
  <2>3. /\ u \in Seq(StepSet) /\ WellQueued(u) /\ Registers(u)
        /\ \A j \in DOMAIN u : u[j].tid = ts[k]
    BY <1>2
  <2> HIDE DEF s, u
  <2>4. ASSUME NEW i \in DOMAIN s, NEW j \in DOMAIN u PROVE s[i].tid # u[j].tid
    <3>1. PICK l \in 1..(k - 1) : s[i].tid = ts[l]
      BY <2>2
    <3>2. l \in 1..n /\ l # k
      BY <1>5
    <3>3. ts[l] # ts[k]
      BY <3>2
    <3> QED BY <2>3, <3>1, <3>3
  <2>5. WellQueued(s \o u)
    BY <2>2, <2>3, <2>4, WellQueuedConcat
  <2>6. /\ s \o u \in Seq(StepSet) /\ Len(s \o u) = Len(s) + Len(u)
        /\ \A i \in 1..(Len(s) + Len(u)) : (s \o u)[i] = IF i <= Len(s) THEN s[i] ELSE u[i - Len(s)]
    BY <2>2, <2>3, ConcatProperties
  <2>7. ASSUME NEW i \in DOMAIN (s \o u) PROVE \E j \in 1..k : (s \o u)[i].tid = ts[j]
    <3>0. Len(s) \in Nat /\ Len(u) \in Nat /\ DOMAIN s = 1..Len(s) /\ DOMAIN u = 1..Len(u)
          /\ i \in 1..(Len(s) + Len(u))
      BY <2>2, <2>3, <2>6, LenProperties
    <3>1. CASE i <= Len(s)
      <4>1. i \in DOMAIN s /\ (s \o u)[i] = s[i]
        BY <2>6, <3>0, <3>1
      <4>2. PICK j \in 1..(k - 1) : s[i].tid = ts[j]
        BY <2>2, <4>1
      <4>3. j \in 1..k
        BY <1>5
      <4> QED BY <4>1, <4>2, <4>3
    <3>2. CASE ~(i <= Len(s))
      <4>1. i - Len(s) \in 1..Len(u)
        BY <3>0, <3>2
      <4>2. (s \o u)[i] = u[i - Len(s)]
        BY <2>6, <3>0, <3>2
      <4>3. (s \o u)[i].tid = ts[k] /\ k \in 1..k
        BY <2>3, <3>0, <4>1, <4>2, <1>5
      <4> QED BY <4>3
    <3> QED BY <3>1, <3>2
  <2>8. Registers(s \o u)
    <3> DEFINE w == s \o u
    <3>0. Len(s) \in Nat /\ Len(u) \in Nat /\ DOMAIN s = 1..Len(s) /\ DOMAIN u = 1..Len(u)
          /\ DOMAIN w = 1..(Len(s) + Len(u))
      BY <2>2, <2>3, <2>6, LenProperties
    <3> HIDE DEF w
    <3>1. \A i \in DOMAIN s : i \in DOMAIN w /\ w[i] = s[i]
      BY <2>6, <3>0 DEF w
    <3>2. \A i \in DOMAIN u : i + Len(s) \in DOMAIN w /\ w[i + Len(s)] = u[i]
      <4> SUFFICES ASSUME NEW i \in 1..Len(u) PROVE i + Len(s) \in DOMAIN w /\ w[i + Len(s)] = u[i]
        BY <3>0
      <4>1. i + Len(s) \in 1..(Len(s) + Len(u)) /\ ~(i + Len(s) <= Len(s)) /\ (i + Len(s)) - Len(s) = i
        BY <3>0
      <4> QED BY <2>6, <3>0, <4>1 DEF w
    <3>3. \A i \in DOMAIN w : (\E j \in DOMAIN s : w[i] = s[j]) \/ (\E j \in DOMAIN u : w[i] = u[j])
      <4> TAKE i \in DOMAIN w
      <4>1. CASE i <= Len(s)
        BY <2>6, <3>0, <4>1 DEF w
      <4>2. CASE ~(i <= Len(s))
        <5>1. i - Len(s) \in 1..Len(u)
          BY <3>0, <4>2
        <5> QED BY <2>6, <3>0, <4>2, <5>1 DEF w
      <4> QED BY <4>1, <4>2
    <3>4. ASSUME NEW i \in DOMAIN w, IsCrossShard(w[i].tid) PROVE \E j \in DOMAIN w : WillRegister(w[j], w[i].tid)
      <4>1. CASE \E j \in DOMAIN s : w[i] = s[j]
        <5>1. \E l \in DOMAIN s : WillRegister(s[l], w[i].tid)
          BY <2>2, <3>4, <4>1 DEF Registers
        <5> QED BY <3>1, <5>1
      <4>2. CASE \E j \in DOMAIN u : w[i] = u[j]
        <5>1. \E l \in DOMAIN u : WillRegister(u[l], w[i].tid)
          BY <2>3, <3>4, <4>2 DEF Registers
        <5> QED BY <3>2, <5>1
      <4> QED BY <3>3, <4>1, <4>2
    <3> QED BY <3>4 DEF Registers, w
  <2> QED
    BY <2>1, <2>5, <2>6, <2>7, <2>8
<1> HIDE DEF Good
<1>6. Bad = {}
  <2>1. SUFFICES ASSUME Bad # {} PROVE FALSE
    OBVIOUS
  <2>2. Bad \in SUBSET Nat
    OBVIOUS
  <2> HIDE DEF Bad
  <2>3. PICK k \in Bad : \A j \in Bad : k <= j
    BY <2>1, <2>2, NatMin
  <2>4. k \in 1..n /\ ~Good(k)
    BY DEF Bad
  <2>5. k # 1
    BY <1>4, <2>4
  <2>6. k - 1 \in 1..n /\ ~(k <= k - 1)
    BY <2>4, <2>5
  <2>7. Good(k - 1)
    BY <2>3, <2>6 DEF Bad
  <2> QED
    BY <1>5, <2>4, <2>5, <2>7
<1>7. Good(n)
  <2>1. n \in 1..n
    OBVIOUS
  <2> QED
    BY <1>6, <2>1
<1>8. \A i \in DOMAIN f[n] : \E j \in 1..n : f[n][i].tid = ts[j]
  BY <1>7 DEF Good
<1> QED
  BY <1>3, <1>7, <1>8, <1>a DEF Good, WellSubmitted

(* The first step is made. *)
LEMMA WellQueuedTail ==
  ASSUME NEW s \in Seq(StepSet), s # <<>>, WellQueued(s)
  PROVE  /\ Tail(s) \in Seq(StepSet) /\ WellQueued(Tail(s))
         /\ \A i \in DOMAIN Tail(s) : i + 1 \in DOMAIN s /\ Tail(s)[i] = s[i + 1]
         /\ \A i \in DOMAIN s : i # 1 => i - 1 \in DOMAIN Tail(s) /\ Tail(s)[i - 1] = s[i]
         /\ Head(s) = s[1] /\ 1 \in DOMAIN s
<1> DEFINE r == Tail(s)
           n == Len(s)
<1>1. /\ r \in Seq(StepSet) /\ DOMAIN r = 1..(n - 1) /\ DOMAIN s = 1..n /\ n \in Nat /\ n > 0
      /\ \A i \in 1..(n - 1) : r[i] = s[i + 1]
  <2>1. n \in Nat /\ n # 0 /\ DOMAIN s = 1..n
    BY LenProperties, EmptySeq
  <2> QED
    BY <2>1, HeadTailProperties, LenProperties
<1>2. Head(s) = s[1] /\ 1 \in DOMAIN s
  BY <1>1
<1> HIDE DEF r, n
<1>3. \A i \in DOMAIN r : i + 1 \in DOMAIN s /\ r[i] = s[i + 1]
  BY <1>1
<1>4. \A i \in DOMAIN s : i # 1 => i - 1 \in DOMAIN r /\ r[i - 1] = s[i]
  <2> SUFFICES ASSUME NEW i \in 1..n, i # 1 PROVE i - 1 \in 1..(n - 1) /\ r[i - 1] = s[i]
    BY <1>1
  <2>1. i - 1 \in 1..(n - 1) /\ (i - 1) + 1 = i
    BY <1>1
  <2> QED
    BY <1>1, <2>1
<1>5. AsksRight(r)
  <2>1. \A i \in DOMAIN r : \E j \in DOMAIN s : r[i] = s[j]
    BY <1>3
  <2> QED
    BY <2>1 DEF WellQueued, AsksRight
<1>6. StepsOnce(r)
  <2> SUFFICES ASSUME NEW i \in DOMAIN r, NEW j \in DOMAIN r, NEW t \in Tid
               PROVE  /\ WillRegister(r[i], t) /\ WillRegister(r[j], t) => i = j
                      /\ \A k \in Shards : WillAsk(r[i], t, k) /\ WillAsk(r[j], t, k) => i = j
    BY DEF StepsOnce
  <2> DEFINE a == i + 1
             b == j + 1
  <2>1. a \in DOMAIN s /\ b \in DOMAIN s /\ r[i] = s[a] /\ r[j] = s[b] /\ (a = b => i = j)
    BY <1>1, <1>3
  <2> HIDE DEF a, b
  <2> QED
    BY <2>1 DEF WellQueued, StepsOnce
<1>7. RegistersFirst(r)
  <2> SUFFICES ASSUME NEW i \in DOMAIN r, NEW t \in Tid, WillRegister(r[i], t)
               PROVE  /\ IsCrossShard(t)
                      /\ \A k \in Participants(t) : \E j \in DOMAIN r : WillAsk(r[j], t, k)
                      /\ \A j \in DOMAIN r, k \in Shards : WillAsk(r[j], t, k) => i < j
    BY DEF RegistersFirst
  <2> DEFINE a == i + 1
  <2>1. a \in DOMAIN s /\ r[i] = s[a] /\ a > 1 /\ i = a - 1 /\ a \in Nat
    BY <1>1, <1>3
  <2> HIDE DEF a
  <2>2. /\ IsCrossShard(t)
        /\ \A k \in Participants(t) : \E j \in DOMAIN s : WillAsk(s[j], t, k)
        /\ \A j \in DOMAIN s, k \in Shards : WillAsk(s[j], t, k) => a < j
    BY <2>1 DEF WellQueued, RegistersFirst
  <2>3. ASSUME NEW k \in Participants(t) PROVE \E j \in DOMAIN r : WillAsk(r[j], t, k)
    <3>1. PICK j \in DOMAIN s : WillAsk(s[j], t, k)
      BY <2>2
    <3>2. k \in Shards
      BY ParticipantsType
    <3>3. a < j /\ j \in Nat
      BY <1>1, <2>2, <3>1, <3>2
    <3>4. j # 1
      BY <2>1, <3>3
    <3> QED BY <1>4, <3>1, <3>4
  <2>4. ASSUME NEW j \in DOMAIN r, NEW k \in Shards, WillAsk(r[j], t, k) PROVE i < j
    <3>1. a < j + 1
      BY <1>3, <2>2, <2>4
    <3> QED BY <1>1, <2>1, <3>1
  <2> QED BY <2>2, <2>3, <2>4
<1> QED
  BY <1>1, <1>2, <1>3, <1>4, <1>5, <1>6, <1>7 DEF WellQueued, r

(***************************************************************************)
(* The invariant.                                                          *)
(***************************************************************************)
Asking == {"TRANSFER", "TPC_PREPARE"}
Deciding == {"TPC_COMMIT", "TPC_ABORT"}

CallSet ==
  [type : Asking \cup Deciding, tid : Tid, to : Server,
   status : {"sent", "ack", "nack", "done", "error"}]

Counters == [successes : 0..1, failures : 0..1]
Submissions == [tid : Tid, leaders : SUBSET Server]

(* Call c asks cluster k for its vote on t. *)
Asks(c, t, k) == c.type \in Asking /\ c.tid = t /\ ServerCluster[c.to] = k

Asked(t, k) == \E c \in calls : Asks(c, t, k)
Queued(t, k) == \E i \in DOMAIN todo : WillAsk(todo[i], t, k)
Unregistered(t) == \E i \in DOMAIN todo : WillRegister(todo[i], t)

ClientTypeInv ==
  /\ pc \in MainState
  /\ todo \in Seq(StepSet)
  /\ DOMAIN processing \in SUBSET Tid
  /\ \A t \in DOMAIN processing : processing[t] \in Counters
  /\ calls \in SUBSET CallSet
  /\ offline \in SUBSET Server
  /\ failures \in 0..MaxFailures
  /\ votes \in [Tid -> [Shards -> {"none", "ack", "nack"}]]
  /\ outcome \in [Tid -> {"none", "commit", "abort"}]
  /\ submitted \in Seq(Submissions)

(* As many rows were submitted as the reader has returned, with the        *)
(* leaders of their set.                                                   *)
ReaderInv ==
  /\ Len(submitted) <= Len(Rows) /\ ReaderAt(csv, Len(submitted))
  /\ \A i \in DOMAIN submitted :
       /\ submitted[i].tid = Rows[i].tid
       /\ submitted[i].leaders = Rows[Max({j \in 1..i : Rows[j].set_no # 0})].leaders

QueueInv == (pc # "sending" => todo = <<>>) /\ WellQueued(todo)

(* Nothing has happened to t. *)
Untouched(t) ==
  /\ t \notin DOMAIN processing /\ outcome[t] = "none"
  /\ \A k \in Shards : votes[t][k] = "none"
  /\ \A c \in calls : c.tid # t

Known == {submitted[i].tid : i \in DOMAIN submitted}

(* A transaction that was not submitted, or not registered yet, is         *)
(* untouched.                                                              *)
FreshInv ==
  \A t \in Tid :
    /\ t \notin Known => Untouched(t) /\ \A i \in DOMAIN todo : todo[i].tid # t
    /\ Unregistered(t) => Untouched(t)

(* A call that asks for a vote carries the one that the server gave. *)
AskedInv ==
  \A c \in calls : c.type \in Asking =>
    /\ ServerCluster[c.to] \in Participants(c.tid)
    /\ c.type = "TPC_PREPARE" <=> IsCrossShard(c.tid)
    /\ c.status # "done"
    /\ votes[c.tid][ServerCluster[c.to]] =
         IF c.status \in {"ack", "nack"} THEN c.status ELSE "none"
    /\ IsCrossShard(c.tid) => c.tid \in DOMAIN processing

(* A cluster is asked once. *)
AskedOnce ==
  /\ \A c, d \in calls, t \in Tid, k \in Shards : Asks(c, t, k) /\ Asks(d, t, k) => c = d
  /\ \A t \in Tid, k \in Shards : Queued(t, k) =>
       /\ ~Asked(t, k) /\ votes[t][k] = "none"
       /\ IsCrossShard(t) => Unregistered(t) \/ t \in DOMAIN processing

(* A decision under way is the one that was taken. *)
DecisionsInv ==
  \A c \in calls : c.type \in Deciding =>
    outcome[c.tid] = IF c.type = "TPC_COMMIT" THEN "commit" ELSE "abort"

Bit(b) == IF b THEN 1 ELSE 0

(* Cluster k voted v on t, and its call is off the queue. *)
Voted(t, k, v) == votes[t][k] = v /\ ~Asked(t, k)

VotedFor(t, v) ==
  Bit(Voted(t, AccountCluster[Txn[t].sender], v)) + Bit(Voted(t, AccountCluster[Txn[t].receiver], v))

(* The counters count the votes that are off the queue, and all of them    *)
(* until the queue is shut down.                                           *)
Tallied(t) ==
  LET p == processing[t] IN
  /\ IsCrossShard(t) /\ outcome[t] = "none"
  /\ p.successes + p.failures <= 1
  /\ p.successes <= VotedFor(t, "ack") /\ p.failures <= VotedFor(t, "nack")
  /\ pc \in {"prompt", "sending", "killed"} =>
       p.successes = VotedFor(t, "ack") /\ p.failures = VotedFor(t, "nack")

TallyInv == \A t \in DOMAIN processing : Tallied(t)

(* While no call has failed, a vote that is missing is under way or yet to *)
(* be asked for.                                                           *)
NothingLost ==
  Running /\ failures = MaxFailures =>
    /\ \A c \in calls : c.status # "error"
    /\ \A t \in DOMAIN processing : \A k \in Participants(t) :
         votes[t][k] = "none" => Asked(t, k) \/ Queued(t, k)

ClientInv ==
  /\ ClientTypeInv /\ ReaderInv /\ QueueInv /\ FreshInv
  /\ AskedInv /\ AskedOnce /\ DecisionsInv /\ TallyInv /\ NothingLost

(* The fields of a call. *)
LEMMA CallFields ==
  ASSUME NEW c \in CallSet
  PROVE  /\ c.type \in Asking \cup Deciding /\ c.tid \in Tid /\ c.to \in Server
         /\ c.status \in {"sent", "ack", "nack", "done", "error"}
         /\ c = [type |-> c.type, tid |-> c.tid, to |-> c.to, status |-> c.status]
BY DEF CallSet

(* A bit is 0 or 1. *)
LEMMA BitType ==
  ASSUME NEW b \in BOOLEAN
  PROVE  Bit(b) \in {0, 1} /\ (b => Bit(b) = 1) /\ (~b => Bit(b) = 0)
BY DEF Bit

(* No vote is counted twice. *)
LEMMA VotedForType ==
  ASSUME NEW t \in Tid, NEW v PROVE VotedFor(t, v) \in 0..2
<1> DEFINE A == Voted(t, AccountCluster[Txn[t].sender], v)
           B == Voted(t, AccountCluster[Txn[t].receiver], v)
<1>1. A \in BOOLEAN /\ B \in BOOLEAN
  BY DEF Voted, Asked
<1>2. Bit(A) \in {0, 1} /\ Bit(B) \in {0, 1}
  BY <1>1, BitType
<1>3. VotedFor(t, v) = Bit(A) + Bit(B)
  BY DEF VotedFor
<1> HIDE DEF A, B
<1> QED
  BY <1>2, <1>3

(* What was counted on t stays so when its votes and calls do. *)
LEMMA VotedForKept ==
  ASSUME NEW t \in Tid, NEW v,
         \A k \in Participants(t) : Voted(t, k, v)' <=> Voted(t, k, v)
  PROVE  VotedFor(t, v)' = VotedFor(t, v)
<1> DEFINE x == AccountCluster[Txn[t].sender]
           y == AccountCluster[Txn[t].receiver]
<1>1. (Voted(t, x, v)' <=> Voted(t, x, v)) /\ (Voted(t, y, v)' <=> Voted(t, y, v))
  BY DEF Participants
<1>2. Bit(Voted(t, x, v))' = Bit(Voted(t, x, v))
  BY <1>1 DEF Bit
<1>3. Bit(Voted(t, y, v))' = Bit(Voted(t, y, v))
  BY <1>1 DEF Bit
<1> QED
  BY <1>2, <1>3 DEF VotedFor

(* The tally of t stays right when nothing it depends on changes. *)
LEMMA TalliedKept ==
  ASSUME NEW t \in Tid, Tallied(t), processing'[t] = processing[t], outcome'[t] = outcome[t],
         pc' \in {"prompt", "sending", "killed"} => pc \in {"prompt", "sending", "killed"},
         \A k \in Participants(t), v \in {"ack", "nack"} : Voted(t, k, v)' <=> Voted(t, k, v)
  PROVE  Tallied(t)'
<1>1. VotedFor(t, "ack")' = VotedFor(t, "ack")
  BY VotedForKept
<1>2. VotedFor(t, "nack")' = VotedFor(t, "nack")
  BY VotedForKept
<1> QED
  BY <1>1, <1>2 DEF Tallied

LEMMA ClientInvInit == Init => ClientInv
<1> SUFFICES ASSUME Init PROVE ClientInv
  OBVIOUS
<1> USE DEF Init
<1>1. ClientTypeInv
  <2>1. votes \in [Tid -> [Shards -> {"none", "ack", "nack"}]]
    BY DEF Shards
  <2>2. outcome \in [Tid -> {"none", "commit", "abort"}]
    OBVIOUS
  <2>3. failures \in 0..MaxFailures
    BY ClientAssumption
  <2>4. todo \in Seq(StepSet) /\ submitted \in Seq(Submissions)
    OBVIOUS
  <2>5. DOMAIN processing = {}
    OBVIOUS
  <2> QED
    BY <2>1, <2>2, <2>3, <2>4, <2>5 DEF ClientTypeInv, MainState
<1>2. ReaderInv
  <2>1. Len(Rows) \in Nat /\ Len(submitted) = 0 /\ DOMAIN submitted = {}
    BY ClientAssumption
  <2>2. ReaderAt(csv, 0)
    BY DEF ReaderAt
  <2> QED
    BY <2>1, <2>2 DEF ReaderInv
<1>3. DOMAIN todo = {} /\ calls = {} /\ DOMAIN processing = {}
  OBVIOUS
<1>4. QueueInv
  BY <1>3 DEF QueueInv, WellQueued, AsksRight, StepsOnce, RegistersFirst
<1>5. FreshInv
  BY <1>3 DEF FreshInv, Untouched, Unregistered, Shards
<1>6. AskedInv /\ AskedOnce /\ DecisionsInv
  BY <1>3 DEF AskedInv, AskedOnce, DecisionsInv, Queued
<1>7. TallyInv /\ NothingLost
  BY <1>3 DEF TallyInv, NothingLost
<1> QED
  BY <1>1, <1>2, <1>4, <1>5, <1>6, <1>7 DEF ClientInv

(* The steps of the driver's thread that only move on. *)
LEMMA MovesOnClient ==
  ASSUME ClientInv, SubmittedAll \/ Exit \/ Shutdown \/ Join
  PROVE  ClientInv'
<1>1. /\ UNCHANGED <<todo, csv, processing, calls, offline, failures, votes, outcome, submitted>>
      /\ pc' \in MainState /\ pc' # "sending" /\ todo = <<>>
      /\ pc' \in {"prompt", "sending", "killed"} => pc \in {"prompt", "sending", "killed"}
      /\ pc' \in {"prompt", "sending"} => pc \in {"prompt", "sending"}
  BY DEF SubmittedAll, Exit, Shutdown, Join, ClientInv, QueueInv, MainState
<1>2. ClientTypeInv' /\ ReaderInv' /\ QueueInv'
  BY <1>1 DEF ClientInv, ClientTypeInv, ReaderInv, QueueInv
<1>3. /\ \A t : Unregistered(t)' = Unregistered(t) /\ Untouched(t)' = Untouched(t)
      /\ \A t, k : Asked(t, k)' = Asked(t, k) /\ Queued(t, k)' = Queued(t, k)
      /\ \A t, k, v : Voted(t, k, v)' = Voted(t, k, v)
      /\ Known' = Known
  BY <1>1 DEF Unregistered, Untouched, Asked, Queued, Voted, Known
<1>4. FreshInv' /\ AskedInv' /\ AskedOnce' /\ DecisionsInv'
  BY <1>1, <1>3 DEF ClientInv, FreshInv, AskedInv, AskedOnce, DecisionsInv
<1>5. TallyInv'
  <2> SUFFICES ASSUME NEW t \in DOMAIN processing PROVE Tallied(t)'
    BY <1>1 DEF TallyInv
  <2>1. t \in Tid /\ Tallied(t)
    BY DEF ClientInv, ClientTypeInv, TallyInv
  <2> QED
    BY <1>1, <1>3, <2>1, TalliedKept
<1>6. NothingLost'
  BY <1>1, <1>3 DEF ClientInv, NothingLost, Running
<1> QED
  BY <1>2, <1>4, <1>5, <1>6 DEF ClientInv

(* What is left when the first step is made. *)
LEMMA TodoTail ==
  ASSUME ClientInv, todo # <<>>, todo' = Tail(todo)
  PROVE  /\ todo' \in Seq(StepSet) /\ WellQueued(todo') /\ Head(todo) = todo[1]
         /\ 1 \in DOMAIN todo /\ Head(todo) \in StepSet /\ Head(todo).tid \in Known
         /\ \A i \in DOMAIN todo' : \E j \in DOMAIN todo : j # 1 /\ todo'[i] = todo[j]
         /\ \A j \in DOMAIN todo : j # 1 => \E i \in DOMAIN todo' : todo'[i] = todo[j]
<1>1. todo \in Seq(StepSet) /\ WellQueued(todo)
  BY DEF ClientInv, ClientTypeInv, QueueInv
<1>2. /\ Tail(todo) \in Seq(StepSet) /\ WellQueued(Tail(todo))
      /\ \A i \in DOMAIN Tail(todo) : i + 1 \in DOMAIN todo /\ Tail(todo)[i] = todo[i + 1]
      /\ \A i \in DOMAIN todo : i # 1 => i - 1 \in DOMAIN Tail(todo) /\ Tail(todo)[i - 1] = todo[i]
      /\ Head(todo) = todo[1] /\ 1 \in DOMAIN todo
  BY <1>1, WellQueuedTail
<1>3. \A i \in DOMAIN todo' : i + 1 # 1
  <2>1. DOMAIN Tail(todo) \subseteq Nat \ {0}
    BY <1>2, LenProperties
  <2> QED BY <2>1
<1>4. todo[1] \in StepSet
  BY <1>1, <1>2
<1>5. todo[1].tid \in Known
  BY <1>2, <1>4, StepKinds DEF ClientInv, FreshInv
<1> QED
  BY <1>2, <1>3, <1>4, <1>5

(* processing[tid] = {..., 0, 0, ...} *)
LEMMA RegisterClient ==
  ASSUME ClientInv, RegisterStep
  PROVE  ClientInv'
<1> DEFINE e == Head(todo)
           t == e.tid
<1>1. /\ todo # <<>> /\ e.do = "register" /\ todo' = Tail(todo) /\ pc = "sending"
      /\ processing' = [u \in DOMAIN processing \cup {t} |->
           IF u = t THEN [successes |-> 0, failures |-> 0] ELSE processing[u]]
      /\ UNCHANGED <<pc, csv, calls, offline, failures, votes, outcome, submitted>>
  BY DEF RegisterStep
<1>2. /\ todo' \in Seq(StepSet) /\ WellQueued(todo') /\ e = todo[1]
      /\ 1 \in DOMAIN todo /\ e \in StepSet /\ t \in Known
      /\ \A i \in DOMAIN todo' : \E j \in DOMAIN todo : j # 1 /\ todo'[i] = todo[j]
      /\ \A j \in DOMAIN todo : j # 1 => \E i \in DOMAIN todo' : todo'[i] = todo[j]
  BY <1>1, TodoTail
<1>3. t \in Tid
  BY <1>2, StepKinds
<1> HIDE DEF e
<1>4. WillRegister(todo[1], t) /\ Unregistered(t) /\ Untouched(t)
  BY <1>1, <1>2, <1>3 DEF WillRegister, Unregistered, ClientInv, FreshInv
<1>5. /\ IsCrossShard(t) /\ \A k \in Participants(t) : \E j \in DOMAIN todo : WillAsk(todo[j], t, k)
      /\ \A j \in DOMAIN todo : WillRegister(todo[j], t) => j = 1
  BY <1>2, <1>3, <1>4 DEF ClientInv, QueueInv, WellQueued, RegistersFirst, StepsOnce
<1>6. \A u \in Tid : \A k : ~WillAsk(todo[1], u, k)
  BY <1>1, <1>2 DEF WillAsk
<1>7. \A u \in Tid : \A k : Queued(u, k)' <=> Queued(u, k)
  BY <1>2, <1>6 DEF Queued
<1>8. \A u \in Tid : Unregistered(u)' <=> (Unregistered(u) /\ u # t)
  BY <1>2, <1>3, <1>4, <1>5 DEF Unregistered, WillRegister
<1>9. /\ DOMAIN processing' = DOMAIN processing \cup {t}
      /\ processing'[t] = [successes |-> 0, failures |-> 0]
      /\ \A u \in DOMAIN processing : processing'[u] = processing[u]
  BY <1>1, <1>4 DEF Untouched
<1>10. /\ \A u, k : Asked(u, k)' = Asked(u, k)
       /\ \A u, k, v : Voted(u, k, v)' = Voted(u, k, v)
       /\ Known' = Known
  BY <1>1 DEF Asked, Voted, Known
<1>11. ClientTypeInv'
  <2>1. processing'[t] \in Counters
    BY <1>9 DEF Counters
  <2>2. DOMAIN processing' \in SUBSET Tid
    BY <1>3, <1>9 DEF ClientInv, ClientTypeInv
  <2>3. \A u \in DOMAIN processing' : processing'[u] \in Counters
    BY <2>1, <1>9 DEF ClientInv, ClientTypeInv
  <2> QED
    BY <1>1, <1>2, <2>2, <2>3 DEF ClientInv, ClientTypeInv
<1>12. ReaderInv' /\ QueueInv'
  BY <1>1, <1>2 DEF ClientInv, ReaderInv, QueueInv
<1>13. FreshInv'
  <2> SUFFICES ASSUME NEW u \in Tid
               PROVE  /\ u \notin Known => Untouched(u)' /\ \A i \in DOMAIN todo' : todo'[i].tid # u
                      /\ Unregistered(u)' => Untouched(u)'
    BY <1>10 DEF FreshInv
  <2>1. Untouched(u) /\ u # t => Untouched(u)'
    BY <1>1, <1>9 DEF Untouched
  <2>2. u \notin Known => u # t /\ Untouched(u) /\ \A i \in DOMAIN todo : todo[i].tid # u
    BY <1>2 DEF ClientInv, FreshInv
  <2>3. Unregistered(u)' => Untouched(u) /\ u # t
    BY <1>8 DEF ClientInv, FreshInv
  <2> QED
    BY <1>2, <2>1, <2>2, <2>3
<1>14. AskedInv' /\ DecisionsInv'
  BY <1>1, <1>9 DEF ClientInv, AskedInv, DecisionsInv
<1>15. AskedOnce'
  BY <1>1, <1>7, <1>8, <1>9, <1>10 DEF ClientInv, AskedOnce
<1>16. TallyInv'
  <2> SUFFICES ASSUME NEW u \in DOMAIN processing' PROVE Tallied(u)'
    BY DEF TallyInv
  <2>1. CASE u = t
    <3>0. u \in Tid /\ Untouched(u) /\ IsCrossShard(u)
      BY <1>3, <1>4, <1>5, <2>1
    <3>1. \A k \in Participants(u), v \in {"ack", "nack"} : ~Voted(u, k, v)'
      BY <1>10, <3>0, ParticipantsType DEF Untouched, Voted
    <3>2. VotedFor(u, "ack")' = 0 /\ VotedFor(u, "nack")' = 0
      BY <3>1 DEF VotedFor, Bit, Participants
    <3>3. outcome'[u] = "none" /\ processing'[u] = [successes |-> 0, failures |-> 0]
      BY <1>1, <1>9, <2>1, <3>0 DEF Untouched
    <3> QED
      BY <3>0, <3>2, <3>3 DEF Tallied
  <2>2. CASE u # t
    <3>1. u \in Tid /\ u \in DOMAIN processing /\ Tallied(u)
      BY <1>9, <2>2 DEF ClientInv, ClientTypeInv, TallyInv
    <3> QED
      BY <1>1, <1>9, <1>10, <3>1, TalliedKept
  <2> QED BY <2>1, <2>2
<1>17. NothingLost'
  <2> SUFFICES ASSUME Running, failures = MaxFailures
               PROVE  /\ \A c \in calls : c.status # "error"
                      /\ \A u \in DOMAIN processing' : \A k \in Participants(u) :
                           votes[u][k] = "none" => Asked(u, k)' \/ Queued(u, k)'
    BY <1>1 DEF NothingLost, Running
  <2>1. /\ \A c \in calls : c.status # "error"
        /\ \A u \in DOMAIN processing : \A k \in Participants(u) :
             votes[u][k] = "none" => Asked(u, k) \/ Queued(u, k)
    BY DEF ClientInv, NothingLost
  <2>2. \A k \in Participants(t) : Queued(t, k)
    BY <1>5 DEF Queued
  <2>3. DOMAIN processing \subseteq Tid
    BY DEF ClientInv, ClientTypeInv
  <2> QED
    BY <1>3, <1>7, <1>9, <1>10, <2>1, <2>2, <2>3
<1> QED
  BY <1>11, <1>12, <1>13, <1>14, <1>15, <1>16, <1>17 DEF ClientInv

(* sendTransfer, tpcPrepare. *)
LEMMA SendClient ==
  ASSUME ClientInv, SendStep
  PROVE  ClientInv'
<1> DEFINE e == Head(todo)
           t == e.tid
           z == ServerCluster[e.to]
           n == NewCall(e.type, t, e.to)
<1>1. /\ todo # <<>> /\ e.do = "send" /\ todo' = Tail(todo) /\ pc = "sending"
      /\ calls' = calls \cup {n}
      /\ UNCHANGED <<pc, csv, processing, offline, failures, votes, outcome, submitted>>
  BY DEF SendStep
<1>2. /\ todo' \in Seq(StepSet) /\ WellQueued(todo') /\ e = todo[1]
      /\ 1 \in DOMAIN todo /\ e \in StepSet /\ t \in Known
      /\ \A i \in DOMAIN todo' : \E j \in DOMAIN todo : j # 1 /\ todo'[i] = todo[j]
      /\ \A j \in DOMAIN todo : j # 1 => \E i \in DOMAIN todo' : todo'[i] = todo[j]
  BY <1>1, TodoTail
<1>3. t \in Tid /\ e.to \in Server /\ e.type \in Asking
  BY <1>1, <1>2, StepKinds DEF Asking
<1>4. n \in CallSet /\ n.type = e.type /\ n.tid = t /\ n.to = e.to /\ n.status = "sent"
  BY <1>3 DEF NewCall, CallSet
<1> HIDE DEF e, n
<1>5. WillAsk(todo[1], t, z) /\ Queued(t, z)
  BY <1>1, <1>2 DEF WillAsk, Queued
<1>6. z \in Participants(t) /\ z \in Shards /\ (e.type = "TPC_PREPARE" <=> IsCrossShard(t))
  BY <1>1, <1>2, <1>3, ParticipantsType DEF ClientInv, QueueInv, WellQueued, AsksRight
<1>7. ~Asked(t, z) /\ votes[t][z] = "none" /\ (IsCrossShard(t) => Unregistered(t) \/ t \in DOMAIN processing)
  BY <1>3, <1>5, <1>6 DEF ClientInv, AskedOnce
<1> HIDE DEF z
<1>8. ~Unregistered(t)
  <2>1. SUFFICES ASSUME NEW i \in DOMAIN todo, WillRegister(todo[i], t) PROVE FALSE
    BY DEF Unregistered
  <2>2. i < 1
    BY <1>2, <1>3, <1>5, <1>6, <2>1 DEF ClientInv, QueueInv, WellQueued, RegistersFirst
  <2>3. i >= 1
    BY LenProperties DEF ClientInv, ClientTypeInv
  <2>4. i \in Nat
    BY LenProperties DEF ClientInv, ClientTypeInv
  <2> QED BY <2>2, <2>3, <2>4
<1>9. \A u \in Tid : Unregistered(u)' <=> Unregistered(u)
  <2>1. \A u \in Tid : ~WillRegister(todo[1], u)
    BY <1>1, <1>2 DEF WillRegister
  <2> QED BY <1>2, <2>1 DEF Unregistered
<1>10. \A u \in Tid, k \in Shards : Queued(u, k)' <=> (Queued(u, k) /\ ~(u = t /\ k = z))
  <2> TAKE u \in Tid, k \in Shards
  <2>1. WillAsk(todo[1], u, k) <=> (u = t /\ k = z)
    BY <1>1, <1>2 DEF WillAsk, z
  <2>2. \A j \in DOMAIN todo : WillAsk(todo[j], t, z) => j = 1
    BY <1>2, <1>3, <1>5, <1>6 DEF ClientInv, QueueInv, WellQueued, StepsOnce
  <2> QED BY <1>2, <2>1, <2>2 DEF Queued
<1>11. \A u \in Tid, k \in Shards : Asks(n, u, k) <=> (u = t /\ k = z)
  BY <1>3, <1>4 DEF Asks, z
<1>12. \A u \in Tid, k \in Shards : Asked(u, k)' <=> (Asked(u, k) \/ (u = t /\ k = z))
  BY <1>1, <1>11 DEF Asked
<1>13. \A u \in Tid, k \in Shards, v \in {"ack", "nack"} : Voted(u, k, v)' <=> Voted(u, k, v)
  BY <1>1, <1>7, <1>12 DEF Voted
<1>14. ClientTypeInv'
  BY <1>1, <1>2, <1>4 DEF ClientInv, ClientTypeInv
<1>15. ReaderInv' /\ QueueInv'
  BY <1>1, <1>2 DEF ClientInv, ReaderInv, QueueInv
<1>16. FreshInv'
  <2> SUFFICES ASSUME NEW u \in Tid
               PROVE  /\ u \notin Known => Untouched(u)' /\ \A i \in DOMAIN todo' : todo'[i].tid # u
                      /\ Unregistered(u)' => Untouched(u)'
    BY <1>1 DEF FreshInv, Known
  <2>1. Untouched(u) /\ u # t => Untouched(u)'
    BY <1>1, <1>4 DEF Untouched
  <2>2. u \notin Known => u # t /\ Untouched(u) /\ \A i \in DOMAIN todo : todo[i].tid # u
    BY <1>2 DEF ClientInv, FreshInv
  <2>3. Unregistered(u)' => Untouched(u) /\ u # t
    BY <1>8, <1>9 DEF ClientInv, FreshInv
  <2> QED
    BY <1>2, <2>1, <2>2, <2>3
<1>17. AskedInv'
  <2> SUFFICES ASSUME NEW c \in calls', c.type \in Asking
               PROVE  /\ ServerCluster[c.to] \in Participants(c.tid)
                      /\ c.type = "TPC_PREPARE" <=> IsCrossShard(c.tid)
                      /\ c.status # "done"
                      /\ votes[c.tid][ServerCluster[c.to]] =
                           IF c.status \in {"ack", "nack"} THEN c.status ELSE "none"
                      /\ IsCrossShard(c.tid) => c.tid \in DOMAIN processing
    BY <1>1 DEF AskedInv
  <2>1. CASE c \in calls
    BY <2>1 DEF ClientInv, AskedInv
  <2>2. CASE c = n
    BY <1>4, <1>6, <1>7, <1>8, <2>2 DEF z
  <2> QED BY <1>1, <2>1, <2>2
<1>18. AskedOnce'
  <2>1. \A c, d \in calls', u \in Tid, k \in Shards : Asks(c, u, k) /\ Asks(d, u, k) => c = d
    BY <1>1, <1>7, <1>11 DEF ClientInv, AskedOnce, Asked
  <2>2. \A u \in Tid, k \in Shards : Queued(u, k)' =>
          /\ ~Asked(u, k)' /\ votes[u][k] = "none"
          /\ IsCrossShard(u) => Unregistered(u)' \/ u \in DOMAIN processing
    BY <1>9, <1>10, <1>12 DEF ClientInv, AskedOnce
  <2> QED BY <1>1, <2>1, <2>2 DEF AskedOnce
<1>19. DecisionsInv'
  BY <1>1, <1>3, <1>4 DEF ClientInv, DecisionsInv, Asking, Deciding
<1>20. TallyInv'
  <2> SUFFICES ASSUME NEW u \in DOMAIN processing PROVE Tallied(u)'
    BY <1>1 DEF TallyInv
  <2>1. u \in Tid /\ Tallied(u)
    BY DEF ClientInv, ClientTypeInv, TallyInv
  <2>2. \A k \in Participants(u), v \in {"ack", "nack"} : Voted(u, k, v)' <=> Voted(u, k, v)
    BY <1>13, <2>1, ParticipantsType
  <2> QED
    BY <1>1, <2>1, <2>2, TalliedKept
<1>21. NothingLost'
  <2> SUFFICES ASSUME Running, failures = MaxFailures
               PROVE  /\ \A c \in calls' : c.status # "error"
                      /\ \A u \in DOMAIN processing : \A k \in Participants(u) :
                           votes[u][k] = "none" => Asked(u, k)' \/ Queued(u, k)'
    BY <1>1 DEF NothingLost, Running
  <2>1. /\ \A c \in calls : c.status # "error"
        /\ \A u \in DOMAIN processing : \A k \in Participants(u) :
             votes[u][k] = "none" => Asked(u, k) \/ Queued(u, k)
    BY DEF ClientInv, NothingLost
  <2>2. DOMAIN processing \subseteq Tid
    BY DEF ClientInv, ClientTypeInv
  <2> QED
    BY <1>1, <1>4, <1>10, <1>12, <2>1, <2>2, ParticipantsType
<1> QED
  BY <1>14, <1>15, <1>16, <1>17, <1>18, <1>19, <1>20, <1>21 DEF ClientInv

(* A call c gets another status, as its copy d. *)
LEMMA CallChanges ==
  ASSUME NEW c \in calls, NEW d, calls' = (calls \ {c}) \cup {d},
         d.type = c.type, d.tid = c.tid, d.to = c.to
  PROVE  /\ \A t, k : Asks(d, t, k) <=> Asks(c, t, k)
         /\ \A t, k : Asked(t, k)' <=> Asked(t, k)
<1>1. \A t, k : Asks(d, t, k) <=> Asks(c, t, k)
  BY DEF Asks
<1> QED
  BY <1>1 DEF Asked

(* A server answers. *)
LEMMA AnswerClient ==
  ASSUME ClientInv, NEW c \in calls, NEW status \in {"ack", "nack", "done"}, ServerAnswers(c, status)
  PROVE  ClientInv'
<1> DEFINE d == [c EXCEPT !.status = status]
           z == ServerCluster[c.to]
<1>1. /\ c.status = "sent" /\ Running
      /\ calls' = (calls \ {c}) \cup {d}
      /\ UNCHANGED <<pc, todo, csv, processing, offline, failures, outcome, submitted>>
  BY DEF ServerAnswers
<1>2. c \in CallSet /\ c.type \in Asking \cup Deciding /\ c.tid \in Tid /\ c.to \in Server
  BY CallFields DEF ClientInv, ClientTypeInv
<1>3. /\ d \in CallSet /\ d.type = c.type /\ d.tid = c.tid /\ d.to = c.to /\ d.status = status
  BY <1>2 DEF CallSet
<1>4. /\ c.type \in Asking => status \in {"ack", "nack"} /\ votes' = [votes EXCEPT ![c.tid][z] = status]
      /\ c.type \notin Asking => status = "done" /\ votes' = votes
  BY DEF ServerAnswers, Asking
<1> HIDE DEF d
<1>5. /\ \A t, k : Asks(d, t, k) <=> Asks(c, t, k)
      /\ \A t, k : Asked(t, k)' <=> Asked(t, k)
  BY <1>1, <1>3, CallChanges
<1>6. c.type \in Asking =>
        /\ z \in Participants(c.tid) /\ z \in Shards /\ votes[c.tid][z] = "none" /\ Asked(c.tid, z)
        /\ Asks(c, c.tid, z)
  <2> SUFFICES ASSUME c.type \in Asking
               PROVE  /\ z \in Participants(c.tid) /\ z \in Shards /\ votes[c.tid][z] = "none"
                      /\ Asks(c, c.tid, z)
    BY DEF Asked
  <2>1. z \in Participants(c.tid) /\ votes[c.tid][z] = "none"
    BY <1>1 DEF ClientInv, AskedInv
  <2> QED
    BY <1>2, <2>1, ParticipantsType DEF Asks
<1>7. votes \in [Tid -> [Shards -> {"none", "ack", "nack"}]]
  BY DEF ClientInv, ClientTypeInv
<1>8. /\ votes' \in [Tid -> [Shards -> {"none", "ack", "nack"}]]
      /\ \A t \in Tid, k \in Shards : ~(c.type \in Asking /\ t = c.tid /\ k = z) => votes'[t][k] = votes[t][k]
      /\ c.type \in Asking => votes'[c.tid][z] = status
  <2>1. CASE c.type \in Asking
    BY <1>2, <1>4, <1>6, <1>7, <2>1
  <2>2. CASE c.type \notin Asking
    BY <1>4, <1>7, <2>2
  <2> QED BY <2>1, <2>2
<1> HIDE DEF z
<1>9. \A t \in Tid, k \in Shards : \A v : Voted(t, k, v)' <=> Voted(t, k, v)
  BY <1>5, <1>6, <1>8 DEF Voted
<1>10. ClientTypeInv'
  BY <1>1, <1>3, <1>8 DEF ClientInv, ClientTypeInv
<1>11. ReaderInv' /\ QueueInv'
  BY <1>1 DEF ClientInv, ReaderInv, QueueInv
<1>12. FreshInv'
  <2> SUFFICES ASSUME NEW t \in Tid PROVE Untouched(t) => Untouched(t)'
    BY <1>1 DEF ClientInv, FreshInv, Known, Unregistered
  <2>1. Untouched(t) => t # c.tid
    BY DEF Untouched
  <2> QED
    BY <1>1, <1>3, <1>8, <2>1 DEF Untouched
<1>13. AskedInv'
  <2> SUFFICES ASSUME NEW b \in calls', b.type \in Asking
               PROVE  /\ ServerCluster[b.to] \in Participants(b.tid)
                      /\ b.type = "TPC_PREPARE" <=> IsCrossShard(b.tid)
                      /\ b.status # "done"
                      /\ votes'[b.tid][ServerCluster[b.to]] =
                           IF b.status \in {"ack", "nack"} THEN b.status ELSE "none"
                      /\ IsCrossShard(b.tid) => b.tid \in DOMAIN processing
    BY <1>1 DEF AskedInv
  <2>1. CASE b = d
    <3>1. c.type \in Asking
      BY <1>3, <2>1
    <3>2. /\ ServerCluster[c.to] \in Participants(c.tid)
          /\ c.type = "TPC_PREPARE" <=> IsCrossShard(c.tid)
          /\ IsCrossShard(c.tid) => c.tid \in DOMAIN processing
      BY <3>1 DEF ClientInv, AskedInv
    <3>3. status \in {"ack", "nack"} /\ votes'[c.tid][z] = status
      BY <1>4, <1>8, <3>1
    <3> QED BY <1>3, <2>1, <3>2, <3>3 DEF z
  <2>2. CASE b \in calls /\ b # c
    <3> DEFINE y == ServerCluster[b.to]
    <3>1. b \in CallSet /\ b.tid \in Tid
      BY <2>2, CallFields DEF ClientInv, ClientTypeInv
    <3>2. /\ y \in Participants(b.tid)
          /\ b.type = "TPC_PREPARE" <=> IsCrossShard(b.tid)
          /\ b.status # "done"
          /\ votes[b.tid][y] = IF b.status \in {"ack", "nack"} THEN b.status ELSE "none"
          /\ IsCrossShard(b.tid) => b.tid \in DOMAIN processing
      BY <2>2 DEF ClientInv, AskedInv
    <3>3. y \in Shards
      BY <3>1, <3>2, ParticipantsType
    <3>4. Asks(b, b.tid, y)
      BY DEF Asks
    <3>5. ~(c.type \in Asking /\ b.tid = c.tid /\ y = z)
      BY <1>2, <1>6, <2>2, <3>3, <3>4 DEF ClientInv, AskedOnce
    <3>6. votes'[b.tid][y] = votes[b.tid][y]
      BY <1>8, <3>1, <3>3, <3>5
    <3> QED BY <3>2, <3>6
  <2> QED BY <1>1, <2>1, <2>2
<1>14. AskedOnce'
  <2>1. \A a, b \in calls', t \in Tid, k \in Shards : Asks(a, t, k) /\ Asks(b, t, k) => a = b
    BY <1>1, <1>5 DEF ClientInv, AskedOnce
  <2>2. \A t \in Tid, k \in Shards : Queued(t, k) => votes'[t][k] = votes[t][k]
    BY <1>6, <1>8 DEF ClientInv, AskedOnce
  <2>3. \A t, k : Queued(t, k)' <=> Queued(t, k)
    BY <1>1 DEF Queued
  <2>4. \A t : Unregistered(t)' <=> Unregistered(t)
    BY <1>1 DEF Unregistered
  <2> QED
    BY <1>1, <1>5, <2>1, <2>2, <2>3, <2>4 DEF ClientInv, AskedOnce
<1>15. DecisionsInv'
  BY <1>1, <1>3 DEF ClientInv, DecisionsInv
<1>16. TallyInv'
  <2> SUFFICES ASSUME NEW u \in DOMAIN processing PROVE Tallied(u)'
    BY <1>1 DEF TallyInv
  <2>1. u \in Tid /\ Tallied(u)
    BY DEF ClientInv, ClientTypeInv, TallyInv
  <2>2. \A k \in Participants(u), v \in {"ack", "nack"} : Voted(u, k, v)' <=> Voted(u, k, v)
    BY <1>9, <2>1, ParticipantsType
  <2> QED
    BY <1>1, <2>1, <2>2, TalliedKept
<1>17. NothingLost'
  <2> SUFFICES ASSUME Running, failures = MaxFailures
               PROVE  /\ \A b \in calls' : b.status # "error"
                      /\ \A u \in DOMAIN processing : \A k \in Participants(u) :
                           votes'[u][k] = "none" => Asked(u, k)' \/ Queued(u, k)'
    BY <1>1 DEF NothingLost, Running
  <2>1. /\ \A b \in calls : b.status # "error"
        /\ \A u \in DOMAIN processing : \A k \in Participants(u) :
             votes[u][k] = "none" => Asked(u, k) \/ Queued(u, k)
    BY DEF ClientInv, NothingLost
  <2>2. \A b \in calls' : b.status # "error"
    BY <1>1, <1>3, <2>1
  <2>3. ASSUME NEW u \in DOMAIN processing, NEW k \in Participants(u), votes'[u][k] = "none"
        PROVE  Asked(u, k)' \/ Queued(u, k)'
    <3>1. u \in Tid /\ k \in Shards
      BY ParticipantsType DEF ClientInv, ClientTypeInv
    <3>2. CASE c.type \in Asking /\ u = c.tid /\ k = z
      BY <1>5, <1>6, <3>2
    <3>3. CASE ~(c.type \in Asking /\ u = c.tid /\ k = z)
      <4>1. Asked(u, k) \/ Queued(u, k)
        BY <1>8, <2>1, <2>3, <3>1, <3>3
      <4> QED BY <1>1, <1>5, <4>1 DEF Queued
    <3> QED BY <3>2, <3>3
  <2> QED
    BY <2>2, <2>3
<1> QED
  BY <1>10, <1>11, <1>12, <1>13, <1>14, <1>15, <1>16, <1>17 DEF ClientInv

(* A call fails. *)
LEMMA FailClient ==
  ASSUME ClientInv, NEW c \in calls, CallFails(c)
  PROVE  ClientInv'
<1> DEFINE d == [c EXCEPT !.status = "error"]
<1>1. /\ c.status = "sent"
      /\ calls' = (calls \ {c}) \cup {d}
      /\ IF Running THEN failures > 0 /\ failures' = failures - 1 ELSE UNCHANGED failures
      /\ UNCHANGED <<pc, todo, csv, processing, offline, votes, outcome, submitted>>
  BY DEF CallFails
<1>2. c \in CallSet /\ c.type \in Asking \cup Deciding /\ c.tid \in Tid /\ c.to \in Server
  BY CallFields DEF ClientInv, ClientTypeInv
<1>3. /\ d \in CallSet /\ d.type = c.type /\ d.tid = c.tid /\ d.to = c.to /\ d.status = "error"
  BY <1>2 DEF CallSet
<1> HIDE DEF d
<1>4. /\ \A t, k : Asks(d, t, k) <=> Asks(c, t, k)
      /\ \A t, k : Asked(t, k)' <=> Asked(t, k)
  BY <1>1, <1>3, CallChanges
<1>5. /\ \A t, k, v : Voted(t, k, v)' <=> Voted(t, k, v)
      /\ \A t, k : Queued(t, k)' <=> Queued(t, k)
      /\ \A t : Unregistered(t)' <=> Unregistered(t)
  BY <1>1, <1>4 DEF Voted, Queued, Unregistered
<1>6. failures' \in 0..MaxFailures /\ (Running => failures' # MaxFailures)
  <2>1. failures \in 0..MaxFailures /\ MaxFailures \in Nat
    BY ClientAssumption DEF ClientInv, ClientTypeInv
  <2> QED
    BY <1>1, <2>1
<1>7. ClientTypeInv'
  BY <1>1, <1>3, <1>6 DEF ClientInv, ClientTypeInv
<1>8. ReaderInv' /\ QueueInv'
  BY <1>1 DEF ClientInv, ReaderInv, QueueInv
<1>9. FreshInv'
  <2> SUFFICES ASSUME NEW t \in Tid PROVE Untouched(t) => Untouched(t)'
    BY <1>1 DEF ClientInv, FreshInv, Known, Unregistered
  <2> QED
    BY <1>1, <1>3 DEF Untouched
<1>10. AskedInv'
  <2> SUFFICES ASSUME NEW b \in calls', b.type \in Asking
               PROVE  /\ ServerCluster[b.to] \in Participants(b.tid)
                      /\ b.type = "TPC_PREPARE" <=> IsCrossShard(b.tid)
                      /\ b.status # "done"
                      /\ votes[b.tid][ServerCluster[b.to]] =
                           IF b.status \in {"ack", "nack"} THEN b.status ELSE "none"
                      /\ IsCrossShard(b.tid) => b.tid \in DOMAIN processing
    BY <1>1 DEF AskedInv
  <2>1. CASE b = d
    <3>1. /\ ServerCluster[c.to] \in Participants(c.tid)
          /\ c.type = "TPC_PREPARE" <=> IsCrossShard(c.tid)
          /\ votes[c.tid][ServerCluster[c.to]] = "none"
          /\ IsCrossShard(c.tid) => c.tid \in DOMAIN processing
      BY <1>1, <1>3, <2>1 DEF ClientInv, AskedInv
    <3> QED BY <1>3, <2>1, <3>1
  <2>2. CASE b \in calls
    BY <2>2 DEF ClientInv, AskedInv
  <2> QED BY <1>1, <2>1, <2>2
<1>11. AskedOnce'
  <2>1. \A a, b \in calls', t \in Tid, k \in Shards : Asks(a, t, k) /\ Asks(b, t, k) => a = b
    BY <1>1, <1>4 DEF ClientInv, AskedOnce
  <2> QED
    BY <1>1, <1>4, <1>5, <2>1 DEF ClientInv, AskedOnce
<1>12. DecisionsInv'
  BY <1>1, <1>3 DEF ClientInv, DecisionsInv
<1>13. TallyInv'
  <2> SUFFICES ASSUME NEW u \in DOMAIN processing PROVE Tallied(u)'
    BY <1>1 DEF TallyInv
  <2>1. u \in Tid /\ Tallied(u)
    BY DEF ClientInv, ClientTypeInv, TallyInv
  <2> QED
    BY <1>1, <1>5, <2>1, TalliedKept
<1>14. NothingLost'
  BY <1>1, <1>6 DEF NothingLost, Running
<1> QED
  BY <1>7, <1>8, <1>9, <1>10, <1>11, <1>12, <1>13, <1>14 DEF ClientInv

(* Call c leaves the queue, and calls that ask for nothing may join it. *)
LEMMA CallLeaves ==
  ASSUME ClientInv, NEW c \in calls, NEW D, calls' = (calls \ {c}) \cup D,
         \A d \in D : d.type \notin Asking
  PROVE  /\ \A t \in Tid, k \in Shards : Asked(t, k)' <=> (Asked(t, k) /\ ~Asks(c, t, k))
         /\ \A b \in calls' : b.type \in Asking => b \in calls /\ b # c
<1>1. \A b \in calls' : b.type \in Asking => b \in calls /\ b # c
  OBVIOUS
<1>2. ASSUME NEW t \in Tid, NEW k \in Shards
      PROVE  Asked(t, k)' <=> (Asked(t, k) /\ ~Asks(c, t, k))
  <2>1. ASSUME Asked(t, k)' PROVE Asked(t, k) /\ ~Asks(c, t, k)
    <3>1. PICK b \in calls' : Asks(b, t, k)
      BY <2>1 DEF Asked
    <3>2. b \in calls /\ b # c
      BY <1>1, <3>1 DEF Asks
    <3> QED
      BY <3>1, <3>2 DEF ClientInv, AskedOnce, Asked
  <2>2. ASSUME Asked(t, k), ~Asks(c, t, k) PROVE Asked(t, k)'
    BY <2>2 DEF Asked
  <2> QED BY <2>1, <2>2
<1> QED
  BY <1>1, <1>2

(* What a vote that arrives is about. *)
LEMMA VoteFields ==
  ASSUME ClientInv, NEW c \in calls, c.type = "TPC_PREPARE", c.status \notin {"sent", "error"}
  PROVE  /\ c.tid \in Tid /\ c.tid \in DOMAIN processing /\ c.status \in {"ack", "nack"}
         /\ IsCrossShard(c.tid) /\ ServerCluster[c.to] \in Participants(c.tid)
         /\ votes[c.tid][ServerCluster[c.to]] = c.status
         /\ Asks(c, c.tid, ServerCluster[c.to]) /\ Asked(c.tid, ServerCluster[c.to])
<1>1. c.type \in Asking /\ c.tid \in Tid /\ c.status \in {"sent", "ack", "nack", "done", "error"}
  BY CallFields DEF ClientInv, ClientTypeInv, Asking
<1>2. /\ ServerCluster[c.to] \in Participants(c.tid)
      /\ c.type = "TPC_PREPARE" <=> IsCrossShard(c.tid)
      /\ c.status # "done"
      /\ votes[c.tid][ServerCluster[c.to]] =
           IF c.status \in {"ack", "nack"} THEN c.status ELSE "none"
      /\ IsCrossShard(c.tid) => c.tid \in DOMAIN processing
  BY <1>1 DEF ClientInv, AskedInv
<1>3. Asks(c, c.tid, ServerCluster[c.to])
  BY <1>1 DEF Asks
<1> QED
  BY <1>1, <1>2, <1>3 DEF Asked

(* A vote that leaves the queue is one more to count. *)
LEMMA VoteLeaves ==
  ASSUME ClientInv, NEW c \in calls, c.type = "TPC_PREPARE", c.status \notin {"sent", "error"},
         votes' = votes,
         \A t \in Tid, k \in Shards : Asked(t, k)' <=> (Asked(t, k) /\ ~Asks(c, t, k))
  PROVE  \A v \in {"ack", "nack"} :
           VotedFor(c.tid, v)' = VotedFor(c.tid, v) + (IF v = c.status THEN 1 ELSE 0)
<1> DEFINE t == c.tid
           x == AccountCluster[Txn[t].sender]
           y == AccountCluster[Txn[t].receiver]
           z == ServerCluster[c.to]
<1>1. /\ t \in Tid /\ c.status \in {"ack", "nack"} /\ x # y /\ z \in {x, y} /\ x \in Shards /\ y \in Shards
      /\ votes[t][z] = c.status /\ Asked(t, z) /\ Asks(c, t, z) /\ \A k : Asks(c, t, k) => k = z
  BY VoteFields, ParticipantsType DEF Participants, IsCrossShard, Asks
<1> SUFFICES ASSUME NEW v \in {"ack", "nack"}
             PROVE  VotedFor(t, v)' = VotedFor(t, v) + (IF v = c.status THEN 1 ELSE 0)
  OBVIOUS
<1>2. /\ VotedFor(t, v) = Bit(Voted(t, x, v)) + Bit(Voted(t, y, v))
      /\ VotedFor(t, v)' = Bit(Voted(t, x, v))' + Bit(Voted(t, y, v))'
  BY DEF VotedFor
<1> HIDE DEF t, x, y, z
<1>3. ASSUME NEW k \in {x, y}, k # z PROVE Voted(t, k, v)' <=> Voted(t, k, v)
  BY <1>1, <1>3 DEF Voted
<1>4. ~Voted(t, z, v) /\ (Voted(t, z, v)' <=> v = c.status)
  BY <1>1 DEF Voted
<1>5. \A k : Bit(Voted(t, k, v)) \in {0, 1}
  BY DEF Bit
<1>6. CASE z = x
  <2>1. Bit(Voted(t, y, v))' = Bit(Voted(t, y, v))
    BY <1>1, <1>3, <1>6 DEF Bit
  <2>2. Bit(Voted(t, x, v)) = 0 /\ Bit(Voted(t, x, v))' = IF v = c.status THEN 1 ELSE 0
    BY <1>4, <1>6 DEF Bit
  <2> QED BY <1>2, <1>5, <2>1, <2>2
<1>7. CASE z = y
  <2>1. Bit(Voted(t, x, v))' = Bit(Voted(t, x, v))
    BY <1>1, <1>3, <1>7 DEF Bit
  <2>2. Bit(Voted(t, y, v)) = 0 /\ Bit(Voted(t, y, v))' = IF v = c.status THEN 1 ELSE 0
    BY <1>4, <1>7 DEF Bit
  <2> QED BY <1>2, <1>5, <2>1, <2>2
<1> QED
  BY <1>1, <1>6, <1>7

(* Two votes off the queue: both clusters have voted. *)
LEMMA BothVoted ==
  ASSUME NEW t \in Tid,
         VotedFor(t, "ack")' + VotedFor(t, "nack")' >= 2
  PROVE  /\ \A k \in Participants(t) : ~Asked(t, k)' /\ votes'[t][k] \in {"ack", "nack"}
         /\ VotedFor(t, "ack")' >= 2 => \A k \in Participants(t) : votes'[t][k] = "ack"
         /\ VotedFor(t, "nack")' >= 1 => \E k \in Participants(t) : votes'[t][k] = "nack"
<1> DEFINE x == AccountCluster[Txn[t].sender]
           y == AccountCluster[Txn[t].receiver]
           a == Bit(Voted(t, x, "ack"))'
           b == Bit(Voted(t, y, "ack"))'
           m == Bit(Voted(t, x, "nack"))'
           n == Bit(Voted(t, y, "nack"))'
<1>1. VotedFor(t, "ack")' = a + b /\ VotedFor(t, "nack")' = m + n
  BY DEF VotedFor
<1>2. /\ a = (IF Voted(t, x, "ack")' THEN 1 ELSE 0)
      /\ b = (IF Voted(t, y, "ack")' THEN 1 ELSE 0)
      /\ m = (IF Voted(t, x, "nack")' THEN 1 ELSE 0)
      /\ n = (IF Voted(t, y, "nack")' THEN 1 ELSE 0)
  BY DEF Bit
<1>3. ~(Voted(t, x, "ack")' /\ Voted(t, x, "nack")') /\ ~(Voted(t, y, "ack")' /\ Voted(t, y, "nack")')
  BY DEF Voted
<1> HIDE DEF a, b, m, n
<1>4. /\ Voted(t, x, "ack")' \/ Voted(t, x, "nack")'
      /\ Voted(t, y, "ack")' \/ Voted(t, y, "nack")'
      /\ a + b >= 2 => Voted(t, x, "ack")' /\ Voted(t, y, "ack")'
      /\ m + n >= 1 => Voted(t, x, "nack")' \/ Voted(t, y, "nack")'
  BY <1>1, <1>2, <1>3
<1>5. Participants(t) = {x, y}
  BY DEF Participants
<1> QED
  BY <1>1, <1>4, <1>5 DEF Voted

(* The counters with the vote of c. *)
Counted(c) ==
  LET old == processing[c.tid]
  IN  IF c.status = "ack" THEN [old EXCEPT !.successes = @ + 1]
                          ELSE [old EXCEPT !.failures = @ + 1]

(* They count what is off the queue. *)
LEMMA CountedIs ==
  ASSUME ClientInv, NEW c \in calls, c.type = "TPC_PREPARE", c.status \notin {"sent", "error"},
         votes' = votes,
         \A t \in Tid, k \in Shards : Asked(t, k)' <=> (Asked(t, k) /\ ~Asks(c, t, k))
  PROVE  LET new == Counted(c)
             old == processing[c.tid]
         IN  /\ new.successes \in Nat /\ new.failures \in Nat
             /\ new.successes + new.failures = old.successes + old.failures + 1
             /\ old.successes + old.failures <= 1
             /\ new = [successes |-> new.successes, failures |-> new.failures]
             /\ new.successes <= VotedFor(c.tid, "ack")' /\ new.failures <= VotedFor(c.tid, "nack")'
             /\ old.successes <= new.successes /\ old.failures <= new.failures
             /\ pc \in {"prompt", "sending", "killed"} =>
                  new.successes = VotedFor(c.tid, "ack")' /\ new.failures = VotedFor(c.tid, "nack")'
<1> DEFINE t == c.tid
           old == processing[t]
           new == Counted(c)
           A == VotedFor(t, "ack")
           N == VotedFor(t, "nack")
<1>1. t \in Tid /\ t \in DOMAIN processing /\ c.status \in {"ack", "nack"}
  BY VoteFields
<1>2. old \in [successes : 0..1, failures : 0..1] /\ Tallied(t)
  BY <1>1 DEF ClientInv, ClientTypeInv, TallyInv, Counters
<1>3. /\ old.successes + old.failures <= 1 /\ old.successes <= A /\ old.failures <= N
      /\ pc \in {"prompt", "sending", "killed"} => old.successes = A /\ old.failures = N
  BY <1>2 DEF Tallied
<1>4. /\ A' = A + (IF "ack" = c.status THEN 1 ELSE 0)
      /\ N' = N + (IF "nack" = c.status THEN 1 ELSE 0)
  BY VoteLeaves
<1>5. A \in Nat /\ N \in Nat /\ old.successes \in 0..1 /\ old.failures \in 0..1
  BY <1>1, <1>2, VotedForType
<1>6. CASE c.status = "ack"
  <2>1. new = [successes |-> old.successes + 1, failures |-> old.failures]
    BY <1>2, <1>6 DEF Counted
  <2>2. new.successes = old.successes + 1 /\ new.failures = old.failures
    BY <2>1
  <2>3. A' = A + 1 /\ N' = N
    BY <1>4, <1>5, <1>6
  <2> HIDE DEF old, new, A, N
  <2> QED BY <1>3, <1>5, <2>1, <2>2, <2>3 DEF old, new, A, N
<1>7. CASE c.status = "nack"
  <2>1. new = [successes |-> old.successes, failures |-> old.failures + 1]
    BY <1>2, <1>7 DEF Counted
  <2>2. new.successes = old.successes /\ new.failures = old.failures + 1
    BY <2>1
  <2>3. A' = A /\ N' = N + 1
    BY <1>4, <1>5, <1>7
  <2> HIDE DEF old, new, A, N
  <2> QED BY <1>3, <1>5, <2>1, <2>2, <2>3 DEF old, new, A, N
<1> QED
  BY <1>1, <1>6, <1>7

(* A vote arrives: what consumeReplies does with it. *)
LEMMA CountVoteIs ==
  ASSUME ClientInv, NEW c \in calls, c.type = "TPC_PREPARE", c.status \notin {"sent", "error"},
         CountVote(c)
  PROVE  LET t == c.tid
             new == Counted(c)
             d == Tally(t, new)
         IN  \/ /\ d = "none"
                /\ processing' = [u \in DOMAIN processing |-> IF u = t THEN new ELSE processing[u]]
                /\ calls' = calls \ {c}
                /\ UNCHANGED <<pc, outcome>>
             \/ /\ d # "none" /\ pc # "joining"
                /\ calls' = (calls \ {c}) \cup
                     DecisionCalls(t, IF d = "commit" THEN "TPC_COMMIT" ELSE "TPC_ABORT")
                /\ outcome' = [outcome EXCEPT ![t] = d]
                /\ processing' = Drop(t)
                /\ UNCHANGED pc
             \/ /\ d # "none" /\ pc = "joining"
                /\ pc' = "aborted"
                /\ calls' = calls \ {c}
                /\ UNCHANGED <<outcome, processing>>
<1> DEFINE t == c.tid
           new == Counted(c)
           d == Tally(t, new)
<1>1. t \in DOMAIN processing
  BY VoteFields
<1>2. DOMAIN processing \cup {t} = DOMAIN processing
  BY <1>1
<1>3. new = IF c.status = "ack" THEN [processing[t] EXCEPT !.successes = @ + 1]
                                ELSE [processing[t] EXCEPT !.failures = @ + 1]
  BY DEF Counted
<1>4. \/ /\ d = "none"
         /\ processing' = [u \in DOMAIN processing \cup {t} |-> IF u = t THEN new ELSE processing[u]]
         /\ calls' = calls \ {c}
         /\ UNCHANGED <<pc, outcome>>
      \/ /\ d # "none" /\ pc # "joining"
         /\ calls' = (calls \ {c}) \cup
              DecisionCalls(t, IF d = "commit" THEN "TPC_COMMIT" ELSE "TPC_ABORT")
         /\ outcome' = [outcome EXCEPT ![t] = d]
         /\ processing' = Drop(t)
         /\ UNCHANGED pc
      \/ /\ d # "none" /\ pc = "joining"
         /\ pc' = "aborted"
         /\ calls' = calls \ {c}
         /\ UNCHANGED <<outcome, processing>>
  <2>1. (IF t \in DOMAIN processing THEN processing[t] ELSE [successes |-> 0, failures |-> 0]) = processing[t]
    BY <1>1
  <2> QED
    BY <1>3, <2>1 DEF CountVote
<1> QED
  BY <1>2, <1>4

(* Calls leave the queue, and nothing is decided. *)
LEMMA LeavesClient ==
  ASSUME ClientInv, NEW c \in calls, c.status # "sent", calls' = calls \ {c},
         UNCHANGED <<todo, csv, offline, failures, votes, submitted, outcome>>,
         pc' = pc \/ (pc = "joining" /\ pc' = "aborted"),
         DOMAIN processing' = DOMAIN processing,
         \A t \in DOMAIN processing : processing'[t] \in Counters,
         TallyInv',
         Running /\ c.type = "TPC_PREPARE" => c.status \in {"ack", "nack", "error"}
  PROVE  ClientInv'
<1>1. c \in CallSet /\ c.type \in Asking \cup Deciding /\ c.tid \in Tid /\ c.to \in Server
  BY CallFields DEF ClientInv, ClientTypeInv
<1>2. /\ \A t \in Tid, k \in Shards : Asked(t, k)' <=> (Asked(t, k) /\ ~Asks(c, t, k))
      /\ calls' \subseteq calls
  <2> DEFINE D == {}
  <2>1. calls' = (calls \ {c}) \cup D /\ \A d \in D : d.type \notin Asking
    OBVIOUS
  <2> HIDE DEF D
  <2>2. \A t \in Tid, k \in Shards : Asked(t, k)' <=> (Asked(t, k) /\ ~Asks(c, t, k))
    BY <2>1, CallLeaves
  <2> QED BY <2>2
<1>3. /\ \A t, k : Queued(t, k)' <=> Queued(t, k)
      /\ \A t : Unregistered(t)' <=> Unregistered(t)
      /\ Known' = Known
  BY DEF Queued, Unregistered, Known
<1>4. ClientTypeInv'
  BY <1>2 DEF ClientInv, ClientTypeInv, MainState
<1>5. ReaderInv' /\ QueueInv'
  BY DEF ClientInv, ReaderInv, QueueInv
<1>6. FreshInv'
  <2> SUFFICES ASSUME NEW t \in Tid PROVE Untouched(t) => Untouched(t)'
    BY <1>3 DEF ClientInv, FreshInv
  <2> QED
    BY <1>2 DEF Untouched
<1>7. AskedInv' /\ DecisionsInv'
  BY <1>2 DEF ClientInv, AskedInv, DecisionsInv
<1>8. AskedOnce'
  <2>1. \A a, b \in calls', t \in Tid, k \in Shards : Asks(a, t, k) /\ Asks(b, t, k) => a = b
    BY <1>2 DEF ClientInv, AskedOnce
  <2> QED
    BY <1>2, <1>3, <2>1 DEF ClientInv, AskedOnce
<1>9. NothingLost'
  <2> SUFFICES ASSUME Running, failures = MaxFailures
               PROVE  \A u \in DOMAIN processing : \A k \in Participants(u) :
                        votes[u][k] = "none" => Asked(u, k)' \/ Queued(u, k)'
    BY <1>2 DEF ClientInv, NothingLost, Running
  <2>1. /\ \A b \in calls : b.status # "error"
        /\ \A u \in DOMAIN processing : \A k \in Participants(u) :
             votes[u][k] = "none" => Asked(u, k) \/ Queued(u, k)
    BY DEF ClientInv, NothingLost
  <2> SUFFICES ASSUME NEW u \in DOMAIN processing, NEW k \in Participants(u), votes[u][k] = "none"
               PROVE  Asked(u, k)' \/ Queued(u, k)'
    OBVIOUS
  <2>2. u \in Tid /\ k \in Shards /\ IsCrossShard(u)
    BY ParticipantsType DEF ClientInv, ClientTypeInv, TallyInv, Tallied
  <2>3. ~Asks(c, u, k)
    <3>1. SUFFICES ASSUME Asks(c, u, k) PROVE FALSE
      OBVIOUS
    <3>2. c.type \in Asking /\ c.tid = u /\ ServerCluster[c.to] = k
      BY <3>1 DEF Asks
    <3>3. /\ c.type = "TPC_PREPARE"
          /\ votes[u][k] = IF c.status \in {"ack", "nack"} THEN c.status ELSE "none"
      BY <2>2, <3>2 DEF ClientInv, AskedInv
    <3>4. c.status \in {"ack", "nack"}
      BY <2>1, <3>3
    <3> QED BY <3>3, <3>4
  <2> QED
    BY <1>2, <1>3, <2>1, <2>2, <2>3
<1> QED
  BY <1>4, <1>5, <1>6, <1>7, <1>8, <1>9 DEF ClientInv

(* The tally of another transaction stays as it was. *)
LEMMA OthersTallied ==
  ASSUME ClientInv, NEW c \in calls, NEW u \in DOMAIN processing, u # c.tid \/ c.type # "TPC_PREPARE"
           \/ c.status = "error",
         processing'[u] = processing[u], outcome'[u] = outcome[u], votes' = votes,
         pc' \in {"prompt", "sending", "killed"} => pc \in {"prompt", "sending", "killed"},
         \A t \in Tid, k \in Shards : Asked(t, k)' <=> (Asked(t, k) /\ ~Asks(c, t, k))
  PROVE  Tallied(u)'
<1>1. u \in Tid /\ Tallied(u) /\ IsCrossShard(u)
  BY DEF ClientInv, ClientTypeInv, TallyInv, Tallied
<1>2. ASSUME NEW k \in Participants(u), NEW v \in {"ack", "nack"}
      PROVE  Voted(u, k, v)' <=> Voted(u, k, v)
  <2>1. k \in Shards
    BY <1>1, ParticipantsType
  <2>2. CASE ~Asks(c, u, k)
    BY <1>1, <2>1, <2>2 DEF Voted
  <2>3. CASE Asks(c, u, k)
    <3>1. c.type \in Asking /\ c.tid = u /\ ServerCluster[c.to] = k
      BY <2>3 DEF Asks
    <3>2. c.type = "TPC_PREPARE" /\ votes[u][k] = IF c.status \in {"ack", "nack"} THEN c.status ELSE "none"
      BY <1>1, <3>1 DEF ClientInv, AskedInv
    <3>3. votes[u][k] = "none"
      BY <3>1, <3>2
    <3> QED BY <3>3 DEF Voted
  <2> QED BY <2>2, <2>3
<1> QED
  BY <1>1, <1>2, TalliedKept

(* An event that counts for nothing. *)
LEMMA DiscardClient ==
  ASSUME ClientInv, NEW c \in calls, NEW ok \in BOOLEAN, c.status # "sent",
         ~ok => pc = "joining",
         ~ok \/ c.type # "TPC_PREPARE" \/ c.status = "error",
         calls' = calls \ {c},
         UNCHANGED <<pc, processing, outcome, todo, csv, offline, failures, votes, submitted>>
  PROVE  ClientInv'
<1>1. \A t \in Tid, k \in Shards : Asked(t, k)' <=> (Asked(t, k) /\ ~Asks(c, t, k))
  <2> DEFINE D == {}
  <2>1. calls' = (calls \ {c}) \cup D /\ \A d \in D : d.type \notin Asking
    OBVIOUS
  <2> HIDE DEF D
  <2> QED
    BY <2>1, CallLeaves
<1>2. TallyInv'
  <2> SUFFICES ASSUME NEW u \in DOMAIN processing PROVE Tallied(u)'
    BY DEF TallyInv
  <2>1. CASE u # c.tid \/ c.type # "TPC_PREPARE" \/ c.status = "error"
    BY <1>1, <2>1, OthersTallied
  <2>2. CASE u = c.tid /\ c.type = "TPC_PREPARE" /\ c.status # "error"
    <3>1. \A v \in {"ack", "nack"} :
            VotedFor(c.tid, v)' = VotedFor(c.tid, v) + (IF v = c.status THEN 1 ELSE 0)
      BY <1>1, <2>2, VoteLeaves
    <3>2. u \in Tid /\ Tallied(u) /\ processing[u] \in Counters /\ pc = "joining"
      BY <2>2 DEF ClientInv, ClientTypeInv, TallyInv
    <3>3. VotedFor(u, "ack") \in Nat /\ VotedFor(u, "nack") \in Nat
      BY <3>2, VotedForType
    <3>4. VotedFor(u, "ack") <= VotedFor(u, "ack")' /\ VotedFor(u, "nack") <= VotedFor(u, "nack")'
          /\ VotedFor(u, "ack")' \in Nat /\ VotedFor(u, "nack")' \in Nat
      BY <2>2, <3>1, <3>3
    <3>5. processing[u].successes \in Nat /\ processing[u].failures \in Nat
      BY <3>2 DEF Counters
    <3>6. /\ processing[u].successes <= VotedFor(u, "ack")' /\ processing[u].failures <= VotedFor(u, "nack")'
          /\ processing[u].successes + processing[u].failures <= 1 /\ IsCrossShard(u) /\ outcome[u] = "none"
      BY <3>2, <3>3, <3>4, <3>5 DEF Tallied
    <3> QED BY <3>2, <3>6 DEF Tallied
  <2> QED BY <2>1, <2>2
<1>3. Running /\ c.type = "TPC_PREPARE" => c.status \in {"ack", "nack", "error"}
  BY DEF Running
<1> QED
  BY <1>2, <1>3, LeavesClient DEF ClientInv, ClientTypeInv

(* A vote that decides nothing, or that comes too late to act on. *)
LEMMA CountsClient ==
  ASSUME ClientInv, NEW c \in calls, c.type = "TPC_PREPARE", c.status \notin {"sent", "error"},
         calls' = calls \ {c},
         UNCHANGED <<outcome, todo, csv, offline, failures, votes, submitted>>,
         \/ /\ Tally(c.tid, Counted(c)) = "none" /\ UNCHANGED pc
            /\ processing' = [u \in DOMAIN processing |-> IF u = c.tid THEN Counted(c) ELSE processing[u]]
         \/ pc = "joining" /\ pc' = "aborted" /\ UNCHANGED processing
  PROVE  ClientInv'
<1> DEFINE t == c.tid
           new == Counted(c)
           old == processing[t]
<1>1. \A u \in Tid, k \in Shards : Asked(u, k)' <=> (Asked(u, k) /\ ~Asks(c, u, k))
  <2> DEFINE D == {}
  <2>1. calls' = (calls \ {c}) \cup D /\ \A d \in D : d.type \notin Asking
    OBVIOUS
  <2> HIDE DEF D
  <2> QED
    BY <2>1, CallLeaves
<1>2. t \in Tid /\ t \in DOMAIN processing /\ c.status \in {"ack", "nack"} /\ Tallied(t) /\ old \in Counters
  BY VoteFields DEF ClientInv, TallyInv, ClientTypeInv
<1>3. /\ new.successes \in Nat /\ new.failures \in Nat
      /\ new.successes + new.failures = old.successes + old.failures + 1
      /\ old.successes + old.failures <= 1
      /\ new = [successes |-> new.successes, failures |-> new.failures]
      /\ new.successes <= VotedFor(t, "ack")' /\ new.failures <= VotedFor(t, "nack")'
      /\ old.successes <= new.successes /\ old.failures <= new.failures
      /\ pc \in {"prompt", "sending", "killed"} =>
           new.successes = VotedFor(t, "ack")' /\ new.failures = VotedFor(t, "nack")'
  BY <1>1, CountedIs
<1>4. IsCrossShard(t) /\ outcome'[t] = "none" /\ old.successes \in Nat /\ old.failures \in Nat
  BY <1>2 DEF Tallied, Counters
<1>5. Tally(t, new) = "none" => new.successes + new.failures <= 1
  <2> HIDE DEF t, new, old
  <2>1. SUFFICES ASSUME ~(new.successes + new.failures <= 1) PROVE Tally(t, new) # "none"
    OBVIOUS
  <2>2. new.successes + new.failures = 2
    BY <1>3, <1>4, <2>1
  <2>3. new.successes = 2 \/ new.failures > 0
    BY <1>3, <2>2
  <2> QED
    BY <2>2, <2>3 DEF Tally
<1>6. VotedFor(t, "ack") \in Nat /\ VotedFor(t, "nack") \in Nat
  BY <1>2, VotedForType
<1>7. VotedFor(t, "ack")' \in Nat /\ VotedFor(t, "nack")' \in Nat
  <2>1. \A v \in {"ack", "nack"} :
          VotedFor(c.tid, v)' = VotedFor(c.tid, v) + (IF v = c.status THEN 1 ELSE 0)
    BY <1>1, VoteLeaves
  <2> QED BY <1>6, <2>1
<1>8. DOMAIN processing' = DOMAIN processing /\ \A u \in DOMAIN processing : u # t => processing'[u] = processing[u]
  OBVIOUS
<1>9. CASE Tally(t, new) = "none" /\ pc' = pc /\ processing'[t] = new
  <2>1. Tallied(t)'
    <3> HIDE DEF new, old
    <3> QED BY <1>3, <1>4, <1>5, <1>9 DEF Tallied
  <2>2. new \in Counters
    <3> HIDE DEF new, old
    <3>1. new.successes \in 0..1 /\ new.failures \in 0..1
      BY <1>3, <1>5, <1>9
    <3> QED BY <1>3, <3>1 DEF Counters
  <2>3. \A u \in DOMAIN processing : processing'[u] \in Counters
    BY <1>8, <1>9, <2>2 DEF ClientInv, ClientTypeInv
  <2>4. TallyInv'
    <3> SUFFICES ASSUME NEW u \in DOMAIN processing PROVE Tallied(u)'
      BY <1>8 DEF TallyInv
    <3>1. CASE u = t
      BY <2>1, <3>1
    <3>2. CASE u # t
      BY <1>1, <1>8, <1>9, <3>2, OthersTallied
    <3> QED BY <3>1, <3>2
  <2> QED
    BY <1>2, <1>8, <1>9, <2>3, <2>4, LeavesClient
<1>10. CASE pc = "joining" /\ pc' = "aborted" /\ processing' = processing
  <2>1. Tallied(t)'
    <3> HIDE DEF new
    <3>1. old.successes <= VotedFor(t, "ack")' /\ old.failures <= VotedFor(t, "nack")'
      BY <1>3, <1>4, <1>7
    <3> QED BY <1>3, <1>4, <1>10, <3>1 DEF Tallied
  <2>2. \A u \in DOMAIN processing : processing'[u] \in Counters
    BY <1>10 DEF ClientInv, ClientTypeInv
  <2>3. TallyInv'
    <3> SUFFICES ASSUME NEW u \in DOMAIN processing PROVE Tallied(u)'
      BY <1>10 DEF TallyInv
    <3>1. CASE u = t
      BY <2>1, <3>1
    <3>2. CASE u # t
      BY <1>1, <1>10, <3>2, OthersTallied
    <3> QED BY <3>1, <3>2
  <2> QED
    BY <1>2, <1>10, <2>2, <2>3, LeavesClient
<1> QED
  BY <1>2, <1>9, <1>10

(* What holds when a vote decides: it is the second one, both clusters     *)
(* have voted, nothing more is asked, and the decision is theirs.          *)
LEMMA DecisionIs ==
  ASSUME ClientInv, NEW c \in calls, c.type = "TPC_PREPARE", c.status \notin {"sent", "error"},
         votes' = votes, Tally(c.tid, Counted(c)) # "none",
         \A t \in Tid, k \in Shards : Asked(t, k)' <=> (Asked(t, k) /\ ~Asks(c, t, k))
  PROVE  LET t == c.tid
             d == Tally(t, Counted(c))
         IN  /\ d \in {"commit", "abort"} /\ IsCrossShard(t) /\ outcome[t] = "none"
             /\ \A k \in Participants(t) : ~Asked(t, k)' /\ votes[t][k] # "none"
             /\ d = IF \A k \in Participants(t) : votes[t][k] = "ack" THEN "commit" ELSE "abort"
<1> DEFINE t == c.tid
           new == Counted(c)
           old == processing[t]
           d == Tally(t, new)
           A == VotedFor(t, "ack")'
           N == VotedFor(t, "nack")'
<1>1. t \in Tid /\ t \in DOMAIN processing /\ c.status \in {"ack", "nack"} /\ Tallied(t)
  BY VoteFields DEF ClientInv, TallyInv
<1>2. /\ new.successes \in Nat /\ new.failures \in Nat
      /\ new.successes <= A /\ new.failures <= N
  BY CountedIs
<1>3. A \in Nat /\ N \in Nat
  <2>1. \A v \in {"ack", "nack"} :
          VotedFor(c.tid, v)' = VotedFor(c.tid, v) + (IF v = c.status THEN 1 ELSE 0)
    BY VoteLeaves
  <2>2. VotedFor(t, "ack") \in Nat /\ VotedFor(t, "nack") \in Nat
    BY <1>1, VotedForType
  <2> QED BY <2>1, <2>2
<1>4. IsCrossShard(t) /\ outcome[t] = "none"
  BY <1>1 DEF Tallied
<1> HIDE DEF new, old, A, N
<1>5. \/ d = "commit" /\ new.successes = 2
      \/ d = "abort" /\ new.failures > 0 /\ new.successes + new.failures = 2
  BY <1>2 DEF Tally, new
<1>6. A + N >= 2 /\ (d = "commit" => A >= 2) /\ (d = "abort" => N >= 1)
  BY <1>2, <1>3, <1>5
<1>7. /\ \A k \in Participants(t) : ~Asked(t, k)' /\ votes'[t][k] \in {"ack", "nack"}
      /\ A >= 2 => \A k \in Participants(t) : votes'[t][k] = "ack"
      /\ N >= 1 => \E k \in Participants(t) : votes'[t][k] = "nack"
  BY <1>1, <1>6, BothVoted DEF A, N
<1>8. /\ d = "commit" => \A k \in Participants(t) : votes[t][k] = "ack"
      /\ d = "abort" => \E k \in Participants(t) : votes[t][k] = "nack"
  BY <1>6, <1>7
<1>9. d = IF \A k \in Participants(t) : votes[t][k] = "ack" THEN "commit" ELSE "abort"
  BY <1>5, <1>8
<1>10. d \in {"commit", "abort"}
  BY <1>5
<1> QED
  BY <1>4, <1>7, <1>9, <1>10 DEF new

(* The calls of a decision. *)
LEMMA DecisionCallsAre ==
  ASSUME NEW t \in Tid, NEW type \in Deciding
  PROVE  /\ DecisionCalls(t, type) \in SUBSET CallSet
         /\ \A d \in DecisionCalls(t, type) : d.type = type /\ d.tid = t /\ d.status = "sent"
         /\ \A s : (\E d \in DecisionCalls(t, type) : d.to = s) <=>
                     (s \in Server /\ ServerCluster[s] \in Participants(t))
<1> DEFINE Q == {q \in Server : ServerCluster[q] \in Participants(t)}
           D == DecisionCalls(t, type)
<1>1. /\ \A d \in D : \E s \in Q : d = NewCall(type, t, s)
      /\ \A s \in Q : NewCall(type, t, s) \in D
  BY DEF DecisionCalls
<1>2. \A s \in Q : /\ NewCall(type, t, s) \in CallSet
                  /\ NewCall(type, t, s).type = type /\ NewCall(type, t, s).tid = t
                  /\ NewCall(type, t, s).status = "sent" /\ NewCall(type, t, s).to = s
  BY DEF NewCall, CallSet
<1> HIDE DEF D
<1>3. D \in SUBSET CallSet /\ \A d \in D : d.type = type /\ d.tid = t /\ d.status = "sent"
  BY <1>1, <1>2
<1>4. \A s : (\E d \in D : d.to = s) <=> s \in Q
  <2> HIDE DEF Q
  <2> QED BY <1>1, <1>2
<1> QED
  BY <1>3, <1>4 DEF D

(* The second vote: tpcCommit or tpcAbort. *)
LEMMA DecidesClient ==
  ASSUME ClientInv, NEW c \in calls, c.type = "TPC_PREPARE", c.status \notin {"sent", "error"},
         Tally(c.tid, Counted(c)) # "none",
         calls' = (calls \ {c}) \cup
           DecisionCalls(c.tid, IF Tally(c.tid, Counted(c)) = "commit" THEN "TPC_COMMIT" ELSE "TPC_ABORT"),
         outcome' = [outcome EXCEPT ![c.tid] = Tally(c.tid, Counted(c))],
         processing' = Drop(c.tid),
         UNCHANGED <<pc, todo, csv, offline, failures, votes, submitted>>
  PROVE  ClientInv'
<1> DEFINE t == c.tid
           d == Tally(t, Counted(c))
           type == IF d = "commit" THEN "TPC_COMMIT" ELSE "TPC_ABORT"
           D == DecisionCalls(t, type)
<1>1. t \in Tid /\ t \in DOMAIN processing /\ Tallied(t)
  BY VoteFields DEF ClientInv, TallyInv
<1>2. type \in Deciding /\ calls' = (calls \ {c}) \cup D
  BY DEF Deciding
<1> HIDE DEF type
<1>3. D \in SUBSET CallSet /\ \A b \in D : b.type = type /\ b.tid = t /\ b.status = "sent"
  BY <1>1, <1>2, DecisionCallsAre
<1> HIDE DEF D
<1>4. \A b \in D : b.type \notin Asking
  BY <1>2, <1>3 DEF Asking, Deciding
<1>5. /\ \A u \in Tid, k \in Shards : Asked(u, k)' <=> (Asked(u, k) /\ ~Asks(c, u, k))
      /\ \A b \in calls' : b.type \in Asking => b \in calls /\ b # c
  BY <1>2, <1>4, CallLeaves
<1>6. /\ d \in {"commit", "abort"} /\ IsCrossShard(t) /\ outcome[t] = "none"
      /\ \A k \in Participants(t) : ~Asked(t, k)' /\ votes[t][k] # "none"
  BY <1>5, DecisionIs
<1> HIDE DEF d
<1>7. DOMAIN processing' = DOMAIN processing \ {t} /\ \A u \in DOMAIN processing' : processing'[u] = processing[u]
  BY DEF Drop
<1>8. outcome \in [Tid -> {"none", "commit", "abort"}] /\ outcome' = [outcome EXCEPT ![t] = d]
  BY DEF ClientInv, ClientTypeInv, d
<1>9. /\ outcome' \in [Tid -> {"none", "commit", "abort"}] /\ outcome'[t] = d
      /\ \A u \in Tid : u # t => outcome'[u] = outcome[u]
  BY <1>1, <1>6, <1>8
<1>10. /\ \A u, k : Queued(u, k)' <=> Queued(u, k)
       /\ \A u : Unregistered(u)' <=> Unregistered(u)
       /\ Known' = Known
  BY DEF Queued, Unregistered, Known
<1>11. ~Unregistered(t) /\ t \in Known
  BY <1>1 DEF ClientInv, FreshInv, Untouched
<1>12. ClientTypeInv'
  <2>1. calls' \in SUBSET CallSet
    BY <1>2, <1>3 DEF ClientInv, ClientTypeInv
  <2>2. DOMAIN processing' \in SUBSET Tid /\ \A u \in DOMAIN processing' : processing'[u] \in Counters
    BY <1>7 DEF ClientInv, ClientTypeInv
  <2> QED
    BY <1>9, <2>1, <2>2 DEF ClientInv, ClientTypeInv
<1>13. ReaderInv' /\ QueueInv'
  BY DEF ClientInv, ReaderInv, QueueInv
<1>14. FreshInv'
  <2>1. ASSUME NEW u \in Tid, u # t, Untouched(u) PROVE Untouched(u)'
    BY <1>2, <1>3, <1>7, <1>9, <2>1 DEF Untouched
  <2> QED
    BY <1>10, <1>11, <2>1 DEF ClientInv, FreshInv
<1>15. AskedInv'
  <2> SUFFICES ASSUME NEW b \in calls', b.type \in Asking
               PROVE  /\ ServerCluster[b.to] \in Participants(b.tid)
                      /\ b.type = "TPC_PREPARE" <=> IsCrossShard(b.tid)
                      /\ b.status # "done"
                      /\ votes[b.tid][ServerCluster[b.to]] =
                           IF b.status \in {"ack", "nack"} THEN b.status ELSE "none"
                      /\ IsCrossShard(b.tid) => b.tid \in DOMAIN processing'
    BY DEF AskedInv
  <2>1. b \in calls
    BY <1>5
  <2>2. /\ ServerCluster[b.to] \in Participants(b.tid)
        /\ b.type = "TPC_PREPARE" <=> IsCrossShard(b.tid)
        /\ b.status # "done"
        /\ votes[b.tid][ServerCluster[b.to]] =
             IF b.status \in {"ack", "nack"} THEN b.status ELSE "none"
        /\ IsCrossShard(b.tid) => b.tid \in DOMAIN processing
    BY <2>1 DEF ClientInv, AskedInv
  <2>3. b.tid # t
    <3>1. SUFFICES ASSUME b.tid = t PROVE FALSE
      OBVIOUS
    <3>2. Asked(t, ServerCluster[b.to])'
      BY <3>1 DEF Asked, Asks
    <3> QED BY <1>6, <2>2, <3>1, <3>2
  <2> QED
    BY <1>7, <2>2, <2>3
<1>16. AskedOnce'
  <2>1. \A a, b \in calls', u \in Tid, k \in Shards : Asks(a, u, k) /\ Asks(b, u, k) => a = b
    BY <1>5 DEF ClientInv, AskedOnce, Asks
  <2>2. ASSUME NEW u \in Tid, NEW k \in Shards, Queued(u, k)
        PROVE  /\ ~Asked(u, k)' /\ votes[u][k] = "none"
               /\ IsCrossShard(u) => Unregistered(u) \/ u \in DOMAIN processing'
    <3>1. /\ ~Asked(u, k) /\ votes[u][k] = "none"
          /\ IsCrossShard(u) => Unregistered(u) \/ u \in DOMAIN processing
      BY <2>2 DEF ClientInv, AskedOnce
    <3>2. u # t
      <4>1. SUFFICES ASSUME u = t PROVE FALSE
        OBVIOUS
      <4>2. PICK i \in DOMAIN todo : todo[i].do = "send" /\ todo[i].tid = t /\ ServerCluster[todo[i].to] = k
        BY <2>2, <4>1 DEF Queued, WillAsk
      <4>3. k \in Participants(t)
        BY <4>2 DEF ClientInv, QueueInv, WellQueued, AsksRight
      <4> QED BY <1>6, <3>1, <4>1, <4>3
    <3> QED BY <1>5, <1>7, <2>2, <3>1, <3>2
  <2> QED
    BY <1>10, <2>1, <2>2 DEF AskedOnce
<1>17. DecisionsInv'
  <2> SUFFICES ASSUME NEW b \in calls', b.type \in Deciding
               PROVE  outcome'[b.tid] = IF b.type = "TPC_COMMIT" THEN "commit" ELSE "abort"
    BY DEF DecisionsInv
  <2>1. CASE b \in D
    <3>1. b.type = type /\ b.tid = t
      BY <1>3, <2>1
    <3> QED BY <1>6, <1>9, <3>1 DEF type
  <2>2. CASE b \in calls
    <3>1. outcome[b.tid] = IF b.type = "TPC_COMMIT" THEN "commit" ELSE "abort"
      BY <2>2 DEF ClientInv, DecisionsInv
    <3>2. b.tid \in Tid
      BY <2>2, CallFields DEF ClientInv, ClientTypeInv
    <3>3. b.tid # t
      BY <1>6, <3>1
    <3> QED BY <1>9, <3>1, <3>2, <3>3
  <2> QED BY <1>2, <2>1, <2>2
<1>18. TallyInv'
  <2> SUFFICES ASSUME NEW u \in DOMAIN processing' PROVE Tallied(u)'
    BY DEF TallyInv
  <2>1. u \in DOMAIN processing /\ u # t /\ u \in Tid /\ processing'[u] = processing[u]
    BY <1>7 DEF ClientInv, ClientTypeInv
  <2>2. outcome'[u] = outcome[u]
    BY <1>9, <2>1
  <2> QED
    BY <1>5, <2>1, <2>2, OthersTallied
<1>19. NothingLost'
  <2> SUFFICES ASSUME Running, failures = MaxFailures
               PROVE  /\ \A b \in calls' : b.status # "error"
                      /\ \A u \in DOMAIN processing' : \A k \in Participants(u) :
                           votes[u][k] = "none" => Asked(u, k)' \/ Queued(u, k)'
    BY DEF NothingLost, Running
  <2>1. /\ \A b \in calls : b.status # "error"
        /\ \A u \in DOMAIN processing : \A k \in Participants(u) :
             votes[u][k] = "none" => Asked(u, k) \/ Queued(u, k)
    BY DEF ClientInv, NothingLost
  <2>2. \A b \in calls' : b.status # "error"
    BY <1>2, <1>3, <2>1
  <2>3. ASSUME NEW u \in DOMAIN processing', NEW k \in Participants(u), votes[u][k] = "none"
        PROVE  Asked(u, k)' \/ Queued(u, k)'
    <3>1. u \in Tid /\ u # t /\ k \in Shards /\ u \in DOMAIN processing
      BY <1>7, ParticipantsType DEF ClientInv, ClientTypeInv
    <3>2. ~Asks(c, u, k)
      BY <3>1 DEF Asks
    <3> QED
      BY <1>5, <1>10, <2>1, <2>3, <3>1, <3>2
  <2> QED BY <2>2, <2>3
<1> QED
  BY <1>12, <1>13, <1>14, <1>15, <1>16, <1>17, <1>18, <1>19 DEF ClientInv

(* One event of the queue. *)
LEMMA ConsumeClient ==
  ASSUME ClientInv, NEW c \in calls, NEW ok \in BOOLEAN, ConsumeReply(c, ok)
  PROVE  ClientInv'
<1>1. /\ c.status # "sent" /\ ~ok => pc = "joining"
      /\ UNCHANGED <<todo, csv, offline, failures, votes, submitted>>
  BY DEF ConsumeReply
<1>2. CASE /\ ~ok \/ c.type # "TPC_PREPARE" \/ c.status = "error"
           /\ calls' = calls \ {c}
           /\ UNCHANGED <<pc, processing, outcome>>
  BY <1>1, <1>2, DiscardClient DEF ConsumeReply
<1>3. CASE ok /\ c.type = "TPC_PREPARE" /\ c.status # "error" /\ CountVote(c)
  <2> DEFINE t == c.tid
             new == Counted(c)
             d == Tally(t, new)
  <2>0. c.status \notin {"sent", "error"}
    BY <1>3 DEF ConsumeReply
  <2>1. \/ /\ d = "none"
           /\ processing' = [u \in DOMAIN processing |-> IF u = t THEN new ELSE processing[u]]
           /\ calls' = calls \ {c}
           /\ UNCHANGED <<pc, outcome>>
        \/ /\ d # "none" /\ pc # "joining"
           /\ calls' = (calls \ {c}) \cup
                DecisionCalls(t, IF d = "commit" THEN "TPC_COMMIT" ELSE "TPC_ABORT")
           /\ outcome' = [outcome EXCEPT ![t] = d]
           /\ processing' = Drop(t)
           /\ UNCHANGED pc
        \/ /\ d # "none" /\ pc = "joining"
           /\ pc' = "aborted"
           /\ calls' = calls \ {c}
           /\ UNCHANGED <<outcome, processing>>
    BY <1>3, <2>0, CountVoteIs
  <2>2. CASE calls' = calls \ {c} /\ UNCHANGED outcome
             /\ \/ /\ d = "none" /\ UNCHANGED pc
                   /\ processing' = [u \in DOMAIN processing |-> IF u = t THEN new ELSE processing[u]]
                \/ pc = "joining" /\ pc' = "aborted" /\ UNCHANGED processing
    BY <1>1, <1>3, <2>0, <2>2, CountsClient
  <2>3. CASE /\ d # "none"
             /\ calls' = (calls \ {c}) \cup
                  DecisionCalls(t, IF d = "commit" THEN "TPC_COMMIT" ELSE "TPC_ABORT")
             /\ outcome' = [outcome EXCEPT ![t] = d]
             /\ processing' = Drop(t)
             /\ UNCHANGED pc
    BY <1>1, <1>3, <2>0, <2>3, DecidesClient
  <2> QED
    BY <2>1, <2>2, <2>3
<1> QED
  BY <1>2, <1>3 DEF ConsumeReply

(* Everything that does not speak of the steps left and of the rows        *)
(* submitted is as it was.                                                 *)
LEMMA SubmitsClient ==
  ASSUME ClientInv, pc = "prompt", pc' \in {"prompt", "sending"},
         UNCHANGED <<processing, calls, votes, outcome>>,
         failures' \in 0..MaxFailures, failures' <= failures, offline' \in SUBSET Server,
         submitted' \in Seq(Submissions), todo' \in Seq(StepSet), ReaderInv', QueueInv', FreshInv',
         \A t \in Tid, k \in Shards : Queued(t, k)' =>
           /\ ~Asked(t, k) /\ votes[t][k] = "none"
           /\ IsCrossShard(t) => Unregistered(t)' \/ t \in DOMAIN processing
  PROVE  ClientInv'
<1>1. ClientTypeInv'
  BY DEF ClientInv, ClientTypeInv, MainState
<1>2. /\ \A t, k : Asked(t, k)' = Asked(t, k)
      /\ \A t, k, v : Voted(t, k, v)' = Voted(t, k, v)
  BY DEF Asked, Voted
<1>3. AskedInv' /\ DecisionsInv'
  BY DEF ClientInv, AskedInv, DecisionsInv
<1>4. AskedOnce'
  BY <1>2 DEF ClientInv, AskedOnce
<1>5. TallyInv'
  <2> SUFFICES ASSUME NEW t \in DOMAIN processing PROVE Tallied(t)'
    BY DEF TallyInv
  <2>1. t \in Tid /\ Tallied(t)
    BY DEF ClientInv, ClientTypeInv, TallyInv
  <2> QED
    BY <1>2, <2>1, TalliedKept
<1>6. NothingLost'
  <2>1. failures' = MaxFailures => failures = MaxFailures
    BY ClientAssumption DEF ClientInv, ClientTypeInv
  <2>2. \A t, k : ~Queued(t, k)
    BY DEF ClientInv, QueueInv, Queued
  <2> QED
    BY <1>2, <2>1, <2>2 DEF ClientInv, NothingLost, Running
<1> QED
  BY <1>1, <1>3, <1>4, <1>5, <1>6 DEF ClientInv

(* The rows of a set, submitted with the leaders of its first row. *)
LEMMA ReaderSubmits ==
  ASSUME ReaderInv, submitted \in Seq(Submissions),
         NEW m \in Nat, Len(submitted) < m, m <= Len(Rows), NEW x \in Nat, x # 0,
         Rows[Len(submitted) + 1].set_no = x,
         \A i \in (Len(submitted) + 2)..m : Rows[i].set_no # x + 1,
         NEW leaders \in SUBSET Server,
         \E j \in (Len(submitted) + 1)..m : Rows[j].set_no = x /\ leaders = Rows[j].leaders,
         ReaderAt(csv', m),
         submitted' = submitted \o [i \in 1..(m - Len(submitted)) |->
                        [tid |-> Rows[Len(submitted) + i].tid, leaders |-> leaders]]
  PROVE  /\ ReaderInv' /\ submitted' \in Seq(Submissions)
         /\ Known' = Known \cup {Rows[i].tid : i \in (Len(submitted) + 1)..m}
<1> DEFINE n == Len(submitted)
           L == Len(Rows)
           new == [i \in 1..(m - n) |-> [tid |-> Rows[n + i].tid, leaders |-> leaders]]
<1>1. n \in Nat /\ L \in Nat /\ n < m /\ m <= L /\ DOMAIN submitted = 1..n /\ DOMAIN Rows = 1..L
      /\ \A i \in 1..L : Rows[i] \in Row
  BY ClientAssumption, LenProperties
<1>2. new \in Seq(Submissions) /\ Len(new) = m - n
  <2>1. \A i \in 1..(m - n) : new[i] \in Submissions
    <3> TAKE i \in 1..(m - n)
    <3>1. n + i \in 1..L
      BY <1>1
    <3>2. Rows[n + i].tid \in Tid
      BY <1>1, <3>1 DEF Row
    <3> QED BY <3>2 DEF Submissions
  <2>2. m - n \in Nat
    BY <1>1
  <2>3. new \in [1..(m - n) -> Submissions]
    BY <2>1
  <2> DEFINE k == m - n
  <2> HIDE DEF k, new
  <2>4. new \in Seq(Submissions)
    BY <2>2, <2>3, SeqDef DEF k
  <2>5. Len(new) = k
    BY <2>2, <2>3, <2>4, LenProperties DEF k
  <2> QED
    BY <2>4, <2>5 DEF k
<1>3. \A i \in 1..(m - n) : new[i].tid = Rows[n + i].tid /\ new[i].leaders = leaders
  OBVIOUS
<1>4. submitted' = submitted \o new
  OBVIOUS
<1> HIDE DEF new, n, L
<1>5. /\ submitted' \in Seq(Submissions) /\ Len(submitted') = n + (m - n)
      /\ \A i \in 1..(n + (m - n)) : submitted'[i] = IF i <= n THEN submitted[i] ELSE new[i - n]
  <2>1. /\ submitted' \in Seq(Submissions) /\ Len(submitted') = Len(submitted) + Len(new)
        /\ \A i \in 1..(Len(submitted) + Len(new)) :
             submitted'[i] = IF i <= Len(submitted) THEN submitted[i] ELSE new[i - Len(submitted)]
    <3>1. submitted \in Seq(Submissions) /\ new \in Seq(Submissions)
      BY <1>2
    <3>2. /\ submitted \o new \in Seq(Submissions)
          /\ Len(submitted \o new) = Len(submitted) + Len(new)
          /\ \A i \in 1..(Len(submitted) + Len(new)) : (submitted \o new)[i] =
               IF i <= Len(submitted) THEN submitted[i] ELSE new[i - Len(submitted)]
      BY ONLY <3>1, ConcatProperties
    <3> QED
      BY <1>4, <3>2
  <2> QED
    BY <1>2, <2>1 DEF n
<1>6. Len(submitted') = m /\ DOMAIN submitted' = 1..m
      /\ \A i \in 1..m : submitted'[i] = IF i <= n THEN submitted[i] ELSE new[i - n]
  <2>1. n + (m - n) = m
    BY <1>1
  <2>2. DOMAIN submitted' = 1..Len(submitted')
    BY <1>5, LenProperties
  <2> QED BY <1>5, <2>1, <2>2
<1>7. \A i \in (n + 2)..m : Rows[i].set_no = 0
  <2>1. n \in 0..Len(Rows) /\ m \in n..Len(Rows) /\ n < m
    BY <1>1 DEF L
  <2>2. Rows[n + 1].set_no = x /\ \A i \in (n + 2)..m : Rows[i].set_no # x + 1
    BY DEF n
  <2> QED
    BY <2>1, <2>2, OnlyHeader
<1>8. leaders = Rows[n + 1].leaders
  <2>1. PICK j \in (n + 1)..m : Rows[j].set_no = x /\ leaders = Rows[j].leaders
    BY DEF n
  <2>2. j = n + 1
    BY <1>1, <1>7, <2>1
  <2> QED BY <2>1, <2>2
<1>9. ASSUME NEW i \in (n + 1)..m PROVE Max({j \in 1..i : Rows[j].set_no # 0}) = n + 1
  <2> DEFINE T == {j \in 1..i : Rows[j].set_no # 0}
  <2>1. T \in SUBSET Nat /\ n + 1 \in T /\ i \in Nat /\ \A y \in T : y <= i
    BY <1>1 DEF n
  <2>2. \A y \in T : y <= n + 1
    BY <1>1, <1>7
  <2> HIDE DEF T
  <2>3. Max(T) \in T /\ \A y \in T : y <= Max(T)
    BY <2>1, MaxOfBounded
  <2> QED
    BY <1>1, <2>1, <2>2, <2>3 DEF T
<1>10. ASSUME NEW i \in 1..m
       PROVE  /\ submitted'[i].tid = Rows[i].tid
              /\ submitted'[i].leaders = Rows[Max({j \in 1..i : Rows[j].set_no # 0})].leaders
  <2>1. CASE i <= n
    <3>1. submitted'[i] = submitted[i] /\ i \in DOMAIN submitted
      BY <1>1, <1>6, <2>1
    <3> QED BY <3>1 DEF ReaderInv
  <2>2. CASE ~(i <= n)
    <3>1. i - n \in 1..(m - n) /\ n + (i - n) = i /\ i \in (n + 1)..m
      BY <1>1, <2>2
    <3>2. submitted'[i] = new[i - n]
      BY <1>6, <2>2
    <3>3. submitted'[i].tid = Rows[n + (i - n)].tid /\ submitted'[i].leaders = leaders
      BY <1>3, <3>1, <3>2
    <3> QED BY <1>8, <1>9, <3>1, <3>3
  <2> QED BY <2>1, <2>2
<1>11. ReaderInv'
  BY <1>1, <1>6, <1>10 DEF ReaderInv, L
<1>12. Known' = Known \cup {Rows[i].tid : i \in (n + 1)..m}
  <2>1. Known' = {Rows[i].tid : i \in 1..m}
    <3>1. Known' = {submitted'[i].tid : i \in 1..m}
      BY <1>6 DEF Known
    <3> QED BY <1>10, <3>1, ZenonT(40)
  <2>2. Known = {Rows[i].tid : i \in 1..n}
    <3>1. Known = {submitted[i].tid : i \in 1..n}
      BY <1>1 DEF Known
    <3>2. \A i \in 1..n : submitted[i].tid = Rows[i].tid
      BY <1>1 DEF ReaderInv
    <3> QED BY <3>1, <3>2
  <2>3. 1..m = 1..n \cup (n + 1)..m
    BY <1>1
  <2> QED BY <2>1, <2>2, <2>3
<1> QED
  BY <1>5, <1>11, <1>12 DEF n

(* The command PROCESS_NEXT_SET. *)
LEMMA NextSetClient ==
  ASSUME ClientInv, NEW missed \in SUBSET Server, ProcessNextSet(missed)
  PROVE  ClientInv'
<1> DEFINE read == ReadNextSet(csv)
           n == Len(submitted)
           x == csv.currentSetNo + 1
           head == HeaderRow(read.rows, x)
           leaders == head.leaders
<1>1. /\ n \in Nat /\ DOMAIN submitted = 1..n /\ n \in 0..Len(Rows) /\ ReaderAt(csv, n) /\ Len(Rows) \in Nat
      /\ submitted \in Seq(Submissions) /\ ReaderInv
  <2>1. submitted \in Seq(Submissions) /\ ReaderInv
    BY DEF ClientInv, ClientTypeInv
  <2>2. n \in Nat /\ DOMAIN submitted = 1..n /\ Len(Rows) \in Nat
    BY <2>1, LenProperties, ClientAssumption
  <2> QED
    BY <2>1, <2>2 DEF ReaderInv
<1>2. PICK m \in n..Len(Rows) :
        /\ read.rows = [i \in 1..(m - n) |-> Rows[n + i]]
        /\ ReaderAt(read.csv, m)
        /\ read.csv.currentSetNo = csv.currentSetNo + 1
        /\ m > n => Rows[n + 1].set_no = csv.currentSetNo + 1
        /\ m = n => n = Len(Rows)
        /\ \A i \in (n + 2)..m : Rows[i].set_no # csv.currentSetNo + 2
  BY <1>1, ReadNextSetIs
<1>3. x \in Nat /\ x # 0 /\ x + 1 = csv.currentSetNo + 2
  BY <1>1 DEF ReaderAt
<1>4. /\ pc = "prompt" /\ csv' = read.csv /\ UNCHANGED <<processing, calls, votes, outcome>>
      /\ IF read.rows = <<>>
         THEN missed = {} /\ UNCHANGED <<pc, todo, offline, failures, submitted>>
         ELSE /\ Cardinality(missed) <= failures
              /\ failures' = failures - Cardinality(missed)
              /\ offline' = ((Server \ head.servers) \ missed) \cup (offline \cap missed)
              /\ todo' = FlattenSeq([i \in DOMAIN read.rows |-> Steps(read.rows[i].tid, leaders)])
              /\ submitted' = submitted \o [i \in DOMAIN read.rows |->
                                [tid |-> read.rows[i].tid, leaders |-> leaders]]
              /\ pc' = "sending"
  BY <1>2 DEF ProcessNextSet
<1>5. todo = <<>>
  BY <1>4 DEF ClientInv, QueueInv
<1>6. failures \in 0..MaxFailures /\ MaxFailures \in Nat /\ offline \in SUBSET Server
  BY ClientAssumption DEF ClientInv, ClientTypeInv
<1> HIDE DEF read, n, x, head
<1>7. CASE m = n
  <2>1. read.rows = <<>>
    <3>1. 1..(m - n) = {}
      BY <1>1, <1>7
    <3> QED BY <1>2, <3>1
  <2>2. UNCHANGED <<pc, todo, offline, failures, submitted>>
    BY <1>4, <2>1
  <2>3. ReaderInv'
    BY <1>1, <1>2, <1>4, <1>7, <2>2 DEF ReaderInv, n
  <2>4. QueueInv' /\ FreshInv'
    BY <1>4, <2>2 DEF ClientInv, QueueInv, FreshInv, Untouched, Unregistered, Known
  <2>5. \A t, k : ~Queued(t, k)'
    BY <1>5, <2>2 DEF Queued
  <2>6. submitted' \in Seq(Submissions) /\ todo' \in Seq(StepSet)
    BY <1>1, <1>5, <2>2
  <2>7. failures' \in 0..MaxFailures /\ failures' <= failures /\ offline' \in SUBSET Server
    BY <1>6, <2>2
  <2> QED
    BY <1>4, <2>2, <2>3, <2>4, <2>5, <2>6, <2>7, SubmitsClient
<1>8. CASE m # n
  <2> DEFINE k == m - n
             ts == [i \in 1..k |-> Rows[n + i].tid]
  <2>1. n < m /\ k \in Nat /\ k > 0 /\ m \in Nat /\ m <= Len(Rows)
    BY <1>1, <1>2, <1>8
  <2>2. DOMAIN read.rows = 1..k /\ read.rows # <<>> /\ \A i \in 1..k : read.rows[i] = Rows[n + i]
    BY <1>2, <2>1
  <2>3. \A i \in 1..k : n + i \in 1..Len(Rows) /\ n + i \in (n + 1)..m
    BY <1>1, <1>2, <2>1
  <2>4. Rows \in Seq(Row) /\ DOMAIN Rows = 1..Len(Rows) /\ \A i \in 1..Len(Rows) : Rows[i] \in Row /\ Rows[i].tid \in Tid
    <3>1. Rows \in Seq(Row) /\ DOMAIN Rows = 1..Len(Rows) /\ \A i \in 1..Len(Rows) : Rows[i] \in Row
      BY ClientAssumption, LenProperties
    <3>2. \A r \in Row : r.tid \in Tid
      BY DEF Row
    <3> QED BY <3>1, <3>2
  <2>5. PICK j \in (n + 1)..m : head = Rows[j] /\ Rows[j].set_no = x
    <3>1. Rows[n + 1].set_no = x
      BY <1>2, <2>1 DEF x
    <3>2. \E j \in (n + 1)..m :
            /\ HeaderRow([i \in 1..(m - n) |-> Rows[n + i]], x) = Rows[j]
            /\ Rows[j].set_no = x
      BY <1>1, <1>3, <2>1, <3>1, HeaderRowIs
    <3>3. head = HeaderRow([i \in 1..(m - n) |-> Rows[n + i]], x)
      BY <1>2 DEF head
    <3> QED
      BY <3>2, <3>3
  <2>6. j \in 1..Len(Rows)
    BY <1>1, <1>2
  <2>7. Led(leaders) /\ leaders \in SUBSET Server
    <3>1. Rows[j].leaders \in SUBSET Server
      BY <2>4, <2>6 DEF Row
    <3>2. \A a \in Account : \E s \in Rows[j].leaders : ServerCluster[s] = AccountCluster[a]
      BY <1>3, <2>4, <2>5, <2>6, FileAssumption
    <3> QED BY <2>5, <3>1, <3>2 DEF Led
  <2> HIDE DEF k, leaders
  <2>8. ts \in [1..k -> Tid] /\ \A i, l \in 1..k : ts[i] = ts[l] => i = l
    <3>1. ts \in [1..k -> Tid]
      BY <2>3, <2>4
    <3>2. ASSUME NEW i \in 1..k, NEW l \in 1..k, ts[i] = ts[l] PROVE i = l
      <4>1. Rows[n + i].tid = Rows[n + l].tid
        BY <3>2
      <4>2. n + i = n + l
        BY <2>3, <2>4, <4>1, FileAssumption
      <4> QED BY <1>1, <4>2, <2>1
    <3> QED BY <3>1, <3>2
  <2>9. todo' = FlattenSeq([i \in 1..k |-> Steps(ts[i], leaders)])
    <3>1. todo' = FlattenSeq([i \in DOMAIN read.rows |-> Steps(read.rows[i].tid, leaders)])
      BY <1>4, <2>2
    <3>2. [i \in DOMAIN read.rows |-> Steps(read.rows[i].tid, leaders)] = [i \in 1..k |-> Steps(ts[i], leaders)]
      BY <2>2
    <3> QED BY <3>1, <3>2
  <2>10. submitted' = submitted \o [i \in 1..k |-> [tid |-> Rows[n + i].tid, leaders |-> leaders]]
    <3>1. submitted' = submitted \o [i \in DOMAIN read.rows |-> [tid |-> read.rows[i].tid, leaders |-> leaders]]
      BY <1>4, <2>2
    <3>2. [i \in DOMAIN read.rows |-> [tid |-> read.rows[i].tid, leaders |-> leaders]]
            = [i \in 1..k |-> [tid |-> Rows[n + i].tid, leaders |-> leaders]]
      BY <2>2
    <3> QED BY <3>1, <3>2
  <2>11. \A i \in 1..k : ts[i] = Rows[n + i].tid
    OBVIOUS
  <2> HIDE DEF ts
  <2>12. /\ todo' \in Seq(StepSet) /\ WellQueued(todo') /\ Registers(todo')
         /\ \A i \in DOMAIN todo' : \E l \in 1..k : todo'[i].tid = ts[l]
    <3> DEFINE w == FlattenSeq([i \in 1..k |-> Steps(ts[i], leaders)])
    <3>1. k \in Nat /\ k > 0 /\ ts \in [1..k -> Tid] /\ Led(leaders)
          /\ \A i, l \in 1..k : ts[i] = ts[l] => i = l
      BY <2>1, <2>7, <2>8
    <3>2. /\ w \in Seq(StepSet) /\ WellQueued(w) /\ Registers(w)
          /\ \A i \in DOMAIN w : \E l \in 1..k : w[i].tid = ts[l]
      <4>1. Submission(k, ts, leaders)
        BY ONLY <3>1 DEF Submission
      <4>2. WellSubmitted(w, k, ts)
        BY ONLY <4>1, FlattenWellQueued DEF AllSteps
      <4> QED
        BY ONLY <4>2 DEF WellSubmitted
    <3>3. todo' = w
      BY <2>9
    <3> QED
      BY ONLY <3>2, <3>3
  <2>13. /\ ReaderInv' /\ submitted' \in Seq(Submissions)
         /\ Known' = Known \cup {Rows[i].tid : i \in (n + 1)..m}
    <3>1. Rows[n + 1].set_no = x /\ \A i \in (n + 2)..m : Rows[i].set_no # x + 1
      BY <1>2, <1>3, <2>1 DEF x
    <3>2. ReaderAt(csv', m)
      BY <1>2, <1>4
    <3>3. \E l \in (n + 1)..m : Rows[l].set_no = x /\ leaders = Rows[l].leaders
      BY <2>5 DEF leaders
    <3> QED
      BY <1>1, <1>3, <2>1, <2>7, <2>10, <3>1, <3>2, <3>3, ReaderSubmits DEF n, k
  <2>14. pc' = "sending"
    BY <1>4, <2>2
  <2>15. QueueInv'
    BY <2>12, <2>14 DEF QueueInv
  <2>16. \A t \in Tid : Untouched(t)' <=> Untouched(t)
    BY <1>4 DEF Untouched
  <2>17. \A l \in 1..k : ts[l] \in Tid /\ ts[l] \in Known' /\ ts[l] \notin Known
    <3> TAKE l \in 1..k
    <3>1. ts[l] \in Tid /\ ts[l] = Rows[n + l].tid /\ n + l \in 1..Len(Rows) /\ n + l \in (n + 1)..m
      BY <2>3, <2>8, <2>11
    <3>2. ts[l] \in Known'
      BY <2>13, <3>1
    <3>3. ts[l] \notin Known
      <4>1. SUFFICES ASSUME NEW i \in 1..n, submitted[i].tid = ts[l] PROVE FALSE
        BY <1>1 DEF Known
      <4>2. Rows[i].tid = Rows[n + l].tid /\ i \in DOMAIN Rows /\ n + l \in DOMAIN Rows
        <5>1. i \in DOMAIN submitted /\ i \in 1..Len(Rows)
          BY <1>1, <4>1
        <5>2. submitted[i].tid = Rows[i].tid
          BY <1>1, <5>1 DEF ReaderInv
        <5> QED
          BY <2>4, <3>1, <4>1, <5>1, <5>2
      <4>3. i = n + l
        BY <4>2, FileAssumption
      <4> QED BY <1>1, <2>1, <4>3
    <3> QED BY <3>1, <3>2, <3>3
  <2>18. \A l \in 1..k : Untouched(ts[l])
    BY <2>17 DEF ClientInv, FreshInv
  <2>19. FreshInv'
    <3> SUFFICES ASSUME NEW t \in Tid
                 PROVE  /\ t \notin Known' => Untouched(t)' /\ \A i \in DOMAIN todo' : todo'[i].tid # t
                        /\ Unregistered(t)' => Untouched(t)'
      BY DEF FreshInv
    <3>1. ASSUME t \notin Known' PROVE Untouched(t)' /\ \A i \in DOMAIN todo' : todo'[i].tid # t
      <4>1. t \notin Known
        BY <2>13, <3>1
      <4>2. Untouched(t)
        BY <4>1 DEF ClientInv, FreshInv
      <4> QED BY <2>12, <2>16, <2>17, <3>1, <4>2
    <3>2. ASSUME Unregistered(t)' PROVE Untouched(t)'
      <4>1. PICK i \in DOMAIN todo' : todo'[i].tid = t
        BY <3>2 DEF Unregistered, WillRegister
      <4> QED BY <2>12, <2>16, <2>18, <4>1
    <3> QED BY <3>1, <3>2
  <2>20. ASSUME NEW t \in Tid, NEW c \in Shards, Queued(t, c)'
         PROVE  /\ ~Asked(t, c) /\ votes[t][c] = "none"
                /\ IsCrossShard(t) => Unregistered(t)' \/ t \in DOMAIN processing
    <3>1. PICK i \in DOMAIN todo' : todo'[i].tid = t
      BY <2>20 DEF Queued, WillAsk
    <3>2. Untouched(t)
      BY <2>12, <2>18, <3>1
    <3>3. IsCrossShard(t) => Unregistered(t)'
      BY <2>12, <3>1 DEF Registers, Unregistered
    <3> QED BY <3>2, <3>3 DEF Untouched, Asked, Asks
  <2>21. failures' \in 0..MaxFailures /\ failures' <= failures /\ offline' \in SUBSET Server
    <3>1. Cardinality(missed) \in Nat
      BY TypesAssumption, FS_Subset, FS_CardinalityType
    <3>2. /\ Cardinality(missed) <= failures /\ failures' = failures - Cardinality(missed)
          /\ offline' = ((Server \ head.servers) \ missed) \cup (offline \cap missed)
      BY <1>4, <2>2
    <3> QED
      BY <1>6, <3>1, <3>2
  <2> QED
    BY <1>4, <2>12, <2>13, <2>14, <2>15, <2>19, <2>20, <2>21, SubmitsClient
<1> QED
  BY <1>7, <1>8

(* ClientInv is inductive. *)
LEMMA ClientInvNext ==
  ASSUME ClientInv, [Next]_vars
  PROVE  ClientInv'
<1>1. CASE \E missed \in SUBSET Server : ProcessNextSet(missed)
  BY <1>1, NextSetClient
<1>2. CASE RegisterStep
  BY <1>2, RegisterClient
<1>3. CASE SendStep
  BY <1>3, SendClient
<1>4. CASE SubmittedAll \/ Exit \/ Shutdown \/ Join
  BY <1>4, MovesOnClient
<1>5. CASE Environment
  BY <1>5, AnswerClient, FailClient DEF Environment
<1>6. CASE Consume
  BY <1>6, ConsumeClient DEF Consume
<1>7. CASE UNCHANGED vars
  <2>1. UNCHANGED <<pc, todo, csv, processing, calls, offline, failures, votes, outcome, submitted>>
    BY <1>7 DEF vars
  <2>2. ClientTypeInv' /\ ReaderInv' /\ QueueInv'
    BY <2>1 DEF ClientInv, ClientTypeInv, ReaderInv, QueueInv
  <2>3. /\ \A t : Unregistered(t)' = Unregistered(t) /\ Untouched(t)' = Untouched(t)
        /\ \A t, k : Asked(t, k)' = Asked(t, k) /\ Queued(t, k)' = Queued(t, k)
        /\ \A t, k, v : Voted(t, k, v)' = Voted(t, k, v)
        /\ Known' = Known
    BY <2>1 DEF Unregistered, Untouched, Asked, Queued, Voted, Known
  <2>4. FreshInv' /\ AskedInv' /\ AskedOnce' /\ DecisionsInv' /\ NothingLost'
    BY <2>1, <2>3 DEF ClientInv, FreshInv, AskedInv, AskedOnce, DecisionsInv, NothingLost, Running
  <2>5. TallyInv'
    <3> SUFFICES ASSUME NEW t \in DOMAIN processing PROVE Tallied(t)'
      BY <2>1 DEF TallyInv
    <3>1. t \in Tid /\ Tallied(t)
      BY DEF ClientInv, ClientTypeInv, TallyInv
    <3> QED
      BY <2>1, <2>3, <3>1, TalliedKept
  <2> QED
    BY <2>2, <2>4, <2>5 DEF ClientInv
<1> QED
  BY <1>1, <1>2, <1>3, <1>4, <1>5, <1>6, <1>7 DEF Next, Driver, Submit

(* The client keeps its invariant. *)
LEMMA ClientInvHolds == Spec => []ClientInv
<1>1. Init => ClientInv
  BY ClientInvInit
<1>2. ClientInv /\ [Next]_vars => ClientInv'
  BY ClientInvNext
<1> QED
  BY <1>1, <1>2, PTL DEF Spec

(* The variables of the client keep their types, whatever the file and     *)
(* the order in which the two threads and the servers run: the counters of *)
(* a transaction in processing are never more than one each.               *)
THEOREM ClientTypeOKHolds == Spec => []ClientTypeOK
<1>1. ClientInv => ClientTypeOK
  BY DEF ClientInv, ClientTypeInv, ClientTypeOK, Counters
<1> QED
  BY <1>1, ClientInvHolds, PTL

(* readNextSet and processTransactions: every row of the file is submitted *)
(* once, in the order of the file, with the leaders of its set.            *)
THEOREM RowsInOrderHolds == Spec => []RowsInOrder
<1>1. ClientInv => RowsInOrder
  BY DEF ClientInv, ReaderInv, RowsInOrder
<1> QED
  BY <1>1, ClientInvHolds, PTL

(***************************************************************************)
(* The votes that are under way.                                           *)
(***************************************************************************)

(* A set with at most one element. *)
LEMMA AtMostOne ==
  ASSUME NEW S, \A a, b \in S : a = b
  PROVE  IsFiniteSet(S) /\ Cardinality(S) = Bit(S # {})
<1>1. CASE S = {}
  BY <1>1, FS_EmptySet DEF Bit
<1>2. CASE S # {}
  <2>1. PICK a \in S : S = {a}
    BY <1>2
  <2> QED BY <1>2, <2>1, FS_Singleton DEF Bit
<1> QED BY <1>1, <1>2

(* Two such sets, disjoint. *)
LEMMA TwoAtMost ==
  ASSUME NEW S, NEW T, \A a, b \in S : a = b, \A a, b \in T : a = b, S \cap T = {}
  PROVE  Cardinality(S \cup T) = Bit(S # {}) + Bit(T # {})
<1>1. IsFiniteSet(S) /\ Cardinality(S) = Bit(S # {}) /\ IsFiniteSet(T) /\ Cardinality(T) = Bit(T # {})
  BY AtMostOne
<1>2. Bit(S # {}) \in Nat /\ Bit(T # {}) \in Nat
  BY DEF Bit
<1>3. Cardinality(S \cup T) = Cardinality(S) + Cardinality(T) - Cardinality(S \cap T)
  BY <1>1, FS_Union
<1>4. Cardinality(S \cap T) = 0
  BY FS_EmptySet
<1> QED
  BY <1>1, <1>2, <1>3, <1>4

(* A transaction in processing has as many prepares on the queue as        *)
(* clusters that are being asked, and as many steps left as clusters yet   *)
(* to be asked.                                                            *)
LEMMA InFlightIs ==
  ASSUME ClientInv, NEW t \in DOMAIN processing
  PROVE  LET x == AccountCluster[Txn[t].sender]
             y == AccountCluster[Txn[t].receiver]
         IN  /\ Cardinality(PrepareCalls(t)) = Bit(Asked(t, x)) + Bit(Asked(t, y))
             /\ Cardinality(StepsLeft(t)) = Bit(Queued(t, x)) + Bit(Queued(t, y))
<1> DEFINE x == AccountCluster[Txn[t].sender]
           y == AccountCluster[Txn[t].receiver]
           C(k) == {c \in calls : Asks(c, t, k)}
           S(k) == {i \in DOMAIN todo : WillAsk(todo[i], t, k)}
<1>1. t \in Tid /\ IsCrossShard(t) /\ x # y /\ Participants(t) = {x, y} /\ x \in Shards /\ y \in Shards
  BY ParticipantsType DEF ClientInv, ClientTypeInv, TallyInv, Tallied, IsCrossShard, Participants
<1> HIDE DEF x, y
<1>2. PrepareCalls(t) = C(x) \cup C(y)
  <2>1. ASSUME NEW c \in calls, c.type = "TPC_PREPARE", c.tid = t PROVE Asks(c, t, x) \/ Asks(c, t, y)
    <3>1. c.type \in Asking
      BY <2>1 DEF Asking
    <3>2. ServerCluster[c.to] \in {x, y}
      BY <1>1, <2>1, <3>1 DEF ClientInv, AskedInv
    <3> QED BY <2>1, <3>1, <3>2 DEF Asks
  <2>2. ASSUME NEW c \in calls, NEW k, Asks(c, t, k) PROVE c.type = "TPC_PREPARE" /\ c.tid = t
    BY <1>1, <2>2 DEF Asks, ClientInv, AskedInv
  <2> QED
    BY <2>1, <2>2 DEF PrepareCalls
<1>3. StepsLeft(t) = S(x) \cup S(y)
  <2>1. ASSUME NEW i \in DOMAIN todo, todo[i].do = "send", todo[i].tid = t
        PROVE  WillAsk(todo[i], t, x) \/ WillAsk(todo[i], t, y)
    BY <1>1, <2>1 DEF ClientInv, QueueInv, WellQueued, AsksRight, WillAsk
  <2> QED
    BY <2>1 DEF StepsLeft, WillAsk
<1>4. \A k \in {x, y} : (\A a, b \in C(k) : a = b) /\ (\A a, b \in S(k) : a = b)
  BY <1>1 DEF ClientInv, AskedOnce, QueueInv, WellQueued, StepsOnce
<1>5. C(x) \cap C(y) = {} /\ S(x) \cap S(y) = {}
  BY <1>1 DEF Asks, WillAsk
<1>6. \A k : (C(k) # {} <=> Asked(t, k)) /\ (S(k) # {} <=> Queued(t, k))
  BY DEF Asked, Queued
<1> HIDE DEF C, S
<1>7. Cardinality(C(x) \cup C(y)) = Bit(C(x) # {}) + Bit(C(y) # {})
  BY <1>4, <1>5, TwoAtMost
<1>8. Cardinality(S(x) \cup S(y)) = Bit(S(x) # {}) + Bit(S(y) # {})
  BY <1>4, <1>5, TwoAtMost
<1>9. \A k : Bit(C(k) # {}) = Bit(Asked(t, k)) /\ Bit(S(k) # {}) = Bit(Queued(t, k))
  BY <1>6 DEF Bit
<1> QED
  BY <1>2, <1>3, <1>7, <1>8, <1>9 DEF x, y

(* A cluster's vote is counted, or its call is on the queue, or it is yet  *)
(* to be sent: never two of these, and one of them while nothing is lost.  *)
LEMMA OnePlace ==
  ASSUME ClientInv, NEW t \in DOMAIN processing, NEW k \in Participants(t)
  PROVE  LET sum == Bit(Voted(t, k, "ack")) + Bit(Voted(t, k, "nack")) + Bit(Asked(t, k)) + Bit(Queued(t, k))
         IN  sum <= 1 /\ (Running /\ failures = MaxFailures => sum = 1)
<1>1. t \in Tid /\ k \in Shards
  BY ParticipantsType DEF ClientInv, ClientTypeInv
<1>2. votes[t][k] \in {"none", "ack", "nack"}
  BY <1>1 DEF ClientInv, ClientTypeInv
<1>3. Queued(t, k) => ~Asked(t, k) /\ votes[t][k] = "none"
  BY <1>1 DEF ClientInv, AskedOnce
<1>4. Running /\ failures = MaxFailures /\ votes[t][k] = "none" => Asked(t, k) \/ Queued(t, k)
  BY DEF ClientInv, NothingLost
<1>5. /\ Voted(t, k, "ack") <=> (votes[t][k] = "ack" /\ ~Asked(t, k))
      /\ Voted(t, k, "nack") <=> (votes[t][k] = "nack" /\ ~Asked(t, k))
  BY DEF Voted
<1> QED
  BY <1>2, <1>3, <1>4, <1>5 DEF Bit

(* consumeReplies and processTransactions: the votes counted, the prepares *)
(* under way and the ones still to be sent are two for every transaction   *)
(* in processing, less only what failed or was discarded in the shutdown.  *)
THEOREM VotesInFlightHolds == Spec => []VotesInFlight
<1>1. ASSUME ClientInv PROVE VotesInFlight
  <2> SUFFICES ASSUME NEW t \in DOMAIN processing
               PROVE  LET sum == processing[t].successes + processing[t].failures
                                   + Cardinality(PrepareCalls(t)) + Cardinality(StepsLeft(t))
                      IN  sum <= 2 /\ (Running /\ failures = MaxFailures => sum = 2)
    BY DEF VotesInFlight
  <2> DEFINE x == AccountCluster[Txn[t].sender]
             y == AccountCluster[Txn[t].receiver]
             p == processing[t].successes
             q == processing[t].failures
             A(k) == Bit(Voted(t, k, "ack"))
             N(k) == Bit(Voted(t, k, "nack"))
             I(k) == Bit(Asked(t, k))
             J(k) == Bit(Queued(t, k))
             good == Running /\ failures = MaxFailures
  <2>1. x \in Participants(t) /\ y \in Participants(t)
    BY DEF Participants
  <2>2. /\ Cardinality(PrepareCalls(t)) = I(x) + I(y)
        /\ Cardinality(StepsLeft(t)) = J(x) + J(y)
    BY <1>1, InFlightIs
  <2>3. /\ A(x) + N(x) + I(x) + J(x) <= 1 /\ A(y) + N(y) + I(y) + J(y) <= 1
        /\ good => A(x) + N(x) + I(x) + J(x) = 1 /\ A(y) + N(y) + I(y) + J(y) = 1
    BY <1>1, <2>1, OnePlace
  <2>4. Tallied(t) /\ processing[t] \in Counters
    BY <1>1 DEF ClientInv, TallyInv, ClientTypeInv
  <2>5. /\ p \in Nat /\ q \in Nat /\ p <= A(x) + A(y) /\ q <= N(x) + N(y)
        /\ good => p = A(x) + A(y) /\ q = N(x) + N(y)
    <3>1. p \in Nat /\ q \in Nat
      BY <2>4 DEF Counters
    <3> QED
      BY <2>4, <3>1 DEF Tallied, VotedFor, Running
  <2>6. \A k : A(k) \in Nat /\ N(k) \in Nat /\ I(k) \in Nat /\ J(k) \in Nat
    BY DEF Bit
  <2> HIDE DEF A, N, I, J, p, q, x, y, good
  <2>7. p + q + (I(x) + I(y)) + (J(x) + J(y)) <= 2 /\ (good => p + q + (I(x) + I(y)) + (J(x) + J(y)) = 2)
    BY <2>3, <2>5, <2>6
  <2> QED
    BY <2>2, <2>7 DEF p, q, good
<1> QED
  BY <1>1, ClientInvHolds, PTL

(***************************************************************************)
(* The refinement.  The coordinator's requests under way are the calls     *)
(* that carry a decision and have not reached their server.                *)
(***************************************************************************)
UnderWay(c) == c.type \in Deciding /\ c.status = "sent"
Requests == {<<c.to, c.tid>> : c \in {d \in calls : UnderWay(d)}}

(* A pair is a request when there is such a call. *)
LEMMA RequestsAre ==
  /\ \A r : r \in Requests <=> \E c \in calls : UnderWay(c) /\ r = <<c.to, c.tid>>
  /\ \A r : r \in Requests' <=> \E c \in calls' : UnderWay(c) /\ r = <<c.to, c.tid>>
BY DEF Requests

(* The state of the abstract coordinator. *)
LEMMA AbstractState ==
  Abstract!cvars = <<votes, outcome, Requests>> /\ Abstract!cvars' = <<votes', outcome', Requests'>>
BY DEF Abstract!cvars, Requests, UnderWay, Deciding

(* A step that leaves votes, outcomes and requests alone is no step of the *)
(* coordinator.                                                            *)
LEMMA CoordinatorStutters ==
  ASSUME votes' = votes, outcome' = outcome,
         \A c : UnderWay(c) => (c \in calls' <=> c \in calls)
  PROVE  [Abstract!CoordinatorNext]_(Abstract!cvars)
<1>1. Requests' = Requests
  <2>1. \A r : r \in Requests' <=> r \in Requests
    BY RequestsAre
  <2> QED BY <2>1
<1>2. Abstract!cvars' = Abstract!cvars
  BY <1>1, AbstractState
<1> QED
  BY <1>2

(* A request that leaves the queue is delivered, or lost. *)
LEMMA CoordinatorDelivers ==
  ASSUME ClientInv, NEW c \in calls, NEW d, calls' = (calls \ {c}) \cup {d},
         UnderWay(c), d.status # "sent", votes' = votes, outcome' = outcome
  PROVE  [Abstract!CoordinatorNext]_(Abstract!cvars)
<1>1. c \in CallSet /\ c.to \in Server /\ c.tid \in Tid /\ c.type \in Deciding /\ c.status = "sent"
  BY CallFields DEF ClientInv, ClientTypeInv, UnderWay
<1>2. ASSUME NEW b \in calls, UnderWay(b), b.to = c.to, b.tid = c.tid PROVE b = c
  <2>1. b \in CallSet /\ b.type \in Deciding /\ b.status = "sent"
    BY <1>2 DEF ClientInv, ClientTypeInv, UnderWay
  <2>2. /\ outcome[c.tid] = IF c.type = "TPC_COMMIT" THEN "commit" ELSE "abort"
        /\ outcome[b.tid] = IF b.type = "TPC_COMMIT" THEN "commit" ELSE "abort"
    BY <1>1, <2>1 DEF ClientInv, DecisionsInv
  <2>3. b.type = c.type
    BY <1>1, <1>2, <2>1, <2>2 DEF Deciding
  <2>4. /\ b = [type |-> b.type, tid |-> b.tid, to |-> b.to, status |-> b.status]
        /\ c = [type |-> c.type, tid |-> c.tid, to |-> c.to, status |-> c.status]
    BY <1>1, <2>1, CallFields
  <2> QED
    BY <1>1, <1>2, <2>1, <2>3, <2>4
<1>3. \A b : b \in calls' /\ UnderWay(b) <=> b \in calls /\ UnderWay(b) /\ b # c
  BY DEF UnderWay
<1>4. Requests' = Requests \ {<<c.to, c.tid>>}
  <2>1. ASSUME NEW r PROVE r \in Requests' <=> r \in Requests /\ r # <<c.to, c.tid>>
    BY <1>2, <1>3, RequestsAre
  <2> QED BY <2>1
<1>5. <<c.to, c.tid>> \in Requests
  BY RequestsAre
<1>6. Abstract!Deliver(c.to, c.tid)
  BY <1>4, <1>5 DEF Abstract!Deliver, Requests, UnderWay, Deciding
<1> QED
  BY <1>1, <1>6 DEF Abstract!CoordinatorNext

(* The answer to a call that asks for a vote. *)
LEMMA CoordinatorAnswers ==
  ASSUME ClientInv, NEW c \in calls, NEW status \in {"ack", "nack", "done"}, ServerAnswers(c, status)
  PROVE  [Abstract!CoordinatorNext]_(Abstract!cvars)
<1> DEFINE d == [c EXCEPT !.status = status]
           z == ServerCluster[c.to]
<1>1. c.status = "sent" /\ calls' = (calls \ {c}) \cup {d} /\ outcome' = outcome
  BY DEF ServerAnswers
<1>2. c \in CallSet /\ c.type \in Asking \cup Deciding /\ c.tid \in Tid /\ c.to \in Server
  BY CallFields DEF ClientInv, ClientTypeInv
<1>3. d.type = c.type /\ d.status = status
  BY <1>2 DEF CallSet
<1> HIDE DEF d
<1>4. CASE c.type \in Deciding
  <2>1. votes' = votes
    BY <1>4 DEF ServerAnswers, Deciding
  <2>2. UnderWay(c)
    BY <1>1, <1>4 DEF UnderWay
  <2> QED
    BY <1>1, <1>3, <2>1, <2>2, CoordinatorDelivers
<1>5. CASE c.type \in Asking
  <2>1. status \in {"ack", "nack"} /\ votes' = [votes EXCEPT ![c.tid][z] = status]
    BY <1>5 DEF ServerAnswers, Asking
  <2>2. z \in Participants(c.tid) /\ votes[c.tid][z] = "none" /\ z \in Shards
    <3>1. z \in Participants(c.tid) /\ votes[c.tid][z] = "none"
      BY <1>1, <1>5 DEF ClientInv, AskedInv
    <3> QED BY <1>2, <3>1, ParticipantsType
  <2>3. votes \in [Tid -> [Shards -> {"none", "ack", "nack"}]]
    BY DEF ClientInv, ClientTypeInv
  <2>4. /\ votes' \in [Tid -> [Shards -> {"none", "ack", "nack"}]]
        /\ \A t \in Tid, k \in Shards : votes[t][k] # "none" => votes'[t][k] = votes[t][k]
    BY <1>2, <2>1, <2>2, <2>3
  <2>5. Requests' = Requests
    <3>1. ~UnderWay(c) /\ ~UnderWay(d)
      BY <1>3, <1>5 DEF UnderWay, Asking, Deciding
    <3>2. \A r : r \in Requests' <=> r \in Requests
      BY <1>1, <3>1, RequestsAre
    <3> QED BY <3>2
  <2>6. Abstract!Cluster = Shards /\ Abstract!Vote = {"none", "ack", "nack"}
    BY DEF Abstract!Cluster, Abstract!Vote, Shards
  <2>7. Abstract!CastVotes
    BY <1>1, <2>4, <2>5, <2>6 DEF Abstract!CastVotes, Requests, UnderWay, Deciding
  <2> QED
    BY <2>7 DEF Abstract!CoordinatorNext
<1> QED
  BY <1>2, <1>4, <1>5

(* A call fails. *)
LEMMA CoordinatorFails ==
  ASSUME ClientInv, NEW c \in calls, CallFails(c)
  PROVE  [Abstract!CoordinatorNext]_(Abstract!cvars)
<1> DEFINE d == [c EXCEPT !.status = "error"]
<1>1. c.status = "sent" /\ calls' = (calls \ {c}) \cup {d} /\ outcome' = outcome /\ votes' = votes
  BY DEF CallFails
<1>2. c \in CallSet
  BY DEF ClientInv, ClientTypeInv
<1>3. d.status = "error"
  BY <1>2 DEF CallSet
<1> HIDE DEF d
<1>4. CASE UnderWay(c)
  BY <1>1, <1>3, <1>4, CoordinatorDelivers
<1>5. CASE ~UnderWay(c)
  <2>1. ~UnderWay(d)
    BY <1>3 DEF UnderWay
  <2>2. \A b : UnderWay(b) => (b \in calls' <=> b \in calls)
    BY <1>1, <1>5, <2>1
  <2> QED
    BY <1>1, <2>2, CoordinatorStutters
<1> QED
  BY <1>4, <1>5

(* The second vote arrives. *)
LEMMA CoordinatorDecides ==
  ASSUME ClientInv, NEW c \in calls, c.type = "TPC_PREPARE", c.status \notin {"sent", "error"},
         Tally(c.tid, Counted(c)) # "none",
         calls' = (calls \ {c}) \cup
           DecisionCalls(c.tid, IF Tally(c.tid, Counted(c)) = "commit" THEN "TPC_COMMIT" ELSE "TPC_ABORT"),
         outcome' = [outcome EXCEPT ![c.tid] = Tally(c.tid, Counted(c))],
         votes' = votes
  PROVE  [Abstract!CoordinatorNext]_(Abstract!cvars)
<1> DEFINE t == c.tid
           d == Tally(t, Counted(c))
           type == IF d = "commit" THEN "TPC_COMMIT" ELSE "TPC_ABORT"
           D == DecisionCalls(t, type)
<1>1. t \in Tid
  BY VoteFields
<1>2. type \in Deciding /\ calls' = (calls \ {c}) \cup D /\ outcome' = [outcome EXCEPT ![t] = d]
  BY DEF Deciding
<1> HIDE DEF type
<1>3. /\ \A b \in D : b.type = type /\ b.tid = t /\ b.status = "sent"
      /\ \A s : (\E b \in D : b.to = s) <=> (s \in Server /\ ServerCluster[s] \in Participants(t))
  BY <1>1, <1>2, DecisionCallsAre
<1> HIDE DEF D
<1>4. \A b \in D : b.type \notin Asking
  BY <1>2, <1>3 DEF Asking, Deciding
<1>5. \A u \in Tid, k \in Shards : Asked(u, k)' <=> (Asked(u, k) /\ ~Asks(c, u, k))
  BY <1>2, <1>4, CallLeaves
<1>6. /\ d \in {"commit", "abort"} /\ IsCrossShard(t) /\ outcome[t] = "none"
      /\ \A k \in Participants(t) : votes[t][k] # "none"
      /\ d = IF \A k \in Participants(t) : votes[t][k] = "ack" THEN "commit" ELSE "abort"
  BY <1>5, DecisionIs
<1> HIDE DEF d
<1>7. Abstract!Informed(t) = {s \in Server : ServerCluster[s] \in Participants(t)}
  BY DEF Abstract!Informed, Abstract!Participants, Participants
<1>8. Requests' = Requests \cup (Abstract!Informed(t) \X {t})
  <2>1. ~UnderWay(c) /\ \A b \in D : UnderWay(b) /\ b.tid = t
    BY <1>2, <1>3 DEF UnderWay, Deciding
  <2>2. \A r : r \in Requests' <=> (r \in Requests \/ \E b \in D : r = <<b.to, b.tid>>)
    BY <1>2, <2>1, RequestsAre
  <2>3. \A r : r \in Abstract!Informed(t) \X {t} <=> \E b \in D : r = <<b.to, b.tid>>
    <3>1. \A s : s \in Abstract!Informed(t) <=> \E b \in D : b.to = s
      BY <1>3, <1>7
    <3> QED BY <2>1, <3>1
  <2>4. \A r : r \in Requests' <=> r \in Requests \cup (Abstract!Informed(t) \X {t})
    BY <2>2, <2>3
  <2> QED BY <2>4
<1>9. (Abstract!IsCrossShard(t) <=> IsCrossShard(t)) /\ Abstract!Participants(t) = Participants(t)
  BY DEF Abstract!IsCrossShard, IsCrossShard, Abstract!Participants, Participants
<1>10. PICK e \in {"commit", "abort"} : e = d
  BY <1>6
<1>11. Abstract!Decide(t, e)
  BY <1>2, <1>6, <1>8, <1>9, <1>10, ZenonT(40) DEF Abstract!Decide, Requests, UnderWay, Deciding
<1>12. \E u \in Tid, f \in {"commit", "abort"} : Abstract!Decide(u, f)
  BY <1>1, <1>11
<1> QED
  BY <1>12 DEF Abstract!CoordinatorNext

(* One event of the queue. *)
LEMMA CoordinatorConsumes ==
  ASSUME ClientInv, NEW c \in calls, NEW ok \in BOOLEAN, ConsumeReply(c, ok)
  PROVE  [Abstract!CoordinatorNext]_(Abstract!cvars)
<1>1. c.status # "sent" /\ votes' = votes
  BY DEF ConsumeReply
<1>2. ~UnderWay(c)
  BY <1>1 DEF UnderWay
<1>3. CASE calls' = calls \ {c} /\ outcome' = outcome
  <2>1. \A b : UnderWay(b) => (b \in calls' <=> b \in calls)
    BY <1>2, <1>3
  <2> QED
    BY <1>1, <1>3, <2>1, CoordinatorStutters
<1>4. CASE ok /\ c.type = "TPC_PREPARE" /\ c.status # "error" /\ CountVote(c)
  <2> DEFINE t == c.tid
             new == Counted(c)
             d == Tally(t, new)
  <2>1. \/ calls' = calls \ {c} /\ outcome' = outcome
        \/ /\ d # "none"
           /\ calls' = (calls \ {c}) \cup
                DecisionCalls(t, IF d = "commit" THEN "TPC_COMMIT" ELSE "TPC_ABORT")
           /\ outcome' = [outcome EXCEPT ![t] = d]
    BY <1>1, <1>4, CountVoteIs
  <2>2. CASE /\ d # "none"
             /\ calls' = (calls \ {c}) \cup
                  DecisionCalls(t, IF d = "commit" THEN "TPC_COMMIT" ELSE "TPC_ABORT")
             /\ outcome' = [outcome EXCEPT ![t] = d]
    BY <1>1, <1>4, <2>2, CoordinatorDecides
  <2> QED
    BY <1>3, <2>1, <2>2
<1> QED
  BY <1>3, <1>4 DEF ConsumeReply

(* Every step of the client is one of the coordinator, or none. *)
LEMMA CoordinatorStep ==
  ASSUME ClientInv, [Next]_vars
  PROVE  [Abstract!CoordinatorNext]_(Abstract!cvars)
<1>1. CASE UNCHANGED <<calls, votes, outcome>>
  BY <1>1, CoordinatorStutters
<1>2. CASE SendStep
  <2> DEFINE n == NewCall(Head(todo).type, Head(todo).tid, Head(todo).to)
  <2>1. calls' = calls \cup {n} /\ votes' = votes /\ outcome' = outcome /\ todo # <<>> /\ Head(todo).do = "send"
    BY <1>2 DEF SendStep
  <2>2. n.type \in Asking
    <3>1. Head(todo) \in StepSet
      BY <2>1, HeadTailProperties DEF ClientInv, ClientTypeInv
    <3>2. Head(todo).type \in {"TRANSFER", "TPC_PREPARE"}
      BY <2>1, <3>1, StepKinds
    <3> QED BY <3>2 DEF NewCall, Asking
  <2> HIDE DEF n
  <2>3. ~UnderWay(n)
    BY <2>2 DEF UnderWay, Asking, Deciding
  <2>4. \A b : UnderWay(b) => (b \in calls' <=> b \in calls)
    BY <2>1, <2>3
  <2> QED
    BY <2>1, <2>4, CoordinatorStutters
<1>3. CASE Environment
  BY <1>3, CoordinatorAnswers, CoordinatorFails DEF Environment
<1>4. CASE Consume
  BY <1>4, CoordinatorConsumes DEF Consume
<1>5. CASE Driver \/ RegisterStep \/ SubmittedAll \/ Shutdown \/ Join \/ UNCHANGED vars
  <2>1. UNCHANGED <<calls, votes, outcome>>
    BY <1>5 DEF Driver, ProcessNextSet, RegisterStep, SubmittedAll, Exit, Shutdown, Join, vars
  <2> QED BY <1>1, <2>1
<1> QED
  BY <1>2, <1>3, <1>4, <1>5 DEF Next, Submit

(* The client's threads, calls and counters implement the coordinator that *)
(* the model of the servers assumes: one decision per transaction, after   *)
(* both votes, commit iff both are ack, then a request to every server of  *)
(* the clusters that take part.                                            *)
THEOREM ClientImplementsCoordinator == Spec => ImplementsCoordinator
<1>1. Init => Abstract!CoordinatorInit
  BY DEF Init, Abstract!CoordinatorInit, Abstract!Cluster
<1>2. ClientInv /\ [Next]_vars => [Abstract!CoordinatorNext]_(Abstract!cvars)
  BY CoordinatorStep
<1> QED
  BY <1>1, <1>2, ClientInvHolds, PTL DEF Spec, ImplementsCoordinator, Abstract!CoordinatorSpec

-----------------------------------------------------------------------------
(***************************************************************************)
(* The placement of accounts and servers.                                  *)
(***************************************************************************)

(* Products with a common factor keep their order. *)
LEMMA ProductMonotone ==
  ASSUME NEW a \in Nat, NEW b \in Nat, NEW c \in Nat, a <= b
  PROVE  a * c <= b * c
<1>1. b = a + (b - a) /\ b - a \in Nat
  OBVIOUS
<1>2. b * c = a * c + (b - a) * c
  BY <1>1, SMT
<1>3. (b - a) * c \in Nat
  BY <1>1, SMT
<1>. QED  BY <1>2, <1>3, SMT

(* A common factor can be cancelled from a strict order of products. *)
LEMMA ProductCancel ==
  ASSUME NEW a \in Nat, NEW b \in Nat, NEW c \in Nat, a * c < b * c
  PROVE  a < b
<1>1. CASE b <= a
  <2>1. b * c <= a * c
    BY <1>1, ProductMonotone
  <2>. QED  BY <2>1, SMT
<1>2. CASE a < b
  BY <1>2
<1>. QED  BY <1>1, <1>2, SMT

(* The quotient rounded up: n * CeilDiv(m, n) is the first multiple of n   *)
(* that is not below m.                                                    *)
LEMMA CeilDivBounds ==
  ASSUME NEW m \in Nat, NEW n \in Nat \ {0}
  PROVE  /\ CeilDiv(m, n) \in Nat
         /\ m <= CeilDiv(m, n) * n
         /\ CeilDiv(m, n) * n < m + n
<1>. DEFINE q == (m + n - 1) \div n
<1>1. q \in Nat /\ m + n - 1 \in Nat
  BY SMT
<1>2. m + n - 1 = n * q + ((m + n - 1) % n) /\ (m + n - 1) % n \in 0..(n - 1)
  BY SMT
<1>3. n * q = q * n
  BY <1>1, SMT
<1>. HIDE DEF q
<1>4. m <= q * n /\ q * n < m + n
  BY <1>1, <1>2, <1>3, SMT
<1>. QED  BY <1>1, <1>4 DEF CeilDiv, q

(* CeilDiv(m, n) is the only k with (k - 1) * n < m <= k * n. *)
LEMMA CeilDivUnique ==
  ASSUME NEW m \in Nat, NEW n \in Nat \ {0}, NEW k \in Nat,
         m <= k * n, k * n < m + n
  PROVE  CeilDiv(m, n) = k
<1>. DEFINE q == CeilDiv(m, n)
<1>1. q \in Nat /\ m <= q * n /\ q * n < m + n
  BY CeilDivBounds
<1>. HIDE DEF q
<1>2. (q + 1) * n = q * n + n /\ (k + 1) * n = k * n + n
  BY <1>1, SMT
<1>3. q * n \in Nat /\ k * n \in Nat
  BY <1>1, SMT
<1>4. q * n < (k + 1) * n /\ k * n < (q + 1) * n
  BY <1>1, <1>2, <1>3, SMT
<1>5. q < k + 1 /\ k < q + 1
  <2>1. q + 1 \in Nat /\ k + 1 \in Nat
    BY <1>1, SMT
  <2>. QED  BY <1>1, <1>4, <2>1, ProductCancel
<1>6. q = k
  BY <1>1, <1>5, SMT
<1>. QED  BY <1>6 DEF q

-----------------------------------------------------------------------------
(* The cluster of an account is one of the configured ones, so that        *)
(* processTransactions finds its leader at leaders[cluster - 1].           *)
THEOREM ClientClusterInRange ==
  ASSUME NEW id \in 1..total_clients
  PROVE  getClusterIdFromClientId(id) \in 1..num_clusters
<1>. DEFINE q == getClusterIdFromClientId(id)
            m == id * num_clusters
<1>1. m \in Nat /\ num_clusters <= m /\ m <= total_clients * num_clusters
  <2>1. id \in Nat /\ 1 <= id /\ id <= total_clients /\ total_clients \in Nat
        /\ num_clusters \in Nat /\ 1 \in Nat
    BY ShardingAssumption, SMT
  <2>2. 1 * num_clusters <= id * num_clusters
    BY <2>1, ProductMonotone
  <2>3. id * num_clusters <= total_clients * num_clusters
    BY <2>1, ProductMonotone
  <2>. QED  BY <2>1, <2>2, <2>3, SMT
<1>2. q \in Nat /\ m <= q * total_clients /\ q * total_clients < m + total_clients
  BY <1>1, CeilDivBounds, ShardingAssumption DEF getClusterIdFromClientId
<1>. HIDE DEF q, m
<1>3. 1 <= q
  <2>1. CASE q = 0
    <3>1. q * total_clients = 0
      BY <2>1, ShardingAssumption, SMT
    <3>. QED  BY <3>1, <1>1, <1>2, ShardingAssumption, SMT
  <2>. QED  BY <1>2, <2>1, SMT
<1>4. q < num_clusters + 1
  <2>1. total_clients * num_clusters + total_clients = (num_clusters + 1) * total_clients
    BY ShardingAssumption, SMT
  <2>2. (num_clusters + 1) * total_clients \in Nat /\ q * total_clients \in Nat
    BY <1>2, ShardingAssumption, SMT
  <2>3. total_clients * num_clusters \in Nat
    BY ShardingAssumption, SMT
  <2>4. q * total_clients < (num_clusters + 1) * total_clients
    BY <1>1, <1>2, <2>1, <2>2, <2>3, ShardingAssumption, SMT
  <2>5. num_clusters + 1 \in Nat /\ total_clients \in Nat
    BY ShardingAssumption, SMT
  <2>. QED  BY <1>2, <2>4, <2>5, ProductCancel
<1>5. q \in 1..num_clusters
  BY <1>2, <1>3, <1>4, ShardingAssumption, SMT
<1>. QED  BY <1>5 DEF q

(* Accounts are placed in order: those of one cluster are an interval of   *)
(* ids, as the shards in the documentation are.                            *)
THEOREM ClientClustersMonotone ==
  ASSUME NEW a \in 1..total_clients, NEW b \in 1..total_clients, a <= b
  PROVE  getClusterIdFromClientId(a) <= getClusterIdFromClientId(b)
<1>. DEFINE p == getClusterIdFromClientId(a)
            q == getClusterIdFromClientId(b)
            m == a * num_clusters
            n == b * num_clusters
<1>1. m \in Nat /\ n \in Nat /\ m <= n
  <2>1. a \in Nat /\ b \in Nat /\ num_clusters \in Nat
    BY ShardingAssumption, SMT
  <2>2. m <= n
    BY <2>1, ProductMonotone
  <2>. QED  BY <2>1, <2>2, SMT
<1>2. p \in Nat /\ p * total_clients < m + total_clients
  BY <1>1, CeilDivBounds, ShardingAssumption DEF getClusterIdFromClientId
<1>3. q \in Nat /\ n <= q * total_clients
  BY <1>1, CeilDivBounds, ShardingAssumption DEF getClusterIdFromClientId
<1>. HIDE DEF p, q, m, n
<1>4. p < q + 1
  <2>1. (q + 1) * total_clients = q * total_clients + total_clients
    BY <1>3, ShardingAssumption, SMT
  <2>2. p * total_clients \in Nat /\ q * total_clients \in Nat
    BY <1>2, <1>3, ShardingAssumption, SMT
  <2>3. p * total_clients < (q + 1) * total_clients
    BY <1>1, <1>2, <1>3, <2>1, <2>2, ShardingAssumption, SMT
  <2>4. q + 1 \in Nat /\ total_clients \in Nat
    BY <1>3, ShardingAssumption, SMT
  <2>. QED  BY <1>2, <2>3, <2>4, ProductCancel
<1>5. p <= q
  BY <1>2, <1>3, <1>4, SMT
<1>. QED  BY <1>5 DEF p, q

(* With no more clusters than accounts every cluster has an account: no    *)
(* group of servers runs without work.                                     *)
THEOREM EveryClusterHasAccount ==
  ASSUME num_clusters <= total_clients, NEW k \in 1..num_clusters
  PROVE  \E id \in 1..total_clients : getClusterIdFromClientId(id) = k
<1>. DEFINE m == k * total_clients
            id == m \div num_clusters
<1>1. k \in Nat /\ 1 <= k /\ k <= num_clusters /\ num_clusters \in Nat \ {0}
      /\ total_clients \in Nat \ {0} /\ 1 \in Nat
  BY ShardingAssumption, SMT
<1>2. m \in Nat /\ total_clients <= m /\ m <= num_clusters * total_clients
  <2>1. 1 * total_clients <= k * total_clients
    BY <1>1, ProductMonotone
  <2>2. k * total_clients <= num_clusters * total_clients
    BY <1>1, ProductMonotone
  <2>. QED  BY <1>1, <2>1, <2>2, SMT
<1>. HIDE DEF m
<1>3. id \in Nat /\ id * num_clusters <= m /\ m < id * num_clusters + num_clusters
  <2>1. id \in Nat
    BY <1>1, <1>2, SMT
  <2>2. m = num_clusters * id + (m % num_clusters) /\ m % num_clusters \in 0..(num_clusters - 1)
    BY <1>1, <1>2, SMT
  <2>3. num_clusters * id = id * num_clusters
    BY <1>1, <2>1, SMT
  <2>. QED  BY <1>1, <1>2, <2>1, <2>2, <2>3, SMT
<1>. HIDE DEF id
<1>4. 1 <= id
  <2>1. CASE id = 0
    <3>1. id * num_clusters = 0
      BY <2>1, <1>1, SMT
    <3>. QED  BY <3>1, <1>1, <1>2, <1>3, SMT
  <2>. QED  BY <1>3, <2>1, SMT
<1>5. id < total_clients + 1
  <2>1. num_clusters * total_clients + num_clusters = (total_clients + 1) * num_clusters
    BY <1>1, SMT
  <2>2. num_clusters * total_clients \in Nat /\ id * num_clusters \in Nat
    BY <1>1, <1>3, SMT
  <2>3. id * num_clusters < (total_clients + 1) * num_clusters
    BY <1>1, <1>2, <1>3, <2>1, <2>2, SMT
  <2>4. total_clients + 1 \in Nat /\ num_clusters \in Nat
    BY <1>1, SMT
  <2>. QED  BY <1>3, <2>3, <2>4, ProductCancel
<1>6. id * num_clusters \in Nat
  BY <1>1, <1>3, SMT
<1>7. id * num_clusters <= k * total_clients /\ k * total_clients < id * num_clusters + total_clients
  BY <1>1, <1>2, <1>3, <1>6, SMT DEF m
<1>8. getClusterIdFromClientId(id) = k
  BY <1>1, <1>6, <1>7, CeilDivUnique DEF getClusterIdFromClientId
<1>9. id \in 1..total_clients
  BY <1>1, <1>3, <1>4, <1>5, SMT
<1>. QED  BY <1>8, <1>9

-----------------------------------------------------------------------------
(* A cluster is cluster_size consecutive servers: clusters are disjoint,   *)
(* together hold every server, and each has the size the configuration     *)
(* names.                                                                  *)
THEOREM ServersOfCluster ==
  ASSUME NEW k \in 1..num_clusters
  PROVE  /\ getServersInCluster(k) = ((k - 1) * cluster_size + 1)..(k * cluster_size)
         /\ Cardinality(getServersInCluster(k)) = cluster_size
<1>. DEFINE lo == (k - 1) * cluster_size
            hi == k * cluster_size
            all == num_clusters * cluster_size
<1>1. k \in Nat /\ k - 1 \in Nat /\ k <= num_clusters /\ num_clusters \in Nat
      /\ cluster_size \in Nat \ {0}
  BY ShardingAssumption, SMT
<1>2. lo \in Nat /\ hi \in Nat /\ all \in Nat /\ hi = lo + cluster_size
  BY <1>1, SMT
<1>3. hi <= all
  BY <1>1, ProductMonotone
<1>4. ASSUME NEW id \in 1..all, getClusterIdFromServerId(id) = k
      PROVE  id \in (lo + 1)..hi
  <2>1. id \in Nat
    BY <1>2, SMT
  <2>2. id <= k * cluster_size /\ k * cluster_size < id + cluster_size
    BY <1>1, <1>4, <2>1, CeilDivBounds DEF getClusterIdFromServerId
  <2>3. id <= hi /\ hi < id + cluster_size
    BY <2>2
  <2>. HIDE DEF lo, hi, all
  <2>. QED  BY <1>1, <1>2, <2>1, <2>3, SMT
<1>5. ASSUME NEW id \in (lo + 1)..hi
      PROVE  id \in 1..all /\ getClusterIdFromServerId(id) = k
  <2>1. id \in Nat /\ id \in 1..all /\ id <= hi /\ hi < id + cluster_size
    <3>. HIDE DEF lo, hi, all
    <3>. QED  BY <1>1, <1>2, <1>3, SMT
  <2>2. id <= k * cluster_size /\ k * cluster_size < id + cluster_size
    BY <2>1
  <2>3. CeilDiv(id, cluster_size) = k
    BY <1>1, <2>1, <2>2, CeilDivUnique
  <2>. QED  BY <2>1, <2>3 DEF getClusterIdFromServerId
<1>6. getServersInCluster(k) = (lo + 1)..hi
  <2>1. getServersInCluster(k) = {id \in 1..all : getClusterIdFromServerId(id) = k}
    BY DEF getServersInCluster
  <2>. HIDE DEF lo, hi, all
  <2>. QED  BY <2>1, <1>4, <1>5, Zenon
<1>7. Cardinality((lo + 1)..hi) = cluster_size
  <2>. HIDE DEF lo, hi, all
  <2>1. lo + 1 \in Int /\ hi \in Int
    BY <1>2, SMT
  <2>2. Cardinality((lo + 1)..hi) = IF lo + 1 > hi THEN 0 ELSE hi - (lo + 1) + 1
    BY <2>1, FS_Interval
  <2>. QED  BY <1>1, <1>2, <2>2, SMT
<1>. QED  BY <1>6, <1>7
=============================================================================
