------------------------- MODULE DiskReadersProofs -------------------------
EXTENDS DiskReaders, FiniteSetTheorems, WellFoundedInduction, SequenceTheorems, TLAPS

(* Induction over the numbers, stated of a set.                            *)
LEMMA SetInduction ==
  ASSUME NEW S \in SUBSET Nat, 0 \in S, \A n \in Nat : n \in S => n + 1 \in S
  PROVE  S = Nat
<1> DEFINE Less == OpToRel(<, Nat)
           bad  == Nat \ S
<1>1. SUFFICES ASSUME bad # {} PROVE FALSE
  OBVIOUS
<1>2. IsWellFoundedOn(Less, Nat)
  BY NatLessThanWellFounded
<1>3. PICK m \in bad : \A n \in bad : ~ (<<n, m>> \in Less)
  <2> HIDE DEF Less, bad
  <2>1. bad \in SUBSET Nat
    BY DEF bad
  <2> QED BY <1>1, <1>2, <2>1, WFMin
<1>4. m # 0 /\ m - 1 \in Nat /\ m - 1 < m
  OBVIOUS
<1>5. m - 1 \in bad
  BY <1>4
<1>6. Less = {p \in Nat \X Nat : p[1] < p[2]}
  BY DEF OpToRel
<1>7. <<m - 1, m>> \in Less
  BY <1>4, <1>6
<1> QED BY <1>3, <1>5, <1>7

-----------------------------------------------------------------------------
(* The loops over a table and over a directory: what they hold after n     *)
(* entries comes from what they held after n - 1.                          *)

LEMMA CountedRecurs ==
  ASSUME NEW table, Len(table) \in Nat
  PROVE  /\ Counted(table)[0] = <<>>
         /\ \A n \in 1 .. Len(table) :
              Counted(table)[n] = IF table[n] = 0 THEN Counted(table)[n - 1]
                                                  ELSE Append(Counted(table)[n - 1], table[n])
<1> DEFINE After(n, before) == IF table[n] = 0 THEN before ELSE Append(before, table[n])
           Obeys(f, m) == f = [n \in 0 .. m |-> IF n = 0 THEN <<>> ELSE After(n, f[n - 1])]
           S == {m \in Nat : \E f : Obeys(f, m)}
<1>1. 0 \in S
  <2> DEFINE f == [n \in 0 .. 0 |-> <<>>]
  <2>1. Obeys(f, 0)
    OBVIOUS
  <2> QED BY <2>1
<1>2. ASSUME NEW m \in Nat, m \in S
      PROVE  m + 1 \in S
  <2>1. PICK f : Obeys(f, m)
    BY <1>2
  <2> DEFINE g == [n \in 0 .. m + 1 |-> IF n = m + 1 THEN After(n, f[m]) ELSE f[n]]
  <2> HIDE DEF After
  <2>2. ASSUME NEW n \in 0 .. m + 1
        PROVE  g[n] = IF n = 0 THEN <<>> ELSE After(n, g[n - 1])
    <3>1. CASE n = m + 1
      BY <3>1
    <3>2. CASE n # m + 1
      <4>1. n \in 0 .. m /\ (n # 0 => n - 1 \in 0 .. m /\ n - 1 # m + 1)
        BY <3>2
      <4> QED BY <2>1, <3>2, <4>1
    <3> QED BY <3>1, <3>2
  <2>3. Obeys(g, m + 1)
    BY <2>2
  <2>4. \E h : Obeys(h, m + 1)
    <3> HIDE DEF g
    <3> QED BY <2>3
  <2> HIDE DEF Obeys
  <2> QED BY <2>4
<1>3. S = Nat
  <2> HIDE DEF S
  <2>1. S \in SUBSET Nat
    BY DEF S
  <2> QED BY <1>1, <1>2, <2>1, SetInduction
<1>4. Obeys(Counted(table), Len(table))
  <2>1. \E f : Obeys(f, Len(table))
    BY <1>3
  <2> QED BY <2>1 DEF Counted
<1> DEFINE c == Counted(table)
<1>5. ASSUME NEW n \in 0 .. Len(table)
      PROVE  c[n] = IF n = 0 THEN <<>> ELSE After(n, c[n - 1])
  <2> HIDE DEF c, After
  <2>1. c = [k \in 0 .. Len(table) |-> IF k = 0 THEN <<>> ELSE After(k, c[k - 1])]
    BY <1>4 DEF c
  <2> QED BY <2>1
<1>6. 0 \in 0 .. Len(table) /\ \A n \in 1 .. Len(table) : n \in 0 .. Len(table) /\ n # 0
  OBVIOUS
<1> QED BY <1>5, <1>6

LEMMA ListingRecurs ==
  ASSUME NEW dir, NEW skip, NEW start, Len(dir) \in Nat
  PROVE  /\ Listing(dir, skip, start)[0] = NoRows
         /\ \A n \in 1 .. Len(dir) : Listing(dir, skip, start)[n] = Listed(Listing(dir, skip, start)[n - 1], dir[n], skip, start)
<1> DEFINE After(n, before) == Listed(before, dir[n], skip, start)
           Obeys(f, m) == f = [n \in 0 .. m |-> IF n = 0 THEN NoRows ELSE After(n, f[n - 1])]
           S == {m \in Nat : \E f : Obeys(f, m)}
<1>1. 0 \in S
  <2> DEFINE f == [n \in 0 .. 0 |-> NoRows]
  <2>1. Obeys(f, 0)
    OBVIOUS
  <2>2. \E h : Obeys(h, 0)
    <3> HIDE DEF f
    <3> QED BY <2>1
  <2> HIDE DEF Obeys
  <2> QED BY <2>2
<1>2. ASSUME NEW m \in Nat, m \in S
      PROVE  m + 1 \in S
  <2>1. PICK f : Obeys(f, m)
    BY <1>2
  <2> DEFINE g == [n \in 0 .. m + 1 |-> IF n = m + 1 THEN After(n, f[m]) ELSE f[n]]
  <2> HIDE DEF After
  <2>2. ASSUME NEW n \in 0 .. m + 1
        PROVE  g[n] = IF n = 0 THEN NoRows ELSE After(n, g[n - 1])
    <3>1. CASE n = m + 1
      BY <3>1
    <3>2. CASE n # m + 1
      <4>1. n \in 0 .. m /\ (n # 0 => n - 1 \in 0 .. m /\ n - 1 # m + 1)
        BY <3>2
      <4> QED BY <2>1, <3>2, <4>1
    <3> QED BY <3>1, <3>2
  <2>3. Obeys(g, m + 1)
    BY <2>2
  <2>4. \E h : Obeys(h, m + 1)
    <3> HIDE DEF g
    <3> QED BY <2>3
  <2> HIDE DEF Obeys
  <2> QED BY <2>4
<1>3. S = Nat
  <2> HIDE DEF S
  <2>1. S \in SUBSET Nat
    BY DEF S
  <2> QED BY <1>1, <1>2, <2>1, SetInduction
<1> DEFINE acc == Listing(dir, skip, start)
<1>4. Obeys(acc, Len(dir))
  <2>1. \E f : Obeys(f, Len(dir))
    BY <1>3
  <2> QED BY <2>1 DEF Listing
<1>5. ASSUME NEW n \in 0 .. Len(dir)
      PROVE  acc[n] = IF n = 0 THEN NoRows ELSE After(n, acc[n - 1])
  <2> HIDE DEF acc, After
  <2> QED BY <1>4
<1>6. 0 \in 0 .. Len(dir) /\ \A n \in 1 .. Len(dir) : n \in 0 .. Len(dir) /\ n # 0
  OBVIOUS
<1> QED BY <1>5, <1>6

LEMMA SpellingRecurs ==
  ASSUME NEW dir, Len(dir) \in Nat
  PROVE  /\ Spelling(dir)[0] = NoNames
         /\ \A n \in 1 .. Len(dir) : Spelling(dir)[n] = Spelled(Spelling(dir)[n - 1], dir[n])
<1> DEFINE After(n, before) == Spelled(before, dir[n])
           Obeys(f, m) == f = [n \in 0 .. m |-> IF n = 0 THEN NoNames ELSE After(n, f[n - 1])]
           S == {m \in Nat : \E f : Obeys(f, m)}
<1>1. 0 \in S
  <2> DEFINE f == [n \in 0 .. 0 |-> NoNames]
  <2>1. Obeys(f, 0)
    OBVIOUS
  <2>2. \E h : Obeys(h, 0)
    <3> HIDE DEF f
    <3> QED BY <2>1
  <2> HIDE DEF Obeys
  <2> QED BY <2>2
<1>2. ASSUME NEW m \in Nat, m \in S
      PROVE  m + 1 \in S
  <2>1. PICK f : Obeys(f, m)
    BY <1>2
  <2> DEFINE g == [n \in 0 .. m + 1 |-> IF n = m + 1 THEN After(n, f[m]) ELSE f[n]]
  <2> HIDE DEF After
  <2>2. ASSUME NEW n \in 0 .. m + 1
        PROVE  g[n] = IF n = 0 THEN NoNames ELSE After(n, g[n - 1])
    <3>1. CASE n = m + 1
      BY <3>1
    <3>2. CASE n # m + 1
      <4>1. n \in 0 .. m /\ (n # 0 => n - 1 \in 0 .. m /\ n - 1 # m + 1)
        BY <3>2
      <4> QED BY <2>1, <3>2, <4>1
    <3> QED BY <3>1, <3>2
  <2>3. Obeys(g, m + 1)
    BY <2>2
  <2>4. \E h : Obeys(h, m + 1)
    <3> HIDE DEF g
    <3> QED BY <2>3
  <2> HIDE DEF Obeys
  <2> QED BY <2>4
<1>3. S = Nat
  <2> HIDE DEF S
  <2>1. S \in SUBSET Nat
    BY DEF S
  <2> QED BY <1>1, <1>2, <2>1, SetInduction
<1> DEFINE acc == Spelling(dir)
<1>4. Obeys(acc, Len(dir))
  <2>1. \E f : Obeys(f, Len(dir))
    BY <1>3
  <2> QED BY <2>1 DEF Spelling
<1>5. ASSUME NEW n \in 0 .. Len(dir)
      PROVE  acc[n] = IF n = 0 THEN NoNames ELSE After(n, acc[n - 1])
  <2> HIDE DEF acc, After
  <2> QED BY <1>4
<1>6. 0 \in 0 .. Len(dir) /\ \A n \in 1 .. Len(dir) : n \in 0 .. Len(dir) /\ n # 0
  OBVIOUS
<1> QED BY <1>5, <1>6

-----------------------------------------------------------------------------
(* Counting the files and folders of a directory.                          *)

Names == ({"long", "short"} \X STRING) \cup {NoName}

LEMMA SectorFacts ==
  ASSUME NEW dir, IsSector(dir)
  PROVE  /\ Len(dir) \in Nat /\ DOMAIN dir = 1 .. Len(dir)
         /\ \A i \in 1 .. Len(dir) : dir[i] \in [kind : Kinds, name : STRING, order : Nat]
         /\ \A kinds : Places(dir, kinds) \in SUBSET (1 .. Len(dir))
<1> DEFINE Set == [kind : Kinds, name : STRING, order : Nat]
<1>1. dir \in Seq(Set)
  BY DEF IsSector
<1> HIDE DEF Set
<1>2. Len(dir) \in Nat /\ DOMAIN dir = 1 .. Len(dir) /\ \A i \in 1 .. Len(dir) : dir[i] \in Set
  BY <1>1
<1> QED BY <1>2 DEF Set, Places

LEMMA NamesThere ==
  ASSUME NEW x \in STRING
  PROVE  Long(x) \in Names /\ Short(x) \in Names /\ Long(x)[2] = x /\ Short(x)[2] = x
BY DEF Long, Short, Names

LEMMA CountSteps ==
  ASSUME NEW m \in Nat, NEW S \in SUBSET (1 .. m)
  PROVE  /\ CountTo(S, 0) = 0
         /\ \A n \in 0 .. m : CountTo(S, n) \in Nat
         /\ \A n \in 1 .. m :
              CountTo(S, n) = IF n \in S THEN CountTo(S, n - 1) + 1 ELSE CountTo(S, n - 1)
<1> DEFINE Live  == S
           To(n) == {i \in Live : i <= n}
<1>1. m \in Nat /\ Live \subseteq 1 .. m /\ \A i \in Live : i \in Nat /\ i > 0
  OBVIOUS
<1> HIDE DEF Live
<1>2. IsFiniteSet(Live)
  <2>1. IsFiniteSet(1 .. m)
    BY <1>1, FS_Interval
  <2> QED BY <1>1, <2>1, FS_Subset
<1>3. \A n : IsFiniteSet(To(n)) /\ Cardinality(To(n)) \in Nat
  <2> SUFFICES ASSUME NEW n PROVE IsFiniteSet(To(n)) /\ Cardinality(To(n)) \in Nat
    OBVIOUS
  <2>1. IsFiniteSet(To(n))
    <3>1. To(n) \subseteq Live
      OBVIOUS
    <3> QED BY <1>2, <3>1, FS_Subset
  <2> QED BY <2>1, FS_CardinalityType
<1>4. \A n : CountTo(S, n) = Cardinality(To(n))
  BY DEF CountTo, Live
<1>5. CountTo(S, 0) = 0
  <2>1. \A i \in Live : ~ (i <= 0)
    BY <1>1
  <2>2. To(0) = {}
    BY <2>1
  <2> QED BY <1>4, <2>2, FS_EmptySet
<1>6. ASSUME NEW n \in 1 .. m
      PROVE  CountTo(S, n) = IF n \in Live THEN CountTo(S, n - 1) + 1 ELSE CountTo(S, n - 1)
  <2>1. CASE n \in Live
    <3>1. To(n) = To(n - 1) \cup {n} /\ n \notin To(n - 1)
      <4>1. \A i \in Live : i <= n <=> i <= n - 1 \/ i = n
        BY <1>1
      <4>2. n <= n /\ ~ (n <= n - 1)
        BY <1>1
      <4>3. To(n) = To(n - 1) \cup {n}
        BY <2>1, <4>1
      <4> QED BY <4>2, <4>3
    <3>2. IsFiniteSet(To(n - 1))
      BY <1>3
    <3> HIDE DEF To
    <3>3. Cardinality(To(n)) = Cardinality(To(n - 1)) + 1
      BY <3>1, <3>2, FS_AddElement
    <3> QED BY <1>4, <2>1, <3>3
  <2>2. CASE n \notin Live
    <3>1. To(n) = To(n - 1)
      <4>1. \A i \in Live : i <= n <=> i <= n - 1
        BY <1>1, <2>2
      <4> QED BY <4>1
    <3> QED BY <1>4, <2>2, <3>1
  <2> QED BY <2>1, <2>2
<1> QED BY <1>3, <1>4, <1>5, <1>6 DEF Live

LEMMA CountGrows ==
  ASSUME NEW m \in Nat, NEW S \in SUBSET (1 .. m), NEW n \in 0 .. m, NEW i \in 0 .. n
  PROVE  CountTo(S, i) <= CountTo(S, n)
<1> DEFINE Live  == S
           To(k) == {j \in Live : j <= k}
<1>1. m \in Nat /\ Live \subseteq 1 .. m /\ \A j \in Live : j \in Nat /\ j > 0
  OBVIOUS
<1> HIDE DEF Live
<1>2. To(i) \subseteq To(n) /\ To(n) \subseteq 1 .. m
  <2>1. \A j \in Live : j <= i => j <= n
    BY <1>1
  <2> QED BY <1>1, <2>1
<1>3. IsFiniteSet(To(n))
  <2>1. IsFiniteSet(1 .. m)
    BY <1>1, FS_Interval
  <2> QED BY <1>2, <2>1, FS_Subset
<1>4. Cardinality(To(i)) <= Cardinality(To(n))
  <2> HIDE DEF To
  <2> QED BY <1>2, <1>3, FS_Subset
<1> QED BY <1>4 DEF CountTo, Live

-----------------------------------------------------------------------------
(* What a list of names holds when a loop has come to entry n.             *)

Within(c, room) == IF c < 0 THEN 0 ELSE IF c > room THEN room ELSE c

UpTo(names, S, at, from, room, n) ==
  /\ names \in Seq(Names)
  /\ Len(names) = Within(CountTo(S, n) - from, room)
  /\ \A i \in S : i <= n /\ CountTo(S, i) - from \in 1 .. Len(names) =>
       names[CountTo(S, i) - from] = at[i]
  /\ \A k \in 1 .. Len(names) : \E i \in S : i <= n /\ CountTo(S, i) = from + k

LEMMA UpToNothing ==
  ASSUME NEW m \in Nat, NEW S \in SUBSET (1 .. m), NEW at, NEW from \in Nat, NEW room \in Nat
  PROVE  UpTo(<<>>, S, at, from, room, 0)
<1>1. CountTo(S, 0) = 0
  BY CountSteps
<1>2. Within(CountTo(S, 0) - from, room) = 0
  BY <1>1 DEF Within
<1> QED BY <1>2 DEF UpTo

LEMMA UpToSame ==
  ASSUME NEW m \in Nat, NEW S \in SUBSET (1 .. m), NEW at, NEW from \in Nat, NEW room \in Nat, NEW n \in 1 .. m, NEW names,
         UpTo(names, S, at, from, room, n - 1),
         n \notin S \/ CountTo(S, n) <= from \/ Len(names) = room
  PROVE  UpTo(names, S, at, from, room, n)
<1> DEFINE Live == S
<1>1. /\ CountTo(S, n) \in Nat /\ CountTo(S, n - 1) \in Nat
      /\ CountTo(S, n) = IF n \in Live THEN CountTo(S, n - 1) + 1 ELSE CountTo(S, n - 1)
  <2>1. n \in 0 .. m /\ n - 1 \in 0 .. m
    OBVIOUS
  <2>2. /\ \A k \in 0 .. m : CountTo(S, k) \in Nat
        /\ \A k \in 1 .. m : CountTo(S, k) = IF k \in S THEN CountTo(S, k - 1) + 1 ELSE CountTo(S, k - 1)
    BY CountSteps, Zenon
  <2> QED BY <2>1, <2>2
<1>2. Live \subseteq Nat
  OBVIOUS
<1>3. Len(names) = Within(CountTo(S, n - 1) - from, room) /\ Len(names) \in Nat
  BY DEF UpTo
<1>4. Len(names) = Within(CountTo(S, n) - from, room)
  BY <1>1, <1>3 DEF Within
<1>5. n \in Live => CountTo(S, n) - from \notin 1 .. Len(names)
  BY <1>1, <1>3 DEF Within
<1>6. \A i \in Live : (i <= n <=> i <= n - 1 \/ i = n)
  BY <1>2
<1> HIDE DEF Live
<1>7. \A i \in Live : i <= n /\ CountTo(S, i) - from \in 1 .. Len(names) =>
        names[CountTo(S, i) - from] = at[i]
  BY <1>5, <1>6 DEF UpTo, Live
<1>8. \A k \in 1 .. Len(names) : \E i \in Live : i <= n /\ CountTo(S, i) = from + k
  BY <1>6 DEF UpTo, Live
<1> QED BY <1>4, <1>7, <1>8 DEF UpTo, Live

LEMMA UpToAppend ==
  ASSUME NEW m \in Nat, NEW S \in SUBSET (1 .. m), NEW at, NEW from \in Nat, NEW room \in Nat, NEW n \in S, NEW names,
         at[n] \in Names, UpTo(names, S, at, from, room, n - 1), CountTo(S, n - 1) >= from, Len(names) < room
  PROVE  UpTo(Append(names, at[n]), S, at, from, room, n)
<1> DEFINE Live  == S
           new   == at[n]
           longer == Append(names, new)
           c     == CountTo(S, n - 1)
<1>1. n \in 1 .. m /\ Live \subseteq Nat /\ Live \subseteq 1 .. m
  OBVIOUS
<1>2. c \in Nat /\ CountTo(S, n) = c + 1
  <2>1. n - 1 \in 0 .. m
    BY <1>1
  <2> QED BY <1>1, <2>1, CountSteps
<1>3. names \in Seq(Names) /\ Len(names) = Within(c - from, room) /\ new \in Names
  BY DEF UpTo
<1>4. Len(names) = c - from
  BY <1>2, <1>3 DEF Within
<1> HIDE DEF new
<1>5. /\ longer \in Seq(Names) /\ Len(longer) = c + 1 - from /\ longer[c + 1 - from] = new
      /\ \A k \in 1 .. c - from : longer[k] = names[k]
  BY <1>2, <1>3, <1>4
<1>6. Len(longer) = Within(CountTo(S, n) - from, room)
  BY <1>2, <1>3, <1>4, <1>5 DEF Within
<1> HIDE DEF longer
<1>7. ASSUME NEW i \in Live, i <= n, CountTo(S, i) - from \in 1 .. Len(longer)
      PROVE  longer[CountTo(S, i) - from] = at[i]
  <2>1. CASE i = n
    BY <1>2, <1>5, <2>1 DEF new
  <2>2. CASE i # n
    <3>1. i <= n - 1 /\ n - 1 \in 0 .. m /\ i \in 0 .. n - 1
      BY <1>1, <1>7, <2>2
    <3>2. CountTo(S, i) <= c /\ CountTo(S, i) \in Nat
      <4>1. i \in 0 .. m
        BY <1>1
      <4> QED BY <3>1, <4>1, CountGrows, CountSteps
    <3>3. CountTo(S, i) - from \in 1 .. c - from
      BY <1>2, <1>5, <1>7, <3>2
    <3>4. names[CountTo(S, i) - from] = at[i]
      BY <1>4, <3>1, <3>3 DEF UpTo, Live
    <3> QED BY <1>5, <3>3, <3>4
  <2> QED BY <2>1, <2>2
<1>8. ASSUME NEW k \in 1 .. Len(longer)
      PROVE  \E i \in Live : i <= n /\ CountTo(S, i) = from + k
  <2>1. CASE k = c + 1 - from
    <3>1. n \in Live /\ n <= n /\ CountTo(S, n) = from + k
      BY <1>1, <1>2, <2>1
    <3> QED BY <3>1
  <2>2. CASE k # c + 1 - from
    <3>1. k \in 1 .. Len(names)
      BY <1>2, <1>4, <1>5, <2>2
    <3>2. PICK i \in Live : i <= n - 1 /\ CountTo(S, i) = from + k
      BY <3>1 DEF UpTo, Live
    <3>3. i <= n
      BY <1>1, <3>2
    <3> QED BY <3>2, <3>3
  <2> QED BY <2>1, <2>2
<1> QED BY <1>5, <1>6, <1>7, <1>8 DEF UpTo, Live, longer, new

LEMMA UpToShows ==
  ASSUME NEW m \in Nat, NEW S \in SUBSET (1 .. m), NEW at, NEW from \in Nat, NEW room \in Nat, NEW names,
         UpTo(names, S, at, from, room, m)
  PROVE  Shows(names, S, at, from, room)
<1>1. m \in Nat /\ S \subseteq 1 .. m /\ CountTo(S, m) \in Nat
  <2>1. m \in 0 .. m
    OBVIOUS
  <2> QED BY <2>1, CountSteps
<1>2. names \in Seq(Names) /\ Len(names) = Within(CountTo(S, m) - from, room)
      /\ DOMAIN names = 1 .. Len(names)
  BY DEF UpTo
<1>3. \A k \in DOMAIN names : k <= room
  BY <1>1, <1>2 DEF Within
<1>4. ASSUME NEW i \in S, CountTo(S, i) - from \in 1 .. room
      PROVE  CountTo(S, i) - from \in 1 .. Len(names)
  <2>1. CountTo(S, i) <= CountTo(S, m) /\ CountTo(S, i) \in Nat
    <3>1. i \in 0 .. m /\ m \in 0 .. m
      BY <1>1
    <3> QED BY <3>1, CountGrows, CountSteps
  <2> QED BY <1>1, <1>2, <1>4, <2>1 DEF Within
<1>5. \A i \in S : i <= m
  BY <1>1
<1> QED BY <1>2, <1>3, <1>4, <1>5 DEF UpTo, Shows

-----------------------------------------------------------------------------
(* A long name that waits for its file.                                    *)

Waiting(dir, n) == IF n > 0 /\ dir[n].kind = "part" /\ dir[n].order = 1 THEN Long(dir[n].name) ELSE NoName

NoEnd(dir, n) == \A j \in 1 .. n : dir[j].kind # "end"

LEMMA LongIsLong ==
  /\ \A x : Long(x) # NoName
  /\ NoName \in Names
<1>1. ASSUME NEW x PROVE Long(x) # NoName
  BY DEF Long, NoName
<1>2. NoName \in Names
  BY DEF Names
<1> QED BY <1>1, <1>2

LEMMA EntryKinds ==
  \A n, k : /\ Deleted.kind = "deleted" /\ File(n).kind = "file" /\ Folder(n).kind = "folder"
            /\ Part(n, k).kind = "part" /\ File(n).name = n /\ Folder(n).name = n
BY DEF Deleted, File, Folder, Part, Entry

LEMMA PartNamesFile ==
  ASSUME NEW dir, IsSector(dir), Written(dir), NEW n \in 1 .. Len(dir), n > 1, dir[n - 1].kind = "part"
  PROVE  /\ IsLive(dir[n]) => dir[n - 1].order = 1 /\ dir[n].name = dir[n - 1].name
         /\ dir[n].kind = "part" => dir[n - 1].order # 1
         /\ dir[n].kind \notin {"label", "deleted part"}
<1> DEFINE e == dir[n]
           before == dir[n - 1]
<1>1. n \in Nat /\ n - 1 \in DOMAIN dir \ {Len(dir)} /\ n - 1 + 1 = n
  BY SectorFacts
<1>2. e \in {Deleted} \cup
        IF before.order = 1 THEN {File(before.name), Folder(before.name)}
                            ELSE {Part(before.name, before.order - 1)}
  BY <1>1 DEF Written
<1> HIDE DEF e, before
<1>3. CASE before.order = 1
  <2>1. e = Deleted \/ e = File(before.name) \/ e = Folder(before.name)
    BY <1>2, <1>3
  <2>2. e.kind = "deleted" \/ (e.name = before.name /\ e.kind \in {"file", "folder"})
    BY <2>1, EntryKinds
  <2> QED BY <1>3, <2>2 DEF IsLive, e, before
<1>4. CASE before.order # 1
  <2>1. e = Deleted \/ e = Part(before.name, before.order - 1)
    BY <1>2, <1>4
  <2>2. e.kind = "deleted" \/ e.kind = "part"
    BY <2>1, EntryKinds
  <2> QED BY <1>4, <2>2 DEF IsLive, e, before
<1> QED BY <1>3, <1>4

LEMMA NameGiven ==
  ASSUME NEW dir, IsSector(dir), Written(dir), NEW n \in 1 .. Len(dir), IsLive(dir[n])
  PROVE  /\ Waiting(dir, n - 1) # NoName => NameAt(dir, n) = Waiting(dir, n - 1)
         /\ Waiting(dir, n - 1) = NoName => NameAt(dir, n) = Short(dir[n].name)
<1>1. n \in Nat /\ Len(dir) \in Nat
  BY SectorFacts
<1>2. CASE n > 1 /\ dir[n - 1].kind = "part"
  <2>1. dir[n - 1].order = 1 /\ dir[n].name = dir[n - 1].name
    BY <1>2, PartNamesFile
  <2>2. dir[n - 1] \in [kind : Kinds, name : STRING, order : Nat]
    BY <1>1, <1>2, SectorFacts
  <2>3. dir[n - 1] = Part(dir[n].name, 1)
    BY <1>2, <2>1, <2>2 DEF Part, Entry
  <2>4. NameAt(dir, n) = Long(dir[n].name) /\ Waiting(dir, n - 1) = Long(dir[n].name)
    BY <1>1, <1>2, <2>1, <2>3 DEF NameAt, Waiting
  <2> QED BY <2>4, LongIsLong
<1>3. CASE ~ (n > 1 /\ dir[n - 1].kind = "part")
  <2>1. Waiting(dir, n - 1) = NoName
    BY <1>1, <1>3 DEF Waiting
  <2>2. NameAt(dir, n) = Short(dir[n].name)
    BY <1>3 DEF NameAt, Part, Entry
  <2> QED BY <2>1, <2>2
<1> QED BY <1>2, <1>3

LEMMA BehindNoEnd ==
  ASSUME NEW dir, IsSector(dir), NEW n \in 1 .. Len(dir), NEW kinds
  PROVE  /\ NoEnd(dir, n - 1) /\ dir[n].kind # "end" => NoEnd(dir, n)
         /\ NoEnd(dir, n - 1) /\ dir[n].kind # "end" /\ dir[n].kind \in kinds => n \in Places(dir, kinds)
         /\ ~NoEnd(dir, n - 1) => n \notin Places(dir, kinds) /\ ~NoEnd(dir, n)
         /\ dir[n].kind \notin kinds => n \notin Places(dir, kinds)
         /\ dir[n].kind = "end" => ~NoEnd(dir, n)
<1>1. n \in DOMAIN dir /\ n \in Nat /\ n \in 1 .. n
  BY SectorFacts
<1>2. \A j \in 1 .. n : j \in 1 .. n - 1 \/ j = n
  BY <1>1
<1>3. \A j \in 1 .. n - 1 : j \in 1 .. n
  BY <1>1
<1> QED BY <1>1, <1>2, <1>3 DEF Places, NoEnd

(* The files and folders of a directory, for the list.                     *)
LiveIn(dir) == Places(dir, {"file", "folder"})

LEMMA LiveFacts ==
  ASSUME NEW dir, IsSector(dir)
  PROVE  /\ LiveIn(dir) \in SUBSET (1 .. Len(dir)) /\ Len(dir) \in Nat
         /\ \A i \in 1 .. Len(dir) : NamesIn(dir)[i] = NameAt(dir, i) /\ NamesIn(dir)[i] \in Names
<1>1. /\ LiveIn(dir) \in SUBSET (1 .. Len(dir)) /\ Len(dir) \in Nat /\ DOMAIN dir = 1 .. Len(dir)
      /\ \A i \in 1 .. Len(dir) : dir[i].name \in STRING
  BY SectorFacts DEF LiveIn
<1>2. \A i \in 1 .. Len(dir) : NamesIn(dir)[i] = NameAt(dir, i)
  BY <1>1 DEF NamesIn
<1>3. \A i \in 1 .. Len(dir) : NameAt(dir, i) \in Names
  BY <1>1, NamesThere DEF NameAt
<1> QED BY <1>1, <1>2, <1>3

-----------------------------------------------------------------------------
(* fat32_list_dir.  Of any sector, the rows fit the list; of a directory,  *)
(* they are those due.                                                     *)

(* Where the clusters of a disk may begin.                                 *)
Starts == {l \in Nat : l >= 2 * PerCluster}

Rows(start) == {row \in [name : Names, folder : BOOLEAN, to : STRING, lba : 0 .. LbaLimit - 1] :
           row.folder => row.to \in DOMAIN Cluster \cup {".."} /\ row.lba = LbaFrom(start, ClusterOf(row.to)) % LbaLimit}

Accs(skip, start) == [rows : Seq(Rows(start)), skipped : 0 .. skip, long : Names, over : BOOLEAN]

LEMMA Remainder ==
  ASSUME NEW l \in Nat
  PROVE  l % LbaLimit \in 0 .. LbaLimit - 1
<1>1. LbaLimit \in Nat \ {0}
  BY DEF LbaLimit
<1> QED BY <1>1

LEMMA LbaIsNat ==
  ASSUME NEW f \in DOMAIN Cluster, NEW start \in Starts
  PROVE  LbaFrom(start, Cluster[f]) \in Nat
<1>1. PICK c \in Nat : c = Cluster[f] /\ c >= 2
  BY ClusterAssumption
<1>2. (c - 2) * PerCluster \in Nat
  BY <1>1, DiskAssumption
<1> QED BY <1>1, <1>2, DiskAssumption DEF LbaFrom, Starts

LEMMA RowFits ==
  ASSUME NEW dir, IsSector(dir), NEW n \in 1 .. Len(dir), IsLive(dir[n]), NEW long \in Names, NEW start \in Starts
  PROVE  /\ Row(dir[n], long, start) \in Rows(start)
         /\ Row(dir[n], long, start).name = IF long # NoName THEN long ELSE Short(dir[n].name)
         /\ Row(dir[n], long, start).to = dir[n].name
<1> DEFINE e == dir[n]
<1>1. e.name \in STRING /\ (e.kind = "folder" => e.name \in DOMAIN Cluster \cup {".."})
  BY SectorFacts DEF IsSector
<1> HIDE DEF e
<1>2. e.kind = "folder" => LbaFrom(start, ClusterOf(e.name)) \in Nat
  <2>1. SUFFICES ASSUME e.kind = "folder" PROVE LbaFrom(start, ClusterOf(e.name)) \in Nat
    OBVIOUS
  <2>2. CASE e.name = ".."
    <3>1. LbaFrom(start, 0) = start - 2 * PerCluster
      BY DiskAssumption DEF LbaFrom, Starts
    <3> QED BY <2>2, <3>1, DiskAssumption DEF ClusterOf, Starts
  <2>3. CASE e.name # ".."
    BY <1>1, <2>1, <2>3, LbaIsNat DEF ClusterOf
  <2> QED BY <2>2, <2>3
<1>3. StartLba(e, start) \in 0 .. LbaLimit - 1
  <2> DEFINE l == LbaFrom(start, ClusterOf(e.name))
  <2>1. e.kind = "folder" => l % LbaLimit \in 0 .. LbaLimit - 1
    <3> HIDE DEF l
    <3> QED BY <1>2, Remainder DEF l
  <2> DEFINE low == l % LbaLimit
  <2>2. StartLba(e, start) = IF e.kind = "folder" THEN low ELSE 0
    BY DEF StartLba
  <2>3. 0 \in 0 .. LbaLimit - 1
    BY DEF LbaLimit
  <2> HIDE DEF low
  <2> QED BY <2>1, <2>2, <2>3 DEF low
<1>4. e.kind = "folder" => StartLba(e, start) = LbaFrom(start, ClusterOf(e.name)) % LbaLimit
  BY DEF StartLba
<1>5. Short(e.name) \in Names
  BY <1>1, NamesThere
<1>6. /\ Row(e, long, start).name = IF long # NoName THEN long ELSE Short(e.name)
      /\ Row(e, long, start).to = e.name
  BY DEF Row
<1>7. Row(e, long, start) \in Rows(start)
  <2> DEFINE first == StartLba(e, start)
             low(f) == LbaFrom(start, ClusterOf(f)) % LbaLimit
  <2>1. Row(e, long, start) = [name |-> IF long # NoName THEN long ELSE Short(e.name),
                        folder |-> e.kind = "folder", to |-> e.name, lba |-> first]
    BY DEF Row
  <2>2. Rows(start) = {row \in [name : Names, folder : BOOLEAN, to : STRING, lba : 0 .. LbaLimit - 1] :
                  row.folder => row.to \in DOMAIN Cluster \cup {".."} /\ row.lba = low(row.to)}
    BY DEF Rows
  <2>3. first \in 0 .. LbaLimit - 1 /\ (e.kind = "folder" => first = low(e.name))
    BY <1>3, <1>4
  <2> DEFINE name == IF long # NoName THEN long ELSE Short(e.name)
             isDir == e.kind = "folder"
             row    == [name |-> name, folder |-> isDir, to |-> e.name, lba |-> first]
  <2>4. name \in Names /\ isDir \in BOOLEAN
    BY <1>5
  <2>5. isDir => e.name \in DOMAIN Cluster \cup {".."} /\ first = low(e.name)
    BY <1>1, <2>3
  <2> HIDE DEF first, low, name, isDir
  <2>6. row \in [name : Names, folder : BOOLEAN, to : STRING, lba : 0 .. LbaLimit - 1]
    BY <1>1, <2>3, <2>4
  <2>7. row \in Rows(start)
    BY <2>2, <2>5, <2>6
  <2> QED BY <2>1, <2>7 DEF name, isDir
<1> QED BY <1>6, <1>7 DEF e

(* What each branch of the loop does.                                      *)
LEMMA OverListed ==
  ASSUME NEW acc, NEW e, NEW skip, NEW start, acc.over
  PROVE  Listed(acc, e, skip, start) = acc
BY DEF Listed

LEMMA EndListed ==
  ASSUME NEW acc, NEW e, NEW skip, NEW start, ~acc.over, Len(acc.rows) = MaxFiles \/ e.kind = "end"
  PROVE  Listed(acc, e, skip, start) = [acc EXCEPT !.over = TRUE]
BY DEF Listed

LEMMA GapListed ==
  ASSUME NEW acc, NEW e, NEW skip, NEW start, ~acc.over, Len(acc.rows) # MaxFiles, e.kind \in {"deleted", "deleted part", "label"}
  PROVE  Listed(acc, e, skip, start) = AfterGap(acc)
BY DEF Listed, IsLive

LEMMA PartListed ==
  ASSUME NEW acc, NEW e, NEW skip, NEW start, ~acc.over, Len(acc.rows) # MaxFiles, e.kind = "part"
  PROVE  Listed(acc, e, skip, start) = IF e.order = 1 THEN [acc EXCEPT !.long = Long(e.name)] ELSE acc
BY DEF Listed, IsLive

LEMMA LiveListed ==
  ASSUME NEW acc, NEW e, NEW skip, NEW start, ~acc.over, Len(acc.rows) # MaxFiles, IsLive(e)
  PROVE  Listed(acc, e, skip, start) = IF acc.skipped < skip
                                THEN AfterGap([acc EXCEPT !.skipped = @ + 1])
                                ELSE AfterGap([acc EXCEPT !.rows = Append(@, Row(e, acc.long, start))])
BY DEF Listed, IsLive

LEMMA KindsOfEntry ==
  ASSUME NEW dir, IsSector(dir), NEW n \in 1 .. Len(dir)
  PROVE  /\ dir[n].kind \in Kinds /\ dir[n].name \in STRING
         /\ dir[n].kind \in {"end", "deleted", "deleted part", "label", "part"} \/ IsLive(dir[n])
<1>1. dir[n].kind \in Kinds /\ dir[n].name \in STRING
  BY SectorFacts
<1> QED BY <1>1 DEF Kinds, IsLive

LEMMA ListedFits ==
  ASSUME NEW dir, IsSector(dir), NEW skip \in Nat, NEW start \in Starts, NEW n \in 1 .. Len(dir),
         NEW acc \in Accs(skip, start), Len(acc.rows) <= MaxFiles
  PROVE  Listed(acc, dir[n], skip, start) \in Accs(skip, start) /\ Len(Listed(acc, dir[n], skip, start).rows) <= MaxFiles
<1> DEFINE e == dir[n]
           next == Listed(acc, e, skip, start)
<1>0. SUFFICES next \in Accs(skip, start) /\ Len(next.rows) <= MaxFiles
  OBVIOUS
<1>1. /\ acc.rows \in Seq(Rows(start)) /\ acc.skipped \in 0 .. skip /\ acc.long \in Names /\ acc.over \in BOOLEAN
      /\ Len(acc.rows) \in Nat /\ MaxFiles \in Nat
      /\ acc = [rows |-> acc.rows, skipped |-> acc.skipped, long |-> acc.long, over |-> acc.over]
  BY BoundsAssumption DEF Accs
<1>2. e.kind \in Kinds /\ e.name \in STRING /\ (e.kind \in {"end", "deleted", "deleted part", "label", "part"} \/ IsLive(e))
  BY KindsOfEntry
<1>3. IsLive(e) => Row(e, acc.long, start) \in Rows(start)
  BY <1>1, RowFits
<1>4. Long(e.name) \in Names /\ NoName \in Names
  BY <1>2, NamesThere, LongIsLong
<1> HIDE DEF e
<1>5. CASE acc.over
  <2>1. next = acc
    BY <1>5, OverListed
  <2> QED BY <1>5, <2>1
<1>6. CASE ~acc.over /\ (Len(acc.rows) = MaxFiles \/ e.kind = "end")
  <2>1. next = [acc EXCEPT !.over = TRUE]
    BY <1>6, EndListed
  <2> HIDE DEF next
  <2> QED BY <1>1, <2>1 DEF Accs
<1>7. CASE ~acc.over /\ Len(acc.rows) # MaxFiles /\ e.kind # "end"
  <2>1. CASE e.kind \in {"deleted", "deleted part", "label"}
    <3>1. next = AfterGap(acc)
      BY <1>7, <2>1, GapListed
    <3> HIDE DEF next
    <3> QED BY <1>1, <1>4, <3>1 DEF Accs, AfterGap
  <2>2. CASE e.kind = "part"
    <3>1. next = IF e.order = 1 THEN [acc EXCEPT !.long = Long(e.name)] ELSE acc
      BY <1>7, <2>2, PartListed
    <3> HIDE DEF next
    <3> QED BY <1>1, <1>4, <3>1 DEF Accs
  <2>3. CASE IsLive(e) /\ acc.skipped < skip
    <3>1. next = AfterGap([acc EXCEPT !.skipped = @ + 1])
      BY <1>7, <2>3, LiveListed
    <3>2. acc.skipped + 1 \in 0 .. skip
      BY <1>1, <2>3
    <3> HIDE DEF next
    <3> QED BY <1>1, <1>4, <3>1, <3>2 DEF Accs, AfterGap
  <2>4. CASE IsLive(e) /\ ~ (acc.skipped < skip)
    <3> DEFINE longer == Append(acc.rows, Row(e, acc.long, start))
    <3>1. next = AfterGap([acc EXCEPT !.rows = longer])
      BY <1>7, <2>4, LiveListed
    <3>2. longer \in Seq(Rows(start)) /\ Len(longer) = Len(acc.rows) + 1
      BY <1>1, <1>3, <2>4
    <3> HIDE DEF next, longer
    <3>3. Len(longer) <= MaxFiles
      BY <1>1, <1>7, <3>2
    <3> QED BY <1>1, <1>4, <3>1, <3>2, <3>3 DEF Accs, AfterGap
  <2> QED BY <1>2, <1>7, <2>1, <2>2, <2>3, <2>4
<1> QED BY <1>1, <1>5, <1>6, <1>7

LEMMA ListingFits ==
  ASSUME NEW dir, IsSector(dir), NEW skip \in Nat, NEW start \in Starts
  PROVE  \A n \in 0 .. Len(dir) : Listing(dir, skip, start)[n] \in Accs(skip, start) /\ Len(Listing(dir, skip, start)[n].rows) <= MaxFiles
<1> DEFINE acc == Listing(dir, skip, start)
           Good(n) == acc[n] \in Accs(skip, start) /\ Len(acc[n].rows) <= MaxFiles
           S == {n \in Nat : n <= Len(dir) => Good(n)}
<1>1. Len(dir) \in Nat
  BY SectorFacts
<1>2. acc[0] = NoRows /\ \A n \in 1 .. Len(dir) : acc[n] = Listed(acc[n - 1], dir[n], skip, start)
  BY <1>1, ListingRecurs
<1> HIDE DEF acc
<1>3. Good(0)
  <2>1. /\ acc[0].rows = <<>> /\ acc[0].skipped = 0 /\ acc[0].long = NoName /\ acc[0].over = FALSE
        /\ acc[0] = [rows |-> <<>>, skipped |-> 0, long |-> NoName, over |-> FALSE]
    BY <1>2 DEF NoRows
  <2>2. <<>> \in Seq(Rows(start)) /\ Len(<<>>) = 0 /\ 0 \in 0 .. skip /\ NoName \in Names
    BY LongIsLong
  <2> QED BY <2>1, <2>2, BoundsAssumption DEF Accs
<1>4. ASSUME NEW n \in Nat, n \in S
      PROVE  n + 1 \in S
  <2>1. SUFFICES ASSUME n + 1 <= Len(dir) PROVE Good(n + 1)
    OBVIOUS
  <2>2. n + 1 \in 1 .. Len(dir) /\ n + 1 - 1 = n /\ Good(n)
    BY <1>1, <1>4, <2>1
  <2> QED BY <1>2, <2>2, ListedFits
<1>5. S = Nat
  <2>1. 0 \in S
    BY <1>3
  <2>2. S \in SUBSET Nat
    OBVIOUS
  <2> HIDE DEF S
  <2> QED BY <1>4, <2>1, <2>2, SetInduction
<1>6. \A n \in 0 .. Len(dir) : Good(n)
  BY <1>1, <1>5
<1> QED BY <1>6 DEF acc

-----------------------------------------------------------------------------
(* The names of the rows, in their order.                                  *)
NamesOf(list) == [k \in DOMAIN list |-> list[k].name]

LEMMA NamesAreNames ==
  ASSUME NEW start, NEW list \in Seq(Rows(start))
  PROVE  /\ NamesOf(list) \in Seq(Names) /\ Len(NamesOf(list)) = Len(list)
         /\ DOMAIN list = 1 .. Len(list) /\ Len(list) \in Nat
         /\ \A k \in 1 .. Len(list) : NamesOf(list)[k] = list[k].name
<1> DEFINE names == NamesOf(list)
           m == Len(list)
<1>1. m \in Nat /\ DOMAIN list = 1 .. m /\ \A k \in 1 .. m : list[k] \in Rows(start)
  OBVIOUS
<1>2. \A k \in 1 .. m : list[k].name \in Names
  BY <1>1 DEF Rows
<1>3. names \in [1 .. m -> Names] /\ \A k \in 1 .. m : names[k] = list[k].name
  BY <1>1, <1>2 DEF NamesOf
<1> HIDE DEF names, m
<1>4. names \in Seq(Names)
  BY <1>1, <1>3, SeqDef
<1>5. Len(names) = m
  <2>1. DOMAIN names = 1 .. m
    BY <1>3
  <2> QED BY <1>1, <1>4, <2>1, LenProperties
<1> QED BY <1>1, <1>3, <1>4, <1>5 DEF names, m

LEMMA NamesAppend ==
  ASSUME NEW start, NEW list \in Seq(Rows(start)), NEW row \in Rows(start)
  PROVE  NamesOf(Append(list, row)) = Append(NamesOf(list), row.name)
<1> DEFINE longer == Append(list, row)
           m == Len(list)
<1>1. m \in Nat /\ longer \in Seq(Rows(start)) /\ Len(longer) = m + 1 /\ longer[m + 1] = row
      /\ \A k \in 1 .. m : longer[k] = list[k]
  OBVIOUS
<1> HIDE DEF longer
<1>2. /\ NamesOf(longer) \in Seq(Names) /\ Len(NamesOf(longer)) = m + 1
      /\ \A k \in 1 .. m + 1 : NamesOf(longer)[k] = longer[k].name
  BY <1>1, NamesAreNames
<1>3. /\ NamesOf(list) \in Seq(Names) /\ Len(NamesOf(list)) = m
      /\ \A k \in 1 .. m : NamesOf(list)[k] = list[k].name
  BY NamesAreNames
<1> DEFINE a == NamesOf(longer)
           old == NamesOf(list)
           x == row.name
           b == Append(old, x)
<1>4. x \in Names
  BY DEF Rows
<1> HIDE DEF old, x, m
<1>5. b \in Seq(Names) /\ Len(b) = m + 1 /\ b[m + 1] = x /\ \A k \in 1 .. m : b[k] = old[k]
  BY <1>1, <1>3, <1>4 DEF old
<1> HIDE DEF b
<1>6. \A k \in 1 .. m + 1 : a[k] = b[k]
  <2> SUFFICES ASSUME NEW k \in 1 .. m + 1 PROVE a[k] = b[k]
    OBVIOUS
  <2>1. CASE k = m + 1
    BY <1>1, <1>2, <1>5, <2>1 DEF x
  <2>2. CASE k # m + 1
    <3>1. k \in 1 .. m
      BY <1>1, <2>2
    <3> QED BY <1>1, <1>2, <1>3, <1>5, <3>1 DEF old
  <2> QED BY <2>1, <2>2
<1> HIDE DEF a
<1>7. a \in Seq(Names) /\ Len(a) = Len(b) /\ \A k \in 1 .. Len(a) : a[k] = b[k]
  BY <1>2, <1>5, <1>6 DEF a
<1>8. a = b
  BY <1>5, <1>7, SeqEqual
<1> QED BY <1>8 DEF a, b, old, x, longer

(* What the loop holds when it has come to entry n of a directory.         *)
Follows(acc, dir, skip, n) ==
  /\ acc.over => ~NoEnd(dir, n) \/ Len(acc.rows) = MaxFiles
  /\ ~acc.over => /\ NoEnd(dir, n) /\ acc.long = Waiting(dir, n)
                  /\ acc.skipped = Within(CountTo(LiveIn(dir), n), skip)
  /\ UpTo(NamesOf(acc.rows), LiveIn(dir), NamesIn(dir), skip, MaxFiles, n)
  /\ \A k \in 1 .. Len(acc.rows) : acc.rows[k].to = acc.rows[k].name[2]

LEMMA WaitingSteps ==
  ASSUME NEW dir, IsSector(dir), Written(dir), NEW n \in 1 .. Len(dir)
  PROVE  /\ dir[n].kind # "part" => Waiting(dir, n) = NoName
         /\ dir[n].kind \in {"label", "deleted part"} => Waiting(dir, n - 1) = NoName
         /\ dir[n].kind = "part" =>
              Waiting(dir, n) = IF dir[n].order = 1 THEN Long(dir[n].name) ELSE Waiting(dir, n - 1)
<1>1. n \in Nat /\ n > 0
  BY SectorFacts
<1>2. ASSUME dir[n].kind = "part", dir[n].order # 1
      PROVE  Waiting(dir, n - 1) = NoName
  <2>1. CASE n > 1 /\ dir[n - 1].kind = "part"
    <3>1. dir[n - 1].order # 1
      BY <1>2, <2>1, PartNamesFile
    <3> QED BY <3>1 DEF Waiting
  <2>2. CASE ~ (n > 1 /\ dir[n - 1].kind = "part")
    BY <1>1, <2>2 DEF Waiting
  <2> QED BY <2>1, <2>2
<1>3. ASSUME dir[n].kind \in {"label", "deleted part"}
      PROVE  Waiting(dir, n - 1) = NoName
  <2>1. ~ (n > 1 /\ dir[n - 1].kind = "part")
    BY <1>3, PartNamesFile
  <2> QED BY <1>1, <2>1 DEF Waiting
<1> QED BY <1>1, <1>2, <1>3 DEF Waiting

LEMMA ListedFollows ==
  ASSUME NEW dir, IsSector(dir), Written(dir), NEW skip \in Nat, NEW start \in Starts, NEW n \in 1 .. Len(dir),
         NEW acc \in Accs(skip, start), Len(acc.rows) <= MaxFiles, Follows(acc, dir, skip, n - 1)
  PROVE  Follows(Listed(acc, dir[n], skip, start), dir, skip, n)
<1> DEFINE e == dir[n]
           next == Listed(acc, e, skip, start)
           names == NamesOf(acc.rows)
           before == CountTo(LiveIn(dir), n - 1)
           count == CountTo(LiveIn(dir), n)
           Live == n \in LiveIn(dir)
<1>0. SUFFICES Follows(next, dir, skip, n)
  OBVIOUS
<1>1. /\ acc.rows \in Seq(Rows(start)) /\ acc.skipped \in 0 .. skip /\ acc.long \in Names /\ acc.over \in BOOLEAN
      /\ Len(acc.rows) \in Nat /\ MaxFiles \in Nat
      /\ acc = [rows |-> acc.rows, skipped |-> acc.skipped, long |-> acc.long, over |-> acc.over]
  BY BoundsAssumption DEF Accs
<1>2. e.kind \in Kinds /\ e.name \in STRING /\ (e.kind \in {"end", "deleted", "deleted part", "label", "part"} \/ IsLive(e))
  BY KindsOfEntry
<1>3. before \in Nat /\ count \in Nat /\ count = IF Live THEN before + 1 ELSE before
  <2>1. n - 1 \in 0 .. Len(dir) /\ n \in 0 .. Len(dir)
    BY SectorFacts
  <2>2. LiveIn(dir) \in SUBSET (1 .. Len(dir)) /\ Len(dir) \in Nat
    BY LiveFacts
  <2>3. /\ \A k \in 0 .. Len(dir) : CountTo(LiveIn(dir), k) \in Nat
        /\ \A k \in 1 .. Len(dir) :
             CountTo(LiveIn(dir), k) = IF k \in LiveIn(dir) THEN CountTo(LiveIn(dir), k - 1) + 1
                                       ELSE CountTo(LiveIn(dir), k - 1)
    BY <2>2, CountSteps, Zenon
  <2> QED BY <2>1, <2>3
<1>4. /\ NoEnd(dir, n - 1) /\ IsLive(e) => Live /\ NoEnd(dir, n)
      /\ NoEnd(dir, n - 1) /\ e.kind # "end" => NoEnd(dir, n)
      /\ ~NoEnd(dir, n - 1) => ~Live /\ ~NoEnd(dir, n)
      /\ ~IsLive(e) => ~Live
      /\ e.kind = "end" => ~NoEnd(dir, n)
  <2>1. IsLive(e) <=> e.kind \in {"file", "folder"}
    BY DEF IsLive
  <2> HIDE DEF e
  <2> QED BY <2>1, BehindNoEnd DEF LiveIn, e
<1>5. /\ e.kind # "part" => Waiting(dir, n) = NoName
      /\ e.kind = "part" => Waiting(dir, n) = IF e.order = 1 THEN Long(e.name) ELSE Waiting(dir, n - 1)
  BY WaitingSteps
<1>6. Len(names) = Len(acc.rows) /\ names \in Seq(Names)
  BY <1>1, NamesAreNames
<1>7. ~Live \/ count <= skip \/ Len(acc.rows) = MaxFiles => UpTo(names, LiveIn(dir), NamesIn(dir), skip, MaxFiles, n)
  <2>1. LiveIn(dir) \in SUBSET (1 .. Len(dir)) /\ Len(dir) \in Nat
    BY LiveFacts
  <2> QED BY <1>1, <1>6, <2>1, UpToSame DEF Follows
<1>8. e.kind \in {"end", "deleted", "deleted part", "label", "part"} => ~IsLive(e)
  BY DEF IsLive
<1>9. \A k \in 1 .. Len(acc.rows) : acc.rows[k].to = acc.rows[k].name[2]
  BY DEF Follows
<1> HIDE DEF e, names, before, count, Live
<1>10. CASE acc.over
  <2>1. next = acc
    BY <1>10, OverListed
  <2>2. ~NoEnd(dir, n - 1) \/ Len(acc.rows) = MaxFiles
    BY <1>10 DEF Follows
  <2> HIDE DEF next
  <2> QED BY <1>4, <1>7, <1>9, <1>10, <2>1, <2>2 DEF Follows, names
<1>11. CASE ~acc.over /\ (Len(acc.rows) = MaxFiles \/ e.kind = "end")
  <2>1. next = [acc EXCEPT !.over = TRUE]
    BY <1>11, EndListed
  <2> HIDE DEF next
  <2>2. next.rows = acc.rows /\ next.over
    BY <1>1, <2>1
  <2>3. UpTo(names, LiveIn(dir), NamesIn(dir), skip, MaxFiles, n) /\ (~NoEnd(dir, n) \/ Len(acc.rows) = MaxFiles)
    BY <1>4, <1>7, <1>8, <1>11
  <2> QED BY <1>9, <2>2, <2>3 DEF Follows, names
<1>12. CASE ~acc.over /\ Len(acc.rows) # MaxFiles /\ e.kind # "end"
  <2>0. /\ NoEnd(dir, n - 1) /\ acc.long = Waiting(dir, n - 1) /\ acc.skipped = Within(before, skip)
        /\ NoEnd(dir, n)
    BY <1>4, <1>12 DEF Follows, before
  <2>1. CASE e.kind \in {"deleted", "deleted part", "label"}
    <3>1. next = AfterGap(acc)
      BY <1>12, <2>1, GapListed
    <3> HIDE DEF next
    <3>2. next.rows = acc.rows /\ ~next.over /\ next.long = NoName /\ next.skipped = acc.skipped
      BY <1>1, <1>12, <3>1 DEF AfterGap
    <3>3. ~Live /\ count = before /\ UpTo(names, LiveIn(dir), NamesIn(dir), skip, MaxFiles, n) /\ Waiting(dir, n) = NoName
      BY <1>3, <1>4, <1>5, <1>7, <1>8, <2>1
    <3> QED BY <1>9, <2>0, <3>2, <3>3 DEF Follows, names, count
  <2>2. CASE e.kind = "part"
    <3>1. next = IF e.order = 1 THEN [acc EXCEPT !.long = Long(e.name)] ELSE acc
      BY <1>12, <2>2, PartListed
    <3> HIDE DEF next
    <3>2. /\ next.rows = acc.rows /\ ~next.over /\ next.skipped = acc.skipped
          /\ next.long = IF e.order = 1 THEN Long(e.name) ELSE acc.long
      BY <1>1, <1>12, <3>1
    <3>3. ~Live /\ count = before /\ UpTo(names, LiveIn(dir), NamesIn(dir), skip, MaxFiles, n)
          /\ Waiting(dir, n) = IF e.order = 1 THEN Long(e.name) ELSE Waiting(dir, n - 1)
      BY <1>3, <1>4, <1>5, <1>7, <1>8, <2>2
    <3> QED BY <1>9, <2>0, <3>2, <3>3 DEF Follows, names, count
  <2>3. CASE IsLive(e) /\ acc.skipped < skip
    <3>1. next = AfterGap([acc EXCEPT !.skipped = @ + 1])
      BY <1>12, <2>3, LiveListed
    <3> HIDE DEF next
    <3>2. next.rows = acc.rows /\ ~next.over /\ next.long = NoName /\ next.skipped = acc.skipped + 1
      BY <1>1, <1>12, <3>1 DEF AfterGap
    <3>3. Live /\ count = before + 1 /\ Waiting(dir, n) = NoName
      BY <1>3, <1>4, <1>5, <1>8, <2>0, <2>3
    <3>4. acc.skipped = before /\ count <= skip /\ Within(count, skip) = acc.skipped + 1
      BY <1>1, <1>3, <2>0, <2>3, <3>3 DEF Within
    <3> QED BY <1>7, <1>9, <2>0, <3>2, <3>3, <3>4 DEF Follows, names, count
  <2>4. CASE IsLive(e) /\ ~ (acc.skipped < skip)
    <3> DEFINE row == Row(e, acc.long, start)
               longer == Append(acc.rows, row)
    <3>1. next = AfterGap([acc EXCEPT !.rows = longer])
      BY <1>12, <2>4, LiveListed
    <3>2. Live /\ count = before + 1 /\ Waiting(dir, n) = NoName
      BY <1>3, <1>4, <1>5, <1>8, <2>0, <2>4
    <3>3. before >= skip /\ Within(before, skip) = skip /\ Within(count, skip) = skip
      BY <1>1, <1>3, <2>0, <2>4, <3>2 DEF Within
    <3>4. row \in Rows(start) /\ row.name = NameAt(dir, n) /\ row.to = row.name[2]
      <4>1. /\ row \in Rows(start) /\ row.to = e.name
            /\ row.name = IF acc.long # NoName THEN acc.long ELSE Short(e.name)
        BY <1>1, <2>4, RowFits DEF e
      <4>2. row.name = NameAt(dir, n)
        BY <2>0, <2>4, <4>1, NameGiven DEF e
      <4>3. NameAt(dir, n)[2] = e.name
        BY <1>2, NamesThere DEF NameAt, e
      <4> QED BY <4>1, <4>2, <4>3
    <3> HIDE DEF row
    <3>5. /\ longer \in Seq(Rows(start)) /\ Len(longer) = Len(acc.rows) + 1 /\ longer[Len(acc.rows) + 1] = row
          /\ \A k \in 1 .. Len(acc.rows) : longer[k] = acc.rows[k]
      BY <1>1, <3>4
    <3>6. NamesOf(longer) = Append(names, NameAt(dir, n))
      BY <1>1, <3>4, NamesAppend DEF names
    <3>7. UpTo(NamesOf(longer), LiveIn(dir), NamesIn(dir), skip, MaxFiles, n)
      <4>1. UpTo(names, LiveIn(dir), NamesIn(dir), skip, MaxFiles, n - 1) /\ Len(names) < MaxFiles
        BY <1>1, <1>6, <1>12 DEF Follows, names
      <4>2. LiveIn(dir) \in SUBSET (1 .. Len(dir)) /\ Len(dir) \in Nat
            /\ NamesIn(dir)[n] = NameAt(dir, n) /\ NamesIn(dir)[n] \in Names
        BY LiveFacts
      <4>3. n \in LiveIn(dir) /\ CountTo(LiveIn(dir), n - 1) >= skip /\ MaxFiles \in Nat
        BY <1>1, <3>2, <3>3 DEF Live, before
      <4>4. UpTo(Append(names, NamesIn(dir)[n]), LiveIn(dir), NamesIn(dir), skip, MaxFiles, n)
        BY <4>1, <4>2, <4>3, UpToAppend
      <4> QED BY <3>6, <4>2, <4>4
    <3> HIDE DEF next, longer
    <3>8. next.rows = longer /\ ~next.over /\ next.long = NoName /\ next.skipped = acc.skipped
      BY <1>1, <1>12, <3>1 DEF AfterGap
    <3>9. \A k \in 1 .. Len(longer) : longer[k].to = longer[k].name[2]
      <4> SUFFICES ASSUME NEW k \in 1 .. Len(longer) PROVE longer[k].to = longer[k].name[2]
        OBVIOUS
      <4>1. k = Len(acc.rows) + 1 \/ k \in 1 .. Len(acc.rows)
        BY <1>1, <3>5
      <4> QED BY <1>9, <3>4, <3>5, <4>1
    <3> QED BY <2>0, <3>2, <3>3, <3>7, <3>8, <3>9 DEF Follows, count
  <2> QED BY <1>2, <1>12, <2>1, <2>2, <2>3, <2>4
<1> QED BY <1>1, <1>10, <1>11, <1>12

LEMMA ListingFollows ==
  ASSUME NEW dir, IsSector(dir), Written(dir), NEW skip \in Nat, NEW start \in Starts
  PROVE  \A n \in 0 .. Len(dir) : Follows(Listing(dir, skip, start)[n], dir, skip, n)
<1> DEFINE acc == Listing(dir, skip, start)
           Good(n) == Follows(acc[n], dir, skip, n)
           S == {n \in Nat : n <= Len(dir) => Good(n)}
<1>1. Len(dir) \in Nat
  BY SectorFacts
<1>2. acc[0] = NoRows /\ \A n \in 1 .. Len(dir) : acc[n] = Listed(acc[n - 1], dir[n], skip, start)
  BY <1>1, ListingRecurs
<1>3. \A n \in 0 .. Len(dir) : acc[n] \in Accs(skip, start) /\ Len(acc[n].rows) <= MaxFiles
  BY ListingFits
<1> HIDE DEF acc
<1>4. Good(0)
  <2>1. acc[0].rows = <<>> /\ acc[0].skipped = 0 /\ acc[0].long = NoName /\ acc[0].over = FALSE
    BY <1>2 DEF NoRows
  <2>2. NamesOf(<<>>) = <<>> /\ Len(<<>>) = 0
    BY DEF NamesOf
  <2>3. UpTo(<<>>, LiveIn(dir), NamesIn(dir), skip, MaxFiles, 0)
    BY BoundsAssumption, LiveFacts, UpToNothing
  <2>4. Within(CountTo(LiveIn(dir), 0), skip) = 0
    BY LiveFacts, CountSteps DEF Within
  <2>5. NoEnd(dir, 0) /\ Waiting(dir, 0) = NoName
    BY DEF NoEnd, Waiting
  <2> QED BY <2>1, <2>2, <2>3, <2>4, <2>5 DEF Follows
<1>5. ASSUME NEW n \in Nat, n \in S
      PROVE  n + 1 \in S
  <2>1. SUFFICES ASSUME n + 1 <= Len(dir) PROVE Good(n + 1)
    OBVIOUS
  <2>2. n + 1 \in 1 .. Len(dir) /\ n + 1 - 1 = n /\ n \in 0 .. Len(dir) /\ Good(n)
    BY <1>1, <1>5, <2>1
  <2>3. acc[n + 1] = Listed(acc[n], dir[n + 1], skip, start)
    BY <1>2, <2>2
  <2>4. acc[n] \in Accs(skip, start) /\ Len(acc[n].rows) <= MaxFiles /\ Follows(acc[n], dir, skip, (n + 1) - 1)
    BY <1>3, <2>2
  <2>5. Follows(Listed(acc[n], dir[n + 1], skip, start), dir, skip, n + 1)
    <3> DEFINE m == n + 1
    <3>1. m \in 1 .. Len(dir) /\ Follows(acc[n], dir, skip, m - 1)
      BY <2>2, <2>4
    <3> HIDE DEF m
    <3>2. Follows(Listed(acc[n], dir[m], skip, start), dir, skip, m)
      BY <2>4, <3>1, ListedFollows
    <3> QED BY <3>2 DEF m
  <2> QED BY <2>3, <2>5
<1>6. S = Nat
  <2>1. 0 \in S
    BY <1>4
  <2>2. S \in SUBSET Nat
    OBVIOUS
  <2> HIDE DEF S
  <2> QED BY <1>5, <2>1, <2>2, SetInduction
<1>7. \A n \in 0 .. Len(dir) : Good(n)
  BY <1>1, <1>6
<1> QED BY <1>7 DEF acc

(* A page of a directory is listed as it is.                               *)
LEMMA ListDirFits ==
  ASSUME NEW dir, IsSector(dir), NEW skip \in Nat, NEW start \in Starts
  PROVE  ListDir(dir, skip, start) \in Seq(Rows(start)) /\ Len(ListDir(dir, skip, start)) <= MaxFiles
<1>1. Len(dir) \in 0 .. Len(dir)
  BY SectorFacts
<1>2. Listing(dir, skip, start)[Len(dir)] \in Accs(skip, start) /\ Len(Listing(dir, skip, start)[Len(dir)].rows) <= MaxFiles
  BY <1>1, ListingFits
<1> QED BY <1>2 DEF ListDir, Accs

LEMMA ListDirShows ==
  ASSUME NEW dir, IsSector(dir), Written(dir), NEW skip \in Nat, NEW start \in Starts
  PROVE  /\ Shows(NamesOf(ListDir(dir, skip, start)), LiveIn(dir), NamesIn(dir), skip, MaxFiles)
         /\ \A k \in DOMAIN ListDir(dir, skip, start) : ListDir(dir, skip, start)[k].to = ListDir(dir, skip, start)[k].name[2]
<1> DEFINE list == ListDir(dir, skip, start)
<1>1. Len(dir) \in 0 .. Len(dir)
  BY SectorFacts
<1>2. Follows(Listing(dir, skip, start)[Len(dir)], dir, skip, Len(dir))
  BY <1>1, ListingFollows
<1>3. UpTo(NamesOf(list), LiveIn(dir), NamesIn(dir), skip, MaxFiles, Len(dir)) /\ \A k \in 1 .. Len(list) : list[k].to = list[k].name[2]
  BY <1>2 DEF Follows, ListDir
<1>4. DOMAIN list = 1 .. Len(list)
  BY ListDirFits
<1> HIDE DEF list
<1>5. Shows(NamesOf(list), LiveIn(dir), NamesIn(dir), skip, MaxFiles)
  BY <1>3, BoundsAssumption, LiveFacts, UpToShows
<1> QED BY <1>3, <1>4, <1>5 DEF list

-----------------------------------------------------------------------------
(* fat32_read_root_dir.                                                    *)

Spellers == [names : Seq(Names), has : BOOLEAN, long : Names, over : BOOLEAN]

LEMMA OverSpelled ==
  ASSUME NEW acc, NEW e, acc.over \/ e.kind = "end"
  PROVE  Spelled(acc, e) = [acc EXCEPT !.over = TRUE]
BY DEF Spelled

LEMMA LabelSpelled ==
  ASSUME NEW acc, NEW e, ~acc.over, e.kind = "label"
  PROVE  Spelled(acc, e) = WithoutFlag(acc)
BY DEF Spelled

LEMMA PartSpelled ==
  ASSUME NEW acc, NEW e, ~acc.over, e.kind = "part"
  PROVE  Spelled(acc, e) = [acc EXCEPT !.has = TRUE, !.long = IF e.order = 1 THEN Long(e.name) ELSE @]
BY DEF Spelled

LEMMA DeletedPartSpelled ==
  ASSUME NEW acc, NEW e, ~acc.over, e.kind = "deleted part"
  PROVE  Spelled(acc, e) = [acc EXCEPT !.has = TRUE]
BY DEF Spelled

IsFile(e) == e.kind \in {"file", "folder", "deleted"}

LEMMA FileSpelled ==
  ASSUME NEW acc, NEW e, ~acc.over, IsFile(e)
  PROVE  Spelled(acc, e) =
           WithoutFlag([acc EXCEPT !.names = Append(@, IF acc.has THEN acc.long ELSE Short(e.name)),
                                   !.long = NoName, !.over = Len(acc.names) + 1 = MaxShown])
BY DEF Spelled, IsFile

(* A part of a long name has just been read, of a deleted file or not.     *)
AtPart(dir, n) == n > 0 /\ dir[n].kind \in {"part", "deleted part"}

FilesIn(dir) == Places(dir, {"file", "folder", "deleted"})
ScannedIn(dir) == [i \in DOMAIN dir |-> ScannedName(dir, i)]

LEMMA FilesFacts ==
  ASSUME NEW dir, IsSector(dir)
  PROVE  FilesIn(dir) \in SUBSET (1 .. Len(dir)) /\ Len(dir) \in Nat
BY SectorFacts DEF FilesIn

LEMMA ScannedGiven ==
  ASSUME NEW dir, IsSector(dir), Written(dir), NEW n \in 1 .. Len(dir), IsFile(dir[n])
  PROVE  ScannedIn(dir)[n] = IF AtPart(dir, n - 1) THEN Waiting(dir, n - 1) ELSE Short(dir[n].name)
<1> DEFINE e      == dir[n]
           before == IF n = 1 THEN VolumeId ELSE dir[n - 1]
<1>1. n \in DOMAIN dir /\ n \in Nat /\ n > 0
  BY SectorFacts
<1>2. ScannedIn(dir)[n] = ScannedName(dir, n)
  BY <1>1 DEF ScannedIn
<1>3. n = 1 => before.kind = "label"
  BY DEF VolumeId, Entry
<1>4. n # 1 => n > 1 /\ n - 1 > 0 /\ before = dir[n - 1]
  BY <1>1
<1>5. ScannedName(dir, n) =
        CASE before.kind = "deleted part"                -> NoName
          [] before.kind # "deleted part" /\ IsLive(e)   -> NameAt(dir, n)
          [] before.kind = "part" /\ e.kind = "deleted"  -> IF before.order = 1 THEN Long(before.name) ELSE NoName
          [] OTHER -> Short(e.name)
  BY DEF ScannedName
<1>6. AtPart(dir, n - 1) <=> n # 1 /\ before.kind \in {"part", "deleted part"}
  <2>1. CASE n = 1
    BY <2>1 DEF AtPart
  <2>2. CASE n # 1
    BY <1>4, <2>2 DEF AtPart
  <2> QED BY <2>1, <2>2
<1>7. Waiting(dir, n - 1) =
        IF n # 1 /\ before.kind = "part" /\ before.order = 1 THEN Long(before.name) ELSE NoName
  BY <1>1, <1>4 DEF Waiting
<1>8. IsLive(e) \/ (e.kind = "deleted" /\ ~IsLive(e))
  BY DEF IsFile, IsLive
<1>9. IsLive(e) => /\ Waiting(dir, n - 1) # NoName => NameAt(dir, n) = Waiting(dir, n - 1)
                   /\ Waiting(dir, n - 1) = NoName => NameAt(dir, n) = Short(e.name)
  BY NameGiven
<1>10. IsLive(e) /\ n # 1 /\ before.kind = "part" => before.order = 1
  BY <1>4, PartNamesFile
<1>11. Long(before.name) # NoName
  BY LongIsLong
<1> HIDE DEF e, before
<1>12. CASE n # 1 /\ before.kind = "deleted part"
  BY <1>2, <1>5, <1>6, <1>7, <1>12
<1>13. CASE n # 1 /\ before.kind = "part"
  <2>1. CASE IsLive(e)
    BY <1>2, <1>5, <1>6, <1>7, <1>9, <1>10, <1>11, <1>13, <2>1
  <2>2. CASE e.kind = "deleted" /\ ~IsLive(e)
    BY <1>2, <1>5, <1>6, <1>7, <1>13, <2>2
  <2> QED BY <1>8, <2>1, <2>2
<1>14. CASE n = 1 \/ before.kind \notin {"part", "deleted part"}
  <2>1. before.kind \notin {"part", "deleted part"} /\ Waiting(dir, n - 1) = NoName /\ ~AtPart(dir, n - 1)
    BY <1>3, <1>6, <1>7, <1>14
  <2>2. CASE IsLive(e)
    BY <1>2, <1>5, <1>9, <2>1, <2>2 DEF e
  <2>3. CASE e.kind = "deleted" /\ ~IsLive(e)
    BY <1>2, <1>5, <2>1, <2>3 DEF e
  <2> QED BY <1>8, <2>2, <2>3
<1> QED BY <1>12, <1>13, <1>14

(* What the loop holds when it has come to entry n.                        *)
Spells(acc, dir, n) ==
  /\ acc \in Spellers
  /\ acc.over => ~NoEnd(dir, n) \/ Len(acc.names) = MaxShown
  /\ ~acc.over => /\ NoEnd(dir, n) /\ Len(acc.names) < MaxShown
                  /\ acc.has <=> AtPart(dir, n)
                  /\ acc.long = Waiting(dir, n)
  /\ UpTo(acc.names, FilesIn(dir), ScannedIn(dir), 0, MaxShown, n)

LEMMA SpelledSpells ==
  ASSUME NEW dir, IsSector(dir), Written(dir), NEW n \in 1 .. Len(dir), NEW acc, Spells(acc, dir, n - 1)
  PROVE  Spells(Spelled(acc, dir[n]), dir, n)
<1> DEFINE e == dir[n]
           next == Spelled(acc, e)
           Taken == n \in FilesIn(dir)
           short == Short(e.name)
           name  == IF acc.has THEN acc.long ELSE short
<1>0. SUFFICES Spells(next, dir, n)
  OBVIOUS
<1>1. /\ acc \in Spellers /\ acc.names \in Seq(Names) /\ Len(acc.names) \in Nat /\ acc.has \in BOOLEAN
      /\ acc.long \in Names /\ acc.over \in BOOLEAN /\ MaxShown \in Nat \ {0}
      /\ acc = [names |-> acc.names, has |-> acc.has, long |-> acc.long, over |-> acc.over]
  BY BoundsAssumption DEF Spells, Spellers
<1>2. e.kind \in Kinds /\ e.name \in STRING /\ (e.kind \in {"end", "deleted part", "label", "part"} \/ IsFile(e))
  BY KindsOfEntry DEF IsFile, IsLive
<1>3. /\ n \in Nat /\ n > 0 /\ CountTo(FilesIn(dir), n - 1) \in Nat
      /\ FilesIn(dir) \in SUBSET (1 .. Len(dir)) /\ Len(dir) \in Nat
  <2>1. n \in Nat /\ n > 0 /\ n - 1 \in 0 .. Len(dir)
    BY SectorFacts
  <2>2. FilesIn(dir) \in SUBSET (1 .. Len(dir)) /\ Len(dir) \in Nat
    BY FilesFacts
  <2> QED BY <2>1, <2>2, CountSteps
<1>4. /\ NoEnd(dir, n - 1) /\ IsFile(e) => Taken /\ NoEnd(dir, n)
      /\ NoEnd(dir, n - 1) /\ e.kind # "end" => NoEnd(dir, n)
      /\ ~NoEnd(dir, n - 1) => ~Taken /\ ~NoEnd(dir, n)
      /\ ~IsFile(e) => ~Taken
      /\ e.kind = "end" => ~NoEnd(dir, n)
  <2> HIDE DEF e
  <2> QED BY BehindNoEnd DEF FilesIn, IsFile, e
<1>5. ~Taken \/ Len(acc.names) = MaxShown => UpTo(acc.names, FilesIn(dir), ScannedIn(dir), 0, MaxShown, n)
  BY <1>1, <1>3, UpToSame DEF Spells
<1>6. e.kind \in {"end", "deleted part", "label", "part"} => ~IsFile(e)
  BY DEF IsFile
<1>7. AtPart(dir, n) <=> e.kind \in {"part", "deleted part"}
  BY <1>3 DEF AtPart
<1>8. Long(e.name) \in Names /\ short \in Names /\ NoName \in Names
  BY <1>2, NamesThere, LongIsLong
<1>9. IsFile(e) /\ ~acc.over => ScannedIn(dir)[n] = name
  BY ScannedGiven DEF Spells
<1>10. /\ e.kind # "part" => Waiting(dir, n) = NoName
       /\ e.kind \in {"label", "deleted part"} => Waiting(dir, n - 1) = NoName
       /\ e.kind = "part" => Waiting(dir, n) = IF e.order = 1 THEN Long(e.name) ELSE Waiting(dir, n - 1)
  BY WaitingSteps
<1>11. ~acc.over => acc.long = Waiting(dir, n - 1) /\ NoEnd(dir, n - 1) /\ Len(acc.names) < MaxShown
  BY DEF Spells
<1> HIDE DEF e, Taken, short
<1>12. CASE acc.over \/ e.kind = "end"
  <2>1. next = [acc EXCEPT !.over = TRUE]
    BY <1>12, OverSpelled
  <2> HIDE DEF next
  <2>2. next \in Spellers /\ next.names = acc.names /\ next.over
    BY <1>1, <2>1 DEF Spellers
  <2>3. ~Taken \/ Len(acc.names) = MaxShown
    BY <1>4, <1>6, <1>12 DEF Spells
  <2>4. ~NoEnd(dir, n) \/ Len(acc.names) = MaxShown
    BY <1>4, <1>12 DEF Spells
  <2> QED BY <1>5, <2>2, <2>3, <2>4 DEF Spells
<1>13. CASE ~acc.over /\ e.kind = "label"
  <2>1. next = WithoutFlag(acc)
    BY <1>13, LabelSpelled
  <2> HIDE DEF next
  <2>2. next \in Spellers /\ next.names = acc.names /\ ~next.over /\ ~next.has /\ next.long = acc.long
    BY <1>1, <1>13, <2>1 DEF Spellers, WithoutFlag
  <2>3. NoEnd(dir, n) /\ ~Taken /\ ~AtPart(dir, n) /\ Waiting(dir, n) = acc.long
    BY <1>4, <1>6, <1>7, <1>10, <1>11, <1>13
  <2> QED BY <1>5, <1>11, <1>13, <2>2, <2>3 DEF Spells
<1>14. CASE ~acc.over /\ e.kind = "part"
  <2>1. next = [acc EXCEPT !.has = TRUE, !.long = IF e.order = 1 THEN Long(e.name) ELSE @]
    BY <1>14, PartSpelled
  <2> HIDE DEF next
  <2>2. /\ next \in Spellers /\ next.names = acc.names /\ ~next.over /\ next.has
        /\ next.long = IF e.order = 1 THEN Long(e.name) ELSE acc.long
    BY <1>1, <1>8, <1>14, <2>1 DEF Spellers
  <2>3. NoEnd(dir, n) /\ ~Taken /\ AtPart(dir, n) /\ Waiting(dir, n) = IF e.order = 1 THEN Long(e.name) ELSE acc.long
    BY <1>4, <1>6, <1>7, <1>10, <1>11, <1>14
  <2> QED BY <1>5, <1>11, <1>14, <2>2, <2>3 DEF Spells
<1>15. CASE ~acc.over /\ e.kind = "deleted part"
  <2>1. next = [acc EXCEPT !.has = TRUE]
    BY <1>15, DeletedPartSpelled
  <2> HIDE DEF next
  <2>2. next \in Spellers /\ next.names = acc.names /\ ~next.over /\ next.has /\ next.long = acc.long
    BY <1>1, <1>15, <2>1 DEF Spellers
  <2>3. NoEnd(dir, n) /\ ~Taken /\ AtPart(dir, n) /\ Waiting(dir, n) = acc.long
    BY <1>4, <1>6, <1>7, <1>10, <1>11, <1>15
  <2> QED BY <1>5, <1>11, <1>15, <2>2, <2>3 DEF Spells
<1>16. CASE ~acc.over /\ IsFile(e)
  <2> DEFINE longer == Append(acc.names, name)
             full   == Len(acc.names) + 1 = MaxShown
  <2>1. next = WithoutFlag([acc EXCEPT !.names = longer, !.long = NoName, !.over = full])
    BY <1>16, FileSpelled DEF short
  <2>2. name \in Names
    BY <1>1, <1>8
  <2> HIDE DEF name
  <2>3. longer \in Seq(Names) /\ Len(longer) = Len(acc.names) + 1
    BY <1>1, <2>2
  <2>4. /\ NoEnd(dir, n) /\ Taken /\ Len(acc.names) < MaxShown /\ ~AtPart(dir, n)
        /\ Waiting(dir, n) = NoName /\ ScannedIn(dir)[n] = name
    BY <1>4, <1>7, <1>9, <1>10, <1>11, <1>16 DEF IsFile
  <2>5. UpTo(longer, FilesIn(dir), ScannedIn(dir), 0, MaxShown, n)
    <3>1. /\ UpTo(acc.names, FilesIn(dir), ScannedIn(dir), 0, MaxShown, n - 1)
          /\ CountTo(FilesIn(dir), n - 1) >= 0 /\ n \in FilesIn(dir) /\ ScannedIn(dir)[n] \in Names
      BY <1>3, <2>2, <2>4 DEF Spells, Taken
    <3>2. UpTo(Append(acc.names, ScannedIn(dir)[n]), FilesIn(dir), ScannedIn(dir), 0, MaxShown, n)
      BY <1>1, <1>3, <2>4, <3>1, UpToAppend
    <3> QED BY <2>4, <3>2
  <2>6. full \in BOOLEAN /\ (full <=> Len(longer) = MaxShown) /\ (~full => Len(longer) < MaxShown)
    BY <1>1, <2>3, <2>4
  <2> HIDE DEF next, longer, full
  <2>7. next = [names |-> longer, has |-> FALSE, long |-> NoName, over |-> full]
    BY <1>1, <2>1 DEF WithoutFlag
  <2>8. next \in Spellers /\ next.names = longer /\ (next.over <=> full) /\ ~next.has /\ next.long = NoName
    BY <1>8, <2>3, <2>6, <2>7 DEF Spellers
  <2> QED BY <2>4, <2>5, <2>6, <2>8 DEF Spells
<1> QED BY <1>1, <1>2, <1>12, <1>13, <1>14, <1>15, <1>16

LEMMA ReadRootDirShows ==
  ASSUME NEW dir, IsSector(dir), Written(dir)
  PROVE  Shows(ReadRootDir(dir), FilesIn(dir), ScannedIn(dir), 0, MaxShown)
<1> DEFINE acc == Spelling(dir)
           Good(n) == Spells(acc[n], dir, n)
           S == {n \in Nat : n <= Len(dir) => Good(n)}
<1>1. Len(dir) \in Nat
  BY SectorFacts
<1>2. acc[0] = NoNames /\ \A n \in 1 .. Len(dir) : acc[n] = Spelled(acc[n - 1], dir[n])
  BY <1>1, SpellingRecurs
<1> HIDE DEF acc
<1>3. Good(0)
  <2>1. acc[0] = [names |-> <<>>, has |-> FALSE, long |-> NoName, over |-> FALSE]
    BY <1>2 DEF NoNames
  <2>2. <<>> \in Seq(Names) /\ Len(<<>>) = 0 /\ NoName \in Names
    BY LongIsLong
  <2>3. UpTo(<<>>, FilesIn(dir), ScannedIn(dir), 0, MaxShown, 0)
    BY BoundsAssumption, FilesFacts, UpToNothing
  <2>4. NoEnd(dir, 0) /\ ~AtPart(dir, 0) /\ Waiting(dir, 0) = NoName
    BY DEF NoEnd, AtPart, Waiting
  <2> QED BY <2>1, <2>2, <2>3, <2>4, BoundsAssumption DEF Spells, Spellers
<1>4. ASSUME NEW n \in Nat, n \in S
      PROVE  n + 1 \in S
  <2>1. SUFFICES ASSUME n + 1 <= Len(dir) PROVE Good(n + 1)
    OBVIOUS
  <2>2. n + 1 \in 1 .. Len(dir) /\ n + 1 - 1 = n /\ Good(n)
    BY <1>1, <1>4, <2>1
  <2>3. acc[n + 1] = Spelled(acc[n], dir[n + 1])
    BY <1>2, <2>2
  <2> QED BY <2>2, <2>3, SpelledSpells
<1>5. S = Nat
  <2>1. 0 \in S
    BY <1>3
  <2>2. S \in SUBSET Nat
    OBVIOUS
  <2> HIDE DEF S
  <2> QED BY <1>4, <2>1, <2>2, SetInduction
<1>6. Good(Len(dir))
  BY <1>1, <1>5
<1>7. UpTo(ReadRootDir(dir), FilesIn(dir), ScannedIn(dir), 0, MaxShown, Len(dir))
  BY <1>6 DEF Spells, ReadRootDir, acc
<1> QED BY <1>7, BoundsAssumption, FilesFacts, UpToShows

-----------------------------------------------------------------------------
(* scan_partitions, and what PART prints of it.                            *)

LEMMA CountedIsSeq ==
  ASSUME NEW table \in Seq(Nat)
  PROVE  Used(table) \in Seq(Nat)
<1> DEFINE c == Counted(table)
           Good(n) == c[n] \in Seq(Nat)
           S == {n \in Nat : n <= Len(table) => Good(n)}
<1>1. Len(table) \in Nat /\ \A n \in 1 .. Len(table) : table[n] \in Nat
  OBVIOUS
<1>2. /\ c[0] = <<>>
      /\ \A n \in 1 .. Len(table) : c[n] = IF table[n] = 0 THEN c[n - 1] ELSE Append(c[n - 1], table[n])
  BY <1>1, CountedRecurs
<1> HIDE DEF c
<1>3. 0 \in S
  <2>1. <<>> \in Seq(Nat)
    OBVIOUS
  <2> QED BY <1>2, <2>1
<1>4. ASSUME NEW n \in Nat, n \in S
      PROVE  n + 1 \in S
  <2>1. SUFFICES ASSUME n + 1 <= Len(table) PROVE Good(n + 1)
    OBVIOUS
  <2>2. n + 1 \in 1 .. Len(table) /\ n + 1 - 1 = n /\ Good(n)
    BY <1>1, <1>4, <2>1
  <2>3. c[n + 1] = IF table[n + 1] = 0 THEN c[n] ELSE Append(c[n], table[n + 1])
    BY <1>2, <2>2
  <2>4. table[n + 1] \in Nat
    BY <1>1, <2>2
  <2> QED BY <2>2, <2>3, <2>4
<1>5. S = Nat
  <2>1. S \in SUBSET Nat
    OBVIOUS
  <2> HIDE DEF S
  <2> QED BY <1>3, <1>4, <2>1, SetInduction
<1>6. Good(Len(table))
  BY <1>1, <1>5
<1> QED BY <1>6 DEF Used, c

LEMMA UsedMbrIsSeq ==
  ASSUME NEW table \in Seq(Nat \X Nat)
  PROVE  UsedMbr(table) \in Seq(Nat)
<1> DEFINE first == [i \in DOMAIN table |-> IF table[i][1] = 0 THEN 0 ELSE table[i][2]]
           m == Len(table)
<1>1. m \in Nat /\ DOMAIN table = 1 .. m /\ \A i \in 1 .. m : table[i] \in Nat \X Nat
  OBVIOUS
<1>2. \A i \in 1 .. m : table[i][2] \in Nat
  BY <1>1
<1>3. first \in [1 .. m -> Nat]
  BY <1>1, <1>2
<1> HIDE DEF first, m
<1>4. first \in Seq(Nat)
  BY <1>1, <1>3, SeqDef
<1>5. Used(first) \in Seq(Nat)
  BY <1>4, CountedIsSeq
<1> QED BY <1>5 DEF UsedMbr, first

(* The lines of port p in a list are a row that says "own".                *)
OwnLines(list, p, own) ==
  \E above \in 0 .. Len(list) :
    /\ {i \in DOMAIN list : list[i][1] = p} = above + 1 .. above + Len(own)
    /\ \A i \in 1 .. Len(own) : list[above + i][2] = own[i]

Lines == Nat \X Nat

(* What PART prints of port q.                                             *)
LinesOn(q, vals) == [i \in DOMAIN vals |-> <<q, vals[i]>>]

LEMMA Concatenated ==
  ASSUME NEW S, NEW list \in Seq(S), NEW more \in Seq(S)
  PROVE  /\ list \o more \in Seq(S) /\ Len(list \o more) = Len(list) + Len(more)
         /\ DOMAIN (list \o more) = 1 .. Len(list) + Len(more)
         /\ Len(list) \in Nat /\ Len(more) \in Nat
         /\ \A i \in 1 .. Len(list) : (list \o more)[i] = list[i]
         /\ \A i \in Len(list) + 1 .. Len(list) + Len(more) :
              (list \o more)[i] = more[i - Len(list)] /\ i - Len(list) \in 1 .. Len(more)
         /\ \A i \in 1 .. Len(list \o more) :
              \/ i \in 1 .. Len(list) /\ (list \o more)[i] = list[i]
              \/ i - Len(list) \in 1 .. Len(more) /\ (list \o more)[i] = more[i - Len(list)]
OBVIOUS

LEMMA LinesStay ==
  ASSUME NEW list \in Seq(Lines), NEW more \in Seq(Lines), NEW p, NEW own \in Seq(Nat),
         \A i \in 1 .. Len(more) : more[i][1] # p, OwnLines(list, p, own)
  PROVE  OwnLines(list \o more, p, own)
<1> DEFINE longer == list \o more
           m == Len(list)
           k == Len(more)
<1>1. /\ longer \in Seq(Lines) /\ Len(longer) = m + k /\ m \in Nat /\ k \in Nat /\ Len(own) \in Nat
      /\ DOMAIN longer = 1 .. m + k /\ DOMAIN list = 1 .. m
      /\ \A i \in 1 .. m : longer[i] = list[i]
      /\ \A i \in m + 1 .. m + k : longer[i] = more[i - m] /\ i - m \in 1 .. k
  OBVIOUS
<1>2. PICK above \in 0 .. m : /\ {i \in DOMAIN list : list[i][1] = p} = above + 1 .. above + Len(own)
                              /\ \A i \in 1 .. Len(own) : list[above + i][2] = own[i]
  BY DEF OwnLines
<1> HIDE DEF longer, m, k
<1>3. \A i \in 1 .. m + k : i \in 1 .. m \/ i \in m + 1 .. m + k
  BY <1>1
<1>4. \A i \in 1 .. m : i \in 1 .. m + k
  BY <1>1
<1>5. \A i \in 1 .. m + k : longer[i][1] = p <=> i \in 1 .. m /\ list[i][1] = p
  <2> SUFFICES ASSUME NEW i \in 1 .. m + k
               PROVE  longer[i][1] = p <=> i \in 1 .. m /\ list[i][1] = p
    OBVIOUS
  <2>1. CASE i \in 1 .. m
    BY <1>1, <2>1
  <2>2. CASE i \in m + 1 .. m + k
    <3>1. longer[i][1] # p
      BY <1>1, <2>2 DEF k
    <3>2. i \notin 1 .. m
      BY <1>1, <2>2
    <3> QED BY <3>1, <3>2
  <2> QED BY <1>3, <2>1, <2>2
<1>6. {i \in DOMAIN longer : longer[i][1] = p} = {i \in DOMAIN list : list[i][1] = p}
  BY <1>1, <1>4, <1>5
<1>7. \A i \in 1 .. Len(own) : above + i \in 1 .. m
  <2> SUFFICES ASSUME NEW i \in 1 .. Len(own) PROVE above + i \in 1 .. m
    OBVIOUS
  <2>1. above + i \in above + 1 .. above + Len(own)
    BY <1>1
  <2> QED BY <1>1, <1>2, <2>1
<1>8. \A i \in 1 .. Len(own) : longer[above + i][2] = own[i]
  BY <1>1, <1>2, <1>7
<1>9. above \in 0 .. Len(longer)
  BY <1>1
<1> QED BY <1>2, <1>6, <1>8, <1>9 DEF OwnLines, longer

LEMMA LinesAdded ==
  ASSUME NEW list \in Seq(Lines), NEW q \in Nat, NEW vals \in Seq(Nat),
         \A i \in 1 .. Len(list) : list[i][1] # q
  PROVE  /\ LinesOn(q, vals) \in Seq(Lines) /\ Len(LinesOn(q, vals)) = Len(vals)
         /\ \A i \in 1 .. Len(LinesOn(q, vals)) : LinesOn(q, vals)[i][1] = q
         /\ OwnLines(list \o LinesOn(q, vals), q, vals)
<1> DEFINE more == LinesOn(q, vals)
           longer == list \o more
           m == Len(list)
           k == Len(vals)
<1>1. m \in Nat /\ DOMAIN list = 1 .. m /\ k \in Nat /\ DOMAIN vals = 1 .. k /\ \A i \in 1 .. k : vals[i] \in Nat
  OBVIOUS
<1>2. more \in [1 .. k -> Lines] /\ \A i \in 1 .. k : more[i][1] = q /\ more[i][2] = vals[i]
  BY <1>1 DEF Lines, LinesOn
<1> HIDE DEF more, m, k
<1>3. more \in Seq(Lines)
  BY <1>1, <1>2, SeqDef
<1>4. Len(more) = k
  <2>1. DOMAIN more = 1 .. k
    BY <1>2
  <2> QED BY <1>1, <1>3, <2>1, LenProperties
<1>5. /\ longer \in Seq(Lines) /\ Len(longer) = m + k /\ DOMAIN longer = 1 .. m + k
      /\ \A i \in 1 .. m : longer[i] = list[i]
      /\ \A i \in m + 1 .. m + k : longer[i] = more[i - m] /\ i - m \in 1 .. k
  <2>1. /\ list \o more \in Seq(Lines) /\ Len(list \o more) = Len(list) + Len(more)
        /\ DOMAIN (list \o more) = 1 .. Len(list) + Len(more)
        /\ \A i \in 1 .. Len(list) : (list \o more)[i] = list[i]
        /\ \A i \in Len(list) + 1 .. Len(list) + Len(more) :
             (list \o more)[i] = more[i - Len(list)] /\ i - Len(list) \in 1 .. Len(more)
    BY <1>3
  <2> QED BY <1>4, <2>1 DEF m
<1> HIDE DEF longer
<1>6. \A i \in 1 .. m + k : longer[i][1] = q <=> i \in m + 1 .. m + k
  <2> SUFFICES ASSUME NEW i \in 1 .. m + k
               PROVE  longer[i][1] = q <=> i \in m + 1 .. m + k
    OBVIOUS
  <2>1. CASE i \in 1 .. m
    <3>1. longer[i][1] # q
      BY <1>5, <2>1 DEF m
    <3>2. i \notin m + 1 .. m + k
      BY <1>1, <2>1
    <3> QED BY <3>1, <3>2
  <2>2. CASE i \in m + 1 .. m + k
    BY <1>2, <1>5, <2>2
  <2>3. i \in 1 .. m \/ i \in m + 1 .. m + k
    BY <1>1
  <2> QED BY <2>1, <2>2, <2>3
<1>7. \A i \in m + 1 .. m + k : i \in 1 .. m + k
  BY <1>1
<1>8. {i \in DOMAIN longer : longer[i][1] = q} = m + 1 .. m + k
  BY <1>5, <1>6, <1>7
<1>9. \A i \in 1 .. k : longer[m + i][2] = vals[i]
  <2> SUFFICES ASSUME NEW i \in 1 .. k PROVE longer[m + i][2] = vals[i]
    OBVIOUS
  <2>1. m + i \in m + 1 .. m + k /\ (m + i) - m = i
    BY <1>1
  <2> DEFINE j == m + i
  <2> HIDE DEF j
  <2>2. longer[m + i] = more[i]
    <3>1. j \in m + 1 .. m + k /\ j - m = i
      BY <2>1 DEF j
    <3>2. longer[j] = more[j - m]
      BY <1>5, <3>1, Zenon
    <3>3. longer[j] = more[i]
      BY <3>1, <3>2, Zenon
    <3> QED BY <3>3, Zenon DEF j
  <2> QED BY <1>2, <2>2
<1>10. m \in 0 .. Len(longer)
  BY <1>1, <1>5
<1>11. OwnLines(longer, q, vals)
  BY <1>8, <1>9, <1>10 DEF OwnLines, k
<1> QED BY <1>2, <1>3, <1>4, <1>11 DEF more, k, longer

-----------------------------------------------------------------------------
(* The invariant of PART.                                                  *)

Disks == [gpt : BOOLEAN, signed : BOOLEAN, table : Tables, mbr : Mbrs]

(* What a port's lines may say.                                            *)
Answers(p) ==
  {<<>>, UsedMbr(disk[p].mbr)} \cup IF disk[p].gpt THEN {Used(disk[p].table)} ELSE {}

PartInv ==
  /\ port \in 0 .. Cardinality(Ports)
  /\ reader # "PART" => port = 0
  /\ reader = "PART" => disk \in [Ports -> Disks]
  /\ live \subseteq Ports /\ sector \in Sectors /\ sure \subseteq Ports
  /\ printed \in Seq(Lines) /\ \A i \in 1 .. Len(printed) : printed[i][1] < port
  /\ \A p \in sure : p < port /\ \E own \in Answers(p) : OwnLines(printed, p, own)

LEMMA PartsAreOwn == PartInv => PartitionsAreOwn
BY DEF PartInv, PartitionsAreOwn, Answers, OwnLines, LinesOf

LEMMA PortsAreNumbers ==
  Cardinality(Ports) \in Nat /\ \A p \in Ports : p \in Nat /\ p + 1 <= Cardinality(Ports)
<1>1. Cardinality(Ports) \in Nat
  BY PortsAssumption, FS_CardinalityType
<1> DEFINE n == Cardinality(Ports)
<1>2. Ports = 0 .. n - 1
  BY PortsAssumption
<1> HIDE DEF n
<1> QED BY <1>1, <1>2 DEF n

LEMMA AnswersAreSeqs ==
  ASSUME PartInv, reader = "PART", NEW p \in Ports
  PROVE  \A own \in Answers(p) : own \in Seq(Nat)
<1>1. disk[p] \in Disks
  BY DEF PartInv
<1>2. disk[p].table \in Seq(Nat) /\ disk[p].mbr \in Seq(Nat \X Nat)
  BY <1>1, TablesAssumption DEF Disks
<1>3. Used(disk[p].table) \in Seq(Nat) /\ UsedMbr(disk[p].mbr) \in Seq(Nat) /\ <<>> \in Seq(Nat)
  BY <1>2, CountedIsSeq, UsedMbrIsSeq
<1> QED BY <1>3 DEF Answers

LEMMA MisreadIsSeq == Misread \subseteq Seq(Nat)
<1>1. \A t \in Tables : Used(t) \in Seq(Nat)
  <2> SUFFICES ASSUME NEW t \in Tables PROVE Used(t) \in Seq(Nat)
    OBVIOUS
  <2>1. t \in Seq(Nat)
    BY TablesAssumption
  <2> QED BY <2>1, CountedIsSeq
<1>2. <<>> \in Seq(Nat)
  OBVIOUS
<1> QED BY <1>1, <1>2 DEF Misread

LEMMA SectorKinds ==
  ASSUME NEW p \in Ports, NEW kind \in {"header", "table", "mbr"}
  PROVE  <<kind, p>> \in Sectors /\ <<kind, p>>[1] = kind /\ <<kind, p>>[2] = p
BY DEF Sectors

LEMMA ReadsFound ==
  ASSUME PartInv, NEW p \in Ports, NEW kind \in {"header", "table", "mbr"}, NEW before \in Sectors,
         NEW r \in Reads(p, kind, before)
  PROVE  r.ok \in BOOLEAN /\ r.sector \in Sectors /\ (p \in live /\ r.ok => r.sector = <<kind, p>>)
<1> DEFINE own == <<kind, p>>
<1>1. own \in Sectors
  BY SectorKinds
<1> HIDE DEF own
<1>2. \/ r = [ok |-> FALSE, sector |-> before]
      \/ p \in live /\ \E worked \in BOOLEAN : r = [ok |-> worked, sector |-> own]
      \/ p \notin live /\ r = [ok |-> TRUE, sector |-> before]
  BY DEF Reads, own
<1>3. r.ok \in BOOLEAN /\ r.sector \in Sectors /\ (p \in live /\ r.ok => r.sector = own)
  <2>1. CASE r = [ok |-> FALSE, sector |-> before]
    BY <2>1
  <2>2. CASE p \in live /\ \E worked \in BOOLEAN : r = [ok |-> worked, sector |-> own]
    BY <1>1, <2>2
  <2>3. CASE p \notin live /\ r = [ok |-> TRUE, sector |-> before]
    BY <2>3
  <2> QED BY <1>2, <2>1, <2>2, <2>3
<1> QED BY <1>3 DEF own

LEMMA SectorsSay ==
  ASSUME PartInv, reader = "PART", NEW s \in Sectors
  PROVE  AsTable(s) \subseteq Seq(Nat) /\ AsMbr(s) \subseteq Seq(Nat)
<1>1. s[1] \in {"table", "mbr"} => s[2] \in Ports
  BY DEF Sectors
<1>2. ASSUME s[2] \in Ports
      PROVE  Used(disk[s[2]].table) \in Seq(Nat) /\ UsedMbr(disk[s[2]].mbr) \in Seq(Nat)
  <2>1. disk[s[2]] \in Disks
    BY <1>2 DEF PartInv
  <2>2. disk[s[2]].table \in Seq(Nat) /\ disk[s[2]].mbr \in Seq(Nat \X Nat)
    BY <2>1, TablesAssumption DEF Disks
  <2> QED BY <2>2, CountedIsSeq, UsedMbrIsSeq
<1>3. <<>> \in Seq(Nat)
  OBVIOUS
<1> QED BY <1>1, <1>2, <1>3, MisreadIsSeq DEF AsTable, AsMbr

(* Whatever the port does, numbers; of one that transfers, its own.        *)
LEMMA ScansAnswer ==
  ASSUME PartInv, reader = "PART", NEW p \in Ports, ScanPartitions(p)
  PROVE  /\ starts' \in Seq(Nat) /\ sector' \in Sectors
         /\ p \in live /\ ~late => starts' \in Answers(p)
<1>0. PICK first \in Reads(p, "header", sector) :
        \E gpt \in AsHeader(first.sector) : LET kind == IF first.ok /\ gpt THEN "table" ELSE "mbr" IN
        \E second \in Reads(p, kind, first.sector) :
          \E found \in IF late THEN Misread ELSE IF ~second.ok THEN {<<>>}
                       ELSE IF kind = "table" THEN AsTable(second.sector) ELSE AsMbr(second.sector) :
            starts' = Before \o found /\ sector' = second.sector
  BY DEF ScanPartitions
<1>1. PICK gpt \in AsHeader(first.sector) : LET kind == IF first.ok /\ gpt THEN "table" ELSE "mbr" IN
        \E second \in Reads(p, kind, first.sector) :
          \E found \in IF late THEN Misread ELSE IF ~second.ok THEN {<<>>}
                       ELSE IF kind = "table" THEN AsTable(second.sector) ELSE AsMbr(second.sector) :
            starts' = Before \o found /\ sector' = second.sector
  BY <1>0
<1> DEFINE kind == IF first.ok /\ gpt THEN "table" ELSE "mbr"
<1>2. PICK second \in Reads(p, kind, first.sector) :
        \E found \in IF late THEN Misread ELSE IF ~second.ok THEN {<<>>}
                     ELSE IF kind = "table" THEN AsTable(second.sector) ELSE AsMbr(second.sector) :
          starts' = Before \o found /\ sector' = second.sector
  BY <1>1
<1>3. PICK found \in IF late THEN Misread ELSE IF ~second.ok THEN {<<>>}
                    ELSE IF kind = "table" THEN AsTable(second.sector) ELSE AsMbr(second.sector) :
        starts' = Before \o found /\ sector' = second.sector
  BY <1>2
<1>4. sector \in Sectors
  BY DEF PartInv
<1>5. first.ok \in BOOLEAN /\ first.sector \in Sectors /\ (p \in live /\ first.ok => first.sector = <<"header", p>>)
  BY <1>4, ReadsFound
<1>6. kind \in {"header", "table", "mbr"} /\ (kind = "table" <=> first.ok /\ gpt)
  OBVIOUS
<1> HIDE DEF kind
<1>7. second.ok \in BOOLEAN /\ second.sector \in Sectors /\ (p \in live /\ second.ok => second.sector = <<kind, p>>)
  BY <1>5, <1>6, ReadsFound
<1>8. found \in Seq(Nat)
  <2>1. <<>> \in Seq(Nat)
    OBVIOUS
  <2> QED BY <1>3, <1>7, <2>1, MisreadIsSeq, SectorsSay
<1>9. starts' = found
  <2>1. <<>> \o found = found
    BY <1>8
  <2> QED BY <1>3, <2>1 DEF Before
<1>10. ASSUME p \in live, ~late
       PROVE  found \in Answers(p)
  <2>1. <<>> \in Answers(p) /\ UsedMbr(disk[p].mbr) \in Answers(p)
        /\ (disk[p].gpt => Used(disk[p].table) \in Answers(p))
    BY DEF Answers
  <2>2. CASE ~second.ok
    BY <1>3, <1>10, <2>1, <2>2
  <2>3. CASE second.ok /\ kind = "table"
    <3>1. found \in AsTable(<<"table", p>>)
      BY <1>3, <1>7, <1>10, <2>3
    <3>2. disk[p].gpt
      <4>1. gpt \in AsHeader(<<"header", p>>) /\ gpt
        BY <1>1, <1>5, <1>6, <1>10, <2>3
      <4>2. AsHeader(<<"header", p>>) = {disk[p].gpt}
        BY SectorKinds DEF AsHeader
      <4> QED BY <4>1, <4>2
    <3>3. AsTable(<<"table", p>>) = {Used(disk[p].table)}
      BY SectorKinds DEF AsTable
    <3> QED BY <2>1, <3>1, <3>2, <3>3
  <2>4. CASE second.ok /\ kind # "table"
    <3>1. kind = "mbr"
      BY <2>4 DEF kind
    <3>2. found \in AsMbr(<<"mbr", p>>)
      BY <1>3, <1>7, <1>10, <2>4, <3>1
    <3>3. AsMbr(<<"mbr", p>>) = {IF disk[p].signed THEN UsedMbr(disk[p].mbr) ELSE <<>>}
      BY SectorKinds DEF AsMbr
    <3> QED BY <2>1, <3>2, <3>3
  <2> QED BY <1>7, <2>2, <2>3, <2>4
<1> QED BY <1>3, <1>7, <1>8, <1>9, <1>10

LEMMA PartPortKeeps ==
  ASSUME PartInv, PartPort
  PROVE  PartInv'
<1>1. /\ reader = "PART" /\ port \in Ports /\ port \in Nat /\ port + 1 \in 0 .. Cardinality(Ports)
      /\ port' = port + 1 /\ reader' = reader /\ disk' = disk /\ live' = live
      /\ sure' = IF port \in live /\ ~late THEN sure \cup {port} ELSE sure
  BY PortsAreNumbers DEF PartPort
<1> DEFINE more == LinesOn(port, starts')
<1>2. printed' = printed \o more
  BY DEF PartPort, LinesOn
<1>3. /\ starts' \in Seq(Nat) /\ sector' \in Sectors
      /\ port \in live /\ ~late => starts' \in Answers(port)
  BY <1>1, ScansAnswer DEF PartPort
<1>4. /\ printed \in Seq(Lines) /\ Len(printed) \in Nat
      /\ \A i \in 1 .. Len(printed) : printed[i][1] < port /\ printed[i][1] # port /\ printed[i][1] \in Nat
  <2>1. printed \in Seq(Lines) /\ \A i \in 1 .. Len(printed) : printed[i][1] < port
    BY DEF PartInv
  <2>2. \A i \in 1 .. Len(printed) : printed[i] \in Lines
    BY <2>1
  <2>3. \A i \in 1 .. Len(printed) : printed[i][1] \in Nat
    BY <2>2 DEF Lines
  <2> QED BY <1>1, <2>1, <2>3
<1>5. /\ more \in Seq(Lines) /\ Len(more) = Len(starts')
      /\ \A i \in 1 .. Len(more) : more[i][1] = port
      /\ OwnLines(printed \o more, port, starts')
  <2> DEFINE vals == starts'
  <2>1. vals \in Seq(Nat)
    BY <1>3
  <2> HIDE DEF vals
  <2>2. \A i \in 1 .. Len(printed) : printed[i][1] # port
    BY <1>4
  <2>3. /\ LinesOn(port, vals) \in Seq(Lines) /\ Len(LinesOn(port, vals)) = Len(vals)
        /\ \A i \in 1 .. Len(LinesOn(port, vals)) : LinesOn(port, vals)[i][1] = port
        /\ OwnLines(printed \o LinesOn(port, vals), port, vals)
    BY <1>1, <1>4, <2>1, <2>2, LinesAdded
  <2> QED BY <2>3 DEF vals
<1> HIDE DEF more
<1>6. printed' \in Seq(Lines) /\ \A i \in 1 .. Len(printed') : printed'[i][1] < port'
  <2>1. /\ printed \o more \in Seq(Lines)
        /\ \A i \in 1 .. Len(printed \o more) :
             \/ i \in 1 .. Len(printed) /\ (printed \o more)[i] = printed[i]
             \/ i - Len(printed) \in 1 .. Len(more) /\ (printed \o more)[i] = more[i - Len(printed)]
    <3>1. Len(more) \in Nat
      BY <1>5
    <3> QED BY <1>4, <1>5, <3>1, Concatenated
  <2>2. port < port + 1 /\ \A n \in Nat : n < port => n < port + 1
    BY <1>1
  <2>3. \A i \in 1 .. Len(printed \o more) : (printed \o more)[i][1] < port + 1
    <3> SUFFICES ASSUME NEW i \in 1 .. Len(printed \o more) PROVE (printed \o more)[i][1] < port + 1
      OBVIOUS
    <3>1. CASE i \in 1 .. Len(printed) /\ (printed \o more)[i] = printed[i]
      BY <1>4, <2>2, <3>1
    <3>2. CASE i - Len(printed) \in 1 .. Len(more) /\ (printed \o more)[i] = more[i - Len(printed)]
      BY <1>5, <2>2, <3>2
    <3> QED BY <2>1, <3>1, <3>2
  <2>4. printed' = printed \o more /\ port' = port + 1
    BY <1>1, <1>2
  <2> HIDE DEF more
  <2> QED BY <2>1, <2>3, <2>4
<1>7. ASSUME NEW p \in sure'
      PROVE  p < port' /\ \E own \in Answers(p)' : OwnLines(printed', p, own)
  <2>1. Answers(p)' = Answers(p)
    BY <1>1 DEF Answers
  <2>2. CASE p = port /\ port \in live /\ ~late
    BY <1>1, <1>2, <1>3, <1>5, <2>1, <2>2
  <2>3. CASE p \in sure
    <3>1. p \in Ports /\ p < port /\ p \in Nat
      BY <2>3, PortsAreNumbers DEF PartInv
    <3>2. PICK own \in Answers(p) : OwnLines(printed, p, own)
      BY <2>3 DEF PartInv
    <3>3. own \in Seq(Nat)
      BY <1>1, <3>1, AnswersAreSeqs
    <3>4. \A i \in 1 .. Len(more) : more[i][1] # p
      BY <1>1, <1>5, <3>1
    <3>5. OwnLines(printed \o more, p, own)
      BY <1>4, <1>5, <3>2, <3>3, <3>4, LinesStay
    <3>6. p < port'
      BY <1>1, <3>1
    <3> QED BY <1>2, <2>1, <3>5, <3>6
  <2> QED BY <1>1, <2>2, <2>3
<1>8. (live \subseteq Ports)' /\ (sector \in Sectors)' /\ sure' \subseteq Ports
  BY <1>1, <1>3 DEF PartInv, Sectors
<1> QED BY <1>1, <1>6, <1>7, <1>8 DEF PartInv

LEMMA PartAgainKeeps ==
  ASSUME PartInv, PartAgain
  PROVE  PartInv'
<1>1. /\ port' = 0 /\ printed' = <<>> /\ reader' = reader /\ disk' = disk /\ live' = live
      /\ sector' = sector /\ sure' = {}
  BY DEF PartAgain
<1>2. printed' \in Seq(Lines) /\ Len(printed') = 0 /\ Cardinality(Ports) \in Nat
  BY <1>1, PortsAreNumbers
<1>3. (sector \in Sectors)'
  BY <1>1 DEF PartInv, Sectors
<1>4. \A i : i \notin 1 .. Len(printed')
  BY <1>2
<1> QED BY <1>1, <1>2, <1>3, <1>4 DEF PartInv

LEMMA LateKeeps ==
  ASSUME PartInv, LateTransfer
  PROVE  PartInv'
<1>1. /\ reader' = reader /\ disk' = disk /\ live' = live /\ port' = port /\ printed' = printed /\ sure' = sure
      /\ sector' \in {"header", "table", "mbr"} \X live
  BY DEF LateTransfer
<1>2. \A p : Answers(p)' = Answers(p)
  BY <1>1 DEF Answers
<1>3. (sector \in Sectors)'
  BY <1>1 DEF PartInv, Sectors
<1> QED BY <1>1, <1>2, <1>3 DEF PartInv

LEMMA PartKept ==
  ASSUME PartInv, UNCHANGED <<reader, partVars>>
  PROVE  PartInv'
<1>1. /\ reader' = reader /\ disk' = disk /\ live' = live /\ port' = port /\ printed' = printed
      /\ sector' = sector /\ sure' = sure
  BY DEF partVars
<1>2. \A p : Answers(p)' = Answers(p)
  BY <1>1 DEF Answers
<1>3. (sector \in Sectors)'
  BY <1>1 DEF PartInv, Sectors
<1> QED BY <1>1, <1>2, <1>3 DEF PartInv

LEMMA PartStep ==
  ASSUME PartInv, [Next]_vars
  PROVE  PartInv'
<1>1. CASE PartPort
  BY <1>1, PartPortKeeps
<1>2. CASE PartAgain
  BY <1>2, PartAgainKeeps
<1>3. ASSUME NEW f, NEW found, Refresh(f, found)
      PROVE  PartInv'
  BY <1>3, PartKept DEF Refresh
<1>4. CASE InitFails \/ Scan \/ UNCHANGED vars
  BY <1>4, PartKept DEF InitFails, Scan, vars
<1>5. CASE MountFat32 \/ BackToRoot
  BY <1>3, <1>5 DEF MountFat32, BackToRoot
<1>6. CASE NextPage \/ PrevPage \/ Ref
  BY <1>3, <1>6 DEF NextPage, PrevPage, Ref, Turn
<1>7. CASE \E i \in DOMAIN rows : EnterFolder(i)
  BY <1>3, <1>7 DEF EnterFolder
<1>8. CASE LateTransfer
  BY <1>8, LateKeeps
<1> QED BY <1>1, <1>2, <1>4, <1>5, <1>6, <1>7, <1>8 DEF Next

LEMMA PartInit ==
  ASSUME Init
  PROVE  PartInv
<1>1. port = 0 /\ printed = <<>> /\ Cardinality(Ports) \in Nat
  BY PortsAreNumbers DEF Init
<1>2. printed \in Seq(Lines) /\ Len(printed) = 0
  BY <1>1
<1>3. /\ reader = "PART" => disk \in [Ports -> Disks]
      /\ live \subseteq Ports /\ sector \in Sectors /\ sure = {}
  BY DEF Init, Disks, Sectors
<1>4. \A i : i \notin 1 .. Len(printed)
  BY <1>1, <1>2
<1> QED BY <1>1, <1>2, <1>3, <1>4 DEF PartInv

-----------------------------------------------------------------------------
(* The invariant of the disk manager and of SCAN.                          *)

ReaderInv ==
  /\ reader # "PART" => dirs \in [DOMAIN Cluster -> RootDirs \cup SubDirs]
  /\ reader # "DISK MANAGER" => ~inside /\ ~known /\ rows = <<>>
  /\ IsSector(buffer) /\ page \in 0 .. MaxPage
  /\ base \in {DataStart, StaleStart}
  /\ rows \in Seq(Rows(base)) /\ Len(rows) <= MaxFiles
  /\ known => base = DataStart /\ folder \in DOMAIN Cluster /\ lba = Lba(Cluster[folder])
  /\ known /\ read => rows = ListDir(dirs[folder], page, base)
  /\ reader = "SCAN" /\ read => text = ReadRootDir(dirs["root"])

Inv == PartInv /\ ReaderInv

LEMMA DirectoriesAreSectors ==
  ASSUME ReaderInv, reader # "PART"
  PROVE  \A f \in DOMAIN Cluster : IsSector(dirs[f]) /\ Written(dirs[f])
<1>1. \A f \in DOMAIN Cluster : dirs[f] \in RootDirs \cup SubDirs
  BY DEF ReaderInv
<1> QED BY <1>1, SectorsAssumption, WrittenAssumption

LEMMA StartsAreStarts == {DataStart, StaleStart} \subseteq Starts
BY DiskAssumption DEF Starts

(* Two folders have two first sectors.                                     *)
LEMMA LbaIsOwn ==
  ASSUME NEW f \in DOMAIN Cluster, NEW g \in DOMAIN Cluster, Lba(Cluster[f]) = Lba(Cluster[g])
  PROVE  f = g
<1> DEFINE c == Cluster[f]
           d == Cluster[g]
<1>1. c \in Nat /\ d \in Nat
  BY ClusterAssumption
<1>2. DataStart + (c - 2) * PerCluster = DataStart + (d - 2) * PerCluster
  BY DEF Lba, LbaFrom
<1> HIDE DEF c, d
<1>3. (c - 2) * PerCluster = (d - 2) * PerCluster
  <2> DEFINE x == (c - 2) * PerCluster
             y == (d - 2) * PerCluster
  <2>1. x \in Int /\ y \in Int /\ DataStart + x = DataStart + y
    BY <1>1, <1>2, DiskAssumption
  <2> HIDE DEF x, y
  <2>2. x = y
    <3>1. \A a, u, v \in Int : a + u = a + v => u = v
      OBVIOUS
    <3>2. DataStart \in Int
      BY StartsAreStarts DEF Starts
    <3> QED BY <2>1, <3>1, <3>2
  <2> QED BY <2>2 DEF x, y
<1>4. c - 2 = d - 2
  <2>1. \A x, y \in Int, n \in Nat \ {0} : x * n = y * n => x = y
    OBVIOUS
  <2>2. c - 2 \in Int /\ d - 2 \in Int
    BY <1>1
  <2> QED BY <1>3, <2>1, <2>2, DiskAssumption
<1>5. c = d
  BY <1>1, <1>4
<1> QED BY <1>5, ClusterAssumption DEF c, d

(* A sector that is read holds the directory that begins there.            *)
LEMMA SectorOf ==
  ASSUME ReaderInv, reader # "PART", NEW l, NEW b \in Sector(l)
  PROVE  /\ IsSector(b)
         /\ \A f \in DOMAIN Cluster : Lba(Cluster[f]) = l => b = dirs[f]
<1>1. CASE \E f \in DOMAIN Cluster : Lba(Cluster[f]) = l
  <2>1. b \in {dirs[f] : f \in {g \in DOMAIN Cluster : Lba(Cluster[g]) = l}}
    BY <1>1 DEF Sector
  <2>2. PICK f \in DOMAIN Cluster : Lba(Cluster[f]) = l /\ b = dirs[f]
    BY <2>1
  <2>3. IsSector(b)
    BY <2>2, DirectoriesAreSectors
  <2>4. \A g \in DOMAIN Cluster : Lba(Cluster[g]) = l => g = f
    BY <2>2, LbaIsOwn
  <2> QED BY <2>2, <2>3, <2>4
<1>2. CASE ~ \E f \in DOMAIN Cluster : Lba(Cluster[f]) = l
  <2>1. b \in Junk
    BY <1>2 DEF Sector
  <2> QED BY <1>2, <2>1, SectorsAssumption
<1> QED BY <1>1, <1>2

LEMMA RowsAreRows ==
  ASSUME ReaderInv, NEW i \in DOMAIN rows
  PROVE  rows[i] \in Rows(base) /\ reader = "DISK MANAGER"
<1>1. rows \in Seq(Rows(base))
  BY DEF ReaderInv
<1>2. reader # "DISK MANAGER" => rows = <<>>
  BY DEF ReaderInv
<1>3. DOMAIN rows = 1 .. Len(rows)
  BY <1>1, LenProperties
<1>4. rows[i] \in Rows(base)
  BY <1>1, <1>3, ElementOfSeq
<1>5. rows # <<>>
  OBVIOUS
<1> QED BY <1>2, <1>4, <1>5

(* What a refresh needs and does.                                          *)
Reread ==
  /\ reader = "DISK MANAGER" /\ reader' = reader /\ dirs' = dirs /\ text' = text
  /\ page' \in 0 .. MaxPage
  /\ \/ buffer' \in Sector(lba') /\ read' = TRUE
     \/ buffer' = buffer /\ read' = FALSE
  /\ base' \in {DataStart, StaleStart}
  /\ rows' = ListDir(buffer', page', base')
  /\ known' => base' = DataStart /\ folder' \in DOMAIN Cluster /\ lba' = Lba(Cluster[folder'])

LEMMA RereadKeeps ==
  ASSUME ReaderInv, Reread
  PROVE  ReaderInv'
<1>1. /\ reader = "DISK MANAGER" /\ reader' = reader /\ dirs' = dirs /\ text' = text
      /\ page' \in Nat /\ page' \in 0 .. MaxPage /\ rows' = ListDir(buffer', page', base')
      /\ base' \in {DataStart, StaleStart}
  <2>1. /\ reader = "DISK MANAGER" /\ reader' = reader /\ dirs' = dirs /\ text' = text
        /\ page' \in 0 .. MaxPage /\ rows' = ListDir(buffer', page', base')
      /\ base' \in {DataStart, StaleStart}
    BY DEF Reread
  <2>2. 0 .. MaxPage \subseteq Nat
    BY BoundsAssumption
  <2> QED BY <2>1, <2>2
<1>2. IsSector(buffer')
  <2>1. CASE buffer' \in Sector(lba')
    BY <1>1, <2>1, SectorOf
  <2>2. CASE buffer' = buffer
    BY <2>2 DEF ReaderInv
  <2> QED BY <2>1, <2>2 DEF Reread
<1>3. rows' \in Seq(Rows(base')) /\ Len(rows') <= MaxFiles
  BY <1>1, <1>2, StartsAreStarts, ListDirFits
<1>4. known' => base' = DataStart /\ folder' \in DOMAIN Cluster /\ lba' = Lba(Cluster[folder'])
  BY DEF Reread
<1>5. ASSUME known', read'
      PROVE  rows' = ListDir(dirs'[folder'], page', base')
  <2>1. buffer' \in Sector(lba')
    BY <1>5 DEF Reread
  <2>2. buffer' = dirs[folder']
    BY <1>1, <1>4, <1>5, <2>1, SectorOf
  <2> QED BY <1>1, <2>2
<1>6. dirs' \in [DOMAIN Cluster -> RootDirs \cup SubDirs] 
  BY <1>1 DEF ReaderInv
<1>7. (IsSector(buffer))'
  BY <1>2
<1> QED BY <1>1, <1>3, <1>4, <1>5, <1>6, <1>7 DEF ReaderInv

LEMMA RootIsThere == "root" \in DOMAIN Cluster
BY ClusterAssumption

LEMMA RootKeeps ==
  ASSUME ReaderInv, MountFat32 \/ BackToRoot
  PROVE  ReaderInv'
<1>1. reader = "DISK MANAGER"
  BY DEF MountFat32, BackToRoot, ReaderInv
<1>2. /\ base' \in {DataStart, StaleStart}
      /\ lba' = LbaFrom(base', Cluster["root"]) /\ page' = 0 /\ Refresh("root", base' = DataStart)
  <2>1. CASE MountFat32
    BY <2>1 DEF MountFat32
  <2>2. CASE BackToRoot
    BY <2>2 DEF BackToRoot, ReaderInv
  <2> QED BY <2>1, <2>2
<1>3. 0 \in 0 .. MaxPage
  BY BoundsAssumption
<1>4. known' => base' = DataStart /\ folder' \in DOMAIN Cluster /\ lba' = Lba(Cluster[folder'])
  BY <1>2, RootIsThere DEF Refresh, Lba
<1>5. Reread
  BY <1>1, <1>2, <1>3, <1>4 DEF Refresh, Reread
<1> QED BY <1>5, RereadKeeps

LEMMA EnterKeeps ==
  ASSUME ReaderInv, NEW i \in DOMAIN rows, EnterFolder(i)
  PROVE  ReaderInv'
<1> DEFINE row == rows[i]
<1>1. reader = "DISK MANAGER"
  BY RowsAreRows
<1>2. row \in Rows(base)
  BY RowsAreRows
<1>3. /\ row.folder /\ lba' = row.lba /\ page' = 0 /\ base' = base
      /\ Refresh(IF row.to = ".." THEN "root" ELSE row.to, base = DataStart /\ Fits(row.to))
  BY DEF EnterFolder
<1> HIDE DEF row
<1>4. row.to \in DOMAIN Cluster \cup {".."} /\ row.lba = LbaFrom(base, ClusterOf(row.to)) % LbaLimit
  BY <1>2, <1>3 DEF Rows
<1>5. ASSUME Fits(row.to), base = DataStart
      PROVE  row.to # ".." /\ row.to \in DOMAIN Cluster /\ row.lba = Lba(Cluster[row.to])
  <2>1. row.to # ".." /\ row.to \in DOMAIN Cluster
    BY <1>4, <1>5 DEF Fits
  <2> DEFINE l == Lba(Cluster[row.to])
  <2>2. row.lba = l % LbaLimit /\ l < LbaLimit
    BY <1>4, <1>5, <2>1 DEF ClusterOf, Fits, Lba
  <2>3. l \in Nat
    BY <2>1, StartsAreStarts, LbaIsNat DEF Lba
  <2> HIDE DEF l
  <2>4. l % LbaLimit = l
    BY <2>2, <2>3 DEF LbaLimit
  <2> QED BY <2>1, <2>2, <2>4 DEF l
<1>6. 0 \in 0 .. MaxPage /\ base' \in {DataStart, StaleStart}
  <2>1. base \in {DataStart, StaleStart}
    BY DEF ReaderInv
  <2>2. 0 \in 0 .. MaxPage
    BY BoundsAssumption
  <2> QED BY <1>3, <2>1, <2>2
<1>7. known' => base' = DataStart /\ folder' \in DOMAIN Cluster /\ lba' = Lba(Cluster[folder'])
  <2>1. folder' = (IF row.to = ".." THEN "root" ELSE row.to) /\ known' = (base = DataStart /\ Fits(row.to))
    BY <1>3 DEF Refresh
  <2> QED BY <1>3, <1>5, <2>1
<1>8. Reread
  BY <1>1, <1>3, <1>6, <1>7 DEF Refresh, Reread
<1> QED BY <1>8, RereadKeeps

LEMMA TurnKeeps ==
  ASSUME ReaderInv, NextPage \/ PrevPage \/ Ref
  PROVE  ReaderInv'
<1>1. /\ inside /\ lba' = lba /\ folder' = folder /\ known' = known /\ base' = base
      /\ reader' = reader /\ dirs' = dirs /\ text' = text
      /\ \/ buffer' \in Sector(lba') /\ read' = TRUE
         \/ buffer' = buffer /\ read' = FALSE
      /\ rows' = ListDir(buffer', page', base')
  BY DEF NextPage, PrevPage, Ref, Turn, Refresh, partVars
<1>2. page' \in 0 .. MaxPage
  <2>1. page \in 0 .. MaxPage /\ MaxPage \in Nat /\ PageStep \in Nat
    BY BoundsAssumption DEF ReaderInv
  <2>2. CASE NextPage
    BY <2>1, <2>2 DEF NextPage, Turn
  <2>3. CASE PrevPage \/ Ref
    BY <2>1, <2>3 DEF PrevPage, Ref, Turn
  <2> QED BY <2>2, <2>3
<1>3. reader = "DISK MANAGER" /\ base' \in {DataStart, StaleStart}
  BY <1>1 DEF ReaderInv
<1>4. known' => base' = DataStart /\ folder' \in DOMAIN Cluster /\ lba' = Lba(Cluster[folder'])
  BY <1>1 DEF ReaderInv
<1>5. Reread
  BY <1>1, <1>2, <1>3, <1>4 DEF Reread
<1> QED BY <1>5, RereadKeeps

LEMMA InitFailsKeeps ==
  ASSUME ReaderInv, InitFails
  PROVE  ReaderInv'
<1>1. /\ reader' = reader /\ dirs' = dirs /\ base' = base /\ lba' = lba /\ page' = page /\ buffer' = buffer
      /\ inside' = inside /\ folder' = folder /\ read' = read /\ text' = text
      /\ rows' = <<>> /\ known' = FALSE /\ reader = "DISK MANAGER"
  BY DEF InitFails
<1>2. <<>> \in Seq(Rows(base)) /\ Len(<<>>) = 0
  OBVIOUS
<1>3. rows' \in Seq(Rows(base')) /\ Len(rows') <= MaxFiles
  <2>1. 0 <= MaxFiles
    BY BoundsAssumption
  <2> DEFINE none == <<>>
  <2>2. none \in Seq(Rows(base)) /\ Len(none) = 0 /\ rows' = none
    BY <1>1, <1>2
  <2> HIDE DEF none
  <2>3. rows' \in Seq(Rows(base)) /\ Len(rows') <= MaxFiles
    BY <2>1, <2>2
  <2>4. base' = base
    BY <1>1
  <2> QED BY <2>3, <2>4
<1>4. (IsSector(buffer))'
  BY <1>1 DEF ReaderInv
<1> QED BY <1>1, <1>3, <1>4 DEF ReaderInv

LEMMA SameFlags ==
  ASSUME known' = known, inside' = inside
  PROVE  (known' <=> known) /\ (inside' <=> inside)
OBVIOUS

LEMMA OthersKeep ==
  ASSUME ReaderInv,
         UNCHANGED <<reader, dirs, base, lba, page, buffer, rows, inside, folder, known>>,
         \/ text' = text /\ read' = read
         \/ text' = ReadRootDir(dirs["root"]) /\ reader = "SCAN"
         \/ read' = FALSE /\ reader = "SCAN"
  PROVE  ReaderInv'
<1>1. /\ reader' = reader /\ dirs' = dirs /\ base' = base /\ lba' = lba /\ page' = page /\ buffer' = buffer
      /\ rows' = rows /\ inside' = inside /\ folder' = folder /\ known' = known
  OBVIOUS
<1>0. (known' <=> known) /\ (inside' <=> inside)
  BY <1>1, SameFlags
<1>2. (IsSector(buffer))' /\ rows' \in Seq(Rows(base'))
  BY <1>1 DEF ReaderInv
<1>3. reader' = "SCAN" /\ read' => text' = ReadRootDir(dirs'["root"])
  BY <1>1 DEF ReaderInv
<1>4. known' /\ read' => rows' = ListDir(dirs'[folder'], page', base')
  <2>1. CASE read' = read
    <3>1. known /\ read => rows = ListDir(dirs[folder], page, base)
      BY DEF ReaderInv
    <3>2. known /\ read => rows' = ListDir(dirs'[folder'], page', base')
      BY <1>1, <3>1, Zenon
    <3>3. known' /\ read' => known /\ read
      BY <1>0, <2>1
    <3> QED BY <3>2, <3>3
  <2>2. CASE reader = "SCAN"
    <3>1. ~known
      BY <2>2 DEF ReaderInv
    <3> QED BY <1>1, <3>1
  <2> QED BY <2>1, <2>2
<1>5. /\ reader' # "PART" => dirs' \in [DOMAIN Cluster -> RootDirs \cup SubDirs]
      /\ reader' # "DISK MANAGER" => ~inside' /\ ~known' /\ rows' = <<>>
      /\ page' \in 0 .. MaxPage /\ base' \in {DataStart, StaleStart} /\ Len(rows') <= MaxFiles
  <2>1. /\ reader # "PART" => dirs \in [DOMAIN Cluster -> RootDirs \cup SubDirs]
        /\ reader # "DISK MANAGER" => ~inside /\ ~known /\ rows = <<>>
        /\ page \in 0 .. MaxPage /\ base \in {DataStart, StaleStart} /\ Len(rows) <= MaxFiles
    BY DEF ReaderInv
  <2>2. reader' # "DISK MANAGER" => ~inside' /\ ~known' /\ rows' = <<>>
    BY <1>0, <1>1, <2>1
  <2> QED BY <1>1, <2>1, <2>2
<1>6. known' => base' = DataStart /\ folder' \in DOMAIN Cluster /\ lba' = Lba(Cluster[folder'])
  <2>1. known => base = DataStart /\ folder \in DOMAIN Cluster /\ lba = Lba(Cluster[folder])
    BY DEF ReaderInv
  <2> QED BY <1>0, <1>1, <2>1
<1> QED BY <1>2, <1>3, <1>4, <1>5, <1>6 DEF ReaderInv

LEMMA ReaderStep ==
  ASSUME ReaderInv, [Next]_vars
  PROVE  ReaderInv'
<1>1. CASE PartPort \/ PartAgain \/ LateTransfer \/ UNCHANGED vars
  BY <1>1, OthersKeep DEF PartPort, PartAgain, LateTransfer, listVars, vars
<1>2. CASE InitFails
  BY <1>2, InitFailsKeeps
<1>3. CASE Scan
  BY <1>3, OthersKeep DEF Scan
<1>4. CASE MountFat32 \/ BackToRoot
  BY <1>4, RootKeeps
<1>5. CASE NextPage \/ PrevPage \/ Ref
  BY <1>5, TurnKeeps
<1>6. CASE \E i \in DOMAIN rows : EnterFolder(i)
  BY <1>6, EnterKeeps
<1> QED BY <1>1, <1>2, <1>3, <1>4, <1>5, <1>6 DEF Next

LEMMA ReaderInit ==
  ASSUME Init
  PROVE  ReaderInv
<1>1. ASSUME reader # "PART"
      PROVE  dirs \in [DOMAIN Cluster -> RootDirs \cup SubDirs]
  <2> DEFINE others == [DOMAIN Cluster \ {"root"} -> SubDirs]
             made(r, s) == [f \in DOMAIN Cluster |-> IF f = "root" THEN r ELSE s[f]]
  <2>1. dirs \in Trees
    BY <1>1 DEF Init
  <2>2. Trees = {made(r, s) : r \in RootDirs, s \in others}
    BY DEF Trees
  <2>3. PICK r \in RootDirs, s \in others : dirs = made(r, s)
    <3> HIDE DEF made, others
    <3> QED BY <2>1, <2>2
  <2> QED BY <2>3
<1>2. /\ page = 0 /\ buffer = <<>> /\ rows = <<>> /\ inside = FALSE /\ known = FALSE /\ read = FALSE
      /\ base \in {DataStart, StaleStart}
  BY DEF Init
<1>3. IsSector(buffer)
  <2> DEFINE Set == [kind : Kinds, name : STRING, order : Nat]
  <2>1. <<>> \in Seq(Set) /\ DOMAIN <<>> = {}
    OBVIOUS
  <2> HIDE DEF Set
  <2> QED BY <1>2, <2>1 DEF IsSector, Set
<1>4. rows \in Seq(Rows(base)) /\ Len(rows) <= MaxFiles /\ page \in 0 .. MaxPage
  <2>1. <<>> \in Seq(Rows(base)) /\ Len(<<>>) = 0
    OBVIOUS
  <2> QED BY <1>2, <2>1, BoundsAssumption
<1> QED BY <1>1, <1>2, <1>3, <1>4 DEF ReaderInv

THEOREM Invariance == Spec => []Inv
<1>1. Init => Inv
  BY PartInit, ReaderInit DEF Inv
<1>2. Inv /\ [Next]_vars => Inv'
  BY PartStep, ReaderStep DEF Inv
<1> QED BY <1>1, <1>2, PTL DEF Spec

(* On disks with any tables and with any number of ports, whatever reads   *)
(* fail and whatever ports say yes without a transfer: PART                *)
(* (cosmos_partition.cpp, scan_partitions) shows under each port that      *)
(* transfers that port's partitions, as long as no transfer that timed out *)
(* can still come, and the list of the disk manager (cosmos_fat32.cpp,     *)
(* fat32_list_dir) never outgrows cfs_files.                               *)
THEOREM TablesAreAlwaysSound == Spec => []TablesAreSound
<1>1. ASSUME Inv PROVE TypeOK
  <2>1. port \in 0 .. Cardinality(Ports) /\ page \in 0 .. MaxPage /\ Len(rows) <= MaxFiles
    BY <1>1 DEF Inv, PartInv, ReaderInv
  <2>2. \A i \in DOMAIN rows : rows[i] \in Rows(base)
    BY <1>1, RowsAreRows DEF Inv
  <2>3. \A i \in DOMAIN rows : rows[i].lba \in 0 .. LbaLimit - 1
    BY <2>2 DEF Rows
  <2> QED BY <2>1, <2>3 DEF TypeOK
<1>2. Inv => TablesAreSound
  BY <1>1, PartsAreOwn DEF Inv, TablesAreSound
<1> QED BY <1>2, Invariance, PTL

(* With directories of any length, as a system writes them, and any page:  *)
(* fat32_list_dir shows the folder that was clicked (kernel_main.cpp, the  *)
(* FAT32 buttons), if its sector was read and fits into 16 bits.           *)
THEOREM FolderIsAlwaysShown == Spec => []FolderShown
<1>1. ASSUME Inv, known, read
      PROVE  /\ Shows([k \in DOMAIN rows |-> rows[k].name], LiveIn(dirs[folder]), NamesIn(dirs[folder]), page, MaxFiles)
             /\ \A k \in DOMAIN rows : rows[k].to = rows[k].name[2]
  <2>1. /\ reader # "PART" /\ folder \in DOMAIN Cluster /\ page \in Nat
        /\ rows = ListDir(dirs[folder], page, base) /\ base \in Starts
    <3>1. /\ reader # "DISK MANAGER" => ~known
          /\ page \in 0 .. MaxPage /\ folder \in DOMAIN Cluster
          /\ rows = ListDir(dirs[folder], page, base) /\ base \in {DataStart, StaleStart}
      BY <1>1, Zenon DEF Inv, ReaderInv
    <3>2. 0 .. MaxPage \subseteq Nat
      BY BoundsAssumption
    <3> QED BY <1>1, <3>1, <3>2, StartsAreStarts
  <2>2. IsSector(dirs[folder]) /\ Written(dirs[folder])
    BY <1>1, <2>1, DirectoriesAreSectors DEF Inv
  <2>3. /\ Shows(NamesOf(rows), LiveIn(dirs[folder]), NamesIn(dirs[folder]), page, MaxFiles)
        /\ \A k \in DOMAIN rows : rows[k].to = rows[k].name[2]
    BY <2>1, <2>2, ListDirShows
  <2> QED BY <2>3 DEF NamesOf
<1>2. Inv => FolderShown
  BY <1>1 DEF FolderShown, LiveIn
<1> QED BY <1>2, Invariance, PTL

(* With a root of any length, as a system writes it: fat32_read_root_dir   *)
(* lists the deleted files too, each at its place, and still gives no file *)
(* that lives the name of another: its own, or none behind the part of a   *)
(* deleted long name.                                                      *)
THEOREM NamesAreAlwaysOwn == Spec => []NamesAreOwn
<1>1. ASSUME Inv, reader = "SCAN", read
      PROVE  Shows(text, FilesIn(dirs["root"]), ScannedIn(dirs["root"]), 0, MaxShown)
  <2>1. reader # "PART" /\ text = ReadRootDir(dirs["root"])
    BY <1>1 DEF Inv, ReaderInv
  <2>2. IsSector(dirs["root"]) /\ Written(dirs["root"])
    BY <1>1, <2>1, RootIsThere, DirectoriesAreSectors DEF Inv
  <2> QED BY <2>1, <2>2, ReadRootDirShows
<1>2. Inv => NamesAreOwn
  BY <1>1 DEF NamesAreOwn, FilesIn, ScannedIn
<1> QED BY <1>2, Invariance, PTL
=============================================================================
