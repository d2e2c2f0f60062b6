--------------------------- MODULE ChatListProofs ---------------------------
(***************************************************************************)
(* Theorems about ChatList, for any number of conversations and messages:  *)
(* first what one reading of the table gives, by induction over the        *)
(* conversations, then when it is read, then what the order of neighbours  *)
(* means for the whole list.                                               *)
(***************************************************************************)
EXTENDS ChatList, FiniteSetTheorems, FunctionTheorems, WellFoundedInduction, TLAPS

\* What holds of 0 and of the successor of each number it holds of holds of all:
\* the least number it fails for has a predecessor.  (A set stands for the
\* predicate, which the library's induction theorems have as a parameter.)
LEMMA Induction ==
  ASSUME NEW T, 0 \in T, \A n \in Nat : n \in T => n + 1 \in T
  PROVE  Nat \subseteq T
<1> SUFFICES ASSUME NEW z \in Nat, z \notin T
             PROVE  FALSE
  OBVIOUS
<1> DEFINE upTo(n) == 1..n
           missing == {upTo(n) : n \in Nat \ T}
<1>1. missing \subseteq FiniteSubsetsOf(Nat)
  <2> SUFFICES ASSUME NEW n \in Nat \ T
               PROVE  upTo(n) \in FiniteSubsetsOf(Nat)
    OBVIOUS
  <2>1. IsFiniteSet(upTo(n)) /\ upTo(n) \subseteq Nat
    BY FS_Interval
  <2> QED
    BY <2>1 DEF FiniteSubsetsOf
<1>2. missing # {}
  OBVIOUS
<1>3. PICK x \in missing : \A y \in missing : <<y, x>> \notin StrictSubsetOrdering(Nat)
  <2>1. IsWellFoundedOn(StrictSubsetOrdering(Nat), FiniteSubsetsOf(Nat))
    BY FS_StrictSubsetOrderingWellFounded
  <2> HIDE DEF missing
  <2> QED
    BY <1>1, <1>2, <2>1, WFMin
<1>4. PICK n \in Nat \ T : x = upTo(n)
  OBVIOUS
<1>5. PICK k \in Nat : n = k + 1
  <2>1. n # 0 /\ n - 1 \in Nat /\ n = (n - 1) + 1
    BY <1>4
  <2> QED
    BY <2>1
<1>6. upTo(k) \in missing
  BY <1>5
<1>7. /\ upTo(k) \subseteq upTo(n) /\ upTo(n) \subseteq Nat
      /\ n \in upTo(n) /\ n \notin upTo(k)
  BY <1>5
<1>8. <<upTo(k), upTo(n)>> \in StrictSubsetOrdering(Nat)
  <2> HIDE DEF upTo
  <2> QED
    BY <1>7 DEF StrictSubsetOrdering
<1> QED
  BY <1>3, <1>4, <1>6, <1>8

\* A set of numbers up to some n has a newest one.
LEMMA NewestExists ==
  ASSUME NEW n \in Nat, NEW S \in SUBSET (0..n), S # {}
  PROVE  Newest(S) \in S /\ \A t \in S : t <= Newest(S)
<1> DEFINE HasNewest(R) == \E t \in R : \A r \in R : r <= t
           Good == {k \in Nat : \A R \in SUBSET (0..k) : R # {} => HasNewest(R)}
<1>1. 0 \in Good
  <2> SUFFICES ASSUME NEW R \in SUBSET (0..0), R # {}
               PROVE  HasNewest(R)
    OBVIOUS
  <2>1. \A r \in R : r = 0
    OBVIOUS
  <2>2. PICK x \in R : TRUE
    OBVIOUS
  <2>3. x = 0 /\ 0 <= 0
    BY <2>1
  <2> QED
    BY <2>1, <2>3
<1>2. ASSUME NEW k \in Nat, k \in Good
      PROVE  k + 1 \in Good
  <2> SUFFICES ASSUME NEW R \in SUBSET (0..(k + 1)), R # {}
               PROVE  HasNewest(R)
    OBVIOUS
  <2>1. CASE k + 1 \in R
    <3>1. \A r \in R : r <= k + 1
      OBVIOUS
    <3> QED
      BY <2>1, <3>1
  <2>2. CASE k + 1 \notin R
    <3>1. R \in SUBSET (0..k)
      BY <2>2
    <3> QED
      BY <1>2, <3>1
  <2> QED
    BY <2>1, <2>2
<1>3. n \in Good
  <2> HIDE DEF Good
  <2> QED
    BY <1>1, <1>2, Induction
<1>4. HasNewest(S)
  BY <1>3
<1> QED
  BY <1>4 DEF Newest

\* The list r is s with e inserted at place k + 1.
Inserted(s, e, r, k) ==
  /\ \A i \in 1..k : r[i] = s[i]
  /\ r[k + 1] = e
  /\ \A i \in (k + 1)..Len(s) : r[i + 1] = s[i]
  /\ k > 0 => compare(s[k], e) <= 0
  /\ k < Len(s) => ~(compare(s[k + 1], e) <= 0)

\* Insertion puts the new entry behind one that does not compare as greater and
\* before one that does; the others keep their order.
LEMMA InsertShape ==
  ASSUME NEW s \in Seq(EntrySet), NEW e \in EntrySet, NEW r, r = insert(s, e)
  PROVE  /\ r \in Seq(EntrySet) /\ Len(r) = Len(s) + 1
         /\ \E k \in 0..Len(s) : Inserted(s, e, r, k)
<1> DEFINE stops == {j \in DOMAIN s : compare(s[j], e) <= 0}
           k == Newest(stops \union {0})
<1>1. stops \union {0} \in SUBSET (0..Len(s)) /\ Len(s) \in Nat
  OBVIOUS
<1>2. k \in stops \union {0} /\ \A t \in stops \union {0} : t <= k
  BY <1>1, NewestExists
<1>3. k \in 0..Len(s)
  BY <1>1, <1>2
<1>4. r = SubSeq(s, 1, k) \o <<e>> \o SubSeq(s, k + 1, Len(s))
  <2>1. r = InsertAt(s, k + 1, e)
    BY DEF insert
  <2>2. (k + 1) - 1 = k
    BY <1>3
  <2> HIDE DEF k
  <2> QED
    BY <2>1, <2>2 DEF InsertAt
<1>5. k > 0 => compare(s[k], e) <= 0
  BY <1>2
<1>6. k < Len(s) => ~(compare(s[k + 1], e) <= 0)
  <2> SUFFICES ASSUME k < Len(s), compare(s[k + 1], e) <= 0
               PROVE  FALSE
    OBVIOUS
  <2>1. k + 1 \in DOMAIN s
    BY <1>3
  <2>2. k + 1 \in stops
    BY <2>1
  <2> HIDE DEF k, stops
  <2>3. k + 1 <= k
    BY <1>2, <2>2
  <2> QED
    BY <1>3, <2>3
<1> HIDE DEF k, stops
<1> DEFINE a == SubSeq(s, 1, k)
           b == SubSeq(s, k + 1, Len(s))
<1>9. a \in Seq(EntrySet) /\ Len(a) = k /\ \A i \in 1..k : a[i] = s[i]
  BY <1>3
<1>10. /\ b \in Seq(EntrySet) /\ Len(b) = Len(s) - k
       /\ \A i \in 1..(Len(s) - k) : b[i] = s[k + i]
  BY <1>3
<1> HIDE DEF a, b
<1>11. <<e>> \in Seq(EntrySet) /\ Len(<<e>>) = 1 /\ <<e>>[1] = e
  OBVIOUS
<1>12. /\ a \o <<e>> \in Seq(EntrySet) /\ Len(a \o <<e>>) = k + 1
       /\ \A i \in 1..k : (a \o <<e>>)[i] = s[i]
       /\ (a \o <<e>>)[k + 1] = e
  BY <1>3, <1>9, <1>11
<1>13. r = (a \o <<e>>) \o b
  BY <1>4 DEF a, b
<1>7. r \in Seq(EntrySet) /\ Len(r) = Len(s) + 1
  <2>1. \A x, y \in Seq(EntrySet) : x \o y \in Seq(EntrySet) /\ Len(x \o y) = Len(x) + Len(y)
    OBVIOUS
  <2>2. r \in Seq(EntrySet) /\ Len(r) = Len(a \o <<e>>) + Len(b)
    BY <1>10, <1>12, <1>13, <2>1
  <2>3. Len(r) = (k + 1) + (Len(s) - k)
    BY <1>10, <1>12, <2>2
  <2>4. k \in Int /\ Len(s) \in Int
    BY <1>1, <1>3
  <2> QED
    BY <2>2, <2>3, <2>4
<1>8. /\ \A i \in 1..k : r[i] = s[i]
      /\ r[k + 1] = e
      /\ \A i \in (k + 1)..Len(s) : r[i + 1] = s[i]
  <2>1. \A i \in 1..(k + 1) : r[i] = (a \o <<e>>)[i]
    BY <1>1, <1>3, <1>10, <1>12, <1>13
  <2>2. \A i \in (k + 2)..(Len(s) + 1) : r[i] = b[i - (k + 1)]
    BY <1>1, <1>3, <1>10, <1>12, <1>13
  <2>3. ASSUME NEW i \in (k + 1)..Len(s)
        PROVE  r[i + 1] = s[i]
    <3>1. i + 1 \in (k + 2)..(Len(s) + 1) /\ i - k \in 1..(Len(s) - k)
          /\ (i + 1) - (k + 1) = i - k /\ k + (i - k) = i
      BY <1>1, <1>3
    <3> QED
      BY <1>10, <2>2, <3>1
  <2> QED
    BY <1>3, <1>12, <2>1, <2>3
<1> QED
  BY <1>3, <1>5, <1>6, <1>7, <1>8 DEF Inserted

\* What the table holds has its types, whichever table it is.
Stored(m, u, p) ==
  /\ {m, u} \subseteq [Convs -> SUBSET Times]
  /\ \A c \in Convs : u[c] \subseteq m[c]
  /\ p \subseteq Convs

LEMMA EntryTyped ==
  ASSUME NEW m, NEW u, NEW p, Stored(m, u, p), NEW c \in Convs, m[c] # {}
  PROVE  Entry(m, u, p, c) \in EntrySet /\ Entry(m, u, p, c).conv = c
<1>1. MaxClock \in Nat /\ m[c] \in SUBSET (1..MaxClock)
  BY ChatListAssumption DEF Stored, Times
<1>2. m[c] \in SUBSET (0..MaxClock)
  BY <1>1
<1>3. Newest(m[c]) \in Times
  BY <1>1, <1>2, NewestExists DEF Times
<1>4. Cardinality(u[c]) \in 0..MaxClock
  <2>1. IsFiniteSet(1..MaxClock) /\ Cardinality(1..MaxClock) = MaxClock
    BY <1>1, FS_Interval
  <2>2. u[c] \in SUBSET (1..MaxClock)
    BY <1>1 DEF Stored
  <2>3. IsFiniteSet(u[c]) /\ Cardinality(u[c]) <= MaxClock
    BY <2>1, <2>2, FS_Subset
  <2>4. Cardinality(u[c]) \in Nat
    BY <2>3, FS_CardinalityType
  <2> QED
    BY <1>1, <2>3, <2>4
<1> QED
  BY <1>3, <1>4 DEF Entry, EntrySet

\* The function f lists the conversations up to each number, as the recursion of
\* chatListData says.
Reads(f, m, u, p) ==
  f = [c \in 0 .. NConvs |->
         IF c = 0 THEN <<>>
         ELSE IF m[c] = {} THEN f[c - 1]
         ELSE insert(f[c - 1], Entry(m, u, p, c))]

\* There is such a function.
LEMMA ReadingExists ==
  ASSUME NEW m, NEW u, NEW p
  PROVE  \E f : Reads(f, m, u, p) /\ chatListData(m, u, p) = f[NConvs]
<1> DEFINE step(f, c) == IF c = 0 THEN <<>>
                         ELSE IF m[c] = {} THEN f[c - 1]
                         ELSE insert(f[c - 1], Entry(m, u, p, c))
           ReadsTo(f, n) == f = [c \in 0 .. n |-> step(f, c)]
           Good == {n \in Nat : \E f : ReadsTo(f, n)}
<1>1. 0 \in Good
  <2> DEFINE g == [c \in 0 .. 0 |-> <<>>]
  <2>1. \A c \in 0..0 : step(g, c) = <<>>
    OBVIOUS
  <2>2. ReadsTo(g, 0)
    BY <2>1, Zenon
  <2> QED
    BY <2>2
<1>2. ASSUME NEW n \in Nat, n \in Good
      PROVE  n + 1 \in Good
  <2>1. PICK f : ReadsTo(f, n)
    BY <1>2
  <2> DEFINE g == [c \in 0 .. (n + 1) |-> IF c \in 0 .. n THEN f[c] ELSE step(f, c)]
  <2>2. ASSUME NEW c \in 0 .. (n + 1)
        PROVE  g[c] = step(g, c)
    <3>1. g[c] = step(f, c)
      BY <2>1
    <3>2. c # 0 => c - 1 \in 0 .. n /\ g[c - 1] = f[c - 1]
      OBVIOUS
    <3> HIDE DEF g
    <3>3. step(f, c) = step(g, c)
      BY <3>2
    <3> QED
      BY <3>1, <3>3
  <2>3. ReadsTo(g, n + 1)
    <3>1. g = [c \in 0 .. (n + 1) |-> g[c]]
      OBVIOUS
    <3> HIDE DEF g, step
    <3> QED
      BY <2>2, <3>1, Zenon
  <2> HIDE DEF g, ReadsTo
  <2> QED
    BY <2>3
<1>3. NConvs \in Good
  <2> HIDE DEF Good
  <2> QED
    BY <1>1, <1>2, Induction, ChatListAssumption
<1> DEFINE read == CHOOSE f : ReadsTo(f, NConvs)
<1>4. ReadsTo(read, NConvs)
  BY <1>3, Zenon
<1>5. chatListData(m, u, p) = read[NConvs]
  BY Zenon DEF chatListData
<1>6. Reads(read, m, u, p)
  BY <1>4, Zenon DEF Reads
<1> HIDE DEF read
<1> QED
  BY <1>5, <1>6

\* Disorder starts at pinned entries only.
Sorted(s) ==
  \A i \in 1 .. Len(s) - 1 :
    s[i].time < s[i + 1].time => s[i].isPinned /\ ~s[i + 1].isPinned

\* No conversation stands twice in the list.
EachOnce(s) == \A i, j \in 1 .. Len(s) : s[i].conv = s[j].conv => i = j

\* Inserting an entry of a new conversation keeps the list as it should be.
LEMMA InsertKeeps ==
  ASSUME NEW s \in Seq(EntrySet), NEW e \in EntrySet, NEW r, r = insert(s, e),
         Sorted(s), EachOnce(s), \A i \in 1 .. Len(s) : s[i].conv # e.conv
  PROVE  /\ r \in Seq(EntrySet)
         /\ Sorted(r)
         /\ EachOnce(r)
         /\ ToSet(r) = ToSet(s) \cup {e}
<1>1. r \in Seq(EntrySet) /\ Len(r) = Len(s) + 1 /\ Len(s) \in Nat
  BY InsertShape
<1>0. PICK k \in 0..Len(s) : Inserted(s, e, r, k)
  BY InsertShape
<1>2. /\ \A i \in 1..k : r[i] = s[i]
      /\ r[k + 1] = e
      /\ \A i \in (k + 1)..Len(s) : r[i + 1] = s[i]
      /\ k > 0 => compare(s[k], e) <= 0
      /\ k < Len(s) => ~(compare(s[k + 1], e) <= 0)
  BY <1>0 DEF Inserted
\* Where an entry of the new list, other than the inserted one, stands in the old.
<1> DEFINE old(i) == IF i <= k THEN i ELSE i - 1
<1>3. ASSUME NEW i \in 1..Len(r)
      PROVE  /\ i = k + 1 => r[i] = e
             /\ i # k + 1 => old(i) \in 1..Len(s) /\ r[i] = s[old(i)]
  <2>1. CASE i \in 1..k
    BY <1>1, <1>2, <2>1
  <2>2. CASE i = k + 1
    BY <1>2, <2>2
  <2>3. CASE i > k + 1
    <3>1. i - 1 \in (k + 1)..Len(s) /\ (i - 1) + 1 = i
      BY <1>1, <2>3
    <3> QED
      BY <1>2, <3>1
  <2> QED
    BY <1>1, <2>1, <2>2, <2>3
<1>4. ASSUME NEW i \in 1..Len(s)
      PROVE  \E j \in 1..Len(r) : r[j] = s[i]
  <2>1. CASE i \in 1..k
    BY <1>1, <1>2, <2>1
  <2>2. CASE i \notin 1..k
    <3>1. i \in (k + 1)..Len(s) /\ i + 1 \in 1..Len(r)
      BY <1>1, <2>2
    <3> QED
      BY <1>2, <3>1
  <2> QED
    BY <2>1, <2>2
<1>5. ToSet(r) = ToSet(s) \cup {e}
  <2>1. k + 1 \in 1..Len(r)
    BY <1>1
  <2>2. DOMAIN r = 1..Len(r) /\ DOMAIN s = 1..Len(s)
    BY <1>1
  <2>3. ASSUME NEW x \in ToSet(r)
        PROVE  x \in ToSet(s) \cup {e}
    <3>1. PICK i \in 1..Len(r) : x = r[i]
      BY <2>2 DEF ToSet
    <3> QED
      BY <1>3, <2>2, <3>1 DEF ToSet
  <2>4. ASSUME NEW x \in ToSet(s)
        PROVE  x \in ToSet(r)
    <3>1. PICK i \in 1..Len(s) : x = s[i]
      BY <2>2 DEF ToSet
    <3>2. PICK j \in 1..Len(r) : r[j] = s[i]
      BY <1>4
    <3> QED
      BY <2>2, <3>1, <3>2 DEF ToSet
  <2>5. e \in ToSet(r)
    BY <1>2, <2>1, <2>2 DEF ToSet
  <2> QED
    BY <2>3, <2>4, <2>5
<1>6. EachOnce(r)
  <2> SUFFICES ASSUME NEW i \in 1..Len(r), NEW j \in 1..Len(r), r[i].conv = r[j].conv
               PROVE  i = j
    BY DEF EachOnce
  <2>1. CASE i # k + 1 /\ j # k + 1
    <3>1. old(i) = old(j)
      <4> HIDE DEF old
      <4> QED
        BY <1>3, <2>1 DEF EachOnce
    <3> QED
      BY <2>1, <3>1
  <2>2. CASE i = k + 1 \/ j = k + 1
    <3> HIDE DEF old
    <3> QED
      BY <1>3, <2>2
  <2> QED
    BY <2>1, <2>2
<1>7. Sorted(r)
  <2> SUFFICES ASSUME NEW i \in 1..(Len(r) - 1), r[i].time < r[i + 1].time
               PROVE  r[i].isPinned /\ ~r[i + 1].isPinned
    BY DEF Sorted
  <2>1. \A x \in EntrySet : x.time \in Int
    BY DEF EntrySet, Times
  <2>2. i \in 1..Len(s) /\ i + 1 \in 1..Len(r)
    BY <1>1
  <2>3. CASE i \in 1..k /\ i # k
    <3>1. i + 1 \in 1..k /\ i \in 1..(Len(s) - 1)
      BY <1>1, <2>3
    <3> QED
      BY <1>2, <2>3, <3>1 DEF Sorted
  <2>4. CASE i = k
    <3>1. k > 0 /\ r[i] = s[k] /\ r[i + 1] = e /\ s[k] \in EntrySet
      BY <1>2, <2>2, <2>4
    <3>2. compare(s[k], e) <= 0 /\ s[k].time \in Int /\ e.time \in Int
      BY <1>2, <2>1, <3>1
    <3> QED
      BY <3>1, <3>2 DEF compare
  <2>5. CASE i = k + 1
    <3>1. k + 1 \in 1..Len(s) /\ r[i] = e /\ r[i + 1] = s[k + 1] /\ s[k + 1] \in EntrySet
      BY <1>2, <2>2, <2>5
    <3>2. s[k + 1].time \in Int /\ e.time \in Int /\ ~(compare(s[k + 1], e) <= 0)
      BY <1>1, <1>2, <2>1, <3>1
    <3> QED
      BY <3>1, <3>2 DEF compare
  <2>6. CASE i > k + 1
    <3>1. /\ i - 1 \in 1..(Len(s) - 1) /\ (i - 1) + 1 = i
          /\ i - 1 \in (k + 1)..Len(s) /\ i \in (k + 1)..Len(s)
      BY <1>1, <2>2, <2>6
    <3>2. r[i] = s[i - 1] /\ r[i + 1] = s[i]
      BY <1>2, <3>1
    <3> QED
      BY <3>1, <3>2 DEF Sorted
  <2> QED
    BY <1>1, <2>3, <2>4, <2>5, <2>6
<1> QED
  BY <1>1, <1>5, <1>6, <1>7

\* A reading lists each conversation that has a message once, in the order that
\* the comparison can give.
LEMMA ReadingCorrect ==
  ASSUME NEW m, NEW u, NEW p, Stored(m, u, p), NEW r, r = chatListData(m, u, p)
  PROVE  /\ r \in Seq(EntrySet)
         /\ Sorted(r)
         /\ EachOnce(r)
         /\ ToSet(r) = Entries(m, u, p)
<1>0. PICK f : Reads(f, m, u, p) /\ chatListData(m, u, p) = f[NConvs]
  BY ReadingExists
<1>1. /\ f = [c \in 0 .. NConvs |->
               IF c = 0 THEN <<>>
               ELSE IF m[c] = {} THEN f[c - 1]
               ELSE insert(f[c - 1], Entry(m, u, p, c))]
      /\ r = f[NConvs]
  BY <1>0 DEF Reads
<1> DEFINE Upto(c) == {Entry(m, u, p, d) : d \in {x \in 1..c : m[x] # {}}}
           Right(c) == /\ f[c] \in Seq(EntrySet)
                       /\ Sorted(f[c])
                       /\ EachOnce(f[c])
                       /\ ToSet(f[c]) = Upto(c)
           Good == {c \in Nat : c <= NConvs => Right(c)}
<1>2. 0 \in Good
  <2>1. f[0] = <<>>
    BY <1>1, ChatListAssumption
  <2>2. Sorted(<<>>) /\ EachOnce(<<>>)
    BY DEF Sorted, EachOnce
  <2>3. <<>> \in Seq(EntrySet) /\ ToSet(<<>>) = {}
    BY DEF ToSet
  <2>4. Upto(0) = {}
    OBVIOUS
  <2> QED
    BY <2>1, <2>2, <2>3, <2>4
<1>3. ASSUME NEW n \in Nat, n \in Good
      PROVE  n + 1 \in Good
  <2> SUFFICES ASSUME n + 1 <= NConvs
               PROVE  Right(n + 1)
    OBVIOUS
  <2>1. Right(n)
    BY <1>3, ChatListAssumption
  <2>2. /\ n + 1 \in 0 .. NConvs /\ n + 1 # 0 /\ (n + 1) - 1 = n /\ n + 1 \in Convs
        /\ 1..(n + 1) = 1..n \cup {n + 1} /\ 1..n \subseteq Convs /\ n + 1 \notin 1..n
    BY ChatListAssumption DEF Convs
  <2>3. f[n + 1] = IF m[n + 1] = {} THEN f[n] ELSE insert(f[n], Entry(m, u, p, n + 1))
    BY <1>1, <2>2
  <2>4. CASE m[n + 1] = {}
    <3>1. Upto(n + 1) = Upto(n)
      BY <2>2, <2>4
    <3> HIDE DEF Upto
    <3> QED
      BY <2>1, <2>3, <2>4, <3>1
  <2>5. CASE m[n + 1] # {}
    <3>1. Entry(m, u, p, n + 1) \in EntrySet /\ Entry(m, u, p, n + 1).conv = n + 1
      BY <2>2, <2>5, EntryTyped
    <3>2. \A x \in Upto(n) : x.conv \in 1..n
      BY <2>2, EntryTyped
    <3>3. \A i \in 1..Len(f[n]) : f[n][i] \in Upto(n)
      <4> HIDE DEF Upto
      <4> QED
        BY <2>1 DEF ToSet
    <3>4. \A i \in 1..Len(f[n]) : f[n][i].conv # Entry(m, u, p, n + 1).conv
      BY <2>2, <3>1, <3>2, <3>3
    <3>5. Upto(n + 1) = Upto(n) \cup {Entry(m, u, p, n + 1)}
      BY <2>2, <2>5
    <3>6. f[n + 1] = insert(f[n], Entry(m, u, p, n + 1))
      BY <2>3, <2>5
    <3> HIDE DEF Upto
    <3>8. PICK s, e, q : s = f[n] /\ e = Entry(m, u, p, n + 1) /\ q = f[n + 1]
      OBVIOUS
    <3>9. /\ s \in Seq(EntrySet) /\ e \in EntrySet /\ q = insert(s, e)
          /\ Sorted(s) /\ EachOnce(s) /\ \A i \in 1 .. Len(s) : s[i].conv # e.conv
      BY <2>1, <3>1, <3>4, <3>6, <3>8
    <3>7. q \in Seq(EntrySet) /\ Sorted(q) /\ EachOnce(q) /\ ToSet(q) = ToSet(s) \cup {e}
      BY <3>9, InsertKeeps
    <3> QED
      BY <2>1, <3>5, <3>7, <3>8
  <2> QED
    BY <2>4, <2>5
<1>4. Right(NConvs)
  <2>1. NConvs \in Nat
    BY ChatListAssumption
  <2>2. NConvs \in Good
    <3> HIDE DEF Good
    <3> QED
      BY <1>2, <1>3, <2>1, Induction
  <2> QED
    BY <2>1, <2>2
<1>5. Upto(NConvs) = Entries(m, u, p)
  BY DEF Entries, Convs
<1> QED
  BY <1>1, <1>4, <1>5

\* A list that holds each conversation once is as long as the set of its entries.
LEMMA LengthOfOnce ==
  ASSUME NEW s \in Seq(EntrySet), EachOnce(s)
  PROVE  Len(s) = Cardinality(ToSet(s))
<1> DEFINE at == [i \in 1..Len(s) |-> s[i]]
<1>1. Len(s) \in Nat /\ DOMAIN s = 1..Len(s)
  OBVIOUS
<1>2. at \in [1..Len(s) -> ToSet(s)] /\ \A t \in ToSet(s) : \E i \in 1..Len(s) : at[i] = t
  BY <1>1 DEF ToSet
<1>3. \A i, j \in 1..Len(s) : at[i] = at[j] => i = j
  BY DEF EachOnce
<1>4. at \in Bijection(1..Len(s), ToSet(s))
  <2> HIDE DEF at
  <2> QED
    BY <1>2, <1>3, Fun_IsBij, Zenon
<1>5. IsFiniteSet(1..Len(s)) /\ Cardinality(1..Len(s)) = Len(s)
  BY <1>1, FS_Interval
<1> QED
  BY <1>4, <1>5, FS_Bijection, Zenon DEF ExistsBijection
-----------------------------------------------------------------------------
\* The list the user looks at is a reading of the table as it is, unless an event
\* under way will have it read again.
ListIsRead == OnList /\ events = 0 => shown = chatListData(msgs, unread, istop)

ReadInv == TypeOK /\ Sorted(shown) /\ ListIsRead

\* Reading the table, or leaving the list as it is, keeps its form.
LEMMA ShownForm ==
  ASSUME ReadInv, Stored(msgs', unread', istop'), refetch \/ UNCHANGED shown
  PROVE  shown' \in Seq(EntrySet) /\ Sorted(shown')
BY ReadingCorrect, Zenon DEF ReadInv, TypeOK, refetch

\* A step that leaves an event under way, or the list hidden, or has just read
\* the table, keeps the list.
LEMMA Kept ==
  ASSUME \/ events' # 0
         \/ stack' # <<>>
         \/ tab' # "chats"
         \/ refetch
  PROVE  ListIsRead'
BY DEF ListIsRead, OnList, refetch

LEMMA InitReadInv == Init => ReadInv
<1> SUFFICES ASSUME Init
             PROVE  ReadInv
  OBVIOUS
<1>1. Stored(msgs, unread, istop)
  BY DEF Init, Stored
<1>2. /\ chatListData(msgs, unread, istop) \in Seq(EntrySet)
      /\ ToSet(chatListData(msgs, unread, istop)) = Entries(msgs, unread, istop)
  BY <1>1, ReadingCorrect
<1>3. Entries(msgs, unread, istop) = {}
  BY DEF Init, Entries
<1>4. \A s \in Seq(EntrySet) : ToSet(s) = {} => s = <<>>
  <2> SUFFICES ASSUME NEW s \in Seq(EntrySet), ToSet(s) = {}
               PROVE  s = <<>>
    OBVIOUS
  <2>1. DOMAIN s = {}
    BY DEF ToSet
  <2>2. Len(s) = 0
    BY <2>1
  <2> QED
    BY <2>2
<1>5. chatListData(msgs, unread, istop) = <<>>
  BY <1>2, <1>3, <1>4
<1>6. Sorted(shown)
  BY DEF Init, Sorted
<1>7. TypeOK
  BY ChatListAssumption DEF Init, TypeOK, Tabs
<1> QED
  BY <1>5, <1>6, <1>7 DEF Init, ReadInv, ListIsRead

LEMMA ReadInvStep == ReadInv /\ [Next]_vars => ReadInv'
<1> SUFFICES ASSUME ReadInv, [Next]_vars
             PROVE  ReadInv'
  OBVIOUS
<1> USE ChatListAssumption
<1>1. /\ msgs \in [Convs -> SUBSET Times] /\ unread \in [Convs -> SUBSET Times]
      /\ \A c \in Convs : unread[c] \subseteq msgs[c]
      /\ istop \subseteq Convs /\ clock \in 0 .. MaxClock /\ events \in 0 .. MaxEvents
      /\ tab \in Tabs /\ stack \in Seq(Convs) /\ Len(stack) <= MaxDepth
      /\ shown \in Seq(EntrySet)
  BY DEF ReadInv, TypeOK
<1>2. /\ \A i \in DOMAIN shown : shown[i].conv \in Convs
      /\ stack # <<>> => Last(stack) \in Convs /\ Front(stack) \in Seq(Convs)
                         /\ Len(Front(stack)) <= MaxDepth
  <2>1. \A i \in DOMAIN shown : shown[i] \in EntrySet
    BY <1>1
  <2>2. stack # <<>> => Last(stack) \in Convs
    BY <1>1 DEF Last
  <2>3. stack # <<>> => /\ Front(stack) \in Seq(Convs)
                        /\ Len(Front(stack)) <= MaxDepth
    BY <1>1 DEF Front
  <2> QED
    BY <2>1, <2>2, <2>3 DEF EntrySet
<1>3. ASSUME AddEvent
      PROVE  events' \in 0 .. MaxEvents /\ events' # 0
  BY <1>1, <1>3 DEF AddEvent
\* What is left to show of each action.
<1>4. ASSUME Stored(msgs', unread', istop'), clock' \in 0 .. MaxClock,
             events' \in 0 .. MaxEvents, tab' \in Tabs,
             stack' \in Seq(Convs), Len(stack') <= MaxDepth,
             refetch \/ UNCHANGED shown,
             \/ events' # 0 \/ stack' # <<>> \/ tab' # "chats"
             \/ refetch
      PROVE  ReadInv'
  <2>1. shown' \in Seq(EntrySet) /\ Sorted(shown')
    BY <1>4, ShownForm
  <2>2. ListIsRead'
    BY <1>4, Kept
  <2> QED
    BY <1>4, <2>1, <2>2 DEF ReadInv, TypeOK, Stored, Sorted
<1>5. UNCHANGED table => Stored(msgs', unread', istop')
  BY <1>1 DEF Stored, table
<1>6. ASSUME NEW c \in Convs, setMessagesReaded(c), Len(stack) < MaxDepth
      PROVE  ReadInv'
  <2>1. stack' \in Seq(Convs) /\ Len(stack') <= MaxDepth /\ stack' # <<>>
    BY <1>1, <1>6 DEF setMessagesReaded
  <2>2. Stored(msgs', unread', istop')
    BY <1>1, <1>6 DEF setMessagesReaded, Stored
  <2> QED
    BY <1>1, <1>4, <1>6, <2>1, <2>2 DEF setMessagesReaded
\* Taking messages of one conversation from both tables keeps their types.
<1>19. ASSUME NEW c \in Convs, NEW gone,
              msgs' = [msgs EXCEPT ![c] = @ \ gone], unread' = [unread EXCEPT ![c] = @ \ gone],
              istop' \subseteq Convs
       PROVE  Stored(msgs', unread', istop')
  <2>1. {msgs', unread'} \subseteq [Convs -> SUBSET Times]
    BY <1>1, <1>19
  <2>2. ASSUME NEW d \in Convs
        PROVE  unread'[d] \subseteq msgs'[d]
    BY <1>1, <1>19
  <2> QED
    BY <1>19, <2>1, <2>2 DEF Stored
<1>7. ASSUME NEW c \in Convs, recvMsg(c)
      PROVE  ReadInv'
  <2>1. clock' \in Times /\ clock' \in 0 .. MaxClock
    BY <1>1, <1>7 DEF recvMsg, Times
  <2>2. Stored(msgs', unread', istop')
    BY <1>1, <1>7, <2>1 DEF recvMsg, Stored
  <2> QED
    BY <1>1, <1>3, <1>4, <1>7, <2>1, <2>2 DEF recvMsg
<1>8. CASE sendMsg
  <2>1. clock' \in Times /\ clock' \in 0 .. MaxClock
    BY <1>1, <1>8 DEF sendMsg, Times
  <2>2. Stored(msgs', unread', istop')
    <3>1. PICK c \in Convs : c = Last(stack)
      BY <1>2, <1>8 DEF sendMsg
    <3>2. /\ msgs' = [msgs EXCEPT ![c] = @ \cup {clock'}]
          /\ UNCHANGED <<unread, istop>>
      BY <1>8, <3>1 DEF sendMsg
    <3> QED
      BY <1>1, <2>1, <3>2 DEF Stored
  <2> QED
    BY <1>1, <1>3, <1>4, <1>8, <2>1, <2>2 DEF sendMsg
<1>9. CASE delMsg
  <2>1. Stored(msgs', unread', istop')
    BY <1>1, <1>2, <1>9, <1>19 DEF delMsg
  <2> QED
    BY <1>1, <1>3, <1>4, <1>9, <2>1 DEF delMsg
<1>10. CASE Deliver
  BY <1>1, <1>4, <1>5, <1>10 DEF Deliver
<1>11. ASSUME NEW t \in Tabs, HomeBuild(t)
       PROVE  ReadInv'
  BY <1>1, <1>4, <1>5, <1>11 DEF HomeBuild
<1>12. ASSUME NEW c \in Convs, OpenFromContact(c)
       PROVE  ReadInv'
  BY <1>6, <1>12 DEF OpenFromContact
<1>13. CASE OpenFromList
  <2>1. Len(stack) < MaxDepth
    BY <1>13 DEF OpenFromList, OnList
  <2> QED
    BY <1>2, <1>6, <1>13, <2>1 DEF OpenFromList
<1>14. CASE Back
  <2>1. /\ stack' = Front(stack) /\ stack # <<>>
        /\ UNCHANGED <<table, clock, events, tab>>
        /\ refetch \/ UNCHANGED shown
        /\ stack' # <<>> \/ tab' # "chats" \/ refetch
    BY <1>14 DEF Back, Leave
  <2> QED
    BY <1>1, <1>2, <1>4, <1>5, <2>1
<1>15. ASSUME NEW i \in DOMAIN shown, pinConversation(shown[i])
       PROVE  ReadInv'
  <2>1. Stored(msgs', unread', istop')
    BY <1>1, <1>2, <1>15 DEF pinConversation, Stored
  <2> QED
    BY <1>1, <1>4, <1>15, <2>1 DEF pinConversation
<1>16. ASSUME NEW i \in DOMAIN shown, clearConversation(shown[i])
       PROVE  ReadInv'
  <2>1. Stored(msgs', unread', istop')
    <3>2. /\ msgs' = [msgs EXCEPT ![shown[i].conv] = @ \ Times]
          /\ unread' = [unread EXCEPT ![shown[i].conv] = @ \ Times]
          /\ istop' \subseteq Convs
      BY <1>1, <1>2, <1>16 DEF clearConversation
    <3> QED
      BY <1>2, <1>19, <3>2
  <2> QED
    BY <1>1, <1>3, <1>4, <1>16, <2>1 DEF clearConversation
<1>17. CASE delConversation
  <2>1. /\ stack' = <<>> /\ AddEvent /\ UNCHANGED <<clock, tab>>
        /\ refetch \/ UNCHANGED shown
    BY <1>17 DEF delConversation, Leave
  <2>2. Stored(msgs', unread', istop')
    <3>1. PICK c \in Convs : c = Last(stack)
      <4>1. Len(stack) = 1
        BY <1>17 DEF delConversation
      <4>2. stack # <<>>
        BY <4>1
      <4> QED
        BY <1>2, <4>2
    <3>2. /\ msgs' = [msgs EXCEPT ![c] = @ \ Times]
          /\ unread' = [unread EXCEPT ![c] = @ \ Times]
          /\ istop' \subseteq Convs
      BY <1>1, <1>17, <3>1 DEF delConversation
    <3> QED
      BY <1>19, <3>2
  <2> QED
    BY <1>1, <1>3, <1>4, <2>1, <2>2
<1>18. CASE UNCHANGED vars
  BY <1>18 DEF vars, ReadInv, TypeOK, ListIsRead, OnList
<1> QED
  BY <1>7, <1>8, <1>9, <1>10, <1>11, <1>12, <1>13, <1>14, <1>15, <1>16, <1>17, <1>18
  DEF Next, showMenu

LEMMA ReadInvariant == Spec => []ReadInv
BY InitReadInv, ReadInvStep, PTL DEF Spec

\* Table and list keep their types, and what is unread is stored.
THEOREM TypeCorrect == Spec => []TypeOK
<1>1. ReadInv => TypeOK
  BY DEF ReadInv
<1> QED
  BY <1>1, ReadInvariant, PTL

\* Whichever way the user came back to the list, it is the table.
THEOREM ListFollowsTable == Spec => []ListCurrent
<1>1. ReadInv => ListCurrent
  <2> SUFFICES ASSUME ReadInv, OnList, events = 0
               PROVE  /\ ToSet(shown) = Entries(msgs, unread, istop)
                      /\ Len(shown) = Cardinality(ToSet(shown))
    BY DEF ListCurrent
  <2>1. Stored(msgs, unread, istop)
    BY DEF ReadInv, TypeOK, Stored
  <2>2. shown = chatListData(msgs, unread, istop)
    BY DEF ReadInv, ListIsRead
  <2>3. /\ shown \in Seq(EntrySet) /\ EachOnce(shown)
        /\ ToSet(shown) = Entries(msgs, unread, istop)
    BY <2>1, <2>2, ReadingCorrect
  <2> QED
    BY <2>3, LengthOfOnce
<1> QED
  BY <1>1, ReadInvariant, PTL

\* Whatever is pinned, disorder starts at pinned entries.
THEOREM DisorderIsBounded == Spec => []DisorderOnlyBelowPins
<1>1. ReadInv => DisorderOnlyBelowPins
  BY DEF ReadInv, Sorted, DisorderOnlyBelowPins
<1> QED
  BY <1>1, ReadInvariant, PTL
-----------------------------------------------------------------------------
\* What the order of neighbours means for the whole list: an entry, anywhere above
\* one with a newer message, has a pinned entry with an unpinned one right below it
\* on the way there.  A list with nothing pinned is in the order of time
\* (chat_list_data.dart 56-80).
DisorderCrossesAPin ==
  \A i, j \in 1 .. Len(shown) :
    i < j /\ shown[i].time < shown[j].time
      => \E k \in i .. j - 1 : shown[k].isPinned /\ ~shown[k + 1].isPinned

\* Without such a pair between them, times only fall on the way down.
LEMMA FallingTimes ==
  ASSUME NEW s \in Seq(EntrySet), Sorted(s), NEW i \in 1 .. Len(s), NEW j \in i .. Len(s),
         \A k \in i .. j - 1 : ~(s[k].isPinned /\ ~s[k + 1].isPinned)
  PROVE  s[j].time <= s[i].time
<1> DEFINE Good == {d \in Nat : i + d <= j => s[i + d].time <= s[i].time}
<1>1. \A k \in 1 .. Len(s) : s[k].time \in Int
  <2>1. \A k \in 1 .. Len(s) : s[k] \in EntrySet
    OBVIOUS
  <2>2. \A x \in EntrySet : x.time \in Int
    BY DEF EntrySet, Times
  <2> QED
    BY <2>1, <2>2
<1>2. 0 \in Good
  BY <1>1
<1>3. ASSUME NEW d \in Nat, d \in Good
      PROVE  d + 1 \in Good
  <2> SUFFICES ASSUME i + (d + 1) <= j
               PROVE  s[i + (d + 1)].time <= s[i].time
    OBVIOUS
  <2>1. /\ i + d \in i .. j - 1 /\ i + d \in 1 .. Len(s) - 1 /\ i + d \in 1 .. Len(s)
        /\ i + (d + 1) = (i + d) + 1 /\ i + (d + 1) \in 1 .. Len(s)
    OBVIOUS
  <2>2. ~(s[i + d].time < s[(i + d) + 1].time)
    BY <2>1 DEF Sorted
  <2>3. s[i + d].time <= s[i].time
    BY <1>3, <2>1
  <2>4. s[i].time \in Int /\ s[i + d].time \in Int /\ s[(i + d) + 1].time \in Int
    BY <1>1, <2>1
  <2> QED
    BY <2>1, <2>2, <2>3, <2>4
<1>4. Nat \subseteq Good
  <2> HIDE DEF Good
  <2> QED
    BY <1>2, <1>3, Induction
<1>5. j - i \in Nat /\ i + (j - i) = j /\ j <= j
  OBVIOUS
<1>6. j - i \in Good
  <2> HIDE DEF Good
  <2> QED
    BY <1>4, <1>5
<1> QED
  BY <1>5, <1>6

\* However the list came to be shown, and whatever changed since, disorder in it
\* crosses a pin.
THEOREM DisorderCrossesAPinTheorem == Spec => []DisorderCrossesAPin
<1>1. ReadInv => DisorderCrossesAPin
  <2> SUFFICES ASSUME ReadInv, NEW i \in 1 .. Len(shown), NEW j \in 1 .. Len(shown), i < j,
                      shown[i].time < shown[j].time,
                      \A k \in i .. j - 1 : ~(shown[k].isPinned /\ ~shown[k + 1].isPinned)
               PROVE  FALSE
    BY DEF DisorderCrossesAPin
  <2>1. shown \in Seq(EntrySet) /\ Sorted(shown)
    BY DEF ReadInv, TypeOK
  <2>2. j \in i .. Len(shown)
    BY <2>1
  <2>3. shown[j].time <= shown[i].time
    BY <2>1, <2>2, FallingTimes
  <2>4. shown[i].time \in Int /\ shown[j].time \in Int
    <3>1. shown[i] \in EntrySet /\ shown[j] \in EntrySet
      BY <2>1
    <3> QED
      BY <3>1 DEF EntrySet, Times
  <2> QED
    BY <2>3, <2>4
<1> QED
  BY <1>1, ReadInvariant, PTL
=============================================================================
