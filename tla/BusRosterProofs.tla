-------------------------- MODULE BusRosterProofs --------------------------
(***************************************************************************)
(* The types of the bus, the shape of the server's client list, and what   *)
(* the clients know of each other, for any number of clients, connections, *)
(* messages, breaks and crashes.                                           *)
(***************************************************************************)
EXTENDS Bus, FiniteSetTheorems, WellFoundedInduction, TLAPS

-----------------------------------------------------------------------------
(* Induction over the naturals.                                            *)

LEMMA Least ==
  ASSUME NEW T, T \subseteq Nat, T # {}
  PROVE  \E n \in T : \A m \in T : n <= m
<1>1. IsWellFoundedOn(OpToRel(<, Nat), Nat)
  BY NatLessThanWellFounded
<1>2. PICK n \in T : \A m \in T : ~ (<<m, n>> \in OpToRel(<, Nat))
  BY <1>1, WFMin
<1>3. \A m \in Nat : m < n => <<m, n>> \in OpToRel(<, Nat)
  BY Zenon DEF OpToRel
<1>4. \A m \in T : ~ (m < n)
  BY <1>2, <1>3, Zenon
<1> HIDE <1>2
<1>5. QED
  BY <1>4, SMT

\* A set that contains 0 and is closed under the next number, up to N.
LEMMA Induct ==
  ASSUME NEW N \in Nat, NEW T, 0 \in T, \A n \in 0 .. N - 1 : n \in T => n + 1 \in T
  PROVE  0 .. N \subseteq T
<1> DEFINE D == (0 .. N) \ T
<1> SUFFICES ASSUME D # {} PROVE FALSE
  OBVIOUS
<1>0. D \subseteq Nat
  OBVIOUS
<1> HIDE DEF D
<1>1. PICK n \in D : \A m \in D : n <= m
  BY <1>0, Least
<1> USE DEF D
<1>2. n - 1 \in 0 .. N - 1 /\ (n - 1) + 1 = n
  BY <1>1
<1>3. n - 1 \in T
  BY <1>1, <1>2
<1>4. (n - 1) + 1 \in T
  BY <1>2, <1>3
<1>5. QED
  BY <1>1, <1>2, <1>4

-----------------------------------------------------------------------------
(* What a client hears.                                                    *)

View == [listed : BOOLEAN, ids : SUBSET ID]

Hears(h, v, q) == h = [k \in 0 .. Len(q) |-> IF k = 0 THEN v ELSE Seen(h[k - 1], q[k])]

\* The recursion has a solution: the shorter ones are extended.
LEMMA HeardExists ==
  ASSUME NEW v, NEW q, Len(q) \in Nat
  PROVE  \E h : Hears(h, v, q)
<1> DEFINE Upto(h, n) == h = [k \in 0 .. n |-> IF k = 0 THEN v ELSE Seen(h[k - 1], q[k])]
           T == {n \in 0 .. Len(q) : \E h : Upto(h, n)}
<1>1. 0 \in T
  <2>1. Upto([k \in 0 .. 0 |-> v], 0)
    OBVIOUS
  <2> HIDE DEF Upto
  <2>2. QED
    BY <2>1
<1>2. ASSUME NEW n \in 0 .. Len(q) - 1, n \in T
      PROVE  n + 1 \in T
  <2>1. PICK h : Upto(h, n)
    BY <1>2
  <2> DEFINE g == [k \in 0 .. n + 1 |-> IF k = n + 1 THEN Seen(h[n], q[n + 1]) ELSE h[k]]
  <2>2. ASSUME NEW k \in 0 .. n + 1
        PROVE  g[k] = IF k = 0 THEN v ELSE Seen(g[k - 1], q[k])
    <3>1. CASE k = n + 1
      BY <3>1
    <3>2. CASE k \in 1 .. n
      BY <2>1, <3>2
    <3>3. CASE k = 0
      BY <2>1, <3>3
    <3>4. QED
      BY <3>1, <3>2, <3>3
  <2>3. Upto(g, n + 1)
    BY <2>2
  <2> HIDE DEF Upto, g
  <2>4. n + 1 \in 0 .. Len(q)
    OBVIOUS
  <2>5. QED
    BY <2>3, <2>4
<1> HIDE DEF T
<1>3. 0 .. Len(q) \subseteq T
  BY <1>1, <1>2, Induct
<1>4. Len(q) \in 0 .. Len(q)
  OBVIOUS
<1>5. QED
  BY <1>3, <1>4 DEF T, Hears

LEMMA HeardRecursion ==
  ASSUME NEW v, NEW q, Len(q) \in Nat
  PROVE  /\ DOMAIN Heard(v, q) = 0 .. Len(q)
         /\ Heard(v, q)[0] = v
         /\ \A k \in 1 .. Len(q) : Heard(v, q)[k] = Seen(Heard(v, q)[k - 1], q[k])
<1>1. PICK h : Hears(h, v, q)
  BY HeardExists
<1>2. Hears(Heard(v, q), v, q)
  BY <1>1 DEF Hears, Heard
<1>3. QED
  BY <1>2 DEF Hears

LEMMA SeenType ==
  ASSUME NEW v \in View, NEW m \in ServerMessage
  PROVE  /\ Seen(v, m) \in View
         /\ m.mid = "LIST_CLIENTS" => Seen(v, m).listed /\ Seen(v, m).ids = m.ids
         /\ m.mid # "LIST_CLIENTS" => Seen(v, m).listed = v.listed
         /\ m.mid = "JOIN" => Seen(v, m).ids = v.ids \union {m.id}
         /\ m.mid = "LEAVE" => Seen(v, m).ids = v.ids \ {m.id}
         /\ m.mid \notin {"LIST_CLIENTS", "JOIN", "LEAVE"} => Seen(v, m) = v
BY DEF Seen, View, ServerMessage

LEMMA HeardType ==
  ASSUME NEW v \in View, NEW q \in Seq(ServerMessage)
  PROVE  \A k \in 0 .. Len(q) : Heard(v, q)[k] \in View
<1> DEFINE T == {k \in 0 .. Len(q) : Heard(v, q)[k] \in View}
<1>1. 0 \in T
  BY HeardRecursion
<1>2. ASSUME NEW k \in 0 .. Len(q) - 1, k \in T
      PROVE  k + 1 \in T
  <2>1. Heard(v, q)[k + 1] = Seen(Heard(v, q)[k], q[k + 1])
    <3>1. k + 1 \in 1 .. Len(q) /\ (k + 1) - 1 = k
      OBVIOUS
    <3>2. QED
      BY <3>1, HeardRecursion
  <2>2. QED
    BY <1>2, <2>1, SeenType
<1> HIDE DEF T
<1>3. 0 .. Len(q) \subseteq T
  BY <1>1, <1>2, Induct
<1>4. QED
  BY <1>3 DEF T

\* More mail does not change what was heard before it.
LEMMA HeardAppend ==
  ASSUME NEW v, NEW S, NEW q \in Seq(S), NEW m
  PROVE  /\ \A k \in 0 .. Len(q) : Heard(v, Append(q, m))[k] = Heard(v, q)[k]
         /\ Heard(v, Append(q, m))[Len(q) + 1] = Seen(Heard(v, q)[Len(q)], m)
<1> DEFINE r == Append(q, m)
           T == {k \in 0 .. Len(q) : Heard(v, r)[k] = Heard(v, q)[k]}
<1>0. /\ Len(r) = Len(q) + 1 /\ Len(q) \in Nat
      /\ r[Len(q) + 1] = m /\ \A k \in 1 .. Len(q) : r[k] = q[k]
  <2>1. q \in Seq(S \union {m})
    OBVIOUS
  <2>2. QED
    BY <2>1
<1> HIDE DEF r
<1>1. 0 \in T
  BY <1>0, HeardRecursion
<1>2. ASSUME NEW k \in 0 .. Len(q) - 1, k \in T
      PROVE  k + 1 \in T
  <2>1. k + 1 \in 1 .. Len(q) /\ k + 1 \in 1 .. Len(r) /\ (k + 1) - 1 = k
    BY <1>0
  <2>2. Heard(v, q)[k + 1] = Seen(Heard(v, q)[k], q[k + 1])
    BY <1>0, <2>1, HeardRecursion
  <2>3. Heard(v, r)[k + 1] = Seen(Heard(v, r)[k], r[k + 1])
    BY <1>0, <2>1, HeardRecursion
  <2>4. QED
    BY <1>0, <1>2, <2>1, <2>2, <2>3
<1>3. 0 .. Len(q) \subseteq T
  <2> HIDE DEF T
  <2>1. QED
    BY <1>0, <1>1, <1>2, Induct
<1>4. Heard(v, r)[Len(q) + 1] = Seen(Heard(v, r)[Len(q)], m)
  <2>1. Len(q) + 1 \in 1 .. Len(r) /\ (Len(q) + 1) - 1 = Len(q)
    BY <1>0
  <2>2. QED
    BY <1>0, <2>1, HeardRecursion
<1>5. QED
  BY <1>0, <1>3, <1>4 DEF r

\* Reading a message and hearing the rest is hearing it all.
LEMMA HeardTail ==
  ASSUME NEW v, NEW S, NEW q \in Seq(S), q # <<>>
  PROVE  \A k \in 0 .. Len(q) - 1 : Heard(Seen(v, Head(q)), Tail(q))[k] = Heard(v, q)[k + 1]
<1> DEFINE w == Seen(v, Head(q))
           r == Tail(q)
           T == {k \in 0 .. Len(q) - 1 : Heard(w, r)[k] = Heard(v, q)[k + 1]}
<1>0. /\ Len(q) \in Nat \ {0} /\ Len(r) = Len(q) - 1 /\ Len(r) \in Nat
      /\ \A k \in 1 .. Len(r) : r[k] = q[k + 1]
      /\ w = Seen(v, q[1])
  OBVIOUS
<1> HIDE DEF w, r
<1>1. 0 \in T
  <2>1. 1 \in 1 .. Len(q) /\ 1 - 1 = 0
    BY <1>0
  <2>2. Heard(v, q)[1] = w
    BY <1>0, <2>1, HeardRecursion
  <2>3. QED
    BY <1>0, <2>2, HeardRecursion
<1>2. ASSUME NEW k \in 0 .. Len(r) - 1, k \in T
      PROVE  k + 1 \in T
  <2>1. /\ k + 1 \in 1 .. Len(r) /\ (k + 1) - 1 = k
        /\ (k + 1) + 1 \in 1 .. Len(q) /\ ((k + 1) + 1) - 1 = k + 1
        /\ k + 1 \in 0 .. Len(q) - 1
    BY <1>0
  <2>2. Heard(w, r)[k + 1] = Seen(Heard(w, r)[k], r[k + 1])
    BY <1>0, <2>1, HeardRecursion
  <2>3. Heard(v, q)[(k + 1) + 1] = Seen(Heard(v, q)[k + 1], q[(k + 1) + 1])
    BY <1>0, <2>1, HeardRecursion
  <2>4. QED
    BY <1>0, <1>2, <2>1, <2>2, <2>3
<1> HIDE DEF T
<1>3. 0 .. Len(r) \subseteq T
  BY <1>0, <1>1, <1>2, Induct
<1>4. QED
  BY <1>0, <1>3 DEF T, w, r

\* Without the list nothing is known.
LEMMA HeardUnlisted ==
  ASSUME NEW v \in View, ~ v.listed, NEW q \in Seq(ServerMessage),
         \A i \in DOMAIN q : q[i].mid # "LIST_CLIENTS"
  PROVE  \A k \in 0 .. Len(q) : ~ Heard(v, q)[k].listed
<1> DEFINE T == {k \in 0 .. Len(q) : ~ Heard(v, q)[k].listed}
<1>0. Len(q) \in Nat
  OBVIOUS
<1>1. 0 \in T
  BY HeardRecursion
<1>2. ASSUME NEW k \in 0 .. Len(q) - 1, k \in T
      PROVE  k + 1 \in T
  <2>1. k + 1 \in 1 .. Len(q) /\ (k + 1) - 1 = k /\ k + 1 \in DOMAIN q
    OBVIOUS
  <2>2. Heard(v, q)[k + 1] = Seen(Heard(v, q)[k], q[k + 1])
    BY <2>1, HeardRecursion
  <2>3. Heard(v, q)[k] \in View /\ q[k + 1] \in ServerMessage
    BY <2>1, HeardType
  <2>4. QED
    BY <1>2, <2>1, <2>2, <2>3, SeenType
<1> HIDE DEF T
<1>3. 0 .. Len(q) \subseteq T
  BY <1>0, <1>1, <1>2, Induct
<1>4. QED
  BY <1>3 DEF T

-----------------------------------------------------------------------------
(* The client list.                                                        *)

LEMMA ConcatShape ==
  ASSUME NEW S, NEW p \in Seq(S), NEW q \in Seq(S)
  PROVE  /\ p \o q \in Seq(S)
         /\ Len(p \o q) = Len(p) + Len(q)
         /\ \A j \in 1 .. Len(p) : (p \o q)[j] = p[j]
         /\ \A j \in 1 .. Len(q) : (p \o q)[j + Len(p)] = q[j]
OBVIOUS

LEMMA InsertShape ==
  ASSUME NEW S, NEW q \in Seq(S), NEW e \in S, NEW i \in 1 .. Len(q) + 1
  PROVE  /\ InsertAt(q, i, e) \in Seq(S)
         /\ Len(InsertAt(q, i, e)) = Len(q) + 1
         /\ \A j \in 1 .. i - 1 : InsertAt(q, i, e)[j] = q[j]
         /\ InsertAt(q, i, e)[i] = e
         /\ \A j \in i .. Len(q) : InsertAt(q, i, e)[j + 1] = q[j]
<1> DEFINE a == SubSeq(q, 1, i - 1)
           b == SubSeq(q, i, Len(q))
           c == a \o <<e>>
<1>1. /\ a \in Seq(S) /\ Len(a) = i - 1
      /\ \A j \in 1 .. i - 1 : a[j] = q[j]
  OBVIOUS
<1>2. /\ b \in Seq(S) /\ Len(b) = Len(q) - i + 1
      /\ \A j \in i .. Len(q) : (j - i) + 1 \in 1 .. Len(b) /\ b[(j - i) + 1] = q[j]
  OBVIOUS
<1> HIDE DEF a, b
<1>3. /\ c \in Seq(S) /\ Len(c) = i
      /\ \A j \in 1 .. i - 1 : c[j] = q[j]
      /\ c[i] = e
  BY <1>1
<1> HIDE DEF c
<1>4. /\ c \o b \in Seq(S) /\ Len(c \o b) = Len(q) + 1
      /\ \A j \in 1 .. i : (c \o b)[j] = c[j]
      /\ \A j \in 1 .. Len(b) : (c \o b)[j + i] = b[j]
  <2>1. c \in Seq(S) /\ b \in Seq(S)
    BY <1>2, <1>3
  <2>2. /\ c \o b \in Seq(S)
        /\ Len(c \o b) = Len(c) + Len(b)
        /\ \A j \in 1 .. Len(c) : (c \o b)[j] = c[j]
        /\ \A j \in 1 .. Len(b) : (c \o b)[j + Len(c)] = b[j]
    BY <2>1, ConcatShape
  <2>3. Len(c) = i /\ i + Len(b) = Len(q) + 1
    BY <1>2, <1>3
  <2>4. QED
    BY <2>2, <2>3
<1>5. \A j \in i .. Len(q) : (c \o b)[j + 1] = q[j]
  <2>1. \A j \in i .. Len(q) : ((j - i) + 1) + i = j + 1
    OBVIOUS
  <2>2. QED
    BY <1>2, <1>4, <2>1
<1>6. InsertAt(q, i, e) = c \o b
  BY DEF InsertAt, a, b, c
<1>7. QED
  BY <1>3, <1>4, <1>5, <1>6

LEMMA RemoveShape ==
  ASSUME NEW S, NEW q \in Seq(S), NEW i \in 1 .. Len(q)
  PROVE  /\ RemoveAt(q, i) \in Seq(S)
         /\ Len(RemoveAt(q, i)) = Len(q) - 1
         /\ \A j \in 1 .. i - 1 : RemoveAt(q, i)[j] = q[j]
         /\ \A j \in i .. Len(q) - 1 : RemoveAt(q, i)[j] = q[j + 1]
<1> DEFINE a == SubSeq(q, 1, i - 1)
           b == SubSeq(q, i + 1, Len(q))
<1>1. /\ a \in Seq(S) /\ Len(a) = i - 1
      /\ \A j \in 1 .. i - 1 : a[j] = q[j]
  OBVIOUS
<1>2. /\ b \in Seq(S) /\ Len(b) = Len(q) - i
      /\ \A j \in 1 .. Len(q) - i : b[j] = q[j + i]
  OBVIOUS
<1> HIDE DEF a, b
<1>3. /\ a \o b \in Seq(S)
      /\ Len(a \o b) = Len(a) + Len(b)
      /\ \A j \in 1 .. Len(a) : (a \o b)[j] = a[j]
      /\ \A j \in 1 .. Len(b) : (a \o b)[j + Len(a)] = b[j]
  <2>1. a \in Seq(S) /\ b \in Seq(S)
    BY <1>1, <1>2
  <2>2. QED
    BY <2>1
<1>4. ASSUME NEW j \in i .. Len(q) - 1
      PROVE  (a \o b)[j] = q[j + 1]
  <2> DEFINE k == j - Len(a)
  <2>1. k \in 1 .. Len(b) /\ k \in 1 .. Len(q) - i /\ k + Len(a) = j /\ k + i = j + 1
    BY <1>1, <1>2
  <2> HIDE DEF k
  <2>2. (a \o b)[k + Len(a)] = b[k] /\ b[k] = q[k + i]
    BY <1>2, <1>3, <2>1
  <2>3. QED
    BY <2>1, <2>2
<1>5. RemoveAt(q, i) = a \o b
  BY DEF RemoveAt, a, b
<1>6. Len(a) + Len(b) = Len(q) - 1 /\ \A j \in 1 .. i - 1 : j \in 1 .. Len(a)
  BY <1>1, <1>2
<1>7. QED
  BY <1>1, <1>3, <1>4, <1>5, <1>6

\* How many items q has up to index i: Rank, for any array.
Items(q, i) == Cardinality({j \in 1 .. i : q[j] # NoSocket})

LEMMA ItemsStep ==
  ASSUME NEW q
  PROVE  /\ Items(q, 0) = 0
         /\ \A i \in Nat : Items(q, i) \in Nat
         /\ \A i \in Nat \ {0} :
              Items(q, i) = Items(q, i - 1) + (IF q[i] # NoSocket THEN 1 ELSE 0)
<1> DEFINE I(i) == {j \in 1 .. i : q[j] # NoSocket}
<1>1. ASSUME NEW i \in Nat
      PROVE  IsFiniteSet(I(i)) /\ Cardinality(I(i)) \in Nat
  <2>1. IsFiniteSet(1 .. i)
    BY FS_Interval
  <2>2. I(i) \in SUBSET (1 .. i)
    OBVIOUS
  <2> HIDE DEF I
  <2>3. IsFiniteSet(I(i))
    BY <2>1, <2>2, FS_Subset
  <2>4. QED
    BY <2>3, FS_CardinalityType
<1>2. I(0) = {}
  OBVIOUS
<1>3. ASSUME NEW i \in Nat \ {0}
      PROVE  Cardinality(I(i)) = Cardinality(I(i - 1)) + (IF q[i] # NoSocket THEN 1 ELSE 0)
  <2>1. i - 1 \in Nat /\ 1 .. i = (1 .. (i - 1)) \union {i}
    OBVIOUS
  <2>2. IsFiniteSet(I(i - 1)) /\ Cardinality(I(i - 1)) \in Nat
    BY <1>1, <2>1
  <2>3. CASE q[i] # NoSocket
    <3>1. I(i) = I(i - 1) \union {i} /\ i \notin I(i - 1)
      BY <2>1, <2>3
    <3> HIDE DEF I
    <3>2. QED
      BY <2>2, <2>3, <3>1, FS_AddElement
  <2>4. CASE q[i] = NoSocket
    <3>1. I(i) = I(i - 1)
      BY <2>1, <2>4
    <3> HIDE DEF I
    <3>2. QED
      BY <2>2, <2>4, <3>1
  <2>5. QED
    BY <2>3, <2>4
<1>4. QED
  BY <1>1, <1>2, <1>3, FS_EmptySet DEF Items, I

\* No holes before i.
LEMMA ItemsFull ==
  ASSUME NEW q, NEW i \in Nat, \A j \in 1 .. i : q[j] # NoSocket
  PROVE  Items(q, i) = i
<1>1. {j \in 1 .. i : q[j] # NoSocket} = 1 .. i
  OBVIOUS
<1>2. Cardinality(1 .. i) = i
  BY FS_Interval
<1>3. QED
  BY <1>1, <1>2 DEF Items

LEMMA ItemsSame ==
  ASSUME NEW q, NEW r, NEW i \in Nat,
         \A j \in 1 .. i : q[j] # NoSocket <=> r[j] # NoSocket
  PROVE  Items(q, i) = Items(r, i)
<1>1. {j \in 1 .. i : q[j] # NoSocket} = {j \in 1 .. i : r[j] # NoSocket}
  OBVIOUS
<1>2. QED
  BY <1>1 DEF Items

\* r is q with an item in place of the hole at h.
LEMMA ItemsMore ==
  ASSUME NEW q, NEW r, NEW i \in Nat, NEW h \in 1 .. i,
         q[h] = NoSocket, r[h] # NoSocket,
         \A j \in 1 .. i : j # h => (q[j] # NoSocket <=> r[j] # NoSocket)
  PROVE  Items(r, i) = Items(q, i) + 1
<1> DEFINE I == {j \in 1 .. i : q[j] # NoSocket}
<1>1. {j \in 1 .. i : r[j] # NoSocket} = I \union {h} /\ h \notin I
  OBVIOUS
<1>2. IsFiniteSet(1 .. i) /\ I \in SUBSET (1 .. i)
  BY FS_Interval
<1> HIDE DEF I
<1>3. IsFiniteSet(I)
  BY <1>2, FS_Subset
<1>4. Cardinality(I \union {h}) = Cardinality(I) + 1
  BY <1>1, <1>3, FS_AddElement
<1>5. QED
  BY <1>1, <1>4 DEF Items, I

\* The item at k is after the ones before it.
LEMMA ItemsOrder ==
  ASSUME NEW q, NEW i \in Nat, NEW k \in Nat, i < k
  PROVE  /\ Items(q, i) <= Items(q, k)
         /\ q[k] # NoSocket => Items(q, i) < Items(q, k)
<1>1. ASSUME NEW j \in Nat, i <= j
      PROVE  Items(q, i) <= Items(q, j)
  <2> DEFINE I(x) == {y \in 1 .. x : q[y] # NoSocket}
  <2>1. I(i) \in SUBSET I(j) /\ I(j) \in SUBSET (1 .. j)
    BY <1>1
  <2>2. IsFiniteSet(1 .. j)
    BY FS_Interval
  <2> HIDE DEF I
  <2>3. IsFiniteSet(I(j))
    BY <2>1, <2>2, FS_Subset
  <2>4. Cardinality(I(i)) <= Cardinality(I(j))
    BY <2>1, <2>3, FS_Subset
  <2>5. QED
    BY <2>4 DEF Items, I
<1>2. k - 1 \in Nat /\ i <= k - 1 /\ k \in Nat \ {0}
  OBVIOUS
<1>3. Items(q, i) <= Items(q, k - 1)
  BY <1>1, <1>2
<1>4. Items(q, k) = Items(q, k - 1) + (IF q[k] # NoSocket THEN 1 ELSE 0)
  BY <1>2, ItemsStep
<1>5. Items(q, i) \in Nat /\ Items(q, k - 1) \in Nat
  BY <1>2, ItemsStep
<1>6. QED
  BY <1>3, <1>4, <1>5

\* The two arrays of the list, each item once.
Aligned ==
  /\ slots \in Seq(Socket \union {NoSocket})
  /\ clients \in Seq(Socket)
  /\ Packed
  /\ IsInjective(clients)
  /\ \A i, j \in DOMAIN slots : slots[i] = slots[j] /\ slots[i] # NoSocket => i = j
  /\ Listed = {slots[i] : i \in DOMAIN slots} \ {NoSocket}

LEMMA FirstHoleShape ==
  ASSUME slots \in Seq(Socket \union {NoSocket})
  PROVE  /\ FirstHole \in 1 .. Len(slots) + 1
         /\ FirstHole = Len(slots) + 1 \/ slots[FirstHole] = NoSocket
         /\ \A j \in 1 .. FirstHole - 1 : slots[j] # NoSocket
<1> DEFINE T == {i \in 1 .. Len(slots) + 1 : i = Len(slots) + 1 \/ slots[i] = NoSocket}
<1>1. T \subseteq Nat /\ Len(slots) + 1 \in T
  OBVIOUS
<1> HIDE DEF T
<1>2. PICK i \in T : \A m \in T : i <= m
  BY <1>1, Least
<1> USE DEF T
<1>3. \A j \in 1 .. (i - 1) : slots[j] # NoSocket
  BY <1>2
<1>4. \E k \in 1 .. Len(slots) + 1 :
        /\ k = Len(slots) + 1 \/ slots[k] = NoSocket
        /\ \A j \in 1 .. (k - 1) : slots[j] # NoSocket
  BY <1>2, <1>3
<1>5. QED
  BY <1>4 DEF FirstHole

LEMMA FindShape ==
  ASSUME IsInjective(clients), NEW p \in DOMAIN clients, DOMAIN clients \subseteq Nat,
         \A i \in DOMAIN clients : \A j \in 1 .. i - 1 : j \in DOMAIN clients
  PROVE  Find(clients[p]) = p
<1> DEFINE s == clients[p]
           First(i) == clients[i] = s /\ \A j \in 1 .. (i - 1) : clients[j] # s
<1>1. First(p)
  BY DEF IsInjective
<1>2. \A i \in DOMAIN clients : First(i) => i = p
  BY DEF IsInjective
<1>3. Find(s) = CHOOSE i \in DOMAIN clients : First(i)
  BY DEF Find
<1> HIDE DEF First
<1>4. QED
  BY <1>1, <1>2, <1>3

\* add() keeps the two arrays in step.
LEMMA AddKeeps ==
  ASSUME Aligned, NEW s \in Socket, s \notin Listed, Add(s)
  PROVE  /\ Aligned'
         /\ Listed' = Listed \union {s}
         /\ Len(clients') = Len(clients) + 1
<1> DEFINE h == FirstHole
           n == Len(slots)
<1>0. /\ slots \in Seq(Socket \union {NoSocket}) /\ n \in Nat /\ DOMAIN slots = 1 .. n
      /\ clients \in Seq(Socket) /\ Len(clients) \in Nat /\ DOMAIN clients = 1 .. Len(clients)
      /\ s # NoSocket
  BY NetworkAssumption DEF Aligned
<1>1. /\ h \in 1 .. n + 1
      /\ h = n + 1 \/ slots[h] = NoSocket
      /\ \A j \in 1 .. h - 1 : slots[j] # NoSocket
  BY <1>0, FirstHoleShape
<1> HIDE DEF h
<1> DEFINE N == IF h > n THEN n + 1 ELSE n
<1>2. /\ slots' \in Seq(Socket \union {NoSocket})
      /\ Len(slots') = N /\ DOMAIN slots' = 1 .. N
      /\ slots'[h] = s
      /\ \A i \in 1 .. n : i # h => slots'[i] = slots[i]
  <2>1. CASE h > n
    <3>1. slots' = Append(slots, s) /\ h = n + 1
      BY <1>1, <2>1 DEF Add, h
    <3>2. QED
      BY <1>0, <2>1, <3>1
  <2>2. CASE ~ (h > n)
    <3>1. slots' = [slots EXCEPT ![h] = s]
      BY <2>2 DEF Add, h
    <3>2. QED
      BY <1>0, <1>1, <2>2, <3>1
  <2>3. QED
    BY <2>1, <2>2
<1>3. /\ Len(clients) = Items(slots, n)
      /\ \A i \in 1 .. n : slots[i] # NoSocket => clients[Items(slots, i)] = slots[i]
  BY <1>0 DEF Aligned, Packed, Rank, Items
<1>4. \A i \in 0 .. h - 1 : Items(slots, i) = i /\ Items(slots', i) = i
  <2> TAKE i \in 0 .. h - 1
  <2>1. i \in Nat /\ \A j \in 1 .. i : slots[j] # NoSocket /\ slots'[j] # NoSocket
    BY <1>0, <1>1, <1>2
  <2>2. QED
    BY <2>1, ItemsFull
<1>5. Items(slots', h) = h
  <2>1. h \in Nat /\ \A j \in 1 .. h : slots'[j] # NoSocket
    BY <1>0, <1>1, <1>2
  <2>2. QED
    BY <2>1, ItemsFull
<1>6. \A i \in h .. n : Items(slots', i) = Items(slots, i) + 1
  <2> TAKE i \in h .. n
  <2>1. /\ i \in Nat /\ h \in 1 .. i
        /\ slots[h] = NoSocket /\ slots'[h] # NoSocket
        /\ \A j \in 1 .. i : j # h => (slots[j] # NoSocket <=> slots'[j] # NoSocket)
    BY <1>0, <1>1, <1>2
  <2>2. QED
    BY <2>1, ItemsMore
<1>7. h \in 1 .. Len(clients) + 1
  <2>1. h - 1 \in 0 .. n /\ Items(slots, h - 1) = h - 1 /\ h - 1 \in Nat
    BY <1>1, <1>4
  <2>2. CASE h - 1 = n
    BY <2>1, <2>2, <1>1, <1>3
  <2>3. CASE h - 1 < n
    <3>1. Items(slots, h - 1) <= Items(slots, n)
      BY <2>1, <2>3, <1>0, ItemsOrder
    <3>2. QED
      BY <2>1, <3>1, <1>0, <1>1, <1>3
  <2>4. QED
    BY <2>1, <2>2, <2>3
<1>8. clients' = InsertAt(clients, h, s)
  BY DEF Add, h
<1>9. /\ clients' \in Seq(Socket)
      /\ Len(clients') = Len(clients) + 1
      /\ DOMAIN clients' = 1 .. Len(clients) + 1
      /\ \A j \in 1 .. h - 1 : clients'[j] = clients[j]
      /\ clients'[h] = s
      /\ \A j \in h .. Len(clients) : clients'[j + 1] = clients[j]
  <2> DEFINE q == InsertAt(clients, h, s)
  <2> HIDE DEF q
  <2>1. /\ q \in Seq(Socket)
        /\ Len(q) = Len(clients) + 1
        /\ \A j \in 1 .. h - 1 : q[j] = clients[j]
        /\ q[h] = s
        /\ \A j \in h .. Len(clients) : q[j + 1] = clients[j]
    <3>1. clients \in Seq(Socket) /\ s \in Socket /\ h \in 1 .. Len(clients) + 1
      BY <1>0, <1>7
    <3>2. QED
      BY <3>1, InsertShape DEF q
  <2>2. clients' = q
    BY <1>8 DEF q
  <2>3. QED
    BY <2>1, <2>2
<1>10. ASSUME NEW i \in 1 .. n, slots[i] # NoSocket
       PROVE  Items(slots, i) \in 1 .. Len(clients)
  <2>1. i \in Nat \ {0} /\ i - 1 \in Nat /\ n \in Nat
    BY <1>0
  <2>2. Items(slots, i) = Items(slots, i - 1) + 1 /\ Items(slots, i - 1) \in Nat /\ Items(slots, i) \in Nat
    BY <1>10, <2>1, ItemsStep
  <2>3. Items(slots, i) <= Items(slots, n)
    <3>1. CASE i = n
      <4>1. Items(slots, i) = Items(slots, n)
        BY <3>1
      <4>2. QED
        BY <4>1, <2>2
    <3>2. CASE i < n
      BY <2>1, <3>2, ItemsOrder
    <3>3. i = n \/ i < n
      BY <2>1
    <3>4. QED
      BY <3>1, <3>2, <3>3
  <2>4. QED
    BY <2>2, <2>3, <1>0, <1>3
<1>11. Packed'
  <2>1. Len(clients') = Items(slots', N)
    <3>1. CASE h > n
      BY <3>1, <1>1, <1>3, <1>4, <1>5, <1>9
    <3>2. CASE ~ (h > n)
      <4>1. n \in h .. n /\ N = n
        BY <3>2, <1>0, <1>1
      <4>2. QED
        BY <4>1, <1>3, <1>6, <1>9
    <3>3. QED
      BY <3>1, <3>2
  <2>2. ASSUME NEW i \in 1 .. N, slots'[i] # NoSocket
        PROVE  clients'[Items(slots', i)] = slots'[i]
    <3>1. CASE i < h
      <4>1. i \in 1 .. h - 1 /\ i \in 0 .. h - 1 /\ i \in 1 .. n /\ i # h
        BY <3>1, <1>0, <1>1
      <4>2. clients[i] = slots[i]
        BY <4>1, <1>1, <1>3, <1>4
      <4>3. QED
        BY <4>1, <4>2, <1>2, <1>4, <1>9
    <3>2. CASE i = h
      BY <3>2, <1>2, <1>5, <1>9
    <3>3. CASE i > h
      <4>1. i \in 1 .. n /\ i \in h .. n /\ i # h
        BY <3>3, <1>0, <1>1
      <4>2. slots[i] = slots'[i]
        BY <4>1, <1>2
      <4>3. Items(slots, i) \in 1 .. Len(clients) /\ Items(slots, h - 1) < Items(slots, i)
        <5>1. h - 1 \in Nat /\ i \in Nat /\ h - 1 < i
          BY <4>1, <1>1
        <5>2. QED
          BY <4>1, <4>2, <2>2, <5>1, <1>10, ItemsOrder
      <4>4. Items(slots, h - 1) = h - 1
        BY <1>1, <1>4
      <4>5. Items(slots, i) \in h .. Len(clients)
        BY <4>3, <4>4, <1>0, <1>1
      <4>6. QED
        BY <4>1, <4>2, <4>5, <2>2, <1>3, <1>6, <1>9
    <3>4. QED
      BY <3>1, <3>2, <3>3, <1>0, <1>1
  <2>3. QED
    BY <2>1, <2>2, <1>2 DEF Packed, Rank, Items
<1>12. Listed' = Listed \union {s}
  <2>1. \A x : x \in Listed <=> \E j \in 1 .. Len(clients) : clients[j] = x
    BY <1>0 DEF Listed
  <2>2. \A x : x \in Listed' <=> \E j \in 1 .. Len(clients) + 1 : clients'[j] = x
    BY <1>9 DEF Listed
  <2>3. \A j \in 1 .. Len(clients) : \E k \in 1 .. Len(clients) + 1 : clients'[k] = clients[j]
    <3> TAKE j \in 1 .. Len(clients)
    <3>1. CASE j < h
      <4>1. j \in 1 .. Len(clients) + 1 /\ clients'[j] = clients[j]
        BY <3>1, <1>0, <1>7, <1>9
      <4>2. QED
        BY <4>1
    <3>2. CASE j >= h
      <4>1. j + 1 \in 1 .. Len(clients) + 1 /\ clients'[j + 1] = clients[j]
        BY <3>2, <1>0, <1>7, <1>9
      <4>2. QED
        BY <4>1
    <3>3. QED
      BY <3>1, <3>2, <1>0, <1>7
  <2>4. \A k \in 1 .. Len(clients) + 1 :
          k = h \/ \E j \in 1 .. Len(clients) : clients'[k] = clients[j]
    <3> TAKE k \in 1 .. Len(clients) + 1
    <3>1. CASE k < h
      BY <3>1, <1>0, <1>7, <1>9
    <3>2. CASE k > h
      <4>1. k - 1 \in h .. Len(clients) /\ k - 1 \in 1 .. Len(clients) /\ (k - 1) + 1 = k
        BY <3>2, <1>0, <1>7
      <4>2. clients'[(k - 1) + 1] = clients[k - 1]
        BY <4>1, <1>9
      <4>3. QED
        BY <4>1, <4>2
    <3>3. QED
      BY <3>1, <3>2, <1>0, <1>7
  <2>5. h \in 1 .. Len(clients) + 1 /\ clients'[h] = s
    BY <1>7, <1>9
  <2>6. ASSUME NEW x
        PROVE  x \in Listed' <=> x \in Listed \/ x = s
    BY <2>1, <2>2, <2>3, <2>4, <2>5
  <2>7. QED
    BY <2>6
<1>13. IsInjective(clients')
  <2>1. \A j \in 1 .. Len(clients) : clients[j] # s
    BY <1>0 DEF Listed
  <2>2. \A i, j \in 1 .. Len(clients) : clients[i] = clients[j] => i = j
    BY <1>0 DEF Aligned, IsInjective
  <2> DEFINE Old(k) == IF k < h THEN k ELSE k - 1
  <2>3. \A k \in 1 .. Len(clients) + 1 :
          k # h => Old(k) \in 1 .. Len(clients) /\ clients'[k] = clients[Old(k)]
    <3> TAKE k \in 1 .. Len(clients) + 1
    <3>1. CASE k < h
      BY <3>1, <1>0, <1>7, <1>9
    <3>2. CASE k > h
      <4>1. k - 1 \in h .. Len(clients) /\ k - 1 \in 1 .. Len(clients) /\ (k - 1) + 1 = k
        BY <3>2, <1>0, <1>7
      <4>2. clients'[(k - 1) + 1] = clients[k - 1]
        BY <4>1, <1>9
      <4>3. QED
        BY <3>2, <4>1, <4>2, <1>7
    <3>3. QED
      BY <3>1, <3>2, <1>0, <1>7
  <2>4. \A k, l \in 1 .. Len(clients) + 1 : k # h /\ l # h /\ Old(k) = Old(l) => k = l
    BY <1>0, <1>7
  <2> HIDE DEF Old
  <2>5. QED
    BY <2>1, <2>2, <2>3, <2>4, <1>9 DEF IsInjective
<1>14. \A i, j \in DOMAIN slots' : slots'[i] = slots'[j] /\ slots'[i] # NoSocket => i = j
  <2>1. \A i \in 1 .. n : slots[i] # s
    BY <1>0 DEF Aligned
  <2>2. \A i \in 1 .. N : i = h \/ i \in 1 .. n
    BY <1>0, <1>1
  <2>3. \A i, j \in 1 .. n : slots[i] = slots[j] /\ slots[i] # NoSocket => i = j
    BY <1>0 DEF Aligned
  <2> HIDE DEF N, n
  <2>4. QED
    BY <2>1, <2>2, <2>3, <1>2
<1>15. Listed' = {slots'[i] : i \in DOMAIN slots'} \ {NoSocket}
  <2>1. \A i \in 1 .. N : i = h \/ i \in 1 .. n
    BY <1>0, <1>1
  <2>2. \A i \in 1 .. n : i \in 1 .. N
    BY <1>0, <1>1
  <2>3. h \in 1 .. N
    BY <1>0, <1>1
  <2>4. h \in 1 .. n => slots[h] = NoSocket
    BY <1>0, <1>1
  <2>5. Listed = {slots[i] : i \in 1 .. n} \ {NoSocket}
    BY <1>0 DEF Aligned
  <2> HIDE DEF N, n
  <2>6. QED
    BY <2>1, <2>2, <2>3, <2>4, <2>5, <1>0, <1>2, <1>12
<1>16. QED
  BY <1>2, <1>9, <1>11, <1>12, <1>13, <1>14, <1>15 DEF Aligned

\* remove() keeps the two arrays in step, and what is before the item.
LEMMA TakeKeeps ==
  ASSUME Aligned, NEW p \in DOMAIN clients, Take(clients[p])
  PROVE  /\ Aligned'
         /\ Listed' = Listed \ {clients[p]}
         /\ Len(clients') = Len(clients) - 1
         /\ \A j \in 1 .. p - 1 : j \in DOMAIN clients' /\ clients'[j] = clients[j]
<1> DEFINE n == Len(slots)
           l == Len(clients)
           s == clients[p]
<1>0. /\ slots \in Seq(Socket \union {NoSocket}) /\ n \in Nat /\ DOMAIN slots = 1 .. n
      /\ clients \in Seq(Socket) /\ l \in Nat /\ DOMAIN clients = 1 .. l
      /\ p \in 1 .. l /\ s \in Socket /\ s # NoSocket
  BY NetworkAssumption DEF Aligned
<1>1. Find(s) = p
  BY <1>0, FindShape DEF Aligned
<1>2. PICK h \in 1 .. n : slots[h] = s
  <2>1. s \in Listed
    BY DEF Listed
  <2>2. Listed = {slots[i] : i \in 1 .. n} \ {NoSocket}
    BY <1>0 DEF Aligned
  <2> HIDE DEF s, n
  <2>3. QED
    BY <2>1, <2>2
<1>3. \A i \in 1 .. n : slots[i] = s <=> i = h
  BY <1>0, <1>2 DEF Aligned
<1>4. /\ n = Len(slots) /\ l = Len(clients) /\ s = clients[p]
      /\ slots' = [i \in DOMAIN slots |-> IF slots[i] = s THEN NoSocket ELSE slots[i]]
      /\ clients' = RemoveAt(clients, Find(s))
  BY DEF Take
<1>5. /\ \A i, j \in 1 .. n : slots[i] = slots[j] /\ slots[i] # NoSocket => i = j
      /\ \A i, j \in 1 .. l : clients[i] = clients[j] => i = j
      /\ Listed = {slots[i] : i \in 1 .. n} \ {NoSocket}
      /\ Listed = {clients[i] : i \in 1 .. l}
      /\ l = Items(slots, n)
      /\ \A i \in 1 .. n : slots[i] # NoSocket => clients[Items(slots, i)] = slots[i]
  BY <1>0 DEF Aligned, Packed, Rank, Items, IsInjective, Listed
<1> HIDE DEF n, l, s
<1>6. /\ slots' \in Seq(Socket \union {NoSocket})
      /\ Len(slots') = n /\ DOMAIN slots' = 1 .. n
      /\ slots'[h] = NoSocket
      /\ \A i \in 1 .. n : i # h => slots'[i] = slots[i]
  <2>1. \A i \in 1 .. n : slots'[i] = IF i = h THEN NoSocket ELSE slots[i]
    BY <1>0, <1>3, <1>4
  <2>2. slots' \in [1 .. n -> Socket \union {NoSocket}]
    <3>1. \A i \in 1 .. n : slots[i] \in Socket \union {NoSocket}
      BY <1>0
    <3>2. slots' = [i \in 1 .. n |-> IF slots[i] = s THEN NoSocket ELSE slots[i]]
      BY <1>0, <1>4
    <3>3. QED
      BY <3>1, <3>2
  <2>3. slots' \in Seq(Socket \union {NoSocket}) /\ Len(slots') = n
    BY <1>0, <2>2
  <2>4. QED
    BY <1>0, <1>2, <1>4, <2>1, <2>3
<1>7. clients' = RemoveAt(clients, p)
  BY <1>1, <1>4
<1>8. /\ clients' \in Seq(Socket)
      /\ Len(clients') = l - 1
      /\ DOMAIN clients' = 1 .. l - 1
      /\ \A j \in 1 .. p - 1 : clients'[j] = clients[j]
      /\ \A j \in p .. l - 1 : clients'[j] = clients[j + 1]
  <2> DEFINE q == RemoveAt(clients, p)
  <2> HIDE DEF q
  <2>1. /\ q \in Seq(Socket)
        /\ Len(q) = Len(clients) - 1
        /\ \A j \in 1 .. p - 1 : q[j] = clients[j]
        /\ \A j \in p .. Len(clients) - 1 : q[j] = clients[j + 1]
    <3>1. clients \in Seq(Socket) /\ p \in 1 .. Len(clients)
      BY <1>0, <1>4
    <3>2. QED
      BY <3>1, RemoveShape DEF q
  <2>2. clients' = q
    BY <1>7 DEF q
  <2>3. clients' \in Seq(Socket) /\ Len(clients') = l - 1
    BY <2>1, <2>2, <1>4
  <2>4. DOMAIN clients' = 1 .. l - 1
    BY <2>3
  <2>5. QED
    BY <2>1, <2>2, <2>3, <2>4, <1>4
<1>9. \A i \in 0 .. h - 1 : Items(slots', i) = Items(slots, i)
  <2> TAKE i \in 0 .. h - 1
  <2>1. i \in Nat /\ \A j \in 1 .. i : slots[j] # NoSocket <=> slots'[j] # NoSocket
    BY <1>0, <1>6
  <2>2. QED
    BY <2>1, ItemsSame
<1>10. \A i \in h .. n : Items(slots, i) = Items(slots', i) + 1
  <2> TAKE i \in h .. n
  <2>1. /\ i \in Nat /\ h \in 1 .. i
        /\ slots'[h] = NoSocket /\ slots[h] # NoSocket
        /\ \A j \in 1 .. i : j # h => (slots'[j] # NoSocket <=> slots[j] # NoSocket)
    BY <1>0, <1>2, <1>6
  <2>2. QED
    BY <2>1, ItemsMore
<1>11. \A i \in 0 .. n : Items(slots, i) \in Nat /\ Items(slots', i) \in Nat
  <2>1. 0 .. n \subseteq Nat
    BY <1>0
  <2>2. QED
    BY <2>1, ItemsStep
<1>12. \A i \in 1 .. n : slots[i] # NoSocket => Items(slots, i) \in 1 .. l
  <2> TAKE i \in 1 .. n
  <2> HAVE slots[i] # NoSocket
  <2>1. i \in Nat \ {0} /\ i - 1 \in Nat /\ n \in Nat /\ i - 1 \in 0 .. n
    BY <1>0
  <2>2. Items(slots, i) = Items(slots, i - 1) + 1
    BY <2>1, ItemsStep
  <2>3. Items(slots, i - 1) \in Nat /\ Items(slots, i) \in Nat /\ Items(slots, n) \in Nat
    BY <2>1, <1>11
  <2>4. Items(slots, i) <= Items(slots, n)
    <3>1. i = n \/ i < n
      BY <2>1
    <3>2. CASE i < n
      BY <2>1, <3>2, ItemsOrder
    <3>3. CASE i = n
      <4>1. Items(slots, i) = Items(slots, n)
        BY <3>3
      <4>2. QED
        BY <4>1, <2>3
    <3>4. QED
      BY <3>1, <3>2, <3>3
  <2>5. QED
    BY <2>2, <2>3, <2>4, <1>5
<1>13. Items(slots, h) = p
  <2>1. clients[Items(slots, h)] = clients[p] /\ Items(slots, h) \in 1 .. l
    BY <1>0, <1>2, <1>4, <1>5, <1>12
  <2>2. QED
    BY <2>1, <1>0, <1>5
<1>14. Packed'
  <2>1. Len(clients') = Items(slots', n)
    <3>1. n \in h .. n /\ n \in 0 .. n
      BY <1>0
    <3>2. QED
      BY <3>1, <1>5, <1>8, <1>10, <1>11
  <2>2. ASSUME NEW i \in 1 .. n, slots'[i] # NoSocket
        PROVE  clients'[Items(slots', i)] = slots'[i]
    <3>0. /\ i # h /\ slots'[i] = slots[i] /\ slots[i] # NoSocket
          /\ Items(slots, i) \in 1 .. l /\ clients[Items(slots, i)] = slots[i]
      BY <2>2, <1>5, <1>6, <1>12
    <3>1. CASE i < h
      <4>1. i \in Nat /\ h \in Nat /\ i \in 0 .. h - 1 /\ slots[h] # NoSocket
        BY <3>1, <1>0, <1>2
      <4>2. Items(slots, i) < Items(slots, h)
        BY <4>1, <3>1, ItemsOrder
      <4>3. Items(slots, i) \in 1 .. p - 1 /\ Items(slots', i) = Items(slots, i)
        BY <4>1, <4>2, <3>0, <1>0, <1>9, <1>13
      <4>4. QED
        BY <4>3, <3>0, <1>8
    <3>2. CASE i > h
      <4>1. i \in Nat /\ h \in Nat /\ h < i /\ i \in h .. n /\ i \in 0 .. n
        BY <3>2, <1>0, <1>2
      <4>2. Items(slots, h) < Items(slots, i)
        BY <4>1, <3>0, ItemsOrder
      <4>3. Items(slots, i) = Items(slots', i) + 1 /\ Items(slots', i) \in Nat
        BY <4>1, <1>10, <1>11
      <4>4. Items(slots', i) \in p .. l - 1
        BY <4>2, <4>3, <3>0, <1>0, <1>13
      <4>5. clients'[Items(slots', i)] = clients[Items(slots', i) + 1]
        BY <4>4, <1>8
      <4>6. QED
        BY <4>3, <4>5, <3>0
    <3>3. QED
      BY <3>0, <3>1, <3>2, <1>0
  <2>3. QED
    BY <2>1, <2>2, <1>6 DEF Packed, Rank, Items
<1> DEFINE Old(k) == IF k < p THEN k ELSE k + 1
<1>15. \A k \in 1 .. l - 1 : Old(k) \in 1 .. l /\ Old(k) # p /\ clients'[k] = clients[Old(k)]
  <2> TAKE k \in 1 .. l - 1
  <2>1. CASE k < p
    <3>1. k \in 1 .. p - 1 /\ k \in 1 .. l /\ Old(k) = k
      BY <2>1, <1>0
    <3>2. QED
      BY <3>1, <2>1, <1>0, <1>8
  <2>2. CASE k >= p
    <3>1. k \in p .. l - 1 /\ k + 1 \in 1 .. l /\ k + 1 # p /\ Old(k) = k + 1
      BY <2>2, <1>0
    <3>2. QED
      BY <3>1, <1>8
  <2>3. QED
    BY <2>1, <2>2, <1>0
<1>16. IsInjective(clients')
  <2>1. \A k, m \in 1 .. l - 1 : Old(k) = Old(m) => k = m
    BY <1>0
  <2> HIDE DEF Old
  <2>2. QED
    BY <2>1, <1>5, <1>8, <1>15 DEF IsInjective
<1>17. Listed' = Listed \ {s}
  <2>1. \A j \in 1 .. l : j = p \/ \E k \in 1 .. l - 1 : Old(k) = j
    <3> TAKE j \in 1 .. l
    <3>1. CASE j < p
      <4>1. j \in 1 .. l - 1 /\ Old(j) = j
        BY <3>1, <1>0
      <4>2. QED
        BY <4>1
    <3>2. CASE j > p
      <4>1. j - 1 \in 1 .. l - 1 /\ Old(j - 1) = j
        BY <3>2, <1>0
      <4>2. QED
        BY <4>1
    <3>3. QED
      BY <3>1, <3>2, <1>0
  <2> HIDE DEF Old
  <2>2. Listed' = {clients'[k] : k \in 1 .. l - 1}
    BY <1>8 DEF Listed
  <2>3. \A j \in 1 .. l : clients[j] = s <=> j = p
    BY <1>0, <1>4, <1>5
  <2>4. ASSUME NEW x
        PROVE  x \in Listed' <=> x \in Listed /\ x # s
    <3>1. ASSUME x \in Listed'
          PROVE  x \in Listed /\ x # s
      <4>1. PICK k \in 1 .. l - 1 : x = clients'[k]
        BY <3>1, <2>2
      <4>2. QED
        BY <4>1, <2>3, <1>5, <1>15
    <3>2. ASSUME x \in Listed, x # s
          PROVE  x \in Listed'
      <4>1. PICK j \in 1 .. l : x = clients[j]
        BY <3>2, <1>5
      <4>2. PICK k \in 1 .. l - 1 : Old(k) = j
        BY <4>1, <3>2, <2>1, <2>3
      <4>3. QED
        BY <4>1, <4>2, <2>2, <1>15
    <3>3. QED
      BY <3>1, <3>2
  <2>5. QED
    BY <2>4
<1>18. \A i, j \in DOMAIN slots' : slots'[i] = slots'[j] /\ slots'[i] # NoSocket => i = j
  BY <1>5, <1>6
<1>19. Listed' = {slots'[i] : i \in DOMAIN slots'} \ {NoSocket}
  <2>1. ASSUME NEW x
        PROVE  x \in Listed' <=> x # NoSocket /\ \E i \in 1 .. n : slots'[i] = x
    <3>1. x \in Listed' <=> x # s /\ x # NoSocket /\ \E i \in 1 .. n : slots[i] = x
      BY <1>5, <1>17
    <3>2. QED
      BY <3>1, <1>3, <1>6
  <2>2. QED
    BY <2>1, <1>6
<1>20. \A j \in 1 .. p - 1 : j \in 1 .. l - 1
  BY <1>0
<1>21. QED
  BY <1>4, <1>6, <1>8, <1>14, <1>16, <1>17, <1>18, <1>19, <1>20 DEF Aligned

-----------------------------------------------------------------------------
(* The invariant.                                                          *)

NetType ==
  /\ up \in BOOLEAN
  /\ connections \in 0 .. MaxSockets
  /\ cEnd \in [Socket -> {"open", "closed"}]
  /\ sEnd \in [Socket -> {"open", "reset", "closed"}]
  /\ toServer \in [Socket -> Seq(ClientMessage)]
  /\ toClient \in [Socket -> Seq(ServerMessage)]
  /\ backlog \in Seq(Socket)
  /\ breaks \in 0 .. MaxBreaks

\* The server's list.  IDs are given in order, and the list and the backlog
\* hold no more connections than were made.
ListInv ==
  /\ Aligned
  /\ maxID \in 0 .. MaxSockets
  /\ idOf \in [Socket -> ID \union {NoID}]
  /\ \A s \in Listed : idOf[s] \in 0 .. maxID - 1
  /\ \A s, t \in Listed : s # t => idOf[s] # idOf[t]
  /\ privateOnly \subseteq identified /\ identified \subseteq Listed
  /\ Len(clients) <= maxID
  /\ maxID + Len(backlog) <= connections
  /\ crashes \in 0 .. MaxCrashes

\* A connection is in the backlog or in the list, and once; nothing was sent
\* on it before.
BacklogInv ==
  /\ \A i, j \in DOMAIN backlog : backlog[i] = backlog[j] => i = j
  /\ \A i \in DOMAIN backlog :
       /\ backlog[i] \in 1 .. connections /\ backlog[i] \notin Listed
       /\ toClient[backlog[i]] = <<>>
  /\ Listed \subseteq 1 .. connections

\* The loops of iterate().
LoopInv ==
  /\ pc \in {"scan", "select", "serve"}
  /\ pos \in 1 .. MaxSockets + 1
  /\ watched \subseteq Listed /\ ready \subseteq Socket
  /\ inbox \in Seq(ClientMessage)
  /\ inbox # <<>> => pc = "serve" /\ pos \in DOMAIN clients
  /\ pc = "scan" => \A s \in watched : \E i \in DOMAIN clients : i < pos /\ clients[i] = s
  /\ pc = "serve" => watched = {}

\* The clients and their connections, each with its own.
ClientInv ==
  /\ state \in [Client -> {"NOT_CONNECTED", "HANDSHAKING", "CONNECTED", "GONE"}]
  /\ sock \in [Client -> Socket \union {NoSocket}]
  /\ sendQueue \in [Client -> Seq(UserMessage)]
  /\ phase \in [Client -> {"out", "flush", "drain"}]
  /\ sends \in 0 .. MaxSends
  /\ view \in [Client -> View]
  /\ \A c \in Client :
       /\ sock[c] \in Socket => sock[c] <= connections
       /\ state[c] \in {"HANDSHAKING", "CONNECTED"} => sock[c] \in Socket
       /\ phase[c] = "drain" => state[c] = "NOT_CONNECTED" /\ sock[c] \in Socket
  /\ \A c, d \in Client : sock[c] = sock[d] /\ sock[c] \in Socket => c = d

\* Nothing is under way on connections that are not made yet.
FutureInv ==
  \A s \in Socket : s > connections => toServer[s] = <<>> /\ toClient[s] = <<>>

Shape == NetType /\ ListInv /\ BacklogInv /\ LoopInv /\ ClientInv /\ FutureInv

\* The server has read messages of s and not processed them all.
Parsing(s) == inbox # <<>> /\ clients[pos] = s

\* A client's HELLO comes first and once.
HelloInv ==
  /\ \A s \in Socket : \A i \in DOMAIN toServer[s] :
       toServer[s][i].mid = "HELLO" <=> i = 1 /\ s \notin identified /\ ~ Parsing(s)
  /\ inbox # <<>> => \A i \in DOMAIN inbox :
       inbox[i].mid = "HELLO" <=> i = 1 /\ clients[pos] \notin identified
  /\ \A c \in Client :
       LET s == sock[c]
       IN  /\ state[c] = "HANDSHAKING" =>
                toServer[s] = <<>> /\ s \notin identified /\ ~ Parsing(s)
           /\ state[c] = "CONNECTED" /\ sEnd[s] = "open" =>
                toServer[s] # <<>> \/ s \in identified \/ Parsing(s)

\* Who wants all messages is not taken for one who does not.
PrivacyInv ==
  \A c \in Client \ PrivateOnly :
    sock[c] \in Socket =>
      /\ sock[c] \notin privateOnly
      /\ \A i \in DOMAIN toServer[sock[c]] :
           toServer[sock[c]][i].mid = "HELLO" => ~ toServer[sock[c]][i].privateOnly
      /\ Parsing(sock[c]) => \A i \in DOMAIN inbox :
           inbox[i].mid = "HELLO" => ~ inbox[i].privateOnly

Identified == {idOf[s] : s \in identified}

\* What c has heard once it has read all its mail.
AllHeard(c) == Heard(view[c], toClient[sock[c]])[Len(toClient[sock[c]])]

\* Roster and Announced, for c; and only identified clients have asked for
\* the list.
ToldInv(c) ==
  /\ state[c] = "HANDSHAKING" =>
       \A i \in DOMAIN toClient[sock[c]] : toClient[sock[c]][i].mid # "LIST_CLIENTS"
  /\ c \in Listening /\ sEnd[sock[c]] = "open" /\ AllHeard(c).listed =>
       sock[c] \in identified /\ AllHeard(c).ids = Identified
  /\ c \in Listening =>
       \A k \in DOMAIN toClient[sock[c]] :
         LET m == toClient[sock[c]][k]
             v == Heard(view[c], toClient[sock[c]])[k - 1]
         IN  v.listed => /\ m.mid = "TALK"  => m.from \in v.ids
                         /\ m.mid = "JOIN"  => m.id \notin v.ids
                         /\ m.mid = "LEAVE" => m.id \in v.ids

Inductive == Shape /\ HelloInv /\ PrivacyInv /\ \A c \in Client : ToldInv(c)

LEMMA ShapeTypes ==
  Shape => TypeOK
BY DEF Shape, NetType, ListInv, LoopInv, ClientInv, Aligned, TypeOK, View

LEMMA InductiveTells ==
  Inductive => Roster /\ Announced
<1>1. ASSUME \A c \in Client : ToldInv(c)
      PROVE  Roster
  BY <1>1 DEF ToldInv, AllHeard, Identified, Roster, Listening
<1>2. ASSUME \A c \in Client : ToldInv(c)
      PROVE  Announced
  BY <1>2 DEF ToldInv, Announced, Listening
<1>3. QED
  BY <1>1, <1>2 DEF Inductive

-----------------------------------------------------------------------------
(* What the server's messages do.                                          *)

LEMMA AppendShape ==
  ASSUME NEW S, NEW q \in Seq(S), NEW m \in S
  PROVE  /\ Append(q, m) \in Seq(S)
         /\ Len(q) \in Nat /\ DOMAIN q = 1 .. Len(q)
         /\ Len(Append(q, m)) = Len(q) + 1 /\ DOMAIN Append(q, m) = 1 .. Len(q) + 1
         /\ \A i \in 1 .. Len(q) : Append(q, m)[i] = q[i]
         /\ Append(q, m)[Len(q) + 1] = m
OBVIOUS

LEMMA ConcatOne ==
  ASSUME NEW S, NEW q \in Seq(S), NEW m \in S
  PROVE  q \o <<m>> = Append(q, m) /\ q \o <<>> = q
OBVIOUS

\* Each socket that is sent to gets m at the end of its mail, if it is open.
LEMMA PostShape ==
  ASSUME NetType, NEW R, NEW m \in ServerMessage, NEW C, Post(To(R, m), C)
  PROVE  /\ toServer' \in [Socket -> Seq(ClientMessage)]
         /\ toClient' \in [Socket -> Seq(ServerMessage)]
         /\ sEnd' \in [Socket -> {"open", "reset", "closed"}]
         /\ UNCHANGED <<up, connections, cEnd, breaks>>
         /\ \A s \in Socket :
              /\ toServer'[s] = IF s \in C THEN <<>> ELSE toServer[s]
              /\ sEnd'[s] = IF s \in C THEN "closed" ELSE sEnd[s]
              /\ \/ s \in C /\ toClient'[s] = <<>>
                 \/ s \in R /\ sEnd[s] = "open" /\ toClient'[s] = Append(toClient[s], m)
                 \/ (s \in R => sEnd[s] # "open") /\ toClient'[s] = toClient[s]
<1>1. \A s \in Socket : toClient[s] \in Seq(ServerMessage) /\ toServer[s] \in Seq(ClientMessage)
  BY DEF NetType
<1>2. \A s \in Socket : toClient[s] \o <<m>> = Append(toClient[s], m) /\ toClient[s] \o <<>> = toClient[s]
  BY <1>1, ConcatOne
<1>3. \A s \in Socket : Append(toClient[s], m) \in Seq(ServerMessage)
  BY <1>1, AppendShape
<1>4. <<>> \in Seq(ServerMessage) /\ <<>> \in Seq(ClientMessage)
  OBVIOUS
<1>5. \A s \in Socket :
        toClient'[s] = IF s \in C /\ cEnd[s] = "closed" THEN <<>>
                       ELSE IF sEnd[s] = "open" /\ s \in R THEN Append(toClient[s], m)
                       ELSE toClient[s]
  BY <1>2 DEF Post, To
<1>6. /\ \A s \in Socket : toServer'[s] = IF s \in C THEN <<>> ELSE toServer[s]
      /\ \A s \in Socket : sEnd'[s] = IF s \in C THEN "closed" ELSE sEnd[s]
      /\ UNCHANGED <<up, connections, cEnd, breaks>>
      /\ DOMAIN toServer' = Socket /\ DOMAIN sEnd' = Socket /\ DOMAIN toClient' = Socket
  BY DEF Post
<1>7. toServer' = [s \in Socket |-> toServer'[s]] /\ sEnd' = [s \in Socket |-> sEnd'[s]] /\ toClient' = [s \in Socket |-> toClient'[s]]
  BY DEF Post
<1>8. toServer' \in [Socket -> Seq(ClientMessage)]
  BY <1>1, <1>4, <1>6, <1>7
<1>9. toClient' \in [Socket -> Seq(ServerMessage)]
  BY <1>1, <1>3, <1>4, <1>5, <1>7
<1>10. sEnd' \in [Socket -> {"open", "reset", "closed"}]
  BY <1>6, <1>7 DEF NetType
<1>11. QED
  BY <1>5, <1>6, <1>8, <1>9, <1>10

\* The message m, sent to R while the sockets in C are closed, tells those
\* who want to know what becomes of the set of the identified clients.
Truthful(R, m, C) ==
  /\ \A s \in identified : s \notin C => s \in identified'
  /\ m.mid = "LIST_CLIENTS" => R \subseteq identified
  /\ m.mid = "TALK" => m.from \in Identified
  /\ m.mid = "JOIN" => m.id \notin Identified
  /\ m.mid = "LEAVE" => m.id \in Identified
  /\ \A s \in identified \ privateOnly : s \notin C =>
       /\ s \notin R => Identified' = Identified
       /\ s \in R =>
            /\ m.mid = "LIST_CLIENTS" => Identified' = m.ids
            /\ m.mid = "JOIN" => Identified' = Identified \union {m.id}
            /\ m.mid = "LEAVE" => Identified' = Identified \ {m.id}
            /\ m.mid \notin {"LIST_CLIENTS", "JOIN", "LEAVE"} => Identified' = Identified

LEMMA ToldMail ==
  ASSUME NetType, ClientInv, NEW c \in Client, sock[c] \in Socket
  PROVE  /\ toClient[sock[c]] \in Seq(ServerMessage)
         /\ Len(toClient[sock[c]]) \in Nat
         /\ DOMAIN toClient[sock[c]] = 1 .. Len(toClient[sock[c]])
         /\ view[c] \in View
         /\ \A k \in 0 .. Len(toClient[sock[c]]) : Heard(view[c], toClient[sock[c]])[k] \in View
         /\ AllHeard(c) \in View
<1>1. toClient[sock[c]] \in Seq(ServerMessage) /\ view[c] \in View
  BY DEF NetType, ClientInv
<1>2. \A k \in 0 .. Len(toClient[sock[c]]) : Heard(view[c], toClient[sock[c]])[k] \in View
  BY <1>1, HeardType
<1>3. Len(toClient[sock[c]]) \in Nat /\ DOMAIN toClient[sock[c]] = 1 .. Len(toClient[sock[c]])
  BY <1>1
<1>4. Len(toClient[sock[c]]) \in 0 .. Len(toClient[sock[c]])
  BY <1>3
<1>5. QED
  BY <1>1, <1>2, <1>3, <1>4 DEF AllHeard

LEMMA ToldPost ==
  ASSUME NetType, ClientInv, HelloInv, PrivacyInv, NEW c \in Client, ToldInv(c),
         NEW R, NEW m \in ServerMessage, NEW C,
         Post(To(R, m), C), Truthful(R, m, C), UNCHANGED <<state, sock, view>>
  PROVE  ToldInv(c)'
<1> DEFINE s == sock[c]
           q == toClient[s]
           n == Len(q)
           v == view[c]
<1>1. CASE state[c] \notin {"HANDSHAKING", "CONNECTED"}
  BY <1>1 DEF ToldInv, Listening
<1>2. CASE state[c] \in {"HANDSHAKING", "CONNECTED"}
  <2>0. s \in Socket
    BY <1>2 DEF ClientInv
  <2>1. /\ q \in Seq(ServerMessage) /\ n \in Nat /\ DOMAIN q = 1 .. n
        /\ \A k \in 0 .. n : Heard(v, q)[k] \in View
        /\ AllHeard(c) = Heard(v, q)[n] /\ AllHeard(c) \in View
    BY <2>0, ToldMail DEF AllHeard
  <2>2. /\ sEnd'[s] = IF s \in C THEN "closed" ELSE sEnd[s]
        /\ \/ s \in C /\ toClient'[s] = <<>>
           \/ s \in R /\ sEnd[s] = "open" /\ toClient'[s] = Append(q, m)
           \/ (s \in R => sEnd[s] # "open") /\ toClient'[s] = q
    BY <2>0, PostShape
  <2>3. /\ Listening' = Listening /\ state'[c] = state[c] /\ view'[c] = v /\ sock'[c] = s
        /\ AllHeard(c)' = Heard(v, toClient'[s])[Len(toClient'[s])]
    BY DEF Listening, AllHeard
  <2>4. /\ state[c] = "HANDSHAKING" => \A i \in 1 .. n : q[i].mid # "LIST_CLIENTS"
        /\ c \in Listening /\ sEnd[s] = "open" /\ AllHeard(c).listed =>
             s \in identified /\ AllHeard(c).ids = Identified
        /\ c \in Listening =>
             \A k \in 1 .. n :
               Heard(v, q)[k - 1].listed =>
                 /\ q[k].mid = "TALK"  => q[k].from \in Heard(v, q)[k - 1].ids
                 /\ q[k].mid = "JOIN"  => q[k].id \notin Heard(v, q)[k - 1].ids
                 /\ q[k].mid = "LEAVE" => q[k].id \in Heard(v, q)[k - 1].ids
    BY <2>1 DEF ToldInv
  <2>5. c \in Listening => s \notin privateOnly
    BY <2>0 DEF PrivacyInv, Listening
  <2>6. state[c] = "HANDSHAKING" => s \notin identified
    BY DEF HelloInv
  <2>7. state[c] = "HANDSHAKING" => c \notin Listening
    BY DEF Listening
  <2> DEFINE r == toClient'[s]
  <2> SUFFICES /\ state[c] = "HANDSHAKING" => \A i \in DOMAIN r : r[i].mid # "LIST_CLIENTS"
               /\ c \in Listening /\ sEnd'[s] = "open" /\ Heard(v, r)[Len(r)].listed =>
                    s \in identified' /\ Heard(v, r)[Len(r)].ids = Identified'
               /\ c \in Listening =>
                    \A k \in DOMAIN r :
                      Heard(v, r)[k - 1].listed =>
                        /\ r[k].mid = "TALK"  => r[k].from \in Heard(v, r)[k - 1].ids
                        /\ r[k].mid = "JOIN"  => r[k].id \notin Heard(v, r)[k - 1].ids
                        /\ r[k].mid = "LEAVE" => r[k].id \in Heard(v, r)[k - 1].ids
    BY <2>3 DEF ToldInv
  <2> HIDE DEF s, q, n, v, r
  <2>8. CASE s \in C /\ r = <<>>
    <3>1. DOMAIN r = {} /\ sEnd'[s] = "closed"
      BY <2>2, <2>8
    <3>2. QED
      BY <3>1
  <2>9. CASE s \in R /\ sEnd[s] = "open" /\ r = Append(q, m)
    <3>1. /\ Len(r) = n + 1 /\ DOMAIN r = 1 .. n + 1
          /\ \A i \in 1 .. n : r[i] = q[i]
          /\ r[n + 1] = m
      BY <2>1, <2>9, AppendShape DEF n
    <3>2. /\ \A k \in 0 .. n : Heard(v, r)[k] = Heard(v, q)[k]
          /\ Heard(v, r)[n + 1] = Seen(Heard(v, q)[n], m)
      BY <2>1, <2>9, HeardAppend DEF n
    <3>3. state[c] = "HANDSHAKING" => \A i \in DOMAIN r : r[i].mid # "LIST_CLIENTS"
      <4>1. state[c] = "HANDSHAKING" => m.mid # "LIST_CLIENTS"
        BY <2>6, <2>9 DEF Truthful
      <4>2. \A i \in DOMAIN r : i = n + 1 \/ i \in 1 .. n
        BY <2>1, <3>1
      <4>3. QED
        BY <2>4, <3>1, <4>1, <4>2
    <3>4. ASSUME c \in Listening, sEnd'[s] = "open", Heard(v, r)[Len(r)].listed
          PROVE  s \in identified' /\ Heard(v, r)[Len(r)].ids = Identified'
      <4> DEFINE w == AllHeard(c)
      <4>1. Heard(v, r)[Len(r)] = Seen(w, m) /\ w \in View
        BY <2>1, <3>1, <3>2
      <4>2. w.listed => s \in identified /\ w.ids = Identified
        BY <2>4, <2>9, <3>4
      <4>3. m.mid # "LIST_CLIENTS" => w.listed
        BY <3>4, <4>1, SeenType
      <4>4. s \in identified \ privateOnly /\ s \notin C /\ s \in R
        BY <2>2, <2>5, <2>9, <3>4, <4>2, <4>3 DEF Truthful
      <4>5. s \in identified'
        BY <4>4 DEF Truthful
      <4>6. /\ m.mid = "LIST_CLIENTS" => Identified' = m.ids
            /\ m.mid = "JOIN" => Identified' = Identified \union {m.id}
            /\ m.mid = "LEAVE" => Identified' = Identified \ {m.id}
            /\ m.mid \notin {"LIST_CLIENTS", "JOIN", "LEAVE"} => Identified' = Identified
        BY <4>4 DEF Truthful
      <4> HIDE DEF w
      <4>7. Seen(w, m).ids = Identified'
        BY <4>1, <4>2, <4>3, <4>6, SeenType
      <4>8. QED
        BY <4>1, <4>5, <4>7
    <3>5. ASSUME c \in Listening, NEW k \in DOMAIN r, Heard(v, r)[k - 1].listed
          PROVE  /\ r[k].mid = "TALK"  => r[k].from \in Heard(v, r)[k - 1].ids
                 /\ r[k].mid = "JOIN"  => r[k].id \notin Heard(v, r)[k - 1].ids
                 /\ r[k].mid = "LEAVE" => r[k].id \in Heard(v, r)[k - 1].ids
      <4>1. CASE k \in 1 .. n
        <5>1. k - 1 \in 0 .. n
          BY <2>1, <4>1
        <5>2. r[k] = q[k] /\ Heard(v, r)[k - 1] = Heard(v, q)[k - 1]
          BY <3>1, <3>2, <4>1, <5>1
        <5>3. QED
          BY <2>4, <3>5, <4>1, <5>2
      <4>2. CASE k = n + 1
        <5>1. k - 1 = n /\ n \in 0 .. n
          BY <2>1, <4>2
        <5>2. r[k] = m /\ Heard(v, r)[k - 1] = AllHeard(c)
          BY <2>1, <3>1, <3>2, <4>2, <5>1
        <5>3. AllHeard(c).ids = Identified
          BY <2>4, <2>9, <3>5, <5>2
        <5>4. QED
          BY <5>2, <5>3 DEF Truthful
      <4>3. QED
        BY <2>1, <3>1, <4>1, <4>2
    <3>6. QED
      BY <3>3, <3>4, <3>5
  <2>10. CASE (s \in R => sEnd[s] # "open") /\ r = q
    <3>1. ASSUME c \in Listening, sEnd'[s] = "open", Heard(v, r)[Len(r)].listed
          PROVE  s \in identified' /\ Heard(v, r)[Len(r)].ids = Identified'
      <4>1. Heard(v, r)[Len(r)] = AllHeard(c)
        BY <2>1, <2>10 DEF n
      <4>2. sEnd[s] = "open" /\ s \notin C /\ s \notin R
        BY <2>2, <2>10, <3>1
      <4>3. s \in identified /\ AllHeard(c).ids = Identified
        BY <2>4, <3>1, <4>1, <4>2
      <4>4. s \in identified \ privateOnly
        BY <2>5, <3>1, <4>3
      <4>5. QED
        BY <4>1, <4>2, <4>3, <4>4 DEF Truthful
    <3>2. QED
      BY <2>1, <2>4, <2>10, <3>1
  <2>11. QED
    BY <2>2, <2>8, <2>9, <2>10 DEF r
<1>3. QED
  BY <1>1, <1>2

\* A step that sends c nothing new, and may make it lose its mail or its
\* connection.
LEMMA ToldQuiet ==
  ASSUME NetType, ClientInv, NEW c \in Client, ToldInv(c),
         \/ state'[c] \notin {"HANDSHAKING", "CONNECTED"}
         \/ /\ sock[c] \in Socket
            /\ state'[c] = state[c] /\ sock'[c] = sock[c] /\ view'[c] = view[c]
            /\ toClient'[sock[c]] \in {<<>>, toClient[sock[c]]}
            /\ sEnd'[sock[c]] = "open" =>
                 /\ sEnd[sock[c]] = "open"
                 /\ toClient'[sock[c]] = toClient[sock[c]]
                 /\ sock[c] \in identified => sock[c] \in identified' /\ Identified' = Identified
  PROVE  ToldInv(c)'
<1> DEFINE s == sock[c]
           q == toClient[s]
           n == Len(q)
           v == view[c]
           r == toClient'[s]
<1>1. CASE state'[c] \notin {"HANDSHAKING", "CONNECTED"}
  BY <1>1 DEF ToldInv, Listening
<1>2. CASE state'[c] \in {"HANDSHAKING", "CONNECTED"}
  <2>1. /\ s \in Socket
        /\ state'[c] = state[c] /\ sock'[c] = s /\ view'[c] = v
        /\ r \in {<<>>, q}
        /\ sEnd'[s] = "open" =>
             /\ sEnd[s] = "open" /\ r = q
             /\ s \in identified => s \in identified' /\ Identified' = Identified
    BY <1>2
  <2>2. c \in Listening' <=> c \in Listening
    BY <2>1 DEF Listening
  <2>3. AllHeard(c)' = Heard(v, r)[Len(r)] /\ AllHeard(c) = Heard(v, q)[n]
    BY <2>1 DEF AllHeard
  <2>4. /\ state[c] = "HANDSHAKING" => \A i \in DOMAIN q : q[i].mid # "LIST_CLIENTS"
        /\ c \in Listening /\ sEnd[s] = "open" /\ Heard(v, q)[n].listed =>
             s \in identified /\ Heard(v, q)[n].ids = Identified
        /\ c \in Listening =>
             \A k \in DOMAIN q :
               Heard(v, q)[k - 1].listed =>
                 /\ q[k].mid = "TALK"  => q[k].from \in Heard(v, q)[k - 1].ids
                 /\ q[k].mid = "JOIN"  => q[k].id \notin Heard(v, q)[k - 1].ids
                 /\ q[k].mid = "LEAVE" => q[k].id \in Heard(v, q)[k - 1].ids
    BY <2>3 DEF ToldInv
  <2> SUFFICES /\ state[c] = "HANDSHAKING" => \A i \in DOMAIN r : r[i].mid # "LIST_CLIENTS"
               /\ c \in Listening /\ sEnd'[s] = "open" /\ Heard(v, r)[Len(r)].listed =>
                    s \in identified' /\ Heard(v, r)[Len(r)].ids = Identified'
               /\ c \in Listening =>
                    \A k \in DOMAIN r :
                      Heard(v, r)[k - 1].listed =>
                        /\ r[k].mid = "TALK"  => r[k].from \in Heard(v, r)[k - 1].ids
                        /\ r[k].mid = "JOIN"  => r[k].id \notin Heard(v, r)[k - 1].ids
                        /\ r[k].mid = "LEAVE" => r[k].id \in Heard(v, r)[k - 1].ids
    <3>1. state'[c] = state[c] /\ sock'[c] = s /\ view'[c] = v /\ toClient'[sock'[c]] = r
      BY <2>1
    <3> HIDE DEF r, v
    <3>2. QED
      BY <2>2, <2>3, <3>1, SMTT(30) DEF ToldInv
  <2>5. \A i \in DOMAIN <<>> : FALSE
    OBVIOUS
  <2> HIDE DEF s, q, n, v, r
  <2>6. CASE r = q
    BY <2>1, <2>4, <2>6 DEF n
  <2>7. CASE r # q
    <3>1. DOMAIN r = {} /\ sEnd'[s] # "open"
      BY <2>1, <2>5, <2>7
    <3>2. QED
      BY <3>1
  <2>8. QED
    BY <2>6, <2>7
<1>3. QED
  BY <1>1, <1>2

-----------------------------------------------------------------------------
(* Parts of the invariant that a step leaves alone.                        *)

LEMMA SilenceShape ==
  ASSUME NEW m
  PROVE  Silence = To({}, m)
BY DEF Silence, To

LEMMA ListFacts ==
  ASSUME ListInv, BacklogInv, NetType
  PROVE  /\ Listed \subseteq Socket /\ identified \subseteq Socket
         /\ \A s \in Listed : idOf[s] \in ID
         /\ clients \in Seq(Socket) /\ Len(clients) \in 0 .. MaxSockets
         /\ DOMAIN clients = 1 .. Len(clients)
         /\ \A i \in DOMAIN clients : clients[i] \in Listed
         /\ Len(backlog) \in Nat /\ DOMAIN backlog = 1 .. Len(backlog)
<1>1. clients \in Seq(Socket) /\ backlog \in Seq(Socket)
  BY DEF ListInv, Aligned, NetType
<1>2. Len(clients) \in Nat /\ DOMAIN clients = 1 .. Len(clients)
  BY <1>1
<1>3. Len(backlog) \in Nat /\ DOMAIN backlog = 1 .. Len(backlog)
  BY <1>1
<1>4. Listed \subseteq Socket /\ \A i \in DOMAIN clients : clients[i] \in Listed
  BY <1>1 DEF Listed
<1>5. \A s \in Listed : idOf[s] \in ID
  BY NetworkAssumption DEF ListInv, ID
<1>6. Len(clients) \in 0 .. MaxSockets
  BY <1>2, NetworkAssumption DEF ListInv
<1>7. QED
  BY <1>1, <1>2, <1>3, <1>4, <1>5, <1>6 DEF ListInv

LEMMA NetPost ==
  ASSUME NetType, NEW R, NEW m \in ServerMessage, NEW C, Post(To(R, m), C),
         backlog' \in Seq(Socket)
  PROVE  NetType'
BY PostShape DEF NetType

LEMMA ClientKept ==
  ASSUME ClientInv, UNCHANGED clientVars, UNCHANGED connections
  PROVE  ClientInv'
BY DEF ClientInv, clientVars

LEMMA AlignedKept ==
  ASSUME Aligned, UNCHANGED <<slots, clients>>
  PROVE  Aligned' /\ Listed' = Listed
<1>1. Listed' = Listed
  BY DEF Listed
<1>2. \A i : Rank(i)' = Rank(i)
  BY DEF Rank
<1>3. Rank(Len(slots))' = Rank(Len(slots))
  BY DEF Rank
<1>4. Packed' <=> Packed
  BY <1>2, <1>3 DEF Packed
<1>5. IsInjective(clients)' <=> IsInjective(clients)
  BY DEF IsInjective
<1>6. QED
  BY <1>1, <1>4, <1>5 DEF Aligned

LEMMA ListKept ==
  ASSUME ListInv, UNCHANGED <<slots, clients, maxID, idOf, identified, privateOnly, crashes>>,
         Len(backlog') = Len(backlog), connections <= connections', NetType, NetType'
  PROVE  ListInv'
<1>1. Aligned' /\ Listed' = Listed
  BY AlignedKept DEF ListInv
<1>2. maxID' + Len(backlog') <= connections'
  <2>1. backlog \in Seq(Socket)
    BY DEF NetType
  <2>2. Len(backlog) \in Nat /\ maxID \in Int /\ connections \in Int /\ connections' \in Int
    BY <2>1 DEF NetType, ListInv
  <2>3. QED
    BY <2>2 DEF ListInv
<1>3. QED
  BY <1>1, <1>2 DEF ListInv

LEMMA FuturePost ==
  ASSUME NetType, FutureInv, NEW R, NEW m \in ServerMessage, NEW C, Post(To(R, m), C),
         R \subseteq 1 .. connections
  PROVE  FutureInv'
<1>1. connections' = connections /\ connections \in Int
  BY PostShape DEF NetType
<1>2. \A s \in Socket : s > connections => s \notin R
  BY <1>1 DEF Socket
<1>3. \A s \in Socket :
        /\ toServer'[s] = IF s \in C THEN <<>> ELSE toServer[s]
        /\ s \notin R => toClient'[s] \in {<<>>, toClient[s]}
  BY PostShape
<1>4. QED
  BY <1>1, <1>2, <1>3 DEF FutureInv

LEMMA BacklogPost ==
  ASSUME NetType, BacklogInv, NEW R, NEW m \in ServerMessage, NEW C, Post(To(R, m), C),
         R \subseteq Listed, Listed' \subseteq Listed, backlog' = backlog
  PROVE  BacklogInv'
<1>1. connections' = connections
  BY PostShape
<1>2. \A s \in Socket : s \notin R => toClient'[s] \in {<<>>, toClient[s]}
  BY PostShape
<1>3. \A i \in DOMAIN backlog : backlog[i] \in Socket
  BY DEF NetType
<1>4. QED
  BY <1>1, <1>2, <1>3 DEF BacklogInv

-----------------------------------------------------------------------------
(* Messages of clients.                                                    *)

\* What the server knows of the message it processes.
LEMMA HeadFacts ==
  ASSUME Shape, HelloInv, NEW k, Handles(k)
  PROVE  /\ pc = "serve" /\ inbox # <<>> /\ pos \in DOMAIN clients
         /\ Sender = clients[pos] /\ Sender \in Listed /\ Sender \in Socket /\ idOf[Sender] \in ID
         /\ Parsing(Sender) /\ \A s : Parsing(s) => s = Sender
         /\ Head(inbox) \in ClientMessage /\ Head(inbox).mid = k
         /\ k = "HELLO" <=> Sender \notin identified
         /\ Head(inbox) = inbox[1] /\ 1 \in DOMAIN inbox
         /\ inbox' = Tail(inbox) /\ Tail(inbox) \in Seq(ClientMessage)
         /\ \A i \in DOMAIN Tail(inbox) : i + 1 \in DOMAIN inbox /\ i + 1 # 1 /\ Tail(inbox)[i] = inbox[i + 1]
         /\ backlog' = backlog
         /\ UNCHANGED <<pc, slots, clients, maxID, idOf, watched, ready, crashes>>
<1>1. inbox \in Seq(ClientMessage) /\ inbox # <<>> /\ pc = "serve" /\ pos \in DOMAIN clients
  BY DEF Shape, LoopInv, Handles
<1>2. /\ Head(inbox) = inbox[1] /\ 1 \in DOMAIN inbox /\ Head(inbox) \in ClientMessage
      /\ Tail(inbox) \in Seq(ClientMessage)
      /\ \A i \in DOMAIN Tail(inbox) : i + 1 \in DOMAIN inbox /\ i + 1 # 1 /\ Tail(inbox)[i] = inbox[i + 1]
  BY <1>1
<1>3. Sender \in Listed /\ Sender \in Socket /\ idOf[Sender] \in ID
  BY <1>1, ListFacts DEF Shape, Sender
<1>4. k = "HELLO" <=> Sender \notin identified
  BY <1>1, <1>2 DEF HelloInv, Handles, Sender
<1>5. QED
  BY <1>1, <1>2, <1>3, <1>4 DEF Handles, Sender, Parsing

\* A step of messageReceived() keeps the invariant, if what it sends is true.
LEMMA ProcessKeeps ==
  ASSUME Inductive, UNCHANGED clientVars, NEW k, Handles(k),
         NEW R, NEW m \in ServerMessage, NEW C, Post(To(R, m), C),
         R \subseteq Listed, Truthful(R, m, C),
         k = "HELLO" =>
           /\ identified' = identified \union {Sender}
           /\ privateOnly' = IF Head(inbox).privateOnly
                             THEN privateOnly \union {Sender} ELSE privateOnly,
         k # "HELLO" => UNCHANGED <<identified, privateOnly>>
  PROVE  Inductive'
<1> USE DEF Inductive
<1>1. /\ pc = "serve" /\ inbox # <<>> /\ pos \in DOMAIN clients
      /\ Sender = clients[pos] /\ Sender \in Listed /\ Sender \in Socket /\ idOf[Sender] \in ID
      /\ Parsing(Sender) /\ \A s : Parsing(s) => s = Sender
      /\ Head(inbox) \in ClientMessage /\ Head(inbox).mid = k
      /\ k = "HELLO" <=> Sender \notin identified
      /\ Head(inbox) = inbox[1] /\ 1 \in DOMAIN inbox
      /\ inbox' = Tail(inbox) /\ Tail(inbox) \in Seq(ClientMessage)
      /\ \A i \in DOMAIN Tail(inbox) : i + 1 \in DOMAIN inbox /\ i + 1 # 1 /\ Tail(inbox)[i] = inbox[i + 1]
      /\ backlog' = backlog
      /\ UNCHANGED <<pc, slots, clients, maxID, idOf, watched, ready, crashes>>
  BY HeadFacts
<1>2. /\ pos' = IF Tail(inbox) = <<>> THEN pos + 1 ELSE pos
      /\ UNCHANGED <<state, sock, view>>
  BY DEF Handles, clientVars
<1>3. identified \subseteq identified' /\ identified' = identified \union {Sender}
  BY <1>1
<1>4. NetType'
  BY <1>1, NetPost DEF Shape, NetType
<1>5. /\ UNCHANGED <<up, connections, cEnd, breaks>>
      /\ \A s \in Socket :
           /\ toServer'[s] = IF s \in C THEN <<>> ELSE toServer[s]
           /\ sEnd'[s] = IF s \in C THEN "closed" ELSE sEnd[s]
  BY PostShape DEF Shape
<1>6. Listed' = Listed
  BY <1>1 DEF Listed
<1>7. ListInv'
  <2>1. Aligned'
    BY <1>1, AlignedKept DEF Shape, ListInv
  <2>2. privateOnly' \subseteq identified' /\ identified' \subseteq Listed'
    BY <1>1, <1>3, <1>6 DEF Shape, ListInv
  <2>3. QED
    BY <1>1, <1>5, <1>6, <2>1, <2>2 DEF Shape, ListInv
<1>8. BacklogInv' /\ FutureInv'
  <2>1. R \subseteq 1 .. connections
    BY DEF Shape, BacklogInv
  <2>2. QED
    BY <1>1, <1>6, <2>1, BacklogPost, FuturePost DEF Shape
<1>9. LoopInv'
  <2>1. pos \in 1 .. Len(clients) /\ Len(clients) \in 0 .. MaxSockets
    BY <1>1, ListFacts DEF Shape
  <2>2. pos' \in 1 .. MaxSockets + 1
    BY <1>2, <2>1, NetworkAssumption
  <2>3. inbox' # <<>> => pos' = pos
    BY <1>1, <1>2
  <2>4. QED
    BY <1>1, <1>6, <2>2, <2>3 DEF Shape, LoopInv
<1>10. ClientInv'
  BY <1>5, ClientKept DEF Shape
<1>11. \A s : Parsing(s)' => s = Sender
  BY <1>1, <1>2 DEF Parsing
<1>12. HelloInv'
  <2>1. ASSUME NEW s \in Socket, NEW i \in DOMAIN toServer'[s]
        PROVE  toServer'[s][i].mid = "HELLO" <=> i = 1 /\ s \notin identified' /\ ~ Parsing(s)'
    <3>1. toServer'[s] = toServer[s]
      <4>1. DOMAIN <<>> = {}
        OBVIOUS
      <4>2. QED
        BY <4>1, <1>5, <2>1
    <3>2. toServer[s][i].mid = "HELLO" <=> i = 1 /\ s \notin identified /\ ~ Parsing(s)
      BY <2>1, <3>1 DEF HelloInv
    <3>3. CASE s = Sender
      BY <3>1, <3>2, <3>3, <1>1, <1>3
    <3>4. CASE s # Sender
      BY <3>1, <3>2, <3>4, <1>1, <1>3, <1>11
    <3>5. QED
      BY <3>3, <3>4
  <2>2. ASSUME inbox' # <<>>, NEW i \in DOMAIN inbox'
        PROVE  inbox'[i].mid = "HELLO" <=> i = 1 /\ clients'[pos'] \notin identified'
    <3>1. inbox[i + 1].mid # "HELLO" /\ inbox'[i] = inbox[i + 1]
      BY <1>1, <2>2 DEF HelloInv
    <3>2. clients'[pos'] = Sender
      BY <1>1, <1>2, <2>2
    <3>3. QED
      BY <1>3, <3>1, <3>2
  <2>3. ASSUME NEW c \in Client, state[c] = "HANDSHAKING"
        PROVE  toServer'[sock[c]] = <<>> /\ sock[c] \notin identified' /\ ~ Parsing(sock[c])'
    <3>0. Parsing(sock[c])' => sock[c] = Sender
      BY <1>1, <1>2 DEF Parsing
    <3>1. sock[c] \in Socket /\ sock[c] # Sender
      BY <2>3, <1>1 DEF Shape, ClientInv, HelloInv
    <3>2. QED
      BY <2>3, <3>0, <3>1, <1>3, <1>5 DEF HelloInv
  <2>4. ASSUME NEW c \in Client, state[c] = "CONNECTED", sEnd'[sock[c]] = "open"
        PROVE  toServer'[sock[c]] # <<>> \/ sock[c] \in identified' \/ Parsing(sock[c])'
    <3>1. sock[c] \in Socket
      BY <2>4 DEF Shape, ClientInv
    <3>2. sEnd[sock[c]] = "open" /\ toServer'[sock[c]] = toServer[sock[c]]
      BY <2>4, <3>1, <1>5
    <3>3. QED
      BY <2>4, <3>2, <1>1, <1>3 DEF HelloInv
  <2>5. QED
    BY <1>2, <2>1, <2>2, <2>3, <2>4 DEF HelloInv
<1>13. PrivacyInv'
  <2> SUFFICES ASSUME NEW c \in Client \ PrivateOnly, sock[c] \in Socket
               PROVE  /\ sock[c] \notin privateOnly'
                      /\ \A i \in DOMAIN toServer'[sock[c]] :
                           toServer'[sock[c]][i].mid = "HELLO" => ~ toServer'[sock[c]][i].privateOnly
                      /\ Parsing(sock[c])' => \A i \in DOMAIN inbox' :
                           inbox'[i].mid = "HELLO" => ~ inbox'[i].privateOnly
    BY <1>2 DEF PrivacyInv
  <2>1. /\ sock[c] \notin privateOnly
        /\ \A i \in DOMAIN toServer[sock[c]] :
             toServer[sock[c]][i].mid = "HELLO" => ~ toServer[sock[c]][i].privateOnly
        /\ Parsing(sock[c]) => \A i \in DOMAIN inbox :
             inbox[i].mid = "HELLO" => ~ inbox[i].privateOnly
    BY DEF PrivacyInv
  <2>2. sock[c] \notin privateOnly'
    BY <2>1, <1>1
  <2>3. toServer'[sock[c]] = toServer[sock[c]] \/ DOMAIN toServer'[sock[c]] = {}
    <3>1. DOMAIN <<>> = {}
      OBVIOUS
    <3>2. QED
      BY <3>1, <1>5
  <2>4. Parsing(sock[c])' => Parsing(sock[c])
    BY <1>1, <1>2 DEF Parsing
  <2>5. QED
    BY <2>1, <2>2, <2>3, <2>4, <1>1
<1>14. \A c \in Client : ToldInv(c)'
  BY <1>2, ToldPost DEF Shape
<1>15. QED
  BY <1>4, <1>7, <1>8, <1>9, <1>10, <1>12, <1>13, <1>14 DEF Shape

\* IDs of clients in the list differ.
LEMMA IdentifiedFacts ==
  ASSUME Shape
  PROVE  /\ \A s \in Listed : idOf[s] \in Identified <=> s \in identified
         /\ Identified \subseteq ID
<1>1. identified \subseteq Listed /\ \A s, t \in Listed : s # t => idOf[s] # idOf[t]
  BY DEF Shape, ListInv
<1>2. \A s \in Listed : idOf[s] \in ID
  BY ListFacts DEF Shape
<1>3. QED
  BY <1>1, <1>2 DEF Identified

LEMMA ProcessHelloKeeps ==
  ASSUME Inductive, UNCHANGED clientVars, ProcessHello
  PROVE  Inductive'
<1> DEFINE m == Join(idOf[Sender])
           R == Audience(Sender)
<1>1. /\ Handles("HELLO")
      /\ identified' = identified \union {Sender}
      /\ privateOnly' = IF Head(inbox).privateOnly
                        THEN privateOnly \union {Sender} ELSE privateOnly
  BY DEF ProcessHello
<1>2. PICK C \in Failing(To(R, m)) : Post(To(R, m), C)
  BY DEF ProcessHello, PostAll
<1>3. /\ Sender \in Listed /\ idOf[Sender] \in ID /\ Sender \notin identified
      /\ idOf' = idOf
  BY <1>1, HeadFacts DEF Inductive
<1>4. m \in ServerMessage /\ m.mid = "JOIN" /\ m.id = idOf[Sender]
  BY <1>3 DEF Join, ServerMessage
<1>5. m.id \notin Identified
  BY <1>3, <1>4, IdentifiedFacts DEF Inductive
<1>6. Identified' = Identified \union {m.id}
  BY <1>1, <1>3, <1>4 DEF Identified
<1>7. R \subseteq Listed /\ \A s \in identified \ privateOnly : s \in R
  BY <1>3 DEF Audience, Inductive, Shape, ListInv
<1> HIDE DEF m, R
<1>8. Truthful(R, m, C)
  BY <1>1, <1>4, <1>5, <1>6, <1>7 DEF Truthful
<1>9. QED
  BY <1>1, <1>2, <1>4, <1>7, <1>8, ProcessKeeps

\* A step that identifies nobody and only answers or forwards.
LEMMA TalkTruthful ==
  ASSUME Shape, NEW R, NEW m, NEW C, m.mid \notin {"LIST_CLIENTS", "JOIN", "LEAVE"},
         m.mid = "TALK" => m.from \in Identified,
         UNCHANGED <<identified, idOf>>
  PROVE  Truthful(R, m, C)
BY DEF Truthful, Identified

LEMMA ProcessListClientsKeeps ==
  ASSUME Inductive, UNCHANGED clientVars, ProcessListClients
  PROVE  Inductive'
<1> DEFINE m == Listing(Roll)
           R == {Sender}
<1>1. Handles("LIST_CLIENTS") /\ UNCHANGED <<identified, privateOnly>>
  BY DEF ProcessListClients
<1>2. PICK C \in Failing(To(R, m)) : Post(To(R, m), C)
  BY DEF ProcessListClients, PostAll
<1>3. Sender \in Listed /\ Sender \in identified /\ idOf' = idOf
  BY <1>1, HeadFacts DEF Inductive
<1>4. Roll = Identified /\ Identified' = Identified /\ Identified \subseteq ID
  <2>1. identified \subseteq Listed
    BY DEF Inductive, Shape, ListInv
  <2>2. Roll = Identified
    BY <2>1 DEF Roll, Identified
  <2>3. Identified' = Identified
    BY <1>1, <1>3 DEF Identified
  <2>4. QED
    BY <2>2, <2>3, IdentifiedFacts DEF Inductive
<1>5. m \in ServerMessage /\ m.mid = "LIST_CLIENTS" /\ m.ids = Identified
  BY <1>4 DEF Listing, ServerMessage
<1> HIDE DEF m
<1>6. Truthful(R, m, C)
  BY <1>1, <1>3, <1>4, <1>5 DEF Truthful
<1>7. R \subseteq Listed
  BY <1>3
<1> HIDE DEF R
<1>8. QED
  BY <1>1, <1>2, <1>5, <1>6, <1>7, ProcessKeeps

LEMMA TalkFacts ==
  ASSUME Inductive, HandlesTalk
  PROVE  /\ Handles("TALK") /\ UNCHANGED <<identified, privateOnly, idOf>>
         /\ Sender \in Listed
         /\ Head(inbox).to \in ID \union {Everyone}
         /\ Forwarded \in ServerMessage /\ Forwarded.mid = "TALK" /\ Forwarded.from \in Identified
<1>1. Handles("TALK") /\ UNCHANGED <<identified, privateOnly>>
  BY DEF HandlesTalk
<1>2. /\ Sender \in Listed /\ Sender \in identified /\ idOf' = idOf /\ idOf[Sender] \in ID
      /\ Head(inbox) \in ClientMessage /\ Head(inbox).mid = "TALK"
  BY <1>1, HeadFacts DEF Inductive
<1>3. Head(inbox).to \in ID \union {Everyone} /\ Head(inbox).n \in 1 .. MaxSends
  BY <1>2 DEF ClientMessage, UserMessage
<1>4. Forwarded \in ServerMessage /\ Forwarded.mid = "TALK" /\ Forwarded.from \in Identified
  BY <1>2, <1>3 DEF Forwarded, Talk, ServerMessage, Identified
<1>5. QED
  BY <1>1, <1>2, <1>3, <1>4

LEMMA BroadcastKeeps ==
  ASSUME Inductive, UNCHANGED clientVars, Broadcast
  PROVE  Inductive'
<1> DEFINE R == Audience(Sender)
<1>1. PICK C \in Failing(To(R, Forwarded)) : Post(To(R, Forwarded), C)
  BY DEF Broadcast, PostAll
<1>2. /\ Handles("TALK") /\ UNCHANGED <<identified, privateOnly, idOf>>
      /\ Forwarded \in ServerMessage /\ Forwarded.mid = "TALK" /\ Forwarded.from \in Identified
  BY TalkFacts DEF Broadcast
<1>3. R \subseteq Listed
  BY DEF Audience
<1> HIDE DEF R
<1>4. Truthful(R, Forwarded, C)
  BY <1>2, TalkTruthful DEF Inductive
<1>5. QED
  BY <1>1, <1>2, <1>3, <1>4, ProcessKeeps

LEMMA DeliverKeeps ==
  ASSUME Inductive, UNCHANGED clientVars, Deliver
  PROVE  Inductive'
<1>1. Post(To(ToName, Forwarded), {})
  BY DEF Deliver
<1>2. /\ Handles("TALK") /\ UNCHANGED <<identified, privateOnly, idOf>>
      /\ Forwarded \in ServerMessage /\ Forwarded.mid = "TALK" /\ Forwarded.from \in Identified
  BY TalkFacts DEF Deliver
<1>3. ToName \subseteq Listed
  BY DEF ToName
<1>4. Truthful(ToName, Forwarded, {})
  BY <1>2, TalkTruthful DEF Inductive
<1>5. QED
  BY <1>1, <1>2, <1>3, <1>4, ProcessKeeps

\* The notices that a private message could not be delivered.
LEMMA NoticeKeeps ==
  ASSUME Inductive, UNCHANGED clientVars, HandlesTalk,
         NEW k \in {"DELIVERY_FAILED", "CLIENT_NOT_FOUND"}, Head(inbox).to \in ID,
         NEW C, Post(To({Sender}, Notice(k, Head(inbox).to)), C)
  PROVE  Inductive'
<1> DEFINE m == Notice(k, Head(inbox).to)
           R == {Sender}
<1>1. Handles("TALK") /\ UNCHANGED <<identified, privateOnly, idOf>> /\ Sender \in Listed
  BY TalkFacts
<1>2. m \in ServerMessage /\ m.mid \notin {"LIST_CLIENTS", "JOIN", "LEAVE", "TALK"}
  BY DEF Notice, ServerMessage
<1>3. R \subseteq Listed /\ Post(To(R, m), C)
  BY <1>1
<1> HIDE DEF m, R
<1>4. Truthful(R, m, C)
  BY <1>1, <1>2, TalkTruthful DEF Inductive
<1>5. QED
  BY <1>1, <1>2, <1>3, <1>4, ProcessKeeps

LEMMA DeliveryFailsKeeps ==
  ASSUME Inductive, UNCHANGED clientVars, DeliveryFails
  PROVE  Inductive'
<1> DEFINE notice == To({Sender}, Notice("DELIVERY_FAILED", Head(inbox).to))
<1>1. PICK r \in ToName : \E failed \in Failing(notice) : Post(notice, failed \union {r})
  BY DEF DeliveryFails
<1>2. PICK failed \in Failing(notice) : Post(notice, failed \union {r})
  BY <1>1
<1>3. Head(inbox).to \in ID
  <2>1. r \in Listed /\ idOf[r] = Head(inbox).to
    BY DEF ToName
  <2>2. QED
    BY <2>1, ListFacts DEF Inductive, Shape
<1>4. HandlesTalk
  BY DEF DeliveryFails
<1>5. QED
  BY <1>2, <1>3, <1>4, NoticeKeeps

LEMMA ClientNotFoundKeeps ==
  ASSUME Inductive, UNCHANGED clientVars, ClientNotFound
  PROVE  Inductive'
<1> DEFINE notice == To({Sender}, Notice("CLIENT_NOT_FOUND", Head(inbox).to))
<1>1. PICK failed \in Failing(notice) : Post(notice, failed)
  BY DEF ClientNotFound, PostAll
<1>2. HandlesTalk /\ Head(inbox).to # Everyone
  BY DEF ClientNotFound
<1>3. Head(inbox).to \in ID
  BY <1>2, TalkFacts
<1>4. QED
  BY <1>1, <1>2, <1>3, NoticeKeeps

LEMMA AllProcessKeeps ==
  ASSUME Inductive, UNCHANGED clientVars, Process
  PROVE  Inductive'
BY ProcessHelloKeeps, ProcessListClientsKeeps, BroadcastKeeps, DeliverKeeps,
   DeliveryFailsKeeps, ClientNotFoundKeeps DEF Process

-----------------------------------------------------------------------------
(* The loops of the server.                                                *)

\* A step that only walks on.
LEMMA WalkKeeps ==
  ASSUME Inductive, UNCHANGED clientVars, UNCHANGED netVars, inbox = <<>>, inbox' = <<>>,
         UNCHANGED <<slots, clients, maxID, idOf, identified, privateOnly, crashes>>,
         pc' \in {"scan", "select", "serve"}, pos' \in 1 .. MaxSockets + 1,
         watched' \subseteq Listed, ready' \subseteq Socket,
         pc' = "scan" => \A s \in watched' : \E i \in DOMAIN clients : i < pos' /\ clients[i] = s,
         pc' = "serve" => watched' = {}
  PROVE  Inductive'
<1> USE DEF Inductive
<1>1. UNCHANGED <<up, connections, cEnd, sEnd, toServer, toClient, backlog, breaks>>
  BY DEF netVars
<1>2. UNCHANGED <<state, sock, sendQueue, phase, sends, view>>
  BY DEF clientVars
<1>3. NetType' /\ FutureInv' /\ ClientInv'
  BY <1>1, <1>2 DEF Shape, NetType, FutureInv, ClientInv
<1>4. Listed' = Listed
  BY DEF Listed
<1>5. ListInv' /\ BacklogInv'
  <2>1. ListInv'
    <3>1. connections <= connections'
      BY <1>1 DEF Shape, NetType
    <3>2. QED
      BY <1>1, <1>3, <3>1, ListKept DEF Shape
  <2>2. BacklogInv'
    BY <1>1, <1>4 DEF Shape, BacklogInv
  <2>3. QED
    BY <2>1, <2>2
<1>6. LoopInv'
  BY <1>4 DEF Shape, LoopInv
<1>7. HelloInv'
  BY <1>1, <1>2 DEF HelloInv, Parsing
<1>8. PrivacyInv'
  BY <1>1, <1>2 DEF PrivacyInv, Parsing
<1>9. ASSUME NEW c \in Client
      PROVE  ToldInv(c)'
  <2>1. Identified' = Identified /\ identified' = identified
    BY DEF Identified
  <2>2. state'[c] \in {"HANDSHAKING", "CONNECTED"} => sock[c] \in Socket
    BY <1>2 DEF Shape, ClientInv
  <2>3. QED
    BY <1>1, <1>2, <2>1, <2>2, ToldQuiet DEF Shape
<1>10. QED
  BY <1>3, <1>5, <1>6, <1>7, <1>8, <1>9 DEF Shape

LEMMA PosFacts ==
  ASSUME Shape
  PROVE  /\ pos \in 1 .. MaxSockets + 1 /\ pos \in Nat
         /\ pos <= Len(clients) => pos \in DOMAIN clients /\ pos + 1 \in 1 .. MaxSockets + 1
         /\ 1 \in 1 .. MaxSockets + 1
         /\ inbox \in Seq(ClientMessage)
         /\ pc # "serve" => inbox = <<>>
<1>1. pos \in 1 .. MaxSockets + 1 /\ inbox \in Seq(ClientMessage) /\ (inbox # <<>> => pc = "serve")
  BY DEF Shape, LoopInv
<1>2. Len(clients) \in 0 .. MaxSockets /\ DOMAIN clients = 1 .. Len(clients)
  BY ListFacts DEF Shape
<1>3. QED
  BY <1>1, <1>2, NetworkAssumption

LEMMA WatchKeeps ==
  ASSUME Inductive, UNCHANGED clientVars, Watch
  PROVE  Inductive'
<1>1. /\ pc = "scan" /\ pc' = pc /\ pos <= Len(clients) /\ pos' = pos + 1
      /\ watched' = watched \union {clients[pos]}
      /\ UNCHANGED <<slots, clients, maxID, idOf, identified, privateOnly, ready, inbox, crashes>>
      /\ UNCHANGED netVars
  BY DEF Watch, Scanning
<1>2. /\ inbox = <<>> /\ pos \in DOMAIN clients /\ pos' \in 1 .. MaxSockets + 1 /\ pos \in Nat
  BY <1>1, PosFacts DEF Inductive
<1>3. watched' \subseteq Listed
  BY <1>1, <1>2, ListFacts DEF Inductive, Shape, LoopInv
<1>4. \A s \in watched' : \E i \in DOMAIN clients : i < pos' /\ clients[i] = s
  <2>1. DOMAIN clients \subseteq Int
    BY ListFacts DEF Inductive, Shape
  <2>2. \A s \in watched : \E i \in DOMAIN clients : i < pos /\ clients[i] = s
    BY <1>1 DEF Inductive, Shape, LoopInv
  <2>3. \A i \in DOMAIN clients : i < pos => i < pos'
    BY <1>1, <1>2, <2>1
  <2>4. pos < pos'
    BY <1>1, <1>2
  <2>5. QED
    BY <1>1, <1>2, <2>2, <2>3, <2>4
<1>5. ready' \subseteq Socket
  BY <1>1 DEF Inductive, Shape, LoopInv
<1>6. QED
  BY <1>1, <1>2, <1>3, <1>4, <1>5, WalkKeeps

LEMMA SelectKeeps ==
  ASSUME Inductive, UNCHANGED clientVars, ScanDone \/ BadDescriptor \/ Wake
  PROVE  Inductive'
<1>1. CASE ScanDone
  BY <1>1, PosFacts, WalkKeeps DEF ScanDone, Scanning, Inductive, Shape, LoopInv
<1>2. CASE BadDescriptor
  BY <1>2, PosFacts, WalkKeeps DEF BadDescriptor, Inductive, Shape, LoopInv
<1>3. CASE Wake
  <2>1. Readable \subseteq Socket
    BY DEF Readable
  <2>2. QED
    BY <1>3, <2>1, PosFacts, WalkKeeps DEF Wake, Wakes, Inductive, Shape, LoopInv
<1>4. QED
  BY <1>1, <1>2, <1>3

LEMMA ServeKeeps ==
  ASSUME Inductive, UNCHANGED clientVars, PassOver \/ ServeDone
  PROVE  Inductive'
<1>1. CASE PassOver
  BY <1>1, PosFacts, WalkKeeps DEF PassOver, AtClient, Inductive, Shape, LoopInv
<1>2. CASE ServeDone
  BY <1>2, PosFacts, WalkKeeps DEF ServeDone, Inductive, Shape, LoopInv
<1>3. QED
  BY <1>1, <1>2

LEMMA SplitShape ==
  ASSUME NEW S, NEW q \in Seq(S), NEW k \in 1 .. Len(q)
  PROVE  /\ SubSeq(q, 1, k) \in Seq(S) /\ SubSeq(q, 1, k) # <<>>
         /\ SubSeq(q, k + 1, Len(q)) \in Seq(S)
         /\ q # <<>>
         /\ \A i \in DOMAIN SubSeq(q, 1, k) : i \in DOMAIN q /\ SubSeq(q, 1, k)[i] = q[i]
         /\ \A i \in DOMAIN SubSeq(q, k + 1, Len(q)) :
              i + k \in DOMAIN q /\ i + k # 1 /\ SubSeq(q, k + 1, Len(q))[i] = q[i + k]
<1> DEFINE a == SubSeq(q, 1, k)
           b == SubSeq(q, k + 1, Len(q))
<1>1. a \in Seq(S) /\ Len(a) = k /\ b \in Seq(S) /\ Len(b) = Len(q) - k
  OBVIOUS
<1>2. /\ \A i \in 1 .. k : a[i] = q[i]
      /\ \A i \in 1 .. Len(q) - k : b[i] = q[i + k]
  OBVIOUS
<1>3. q # <<>> /\ DOMAIN q = 1 .. Len(q) /\ Len(q) \in Nat
  OBVIOUS
<1> HIDE DEF a, b
<1>4. a # <<>> /\ DOMAIN a = 1 .. k /\ DOMAIN b = 1 .. Len(q) - k
  BY <1>1
<1>5. \A i \in DOMAIN a : i \in DOMAIN q /\ a[i] = q[i]
  BY <1>2, <1>3, <1>4
<1>6. \A i \in DOMAIN b : i + k \in DOMAIN q /\ i + k # 1 /\ b[i] = q[i + k]
  BY <1>2, <1>3, <1>4
<1>7. QED
  BY <1>1, <1>3, <1>4, <1>5, <1>6 DEF a, b

LEMMA ReceiveKeeps ==
  ASSUME Inductive, UNCHANGED clientVars, Receive
  PROVE  Inductive'
<1> USE DEF Inductive
<1> DEFINE s == clients[pos]
           q == toServer[s]
<1>0. PICK k \in 1 .. Len(q) :
        /\ inbox' = SubSeq(q, 1, k)
        /\ toServer' = [toServer EXCEPT ![s] = SubSeq(q, k + 1, Len(q))]
  BY DEF Receive
<1>1. /\ pc = "serve" /\ inbox = <<>> /\ pos <= Len(clients) /\ s \in ready
      /\ UNCHANGED <<pc, pos, slots, clients, maxID, idOf, identified, privateOnly, watched, ready, crashes>>
      /\ UNCHANGED <<up, connections, cEnd, sEnd, toClient, backlog, breaks>>
      /\ UNCHANGED <<state, sock, sendQueue, phase, sends, view>>
  BY DEF Receive, AtClient, clientVars
<1>2. pos \in DOMAIN clients /\ s \in Listed /\ s \in Socket /\ q \in Seq(ClientMessage)
  BY <1>1, PosFacts, ListFacts DEF Shape, NetType
<1>3. /\ inbox' \in Seq(ClientMessage) /\ inbox' # <<>> /\ q # <<>>
      /\ \A i \in DOMAIN inbox' : i \in DOMAIN q /\ inbox'[i] = q[i]
      /\ toServer'[s] \in Seq(ClientMessage)
      /\ \A i \in DOMAIN toServer'[s] : i + k \in DOMAIN q /\ i + k # 1 /\ toServer'[s][i] = q[i + k]
      /\ \A t \in Socket : t # s => toServer'[t] = toServer[t]
      /\ toServer' \in [Socket -> Seq(ClientMessage)]
  <2> DEFINE b == SubSeq(q, k + 1, Len(q))
  <2>0. q \in Seq(ClientMessage) /\ k \in 1 .. Len(q)
    BY <1>0, <1>2
  <2>1. /\ SubSeq(q, 1, k) \in Seq(ClientMessage) /\ SubSeq(q, 1, k) # <<>>
        /\ b \in Seq(ClientMessage)
        /\ q # <<>>
        /\ \A i \in DOMAIN SubSeq(q, 1, k) : i \in DOMAIN q /\ SubSeq(q, 1, k)[i] = q[i]
        /\ \A i \in DOMAIN b : i + k \in DOMAIN q /\ i + k # 1 /\ b[i] = q[i + k]
    <3> HIDE DEF q
    <3> QED
      BY <2>0, SplitShape, SMTT(30)
  <2>2. toServer \in [Socket -> Seq(ClientMessage)] /\ toServer' = [toServer EXCEPT ![s] = b]
    BY <1>0 DEF Shape, NetType
  <2> HIDE DEF b, s
  <2>3. /\ toServer'[s] = b
        /\ \A t \in Socket : t # s => toServer'[t] = toServer[t]
        /\ toServer' \in [Socket -> Seq(ClientMessage)]
    BY <1>2, <2>1, <2>2
  <2>4. QED
    BY <1>0, <2>1, <2>3
<1> HIDE DEF q
<1>4. NetType'
  BY <1>1, <1>3 DEF Shape, NetType
<1>5. Listed' = Listed /\ Identified' = Identified
  BY <1>1 DEF Listed, Identified
<1>6. ListInv'
  <2>1. connections <= connections'
    BY <1>1 DEF Shape, NetType
  <2>2. QED
    BY <1>1, <1>4, <2>1, ListKept DEF Shape
<1>7. BacklogInv' /\ ClientInv'
  BY <1>1, <1>5 DEF Shape, BacklogInv, ClientInv
<1>8. FutureInv'
  <2>1. s <= connections /\ s \in Int /\ connections \in Int
    <3>1. Listed \subseteq 1 .. connections /\ connections \in 0 .. MaxSockets
      BY DEF Shape, BacklogInv, NetType
    <3>2. s \in 1 .. connections
      BY <1>2, <3>1
    <3> HIDE DEF s
    <3>3. QED
      BY <3>1, <3>2
  <2>2. \A t \in Socket : t > connections => t # s
    BY <2>1
  <2>3. QED
    BY <1>1, <1>3, <2>2 DEF Shape, FutureInv
<1>9. LoopInv'
  BY <1>1, <1>2, <1>3, <1>5 DEF Shape, LoopInv
<1>10. (\A t : ~ Parsing(t)) /\ clients'[pos'] = s /\ inbox' # <<>>
  BY <1>1, <1>3 DEF Parsing
<1>11. \A i \in DOMAIN q : q[i].mid = "HELLO" <=> i = 1 /\ s \notin identified
  BY <1>2, <1>10 DEF HelloInv, q
<1>12. HelloInv'
  <2>1. ASSUME NEW t \in Socket, NEW i \in DOMAIN toServer'[t]
        PROVE  toServer'[t][i].mid = "HELLO" <=>
                 i = 1 /\ t \notin identified' /\ ~ (inbox' # <<>> /\ clients'[pos'] = t)
    <3>1. CASE t = s
      BY <1>3, <1>10, <1>11, <3>1
    <3>2. CASE t # s
      <4>1. toServer'[t] = toServer[t] /\ clients'[pos'] # t
        BY <1>3, <1>10, <3>2
      <4>2. toServer[t][i].mid = "HELLO" <=> i = 1 /\ t \notin identified
        BY <1>10, <2>1, <4>1 DEF HelloInv
      <4>3. QED
        BY <1>1, <4>1, <4>2
    <3>3. QED
      BY <3>1, <3>2
  <2>2. \A i \in DOMAIN inbox' : inbox'[i].mid = "HELLO" <=> i = 1 /\ clients'[pos'] \notin identified'
    BY <1>1, <1>3, <1>10, <1>11
  <2>3. ASSUME NEW c \in Client, state[c] = "HANDSHAKING"
        PROVE  toServer'[sock[c]] = <<>> /\ sock[c] \notin identified /\ s # sock[c]
    <3>1. toServer[sock[c]] = <<>> /\ sock[c] \notin identified /\ sock[c] \in Socket
      BY <2>3 DEF HelloInv, Shape, ClientInv
    <3>2. s # sock[c]
      BY <1>3, <3>1 DEF q
    <3>3. QED
      BY <1>3, <3>1, <3>2
  <2>4. ASSUME NEW c \in Client, state[c] = "CONNECTED", sEnd[sock[c]] = "open"
        PROVE  toServer'[sock[c]] # <<>> \/ sock[c] \in identified \/ s = sock[c]
    <3>1. sock[c] \in Socket
      BY <2>4 DEF Shape, ClientInv
    <3>2. toServer[sock[c]] # <<>> \/ sock[c] \in identified
      BY <1>10, <2>4 DEF HelloInv
    <3>3. QED
      BY <1>3, <3>1, <3>2
  <2>5. QED
    BY <1>1, <1>10, <2>1, <2>2, <2>3, <2>4 DEF HelloInv, Parsing
<1>13. PrivacyInv'
  <2> SUFFICES ASSUME NEW c \in Client \ PrivateOnly, sock[c] \in Socket
               PROVE  /\ \A i \in DOMAIN toServer'[sock[c]] :
                           toServer'[sock[c]][i].mid = "HELLO" => ~ toServer'[sock[c]][i].privateOnly
                      /\ s = sock[c] => \A i \in DOMAIN inbox' :
                           inbox'[i].mid = "HELLO" => ~ inbox'[i].privateOnly
    BY <1>1, <1>10 DEF PrivacyInv, Parsing
  <2>1. \A i \in DOMAIN toServer[sock[c]] :
          toServer[sock[c]][i].mid = "HELLO" => ~ toServer[sock[c]][i].privateOnly
    BY DEF PrivacyInv
  <2>2. CASE s = sock[c]
    BY <1>3, <2>1, <2>2 DEF q
  <2>3. CASE s # sock[c]
    BY <1>3, <2>1, <2>3
  <2>4. QED
    BY <2>2, <2>3
<1>14. ASSUME NEW c \in Client
       PROVE  ToldInv(c)'
  <2>1. state'[c] \in {"HANDSHAKING", "CONNECTED"} => sock[c] \in Socket
    BY <1>1 DEF Shape, ClientInv
  <2>2. QED
    BY <1>1, <1>5, <2>1, ToldQuiet DEF Shape
<1>15. QED
  BY <1>4, <1>6, <1>7, <1>8, <1>9, <1>12, <1>13, <1>14 DEF Shape

\* A client leaves the list.
LEMMA ExitKeeps ==
  ASSUME Inductive, UNCHANGED clientVars, pos <= Len(clients), inbox = <<>>,
         pc \in {"scan", "serve"}, Exit(clients[pos]), pos' = pos + 1,
         UNCHANGED <<pc, watched, ready, inbox>>
  PROVE  Inductive'
<1> USE DEF Inductive
<1> DEFINE s == clients[pos]
           m == IF s \in identified THEN Leave(idOf[s]) ELSE Hello(0)
           R == IF s \in identified THEN Audience(s) ELSE {}
<1>0. /\ Take(s)
      /\ identified' = identified \ {s}
      /\ privateOnly' = privateOnly \ {s}
      /\ idOf' = [idOf EXCEPT ![s] = NoID]
      /\ UNCHANGED <<maxID, backlog, crashes>>
      /\ UNCHANGED <<state, sock, sendQueue, phase, sends, view>>
  BY DEF Exit, clientVars
<1>1. Farewell(s) = To(R, m)
  BY SilenceShape DEF Farewell, BlindFarewell
<1>2. PICK C : Post(To(R, m), C) /\ s \in C
  <2>1. PICK failed \in Failing(Farewell(s)) : Post(Farewell(s), failed \union {s})
    BY DEF Exit
  <2>2. Post(To(R, m), failed \union {s}) /\ s \in failed \union {s}
    BY <1>1, <2>1
  <2>3. QED
    BY <2>2
<1>3. /\ pos \in DOMAIN clients /\ pos \in Nat /\ pos + 1 \in 1 .. MaxSockets + 1
      /\ s \in Listed /\ s \in Socket /\ idOf[s] \in ID
  BY PosFacts, ListFacts DEF Shape
<1>4. m \in ServerMessage /\ m.mid \in {"LEAVE", "HELLO"} /\ (m.mid = "LEAVE" <=> s \in identified)
      /\ (s \in identified => m.id = idOf[s])
  <2>1. 0 \in ID
    BY NetworkAssumption DEF ID
  <2>2. QED
    BY <1>3, <2>1 DEF Leave, Hello, ServerMessage
<1>5. /\ Aligned'
      /\ Listed' = Listed \ {s}
      /\ Len(clients') = Len(clients) - 1
      /\ \A j \in 1 .. pos - 1 : j \in DOMAIN clients' /\ clients'[j] = clients[j]
  BY <1>0, <1>3, TakeKeeps DEF Shape, ListInv
<1>6. R \subseteq Listed
  BY DEF Audience
<1>7. /\ UNCHANGED <<up, connections, cEnd, breaks>>
      /\ \A t \in Socket :
           /\ toServer'[t] = IF t \in C THEN <<>> ELSE toServer[t]
           /\ sEnd'[t] = IF t \in C THEN "closed" ELSE sEnd[t]
  BY <1>2, <1>4, PostShape DEF Shape
<1>8. Identified' = IF s \in identified THEN Identified \ {idOf[s]} ELSE Identified
  <2>1. /\ \A t \in identified' : idOf'[t] = idOf[t] /\ t \in identified /\ t # s
        /\ \A t \in identified : t # s => t \in identified'
    BY <1>0, ListFacts DEF Shape, ListInv
  <2>2. \A t \in identified : t # s => idOf[t] # idOf[s]
    BY <1>3 DEF Shape, ListInv
  <2> HIDE DEF s
  <2>3. QED
    BY <2>1, <2>2, <1>0 DEF Identified
<1>9. Truthful(R, m, C)
  <2>1. s \in identified => m.id \in Identified
    BY <1>4 DEF Identified
  <2>2. \A t \in identified \ privateOnly : t \notin C /\ s \in identified => t \in R
    BY <1>2 DEF Audience, Shape, ListInv
  <2> HIDE DEF m, R, s
  <2>3. QED
    BY <1>0, <1>2, <1>4, <1>8, <2>1, <2>2 DEF Truthful
<1> HIDE DEF m, R
<1>10. NetType'
  BY <1>0, <1>2, <1>4, NetPost DEF Shape, NetType
<1>11. ListInv'
  <2>1. idOf' \in [Socket -> ID \union {NoID}] /\ \A t \in Listed' : idOf'[t] = idOf[t]
    <3>1. \A t \in Socket : t # s => idOf'[t] = idOf[t]
      BY <1>0 DEF Shape, ListInv
    <3>2. idOf' \in [Socket -> ID \union {NoID}]
      BY <1>0 DEF Shape, ListInv
    <3>3. \A t \in Listed' : t \in Socket /\ t # s
      BY <1>5, ListFacts DEF Shape
    <3>4. QED
      BY <3>1, <3>2, <3>3
  <2>2. privateOnly' \subseteq identified' /\ identified' \subseteq Listed'
    BY <1>0, <1>5 DEF Shape, ListInv
  <2>3. Len(clients') <= maxID' /\ maxID' + Len(backlog') <= connections'
    BY <1>0, <1>5, <1>7, ListFacts DEF Shape, ListInv
  <2>4. QED
    BY <1>0, <1>5, <2>1, <2>2, <2>3 DEF Shape, ListInv
<1>12. BacklogInv' /\ FutureInv'
  <2>1. R \subseteq 1 .. connections
    BY <1>6 DEF Shape, BacklogInv
  <2>2. QED
    BY <1>0, <1>2, <1>4, <1>5, <1>6, <2>1, BacklogPost, FuturePost DEF Shape
<1>13. LoopInv'
  <2>1. ASSUME pc = "scan", NEW t \in watched
        PROVE  \E i \in DOMAIN clients' : i < pos' /\ clients'[i] = t
    <3>1. PICK i \in DOMAIN clients : i < pos /\ clients[i] = t
      BY <2>1 DEF Shape, LoopInv
    <3>2. i \in 1 .. pos - 1 /\ i < pos'
      BY <1>3, <3>1, ListFacts DEF Shape
    <3>3. QED
      BY <1>5, <3>1, <3>2
  <2>2. watched' \subseteq Listed'
    BY <2>1 DEF Shape, LoopInv, Listed
  <2>3. QED
    BY <1>3, <2>1, <2>2 DEF Shape, LoopInv
<1>14. ClientInv'
  BY <1>7, ClientKept DEF Shape
<1>15. (\A t : ~ Parsing(t)) /\ inbox' = <<>>
  BY DEF Parsing
<1>16. DOMAIN <<>> = {}
  OBVIOUS
<1>17. HelloInv'
  <2>1. ASSUME NEW t \in Socket, NEW i \in DOMAIN toServer'[t]
        PROVE  toServer'[t][i].mid = "HELLO" <=> i = 1 /\ t \notin identified'
    <3>1. t \notin C /\ toServer'[t] = toServer[t]
      BY <1>7, <1>16, <2>1
    <3>2. t # s
      BY <1>2, <3>1
    <3>3. QED
      BY <1>0, <1>15, <2>1, <3>1, <3>2 DEF HelloInv
  <2>2. ASSUME NEW c \in Client, state[c] = "HANDSHAKING"
        PROVE  toServer'[sock[c]] = <<>> /\ sock[c] \notin identified'
    BY <1>0, <1>7, <2>2 DEF HelloInv, Shape, ClientInv
  <2>3. ASSUME NEW c \in Client, state[c] = "CONNECTED", sEnd'[sock[c]] = "open"
        PROVE  toServer'[sock[c]] # <<>> \/ sock[c] \in identified'
    <3>1. sock[c] \in Socket
      BY <2>3 DEF Shape, ClientInv
    <3>2. sock[c] \notin C /\ sEnd[sock[c]] = "open" /\ toServer'[sock[c]] = toServer[sock[c]]
      BY <1>7, <2>3, <3>1
    <3>3. sock[c] # s
      BY <1>2, <3>2
    <3>4. QED
      BY <1>0, <1>15, <2>3, <3>2, <3>3 DEF HelloInv
  <2>4. QED
    BY <1>0, <1>15, <2>1, <2>2, <2>3 DEF HelloInv, Parsing
<1>18. PrivacyInv'
  <2> SUFFICES ASSUME NEW c \in Client \ PrivateOnly, sock[c] \in Socket
               PROVE  /\ sock[c] \notin privateOnly'
                      /\ \A i \in DOMAIN toServer'[sock[c]] :
                           toServer'[sock[c]][i].mid = "HELLO" => ~ toServer'[sock[c]][i].privateOnly
    BY <1>0, <1>15 DEF PrivacyInv, Parsing
  <2>1. toServer'[sock[c]] = toServer[sock[c]] \/ DOMAIN toServer'[sock[c]] = {}
    BY <1>7, <1>16
  <2>2. QED
    BY <1>0, <2>1 DEF PrivacyInv
<1>19. \A c \in Client : ToldInv(c)'
  BY <1>0, <1>2, <1>4, <1>9, ToldPost DEF Shape
<1>20. QED
  BY <1>10, <1>11, <1>12, <1>13, <1>14, <1>17, <1>18, <1>19 DEF Shape

LEMMA AllExitKeeps ==
  ASSUME Inductive, UNCHANGED clientVars, ExitDisconnected \/ HangUp
  PROVE  Inductive'
<1>1. CASE ExitDisconnected
  BY <1>1, ExitKeeps, PosFacts DEF ExitDisconnected, Scanning, Inductive
<1>2. CASE HangUp
  BY <1>2, ExitKeeps DEF HangUp, AtClient
<1>3. QED
  BY <1>1, <1>2

\* A client enters the list.
LEMMA AcceptKeeps ==
  ASSUME Inductive, UNCHANGED clientVars, Accept
  PROVE  Inductive'
<1> USE DEF Inductive
<1> DEFINE s == Head(backlog)
           m == Hello(maxID)
           R == {s}
<1>0. /\ Add(s) /\ backlog # <<>>
      /\ idOf' = [idOf EXCEPT ![s] = maxID]
      /\ maxID' = maxID + 1 /\ backlog' = Tail(backlog)
      /\ pc = "select" /\ pc' = "serve" /\ watched' = {} /\ ready' = Readable
      /\ UNCHANGED <<pos, inbox, crashes, identified, privateOnly>>
      /\ UNCHANGED <<state, sock, sendQueue, phase, sends, view>>
  BY DEF Accept, Wakes, clientVars
<1>1. PICK C \in Failing(To(R, m)) : Post(To(R, m), C)
  BY DEF Accept
<1>2. /\ backlog \in Seq(Socket) /\ Len(backlog) \in Nat \ {0}
      /\ 1 \in DOMAIN backlog /\ s = backlog[1]
      /\ backlog' \in Seq(Socket) /\ Len(backlog') = Len(backlog) - 1
      /\ \A i \in DOMAIN backlog' : i + 1 \in DOMAIN backlog /\ i \in Int /\ i + 1 # 1 /\ backlog'[i] = backlog[i + 1]
  <2>1. backlog \in Seq(Socket)
    BY DEF Shape, NetType
  <2>2. QED
    BY <1>0, <2>1
<1>3. s \in Socket /\ s \in 1 .. connections /\ s \notin Listed /\ toClient[s] = <<>>
  BY <1>2 DEF Shape, BacklogInv
<1>4. /\ maxID \in 0 .. MaxSockets - 1 /\ maxID \in ID /\ maxID \in Nat
      /\ maxID' + Len(backlog') <= connections /\ connections \in 0 .. MaxSockets
  <2>1. connections \in 0 .. MaxSockets /\ maxID \in 0 .. MaxSockets /\ maxID + Len(backlog) <= connections
    BY DEF Shape, NetType, ListInv
  <2>2. QED
    BY <1>0, <1>2, <2>1, NetworkAssumption DEF ID
<1>5. m \in ServerMessage /\ m.mid = "HELLO"
  BY <1>4 DEF Hello, ServerMessage
<1>6. /\ Aligned' /\ Listed' = Listed \union {s} /\ Len(clients') = Len(clients) + 1
  BY <1>0, <1>3, AddKeeps DEF Shape, ListInv
<1>7. s \notin identified
  BY <1>3 DEF Shape, ListInv
<1>8. Identified' = Identified
  <2>1. \A t \in identified : idOf'[t] = idOf[t]
    BY <1>0, <1>7, ListFacts DEF Shape, ListInv
  <2>2. QED
    BY <1>0, <2>1 DEF Identified
<1> HIDE DEF m, s
<1>9. Truthful(R, m, C)
  BY <1>0, <1>5, <1>7, <1>8 DEF Truthful
<1>10. NetType'
  BY <1>1, <1>2, <1>5, NetPost DEF Shape
<1>11. /\ UNCHANGED <<up, connections, cEnd, breaks>>
       /\ \A t \in Socket :
            /\ toServer'[t] = IF t \in C THEN <<>> ELSE toServer[t]
            /\ sEnd'[t] = IF t \in C THEN "closed" ELSE sEnd[t]
            /\ t # s => toClient'[t] \in {<<>>, toClient[t]}
  <2>1. NetType /\ Post(To(R, m), C)
    BY <1>1 DEF Shape
  <2>2. QED
    BY <1>5, <2>1, PostShape, SMTT(30)
<1>12. ListInv'
  <2>1. /\ idOf' \in [Socket -> ID \union {NoID}] /\ idOf'[s] = maxID
        /\ \A t \in Listed : t # s /\ idOf'[t] = idOf[t] /\ idOf[t] \in 0 .. maxID - 1
    BY <1>0, <1>3, <1>4, ListFacts DEF Shape, ListInv
  <2>2. \A t \in Listed' : idOf'[t] \in 0 .. maxID' - 1
    <3>1. \A t \in Listed : idOf'[t] \in 0 .. maxID' - 1
      BY <1>0, <1>4, <2>1
    <3>2. idOf'[s] \in 0 .. maxID' - 1
      BY <1>0, <1>4, <2>1
    <3>3. QED
      BY <1>6, <3>1, <3>2
  <2>3. \A t, u \in Listed' : t # u => idOf'[t] # idOf'[u]
    <3>1. \A t, u \in Listed : t # u => idOf'[t] # idOf'[u]
      BY <2>1 DEF Shape, ListInv
    <3>2. \A t \in Listed : idOf'[t] # idOf'[s]
      BY <1>4, <2>1
    <3>3. QED
      BY <1>6, <3>1, <3>2
  <2>4. privateOnly' \subseteq identified' /\ identified' \subseteq Listed'
    BY <1>0, <1>6 DEF Shape, ListInv
  <2>5. Len(clients') <= maxID' /\ maxID' \in 0 .. MaxSockets
    BY <1>0, <1>4, <1>6, ListFacts, NetworkAssumption DEF Shape, ListInv
  <2>6. maxID' + Len(backlog') <= connections' /\ crashes' \in 0 .. MaxCrashes
    BY <1>0, <1>4, <1>11 DEF Shape, ListInv
  <2>7. QED
    BY <1>6, <2>1, <2>2, <2>3, <2>4, <2>5, <2>6 DEF ListInv
<1>13. BacklogInv'
  <2>1. \A i \in DOMAIN backlog' :
          /\ backlog'[i] = backlog[i + 1] /\ i + 1 \in DOMAIN backlog
          /\ backlog'[i] # s /\ backlog'[i] \in Socket
    BY <1>2 DEF Shape, BacklogInv
  <2>2. \A i, j \in DOMAIN backlog' : i + 1 = j + 1 => i = j
    BY <1>2
  <2>3. \A i, j \in DOMAIN backlog' : backlog'[i] = backlog'[j] => i = j
    BY <2>1, <2>2 DEF Shape, BacklogInv
  <2>4. \A i \in DOMAIN backlog' :
          /\ backlog'[i] \in 1 .. connections' /\ backlog'[i] \notin Listed'
          /\ toClient'[backlog'[i]] = <<>>
    BY <1>6, <1>11, <2>1 DEF Shape, BacklogInv
  <2>5. Listed' \subseteq 1 .. connections'
    BY <1>3, <1>6, <1>11 DEF Shape, BacklogInv
  <2>6. QED
    BY <2>3, <2>4, <2>5 DEF BacklogInv
<1>14. FutureInv'
  <2>1. R \subseteq 1 .. connections
    BY <1>3
  <2>2. QED
    BY <1>1, <1>5, <2>1, FuturePost DEF Shape
<1>15. inbox = <<>> /\ inbox' = <<>> /\ \A t : ~ Parsing(t)
  BY <1>0 DEF Shape, LoopInv, Parsing
<1>16. LoopInv'
  <2>1. Readable \subseteq Socket
    BY DEF Readable
  <2>2. QED
    BY <1>0, <1>15, <2>1 DEF Shape, LoopInv
<1>17. ClientInv'
  BY <1>11, ClientKept DEF Shape
<1>18. DOMAIN <<>> = {}
  OBVIOUS
<1>19. HelloInv'
  <2>1. ASSUME NEW t \in Socket, NEW i \in DOMAIN toServer'[t]
        PROVE  toServer'[t][i].mid = "HELLO" <=> i = 1 /\ t \notin identified'
    <3>1. toServer'[t] = toServer[t]
      BY <1>11, <1>18, <2>1
    <3>2. QED
      BY <1>0, <1>15, <2>1, <3>1 DEF HelloInv
  <2>2. ASSUME NEW c \in Client, state[c] = "HANDSHAKING"
        PROVE  toServer'[sock[c]] = <<>> /\ sock[c] \notin identified'
    BY <1>0, <1>11, <2>2 DEF HelloInv, Shape, ClientInv
  <2>3. ASSUME NEW c \in Client, state[c] = "CONNECTED", sEnd'[sock[c]] = "open"
        PROVE  toServer'[sock[c]] # <<>> \/ sock[c] \in identified'
    <3>1. sock[c] \in Socket
      BY <2>3 DEF Shape, ClientInv
    <3>2. sEnd[sock[c]] = "open" /\ toServer'[sock[c]] = toServer[sock[c]]
      BY <1>11, <2>3, <3>1
    <3>3. QED
      BY <1>0, <1>15, <2>3, <3>2 DEF HelloInv
  <2>4. QED
    BY <1>0, <1>15, <2>1, <2>2, <2>3 DEF HelloInv, Parsing
<1>20. PrivacyInv'
  <2> SUFFICES ASSUME NEW c \in Client \ PrivateOnly, sock[c] \in Socket
               PROVE  /\ sock[c] \notin privateOnly'
                      /\ \A i \in DOMAIN toServer'[sock[c]] :
                           toServer'[sock[c]][i].mid = "HELLO" => ~ toServer'[sock[c]][i].privateOnly
    BY <1>0, <1>15 DEF PrivacyInv, Parsing
  <2>1. toServer'[sock[c]] = toServer[sock[c]] \/ DOMAIN toServer'[sock[c]] = {}
    BY <1>11, <1>18
  <2>2. QED
    BY <1>0, <2>1 DEF PrivacyInv
<1>21. \A c \in Client : ToldInv(c)'
  BY <1>0, <1>1, <1>5, <1>9, ToldPost DEF Shape
<1>22. QED
  BY <1>10, <1>12, <1>13, <1>14, <1>16, <1>17, <1>19, <1>20, <1>21 DEF Shape

\* The process ends and starts.
LEMMA CrashKeeps ==
  ASSUME Inductive, UNCHANGED clientVars, Crash
  PROVE  Inductive'
<1> USE DEF Inductive
<1>0. /\ up' = FALSE /\ crashes' = crashes + 1 /\ crashes < MaxCrashes
      /\ sEnd' = [s \in Socket |-> "closed"]
      /\ toServer' = [s \in Socket |-> <<>>]
      /\ toClient' = [s \in Socket |-> IF cEnd[s] = "closed" THEN <<>> ELSE toClient[s]]
      /\ backlog' = <<>> /\ pc' = "scan" /\ pos' = 1 /\ slots' = <<>> /\ clients' = <<>>
      /\ maxID' = 0 /\ idOf' = [s \in Socket |-> NoID]
      /\ identified' = {} /\ privateOnly' = {} /\ watched' = {} /\ ready' = {} /\ inbox' = <<>>
      /\ UNCHANGED <<connections, cEnd, breaks>>
      /\ UNCHANGED <<state, sock, sendQueue, phase, sends, view>>
  BY DEF Crash, clientVars
<1>1. DOMAIN <<>> = {} /\ Len(<<>>) = 0 /\ \A S : <<>> \in Seq(S)
  OBVIOUS
<1>2. Listed' = {}
  BY <1>0, <1>1 DEF Listed
<1>3. NetType' /\ FutureInv'
  <2>1. \A s \in Socket : toClient'[s] \in {<<>>, toClient[s]}
    BY <1>0
  <2>2. toClient' \in [Socket -> Seq(ServerMessage)]
    BY <1>0, <1>1 DEF Shape, NetType
  <2>3. toServer' \in [Socket -> Seq(ClientMessage)]
    BY <1>0, <1>1
  <2>4. QED
    BY <1>0, <1>1, <2>1, <2>2, <2>3 DEF Shape, NetType, FutureInv
<1>4. ListInv'
  <2>1. Packed'
    <3>1. Rank(Len(slots))' = 0
      <4>1. Rank(Len(slots))' = Items(slots', 0)
        BY <1>0, <1>1 DEF Rank, Items
      <4>2. QED
        BY <4>1, ItemsStep
    <3>2. QED
      BY <1>0, <1>1, <3>1 DEF Packed
  <2>2. Aligned'
    BY <1>0, <1>1, <1>2, <2>1 DEF Aligned, IsInjective
  <2>3. crashes' \in 0 .. MaxCrashes
    BY <1>0, ServerAssumption DEF Shape, ListInv
  <2>4. Len(clients') <= maxID' /\ maxID' + Len(backlog') <= connections' /\ maxID' \in 0 .. MaxSockets
    BY <1>0, <1>1, NetworkAssumption DEF Shape, NetType
  <2>5. QED
    BY <1>0, <1>2, <2>2, <2>3, <2>4 DEF ListInv
<1>5. BacklogInv' /\ LoopInv'
  BY <1>0, <1>1, <1>2, NetworkAssumption DEF BacklogInv, LoopInv
<1>6. ClientInv'
  BY <1>0, ClientKept DEF Shape
<1>7. HelloInv' /\ PrivacyInv'
  BY <1>0, <1>1 DEF HelloInv, PrivacyInv, Parsing, Shape, ClientInv
<1>8. ASSUME NEW c \in Client
      PROVE  ToldInv(c)'
  <2>1. state'[c] \in {"HANDSHAKING", "CONNECTED"} => sock[c] \in Socket
    BY <1>0 DEF Shape, ClientInv
  <2>2. \A s \in Socket : sEnd'[s] = "closed" /\ toClient'[s] \in {<<>>, toClient[s]}
    BY <1>0
  <2>3. QED
    BY <1>0, <2>1, <2>2, ToldQuiet DEF Shape
<1>9. QED
  BY <1>3, <1>4, <1>5, <1>6, <1>7, <1>8 DEF Shape

LEMMA StartKeeps ==
  ASSUME Inductive, UNCHANGED clientVars, Start
  PROVE  Inductive'
<1> USE DEF Inductive
<1>1. /\ up' = TRUE
      /\ UNCHANGED <<connections, cEnd, sEnd, toServer, toClient, backlog, breaks>>
      /\ UNCHANGED <<pc, pos, slots, clients, maxID, idOf, identified, privateOnly,
                     watched, ready, inbox, crashes>>
      /\ UNCHANGED <<state, sock, sendQueue, phase, sends, view>>
  BY DEF Start, serverVars, clientVars
<1>2. NetType' /\ FutureInv' /\ ClientInv'
  BY <1>1 DEF Shape, NetType, FutureInv, ClientInv
<1>3. ListInv'
  <2>1. connections <= connections'
    BY <1>1 DEF Shape, NetType
  <2>2. QED
    BY <1>1, <1>2, <2>1, ListKept DEF Shape
<1>4. BacklogInv' /\ LoopInv'
  BY <1>1 DEF Shape, BacklogInv, LoopInv, Listed
<1>5. HelloInv' /\ PrivacyInv'
  BY <1>1 DEF HelloInv, PrivacyInv, Parsing
<1>6. ASSUME NEW c \in Client
      PROVE  ToldInv(c)'
  <2>1. state'[c] \in {"HANDSHAKING", "CONNECTED"} => sock[c] \in Socket
    BY <1>1 DEF Shape, ClientInv
  <2>2. Identified' = Identified
    BY <1>1 DEF Identified
  <2>3. QED
    BY <1>1, <2>1, <2>2, ToldQuiet DEF Shape
<1>7. QED
  BY <1>2, <1>3, <1>4, <1>5, <1>6 DEF Shape

LEMMA ServerKeeps ==
  ASSUME Inductive, UNCHANGED clientVars, Server
  PROVE  Inductive'
BY WatchKeeps, SelectKeeps, ServeKeeps, ReceiveKeeps, AllExitKeeps, AcceptKeeps,
   AllProcessKeeps, CrashKeeps, StartKeeps DEF Server, Iterate

-----------------------------------------------------------------------------
(* The clients.                                                            *)

\* A step that leaves the server alone, and brings no new mail to sockets
\* without mail.
LEMMA ShapeKept ==
  ASSUME Shape, NetType', ClientInv', UNCHANGED serverVars, UNCHANGED <<connections, backlog>>,
         \A s \in Socket : toClient[s] = <<>> => toClient'[s] = <<>>,
         \A s \in Socket : toServer'[s] = toServer[s] \/ s <= connections
  PROVE  Shape'
<1>1. UNCHANGED <<pc, pos, slots, clients, maxID, idOf, identified, privateOnly,
                  watched, ready, inbox, crashes>>
  BY DEF serverVars
<1>2. ListInv'
  <2>1. connections <= connections'
    BY DEF Shape, NetType
  <2>2. QED
    BY <1>1, <2>1, ListKept DEF Shape
<1>3. BacklogInv'
  <2>1. Listed' = Listed /\ \A i \in DOMAIN backlog : backlog[i] \in Socket
    BY <1>1 DEF Listed, Shape, NetType
  <2>2. QED
    BY <1>1, <2>1 DEF Shape, BacklogInv
<1>4. LoopInv'
  BY <1>1 DEF Shape, LoopInv, Listed
<1>5. FutureInv'
  <2>1. \A s \in Socket : s > connections => ~ (s <= connections)
    BY DEF Shape, NetType, Socket
  <2>2. QED
    BY <2>1 DEF Shape, FutureInv
<1>6. QED
  BY <1>2, <1>3, <1>4, <1>5 DEF Shape

LEMMA ServerSame ==
  ASSUME UNCHANGED serverVars
  PROVE  /\ UNCHANGED <<identified, privateOnly, inbox, clients, pos>>
         /\ Identified' = Identified
         /\ \A s : (inbox' # <<>> /\ clients'[pos'] = s) <=> Parsing(s)
BY DEF serverVars, Identified, Parsing

\* A step of clients that leaves the connections alone.
LEMMA OfflineKeeps ==
  ASSUME Inductive, UNCHANGED serverVars, UNCHANGED netVars, UNCHANGED <<sock, view>>,
         ClientInv', \A c \in Client : state'[c] \in {state[c], "NOT_CONNECTED"}
  PROVE  Inductive'
<1> USE DEF Inductive
<1>1. UNCHANGED <<up, connections, cEnd, sEnd, toServer, toClient, backlog, breaks>>
  BY DEF netVars
<1>2. Shape'
  <2>1. NetType'
    BY <1>1 DEF Shape, NetType
  <2>2. QED
    BY <1>1, <2>1, ShapeKept
<1>3. HelloInv' /\ PrivacyInv'
  BY <1>1, ServerSame DEF HelloInv, PrivacyInv, Parsing
<1>4. ASSUME NEW c \in Client
      PROVE  ToldInv(c)'
  <2>1. \/ state'[c] \notin {"HANDSHAKING", "CONNECTED"}
        \/ sock[c] \in Socket /\ state'[c] = state[c]
    BY DEF Shape, ClientInv
  <2>2. QED
    BY <1>1, <2>1, ServerSame, ToldQuiet DEF Shape
<1>5. QED
  BY <1>2, <1>3, <1>4

LEMMA SendTypes ==
  ASSUME Shape, NEW c \in Client, Sends(c), NEW m \in Requests(c)
  PROVE  m \in UserMessage /\ sends' \in 0 .. MaxSends /\ sends' = sends + 1
<1>1. sends + 1 \in 1 .. MaxSends /\ sends' = sends + 1
  BY ClientAssumption DEF Shape, ClientInv, Sends
<1>2. view[c].ids \subseteq ID
  BY DEF Shape, ClientInv, View
<1>3. QED
  BY <1>1, <1>2 DEF Requests, UserMessage

LEMMA EnqueueType ==
  ASSUME ClientInv, NEW c \in Client, NEW m \in UserMessage, Enqueue(c, m)
  PROVE  sendQueue' \in [Client -> Seq(UserMessage)]
<1>1. Append(sendQueue[c], m) \in Seq(UserMessage)
  BY DEF ClientInv
<1>2. QED
  BY <1>1 DEF ClientInv, Enqueue

LEMMA SendOfflineKeeps ==
  ASSUME Inductive, UNCHANGED serverVars, NEW c \in Client, NEW m \in Requests(c),
         SendFails(c, m) \/ SendLater(c, m)
  PROVE  Inductive'
<1>1. /\ Sends(c) /\ Enqueue(c, m) /\ UNCHANGED netVars /\ UNCHANGED <<sock, view>>
      /\ \/ state' = state /\ phase' = phase
         \/ /\ state[c] = "CONNECTED"
            /\ state' = [state EXCEPT ![c] = "NOT_CONNECTED"]
            /\ phase' = phase \/ phase' = [phase EXCEPT ![c] = "drain"]
  BY DEF SendFails, SendLater, Sends
<1>2. /\ sendQueue' \in [Client -> Seq(UserMessage)] /\ sends' \in 0 .. MaxSends
      /\ connections' = connections
  BY <1>1, SendTypes, EnqueueType DEF Inductive, Shape, netVars
<1>3. ClientInv'
  BY <1>1, <1>2 DEF Inductive, Shape, ClientInv
<1>4. \A d \in Client : state'[d] \in {state[d], "NOT_CONNECTED"}
  BY <1>1 DEF Inductive, Shape, ClientInv
<1>5. QED
  BY <1>1, <1>3, <1>4, OfflineKeeps

LEMMA LostKeeps ==
  ASSUME Inductive, UNCHANGED serverVars, NEW c \in Client, Lost(c) \/ Drained(c)
  PROVE  Inductive'
<1>1. /\ UNCHANGED <<sock, sendQueue, sends, view>> /\ UNCHANGED netVars
      /\ phase' = [phase EXCEPT ![c] = "out"]
      /\ state' = state \/ state' = [state EXCEPT ![c] = "NOT_CONNECTED"]
  BY DEF Lost, Drained
<1>2. ClientInv'
  BY <1>1 DEF Inductive, Shape, ClientInv, netVars
<1>3. \A d \in Client : state'[d] \in {state[d], "NOT_CONNECTED"}
  BY <1>1 DEF Inductive, Shape, ClientInv
<1>4. QED
  BY <1>1, <1>2, <1>3, OfflineKeeps

LEMMA QueueShape ==
  ASSUME NEW S, NEW q \in Seq(S), q # <<>>
  PROVE  /\ Head(q) \in S /\ Tail(q) \in Seq(S)
         /\ Append(Tail(q), Head(q)) \in Seq(S)
OBVIOUS

LEMMA FlushFailsKeeps ==
  ASSUME Inductive, UNCHANGED serverVars, NEW c \in Client, FlushFails(c)
  PROVE  Inductive'
<1>1. /\ UNCHANGED <<sock, sends, view>> /\ UNCHANGED netVars
      /\ sendQueue[c] # <<>>
      /\ sendQueue' = [sendQueue EXCEPT ![c] = Append(Tail(sendQueue[c]), Head(sendQueue[c]))]
      /\ phase' = [phase EXCEPT ![c] = "out"]
      /\ state' = [state EXCEPT ![c] = "NOT_CONNECTED"]
  BY DEF FlushFails, Flushing, Inductive, Shape, ClientInv
<1>2. sendQueue' \in [Client -> Seq(UserMessage)]
  <2>1. sendQueue[c] \in Seq(UserMessage)
    BY DEF Inductive, Shape, ClientInv
  <2>2. Append(Tail(sendQueue[c]), Head(sendQueue[c])) \in Seq(UserMessage)
    BY <1>1, <2>1, QueueShape
  <2>3. QED
    BY <1>1, <2>2 DEF Inductive, Shape, ClientInv
<1>3. ClientInv'
  BY <1>1, <1>2 DEF Inductive, Shape, ClientInv, netVars
<1>4. \A d \in Client : state'[d] \in {state[d], "NOT_CONNECTED"}
  BY <1>1 DEF Inductive, Shape, ClientInv
<1>5. QED
  BY <1>1, <1>3, <1>4, OfflineKeeps

\* A message of the user is sent.
LEMMA TransmitKeeps ==
  ASSUME Inductive, UNCHANGED serverVars, NEW c \in Client, state[c] = "CONNECTED",
         NEW m \in UserMessage, Transmit(sock[c], m), UNCHANGED <<state, sock, view>>, ClientInv'
  PROVE  Inductive'
<1> USE DEF Inductive
<1> DEFINE s == sock[c]
           q == toServer[s]
<1>0. /\ UNCHANGED <<up, connections, cEnd, sEnd, toClient, backlog, breaks>>
      /\ toServer' = IF sEnd[s] = "open" THEN [toServer EXCEPT ![s] = Append(q, m)] ELSE toServer
  BY DEF Transmit
<1>1. s \in Socket /\ s <= connections /\ q \in Seq(ClientMessage)
  BY DEF Shape, ClientInv, NetType
<1>2. m \in ClientMessage /\ m.mid # "HELLO"
  BY DEF ClientMessage, UserMessage
<1>3. /\ Append(q, m) \in Seq(ClientMessage) /\ Append(q, m) # <<>>
      /\ DOMAIN q = 1 .. Len(q) /\ Len(q) \in Nat /\ DOMAIN Append(q, m) = 1 .. Len(q) + 1
      /\ \A i \in 1 .. Len(q) : Append(q, m)[i] = q[i]
      /\ Append(q, m)[Len(q) + 1] = m
      /\ q # <<>> => Len(q) # 0
  <2>1. /\ Append(q, m) \in Seq(ClientMessage)
        /\ DOMAIN q = 1 .. Len(q) /\ Len(q) \in Nat /\ DOMAIN Append(q, m) = 1 .. Len(q) + 1
        /\ \A i \in 1 .. Len(q) : Append(q, m)[i] = q[i]
        /\ Append(q, m)[Len(q) + 1] = m
    BY <1>1, <1>2, AppendShape
  <2>2. Append(q, m) # <<>> /\ (q # <<>> => Len(q) # 0)
    BY <1>1, <1>2
  <2>3. QED
    BY <2>1, <2>2
<1> HIDE DEF q
<1>4. /\ toServer' \in [Socket -> Seq(ClientMessage)]
      /\ \A t \in Socket : t # s => toServer'[t] = toServer[t]
      /\ toServer'[s] = IF sEnd[s] = "open" THEN Append(q, m) ELSE q
  <2>1. toServer \in [Socket -> Seq(ClientMessage)]
    BY DEF Shape, NetType
  <2> HIDE DEF s
  <2>2. QED
    BY <1>0, <1>1, <1>3, <2>1 DEF q
<1>5. Shape'
  <2>1. NetType'
    BY <1>0, <1>4 DEF Shape, NetType
  <2>2. QED
    BY <1>0, <1>1, <1>4, <2>1, ShapeKept
<1>6. \A i \in DOMAIN q : q[i].mid = "HELLO" <=> i = 1 /\ s \notin identified /\ ~ Parsing(s)
  BY <1>1 DEF HelloInv, q
<1>7. sEnd[s] = "open" => q # <<>> \/ s \in identified \/ Parsing(s)
  BY DEF HelloInv, q
<1>8. \A i \in DOMAIN toServer'[s] :
        toServer'[s][i].mid = "HELLO" <=> i = 1 /\ s \notin identified /\ ~ Parsing(s)
  <2>1. CASE sEnd[s] = "open"
    <3> SUFFICES ASSUME NEW i \in 1 .. Len(q) + 1
                 PROVE  Append(q, m)[i].mid = "HELLO" <=> i = 1 /\ s \notin identified /\ ~ Parsing(s)
      BY <1>3, <1>4, <2>1
    <3>1. CASE i = Len(q) + 1
      <4>1. ~ (i = 1 /\ s \notin identified /\ ~ Parsing(s))
        BY <1>3, <1>7, <2>1, <3>1
      <4>2. QED
        BY <1>2, <1>3, <3>1, <4>1
    <3>2. CASE i # Len(q) + 1
      <4>1. i \in 1 .. Len(q)
        BY <1>3, <3>2
      <4>2. QED
        BY <1>3, <1>6, <4>1
    <3>3. QED
      BY <3>1, <3>2
  <2>2. CASE sEnd[s] # "open"
    BY <1>4, <1>6, <2>2
  <2>3. QED
    BY <2>1, <2>2
<1>9. HelloInv'
  <2>1. ASSUME NEW t \in Socket, NEW i \in DOMAIN toServer'[t]
        PROVE  toServer'[t][i].mid = "HELLO" <=> i = 1 /\ t \notin identified /\ ~ Parsing(t)
    <3>1. CASE t = s
      BY <1>8, <2>1, <3>1
    <3>2. CASE t # s
      BY <1>4, <2>1, <3>2 DEF HelloInv
    <3>3. QED
      BY <3>1, <3>2
  <2>2. ASSUME NEW d \in Client, state[d] = "HANDSHAKING"
        PROVE  toServer'[sock[d]] = <<>> /\ sock[d] \notin identified /\ ~ Parsing(sock[d])
    <3>1. sock[d] \in Socket /\ sock[d] # s
      BY <1>1, <2>2 DEF Shape, ClientInv
    <3>2. QED
      BY <1>4, <2>2, <3>1 DEF HelloInv
  <2>3. ASSUME NEW d \in Client, state[d] = "CONNECTED", sEnd[sock[d]] = "open"
        PROVE  toServer'[sock[d]] # <<>> \/ sock[d] \in identified \/ Parsing(sock[d])
    <3>1. sock[d] \in Socket
      BY <2>3 DEF Shape, ClientInv
    <3>2. QED
      BY <1>3, <1>4, <2>3, <3>1 DEF HelloInv, q
  <2>4. QED
    BY <1>0, <2>1, <2>2, <2>3, ServerSame DEF HelloInv, Parsing
<1>10. PrivacyInv'
  <2> SUFFICES ASSUME NEW d \in Client \ PrivateOnly, sock[d] \in Socket
               PROVE  \A i \in DOMAIN toServer'[sock[d]] :
                        toServer'[sock[d]][i].mid = "HELLO" => ~ toServer'[sock[d]][i].privateOnly
    BY ServerSame DEF PrivacyInv, Parsing
  <2>1. \A i \in DOMAIN toServer[sock[d]] :
          toServer[sock[d]][i].mid = "HELLO" => ~ toServer[sock[d]][i].privateOnly
    BY DEF PrivacyInv
  <2>2. CASE sock[d] = s /\ sEnd[s] = "open"
    <3>1. \A i \in DOMAIN toServer'[s] : i \in DOMAIN q \/ i = Len(q) + 1
      BY <1>3, <1>4, <2>2
    <3>2. ASSUME NEW i \in DOMAIN q PROVE toServer'[s][i] = toServer[s][i]
      BY <1>3, <1>4, <2>2, <3>2 DEF q
    <3>3. toServer'[s][Len(q) + 1].mid # "HELLO"
      BY <1>2, <1>3, <1>4, <2>2
    <3>4. QED
      BY <2>1, <2>2, <3>1, <3>2, <3>3 DEF q
  <2>3. CASE ~ (sock[d] = s /\ sEnd[s] = "open")
    BY <1>4, <2>1, <2>3 DEF q
  <2>4. QED
    BY <2>2, <2>3
<1>11. ASSUME NEW d \in Client
       PROVE  ToldInv(d)'
  <2>1. state'[d] \in {"HANDSHAKING", "CONNECTED"} => sock[d] \in Socket
    BY DEF Shape, ClientInv
  <2>2. QED
    BY <1>0, <2>1, ServerSame, ToldQuiet DEF Shape
<1>12. QED
  BY <1>5, <1>9, <1>10, <1>11

LEMMA SendDirectKeeps ==
  ASSUME Inductive, UNCHANGED serverVars, NEW c \in Client, NEW m \in Requests(c), SendDirect(c, m)
  PROVE  Inductive'
<1>1. /\ Sends(c) /\ state[c] = "CONNECTED" /\ Transmit(sock[c], m)
      /\ UNCHANGED <<state, sendQueue, phase, sock, view>>
  BY DEF SendDirect, Sends
<1>2. m \in UserMessage /\ sends' \in 0 .. MaxSends
  BY <1>1, SendTypes DEF Inductive
<1>3. ClientInv'
  BY <1>1, <1>2 DEF Inductive, Shape, ClientInv, Transmit
<1>4. QED
  BY <1>1, <1>2, <1>3, TransmitKeeps

LEMMA FlushKeeps ==
  ASSUME Inductive, UNCHANGED serverVars, NEW c \in Client, Flush(c)
  PROVE  Inductive'
<1>1. /\ state[c] = "CONNECTED" /\ sendQueue[c] # <<>> /\ Transmit(sock[c], Head(sendQueue[c]))
      /\ UNCHANGED <<state, sock, sends, view>>
      /\ sendQueue' = [sendQueue EXCEPT ![c] = Tail(sendQueue[c])]
      /\ phase' = [phase EXCEPT ![c] = IF Tail(sendQueue[c]) = <<>> THEN "out" ELSE "flush"]
  BY DEF Flush, Flushing, Inductive, Shape, ClientInv
<1>2. sendQueue[c] \in Seq(UserMessage)
  BY DEF Inductive, Shape, ClientInv
<1>3. Head(sendQueue[c]) \in UserMessage /\ Tail(sendQueue[c]) \in Seq(UserMessage)
  BY <1>1, <1>2, QueueShape
<1>4. ClientInv'
  <2>1. sendQueue' \in [Client -> Seq(UserMessage)]
    BY <1>1, <1>3 DEF Inductive, Shape, ClientInv
  <2>2. /\ phase' \in [Client -> {"out", "flush", "drain"}]
        /\ \A d \in Client : phase'[d] = "drain" => phase[d] = "drain"
    BY <1>1 DEF Inductive, Shape, ClientInv
  <2>3. connections' = connections
    BY <1>1 DEF Transmit
  <2>4. QED
    BY <1>1, <2>1, <2>2, <2>3 DEF Inductive, Shape, ClientInv
<1>5. QED
  BY <1>1, <1>3, <1>4, TransmitKeeps

\* A client takes the first message of its mail.
LEMMA TakeMail ==
  ASSUME NetType, NEW s \in Socket, toClient[s] # <<>>,
         toClient' = [toClient EXCEPT ![s] = Tail(@)]
  PROVE  /\ toClient' \in [Socket -> Seq(ServerMessage)]
         /\ toClient'[s] = Tail(toClient[s])
         /\ \A t \in Socket : t # s => toClient'[t] = toClient[t]
         /\ \A t \in Socket : toClient[t] = <<>> => toClient'[t] = <<>>
         /\ toClient[s] \in Seq(ServerMessage)
         /\ Tail(toClient[s]) \in Seq(ServerMessage)
         /\ Head(toClient[s]) \in ServerMessage
         /\ Len(toClient[s]) \in Nat /\ Len(Tail(toClient[s])) = Len(toClient[s]) - 1
         /\ DOMAIN toClient[s] = 1 .. Len(toClient[s])
         /\ \A i \in DOMAIN Tail(toClient[s]) :
              i \in Nat \ {0} /\ i + 1 \in DOMAIN toClient[s] /\ Tail(toClient[s])[i] = toClient[s][i + 1]
<1> DEFINE q == toClient[s]
<1>1. toClient \in [Socket -> Seq(ServerMessage)] /\ q \in Seq(ServerMessage)
  BY DEF NetType
<1>2. /\ Tail(q) \in Seq(ServerMessage) /\ Head(q) \in ServerMessage
      /\ Len(q) \in Nat /\ Len(Tail(q)) = Len(q) - 1 /\ DOMAIN q = 1 .. Len(q)
      /\ \A i \in DOMAIN Tail(q) : i \in Nat \ {0} /\ i + 1 \in DOMAIN q /\ Tail(q)[i] = q[i + 1]
  BY <1>1
<1>3. /\ toClient' \in [Socket -> Seq(ServerMessage)]
      /\ toClient'[s] = Tail(q)
      /\ \A t \in Socket : t # s => toClient'[t] = toClient[t]
  BY <1>1, <1>2
<1>4. QED
  BY <1>1, <1>2, <1>3

LEMMA ReadKeeps ==
  ASSUME Inductive, UNCHANGED serverVars, NEW c \in Client, Read(c)
  PROVE  Inductive'
<1> USE DEF Inductive
<1> DEFINE s == sock[c]
           q == toClient[s]
           v == view[c]
           w == Seen(v, Head(q))
<1>0. /\ state[c] = "CONNECTED" \/ phase[c] = "drain"
      /\ q # <<>>
      /\ view' = [view EXCEPT ![c] = w]
      /\ toClient' = [toClient EXCEPT ![s] = Tail(@)]
      /\ UNCHANGED <<state, sock, sendQueue, phase, sends>>
      /\ UNCHANGED <<up, connections, cEnd, sEnd, toServer, backlog, breaks>>
  BY DEF Read, Shape, ClientInv
<1>1. s \in Socket /\ v \in View /\ view \in [Client -> View]
  BY <1>0 DEF Shape, ClientInv
<1>2. /\ toClient' \in [Socket -> Seq(ServerMessage)]
      /\ toClient'[s] = Tail(q)
      /\ \A t \in Socket : t # s => toClient'[t] = toClient[t]
      /\ \A t \in Socket : toClient[t] = <<>> => toClient'[t] = <<>>
      /\ q \in Seq(ServerMessage) /\ Tail(q) \in Seq(ServerMessage) /\ Head(q) \in ServerMessage
      /\ Len(q) \in Nat /\ Len(Tail(q)) = Len(q) - 1 /\ DOMAIN q = 1 .. Len(q)
      /\ \A i \in DOMAIN Tail(q) : i \in Nat \ {0} /\ i + 1 \in DOMAIN q /\ Tail(q)[i] = q[i + 1]
  BY <1>0, <1>1, TakeMail DEF Shape
<1>3. w \in View
  BY <1>1, <1>2, SeenType
<1>4. \A k \in 0 .. Len(q) - 1 : Heard(w, Tail(q))[k] = Heard(v, q)[k + 1]
  BY <1>0, <1>2, HeardTail
<1> HIDE DEF w
<1>5. view' \in [Client -> View] /\ view'[c] = w /\ \A d \in Client : d # c => view'[d] = view[d]
  BY <1>0, <1>1, <1>3
<1>6. NetType' /\ ClientInv'
  BY <1>0, <1>2, <1>5 DEF Shape, NetType, ClientInv
<1>7. Shape'
  BY <1>0, <1>2, <1>6, ShapeKept
<1>8. HelloInv' /\ PrivacyInv'
  BY <1>0, ServerSame DEF HelloInv, PrivacyInv, Parsing
<1>9. ASSUME NEW d \in Client, d # c
      PROVE  ToldInv(d)'
  <2>1. state[d] \in {"HANDSHAKING", "CONNECTED"} => sock[d] \in Socket /\ sock[d] # s
    BY <1>1, <1>9 DEF Shape, ClientInv
  <2>2. \/ state'[d] \notin {"HANDSHAKING", "CONNECTED"}
        \/ /\ sock[d] \in Socket
           /\ state'[d] = state[d] /\ sock'[d] = sock[d] /\ view'[d] = view[d]
           /\ toClient'[sock[d]] = toClient[sock[d]] /\ sEnd'[sock[d]] = sEnd[sock[d]]
    BY <1>0, <1>2, <1>5, <1>9, <2>1
  <2>3. QED
    BY <2>2, ServerSame, ToldQuiet DEF Shape
<1>10. ToldInv(c)'
  <2>1. state[c] = "HANDSHAKING" => FALSE
    BY <1>0 DEF Shape, ClientInv
  <2>2. Listening' = Listening /\ sock'[c] = s /\ sEnd' = sEnd /\ state'[c] = state[c]
    BY <1>0 DEF Listening
  <2>3. AllHeard(c)' = AllHeard(c)
    <3>1. Len(q) - 1 \in 0 .. Len(q) - 1 /\ (Len(q) - 1) + 1 = Len(q)
      <4>1. Len(q) # 0
        BY <1>0, <1>2
      <4>2. QED
        BY <1>2, <4>1
    <3>2. AllHeard(c)' = Heard(w, Tail(q))[Len(q) - 1]
      BY <1>2, <1>5, <2>2 DEF AllHeard
    <3>3. Heard(w, Tail(q))[Len(q) - 1] = Heard(v, q)[(Len(q) - 1) + 1]
      BY <1>4, <3>1
    <3>4. QED
      BY <3>1, <3>2, <3>3 DEF AllHeard
  <2>4. ASSUME c \in Listening, NEW k \in DOMAIN Tail(q)
        PROVE  /\ k + 1 \in DOMAIN q /\ Tail(q)[k] = q[k + 1]
               /\ Heard(w, Tail(q))[k - 1] = Heard(v, q)[(k + 1) - 1]
    <3>1. k \in Nat \ {0} /\ k + 1 \in DOMAIN q /\ Tail(q)[k] = q[k + 1]
      BY <1>2
    <3>2. k - 1 \in 0 .. Len(q) - 1 /\ (k - 1) + 1 = k /\ (k + 1) - 1 = k
      BY <1>2, <3>1
    <3>3. Heard(w, Tail(q))[k - 1] = Heard(v, q)[(k - 1) + 1]
      BY <1>4, <3>2
    <3>4. QED
      BY <3>1, <3>2, <3>3
  <2>5. ASSUME c \in Listening, NEW k \in DOMAIN Tail(q), Heard(w, Tail(q))[k - 1].listed
        PROVE  /\ Tail(q)[k].mid = "TALK"  => Tail(q)[k].from \in Heard(w, Tail(q))[k - 1].ids
               /\ Tail(q)[k].mid = "JOIN"  => Tail(q)[k].id \notin Heard(w, Tail(q))[k - 1].ids
               /\ Tail(q)[k].mid = "LEAVE" => Tail(q)[k].id \in Heard(w, Tail(q))[k - 1].ids
    BY <2>4, <2>5 DEF ToldInv
  <2>6. c \in Listening /\ sEnd[s] = "open" /\ AllHeard(c).listed =>
          s \in identified' /\ AllHeard(c).ids = Identified'
    BY ServerSame DEF ToldInv
  <2>7. sock'[c] = s /\ toClient'[s] = Tail(q) /\ view'[c] = w
    BY <1>2, <1>5, <2>2
  <2> DEFINE r == Tail(q)
  <2> SUFFICES c \in Listening =>
                 \A k \in DOMAIN r :
                   Heard(w, r)[k - 1].listed =>
                     /\ r[k].mid = "TALK"  => r[k].from \in Heard(w, r)[k - 1].ids
                     /\ r[k].mid = "JOIN"  => r[k].id \notin Heard(w, r)[k - 1].ids
                     /\ r[k].mid = "LEAVE" => r[k].id \in Heard(w, r)[k - 1].ids
    <3> HIDE DEF s, r, v
    <3>1. toClient'[sock'[c]] = r /\ state'[c] # "HANDSHAKING" /\ sEnd'[sock'[c]] = sEnd[s]
      BY <2>1, <2>2, <2>7 DEF r
    <3>2. sock'[c] \in identified' <=> s \in identified'
      BY <2>7
    <3>3. QED
      BY <2>2, <2>3, <2>6, <2>7, <3>1, <3>2 DEF ToldInv
  <2>8. QED
    BY <2>5
<1>11. QED
  BY <1>7, <1>8, <1>9, <1>10

LEMMA AnswerHelloKeeps ==
  ASSUME Inductive, UNCHANGED serverVars, NEW c \in Client, AnswerHello(c)
  PROVE  Inductive'
<1> USE DEF Inductive
<1> DEFINE s == sock[c]
           q == toClient[s]
           hello == [mid |-> "HELLO", privateOnly |-> c \in PrivateOnly]
<1>0. /\ state[c] = "HANDSHAKING" /\ q # <<>>
      /\ view' = [view EXCEPT ![c] = NewView]
      /\ toServer' = IF sEnd[s] = "open"
                     THEN [toServer EXCEPT ![s] = Append(toServer[s], hello)] ELSE toServer
      /\ toClient' = [toClient EXCEPT ![s] = Tail(@)]
      /\ state' = [state EXCEPT ![c] = "CONNECTED"]
      /\ UNCHANGED <<phase, sends, sock, sendQueue>>
      /\ UNCHANGED <<up, connections, cEnd, sEnd, backlog, breaks>>
  BY DEF AnswerHello, Handshake, Shape, NetType, ClientInv
<1>1. s \in Socket /\ s <= connections /\ phase[c] # "drain"
  BY <1>0 DEF Shape, ClientInv
<1>2. toServer[s] = <<>> /\ s \notin identified /\ ~ Parsing(s)
  BY <1>0 DEF HelloInv
<1>3. /\ toClient' \in [Socket -> Seq(ServerMessage)]
      /\ toClient'[s] = Tail(q)
      /\ \A t \in Socket : t # s => toClient'[t] = toClient[t]
      /\ \A t \in Socket : toClient[t] = <<>> => toClient'[t] = <<>>
      /\ Tail(q) \in Seq(ServerMessage)
      /\ \A i \in DOMAIN Tail(q) : i \in Nat \ {0} /\ i + 1 \in DOMAIN q /\ Tail(q)[i] = q[i + 1]
  BY <1>0, <1>1, TakeMail DEF Shape
<1>4. /\ hello \in ClientMessage /\ hello.mid = "HELLO"
      /\ c \notin PrivateOnly => ~ hello.privateOnly
  <2>1. (c \in PrivateOnly) \in BOOLEAN
    OBVIOUS
  <2>2. hello \in [mid : {"HELLO"}, privateOnly : BOOLEAN]
    BY <2>1
  <2>3. hello.mid = "HELLO" /\ hello.privateOnly = (c \in PrivateOnly)
    OBVIOUS
  <2> HIDE DEF hello
  <2>4. QED
    BY <2>2, <2>3, Zenon DEF ClientMessage
<1> HIDE DEF hello
<1>5. /\ Append(toServer[s], hello) = <<hello>>
      /\ <<hello>> \in Seq(ClientMessage) /\ <<hello>> # <<>>
      /\ DOMAIN <<hello>> = {1} /\ <<hello>>[1] = hello
      /\ DOMAIN <<>> = {}
  BY <1>2, <1>4
<1>6. /\ toServer' \in [Socket -> Seq(ClientMessage)]
      /\ \A t \in Socket : t # s => toServer'[t] = toServer[t]
      /\ toServer'[s] = IF sEnd[s] = "open" THEN <<hello>> ELSE <<>>
  <2>1. toServer \in [Socket -> Seq(ClientMessage)]
    BY DEF Shape, NetType
  <2> HIDE DEF s
  <2>2. QED
    BY <1>0, <1>1, <1>2, <1>5, <2>1
<1>7. /\ NewView \in View /\ ~ NewView.listed
      /\ view'[c] = NewView /\ \A d \in Client : d # c => view'[d] = view[d]
      /\ state'[c] = "CONNECTED" /\ \A d \in Client : d # c => state'[d] = state[d]
      /\ view' \in [Client -> View]
      /\ state' \in [Client -> {"NOT_CONNECTED", "HANDSHAKING", "CONNECTED", "GONE"}]
  BY <1>0 DEF NewView, View, Shape, ClientInv
<1>8. NetType' /\ ClientInv'
  BY <1>0, <1>1, <1>3, <1>6, <1>7 DEF Shape, NetType, ClientInv
<1>9. Shape'
  BY <1>0, <1>1, <1>3, <1>6, <1>8, ShapeKept
<1>10. HelloInv'
  <2>1. ASSUME NEW t \in Socket, NEW i \in DOMAIN toServer'[t]
        PROVE  toServer'[t][i].mid = "HELLO" <=> i = 1 /\ t \notin identified /\ ~ Parsing(t)
    <3>1. CASE t = s
      BY <1>2, <1>4, <1>5, <1>6, <2>1, <3>1
    <3>2. CASE t # s
      BY <1>6, <2>1, <3>2 DEF HelloInv
    <3>3. QED
      BY <3>1, <3>2
  <2>2. ASSUME NEW d \in Client, d # c, state'[d] \in {"HANDSHAKING", "CONNECTED"}
        PROVE  toServer'[sock[d]] = toServer[sock[d]] /\ state'[d] = state[d]
    BY <1>1, <1>6, <1>7, <2>2 DEF Shape, ClientInv
  <2>3. sEnd[s] = "open" => toServer'[s] # <<>>
    BY <1>5, <1>6
  <2>4. ASSUME NEW d \in Client, state'[d] = "HANDSHAKING"
        PROVE  toServer'[sock[d]] = <<>> /\ sock[d] \notin identified /\ ~ Parsing(sock[d])
    BY <1>7, <2>2, <2>4 DEF HelloInv
  <2>5. ASSUME NEW d \in Client, state'[d] = "CONNECTED", sEnd[sock[d]] = "open"
        PROVE  toServer'[sock[d]] # <<>> \/ sock[d] \in identified \/ Parsing(sock[d])
    BY <2>2, <2>3, <2>5 DEF HelloInv
  <2>6. inbox # <<>> => \A i \in DOMAIN inbox :
          inbox[i].mid = "HELLO" <=> i = 1 /\ clients[pos] \notin identified
    BY DEF HelloInv
  <2>7. QED
    BY <1>0, <2>1, <2>4, <2>5, <2>6, ServerSame DEF HelloInv, Parsing
<1>11. PrivacyInv'
  <2> SUFFICES ASSUME NEW d \in Client \ PrivateOnly, sock[d] \in Socket
               PROVE  \A i \in DOMAIN toServer'[sock[d]] :
                        toServer'[sock[d]][i].mid = "HELLO" => ~ toServer'[sock[d]][i].privateOnly
    BY <1>0, ServerSame DEF PrivacyInv, Parsing
  <2>1. CASE sock[d] = s
    <3>1. d = c
      BY <1>1, <2>1 DEF Shape, ClientInv
    <3>2. QED
      BY <1>4, <1>5, <1>6, <2>1, <3>1
  <2>2. CASE sock[d] # s
    BY <1>6, <2>2 DEF PrivacyInv
  <2>3. QED
    BY <2>1, <2>2
<1>12. ASSUME NEW d \in Client, d # c
       PROVE  ToldInv(d)'
  <2>1. state[d] \in {"HANDSHAKING", "CONNECTED"} => sock[d] \in Socket /\ sock[d] # s
    BY <1>1, <1>12 DEF Shape, ClientInv
  <2>2. \/ state'[d] \notin {"HANDSHAKING", "CONNECTED"}
        \/ /\ sock[d] \in Socket
           /\ state'[d] = state[d] /\ sock'[d] = sock[d] /\ view'[d] = view[d]
           /\ toClient'[sock[d]] = toClient[sock[d]] /\ sEnd'[sock[d]] = sEnd[sock[d]]
    BY <1>0, <1>3, <1>7, <1>12, <2>1
  <2>3. QED
    BY <2>2, ServerSame, ToldQuiet DEF Shape
<1>13. ToldInv(c)'
  <2>1. \A i \in DOMAIN q : q[i].mid # "LIST_CLIENTS"
    BY <1>0 DEF ToldInv
  <2>2. \A i \in DOMAIN Tail(q) : Tail(q)[i].mid # "LIST_CLIENTS"
    BY <1>3, <2>1
  <2>3. \A k \in 0 .. Len(Tail(q)) : ~ Heard(NewView, Tail(q))[k].listed
    BY <1>3, <1>7, <2>2, HeardUnlisted
  <2>4. /\ Len(Tail(q)) \in 0 .. Len(Tail(q))
        /\ \A k \in DOMAIN Tail(q) : k - 1 \in 0 .. Len(Tail(q))
    <3>1. Len(Tail(q)) \in Nat /\ DOMAIN Tail(q) = 1 .. Len(Tail(q))
      BY <1>3
    <3> HIDE DEF q
    <3>2. QED
      BY <3>1
  <2>5. view'[c] = NewView /\ toClient'[sock'[c]] = Tail(q) /\ state'[c] = "CONNECTED"
    BY <1>0, <1>3, <1>7
  <2> HIDE DEF s, q
  <2>6. QED
    BY <2>3, <2>4, <2>5 DEF ToldInv, AllHeard
<1>14. QED
  BY <1>9, <1>10, <1>11, <1>12, <1>13

\* A client that is gone, or takes a new connection, has no part in the old one.
LEMMA UnreadShape ==
  ASSUME NetType, NEW old
  PROVE  /\ Unread(old) \in [Socket -> Seq(ServerMessage)]
         /\ \A s \in Socket : Unread(old)[s] \in {<<>>, toClient[s]}
         /\ \A s \in Socket : s # old => Unread(old)[s] = toClient[s]
<1>1. \A s \in Socket : toClient[s] \in Seq(ServerMessage)
  BY DEF NetType
<1>2. <<>> \in Seq(ServerMessage)
  OBVIOUS
<1>3. QED
  BY <1>1, <1>2 DEF Unread

LEMMA EndKeeps ==
  ASSUME Inductive, UNCHANGED serverVars, NEW c \in Client, End(c), phase[c] # "drain",
         UNCHANGED <<phase, sends>>
  PROVE  Inductive'
<1> USE DEF Inductive
<1>0. /\ cEnd' = [s \in Socket |-> IF s = sock[c] THEN "closed" ELSE cEnd[s]]
      /\ toClient' = Unread(sock[c])
      /\ UNCHANGED <<up, connections, sEnd, toServer, backlog, breaks>>
      /\ state' = [state EXCEPT ![c] = "GONE"]
      /\ sock' = [sock EXCEPT ![c] = NoSocket]
      /\ sendQueue' = [sendQueue EXCEPT ![c] = <<>>]
      /\ view' = [view EXCEPT ![c] = NewView]
  BY DEF End, Disconnect
<1>1. /\ toClient' \in [Socket -> Seq(ServerMessage)]
      /\ \A s \in Socket : toClient'[s] \in {<<>>, toClient[s]}
      /\ \A s \in Socket : s # sock[c] => toClient'[s] = toClient[s]
  BY <1>0, UnreadShape DEF Shape
<1>2. NoSocket \notin Socket /\ NewView \in View /\ <<>> \in Seq(UserMessage)
  BY NetworkAssumption DEF NewView, View
<1>3. /\ state'[c] = "GONE" /\ \A d \in Client : d # c => state'[d] = state[d]
      /\ sock'[c] = NoSocket /\ \A d \in Client : d # c => sock'[d] = sock[d]
      /\ \A d \in Client : d # c => view'[d] = view[d]
      /\ state' \in [Client -> {"NOT_CONNECTED", "HANDSHAKING", "CONNECTED", "GONE"}]
      /\ sock' \in [Client -> Socket \union {NoSocket}]
      /\ sendQueue' \in [Client -> Seq(UserMessage)]
      /\ view' \in [Client -> View]
  BY <1>0, <1>2 DEF Shape, ClientInv
<1>4. NetType'
  <2>1. cEnd' \in [Socket -> {"open", "closed"}]
    BY <1>0 DEF Shape, NetType
  <2>2. QED
    BY <1>0, <1>1, <2>1 DEF Shape, NetType
<1>5. ClientInv'
  BY <1>0, <1>2, <1>3 DEF Shape, ClientInv
<1>6. Shape'
  BY <1>0, <1>1, <1>4, <1>5, ShapeKept
<1>7. HelloInv'
  BY <1>0, <1>3, ServerSame DEF HelloInv, Parsing
<1>8. PrivacyInv'
  BY <1>0, <1>2, <1>3, ServerSame DEF PrivacyInv, Parsing
<1>9. ASSUME NEW d \in Client
      PROVE  ToldInv(d)'
  <2>1. \/ state'[d] \notin {"HANDSHAKING", "CONNECTED"}
        \/ /\ sock[d] \in Socket /\ d # c /\ sock[d] # sock[c]
           /\ state'[d] = state[d] /\ sock'[d] = sock[d] /\ view'[d] = view[d]
    BY <1>3 DEF Shape, ClientInv
  <2>2. \/ state'[d] \notin {"HANDSHAKING", "CONNECTED"}
        \/ /\ sock[d] \in Socket
           /\ state'[d] = state[d] /\ sock'[d] = sock[d] /\ view'[d] = view[d]
           /\ toClient'[sock[d]] = toClient[sock[d]] /\ sEnd'[sock[d]] = sEnd[sock[d]]
    BY <1>0, <1>1, <2>1
  <2>3. QED
    BY <2>2, ServerSame, ToldQuiet DEF Shape
<1>10. QED
  BY <1>6, <1>7, <1>8, <1>9

LEMMA GoneKeeps ==
  ASSUME Inductive, UNCHANGED serverVars, NEW c \in Client, AnswerFails(c) \/ Quit(c)
  PROVE  Inductive'
<1>1. CASE AnswerFails(c)
  BY <1>1, EndKeeps DEF AnswerFails, Handshake, Inductive, Shape, ClientInv
<1>2. CASE Quit(c)
  BY <1>2, EndKeeps DEF Quit
<1>3. QED
  BY <1>1, <1>2

LEMMA ReconnectKeeps ==
  ASSUME Inductive, UNCHANGED serverVars, NEW c \in Client, Reconnect(c)
  PROVE  Inductive'
<1> USE DEF Inductive
<1> DEFINE new == connections + 1
           old == sock[c]
<1>0. /\ state[c] = "NOT_CONNECTED" /\ phase[c] = "out" /\ connections < MaxSockets
      /\ connections' = new
      /\ cEnd' = [s \in Socket |-> IF s = new THEN "open" ELSE IF s = old THEN "closed" ELSE cEnd[s]]
      /\ sEnd' = [sEnd EXCEPT ![new] = "open"]
      /\ toClient' = Unread(old)
      /\ backlog' = Append(backlog, new)
      /\ sock' = [sock EXCEPT ![c] = new]
      /\ state' = [state EXCEPT ![c] = "HANDSHAKING"]
      /\ UNCHANGED <<up, toServer, breaks, sendQueue, phase, sends, view>>
  BY DEF Reconnect, Connect
<1>1. /\ UNCHANGED <<pc, pos, slots, clients, maxID, idOf, identified, privateOnly,
                     watched, ready, inbox, crashes>>
      /\ Listed' = Listed /\ Identified' = Identified
  BY DEF serverVars, Listed, Identified
<1>2. /\ connections \in Nat /\ new \in Socket /\ new \in 0 .. MaxSockets /\ new > connections
      /\ \A s \in Socket : s <= connections => s # new /\ s <= new
      /\ \A s \in 1 .. connections : s # new /\ s \in 1 .. new
      /\ new \in 1 .. new
  BY <1>0, NetworkAssumption DEF Shape, NetType, Socket
<1> HIDE DEF new
<1>3. /\ toClient' \in [Socket -> Seq(ServerMessage)]
      /\ \A s \in Socket : toClient'[s] \in {<<>>, toClient[s]}
      /\ \A s \in Socket : s # old => toClient'[s] = toClient[s]
  BY <1>0, UnreadShape DEF Shape
<1>4. /\ toServer[new] = <<>> /\ toClient[new] = <<>> /\ toClient'[new] = <<>>
      /\ new \notin Listed /\ new \notin identified /\ new \notin privateOnly
      /\ ~ Parsing(new)
  <2>1. toServer[new] = <<>> /\ toClient[new] = <<>>
    BY <1>2 DEF Shape, FutureInv
  <2>2. new \notin Listed
    BY <1>2 DEF Shape, BacklogInv
  <2>3. ~ Parsing(new)
    BY <2>2, ListFacts DEF Shape, LoopInv, Parsing
  <2>4. QED
    BY <1>2, <1>3, <2>1, <2>2, <2>3 DEF Shape, ListInv
<1>5. /\ sock'[c] = new /\ \A d \in Client : d # c => sock'[d] = sock[d]
      /\ state'[c] = "HANDSHAKING" /\ \A d \in Client : d # c => state'[d] = state[d]
      /\ sock' \in [Client -> Socket \union {NoSocket}]
      /\ state' \in [Client -> {"NOT_CONNECTED", "HANDSHAKING", "CONNECTED", "GONE"}]
      /\ sEnd' \in [Socket -> {"open", "reset", "closed"}]
      /\ \A s \in Socket : s # new => sEnd'[s] = sEnd[s]
      /\ cEnd' \in [Socket -> {"open", "closed"}]
  BY <1>0, <1>2 DEF Shape, NetType, ClientInv
<1>6. /\ backlog \in Seq(Socket) /\ backlog' \in Seq(Socket) /\ Len(backlog') = Len(backlog) + 1
      /\ Len(backlog) \in Nat
      /\ DOMAIN backlog = 1 .. Len(backlog) /\ DOMAIN backlog' = 1 .. Len(backlog) + 1
      /\ \A i \in 1 .. Len(backlog) : backlog'[i] = backlog[i]
      /\ backlog'[Len(backlog) + 1] = new
  <2>1. backlog \in Seq(Socket)
    BY DEF Shape, NetType
  <2>2. QED
    BY <1>0, <1>2, <2>1, AppendShape
<1>7. NetType'
  BY <1>0, <1>2, <1>3, <1>5, <1>6 DEF Shape, NetType
<1>8. ListInv'
  <2>1. Aligned'
    BY <1>1, AlignedKept DEF Shape, ListInv
  <2>2. maxID' + Len(backlog') <= connections'
    <3>1. maxID \in Int /\ maxID + Len(backlog) <= connections
      BY DEF Shape, ListInv
    <3>2. QED
      BY <1>0, <1>1, <1>2, <1>6, <3>1 DEF new
  <2>3. QED
    BY <1>1, <2>1, <2>2 DEF Shape, ListInv
<1>9. BacklogInv'
  <2>1. \A i \in DOMAIN backlog' : i = Len(backlog) + 1 \/ i \in DOMAIN backlog
    BY <1>6
  <2>2. \A i \in DOMAIN backlog :
          /\ backlog'[i] = backlog[i] /\ backlog[i] # new /\ backlog[i] \in 1 .. new
          /\ backlog[i] \in Socket /\ backlog[i] \notin Listed /\ toClient'[backlog[i]] = <<>>
    <3> SUFFICES ASSUME NEW i \in DOMAIN backlog
                 PROVE  /\ backlog'[i] = backlog[i] /\ backlog[i] # new /\ backlog[i] \in 1 .. new
                        /\ backlog[i] \in Socket /\ backlog[i] \notin Listed
                        /\ toClient'[backlog[i]] = <<>>
      OBVIOUS
    <3>1. backlog'[i] = backlog[i] /\ backlog[i] \in Socket
      BY <1>6
    <3>2. backlog[i] \in 1 .. connections /\ backlog[i] \notin Listed /\ toClient[backlog[i]] = <<>>
      BY DEF Shape, BacklogInv
    <3>3. QED
      BY <1>2, <1>3, <3>1, <3>2
  <2>3. \A i, j \in DOMAIN backlog' : backlog'[i] = backlog'[j] => i = j
    BY <1>6, <2>1, <2>2 DEF Shape, BacklogInv
  <2>4. \A i \in DOMAIN backlog' :
          backlog'[i] \in 1 .. connections' /\ backlog'[i] \notin Listed' /\ toClient'[backlog'[i]] = <<>>
    BY <1>0, <1>1, <1>2, <1>4, <1>6, <2>1, <2>2
  <2>5. Listed' \subseteq 1 .. connections'
    BY <1>0, <1>1, <1>2 DEF Shape, BacklogInv
  <2>6. QED
    BY <2>3, <2>4, <2>5 DEF BacklogInv
<1>10. LoopInv'
  BY <1>1 DEF Shape, LoopInv
<1>11. ClientInv'
  <2>1. \A d \in Client : sock'[d] \in Socket => sock'[d] <= connections'
    <3>1. new <= new
      BY <1>2
    <3>2. \A d \in Client : d # c /\ sock'[d] \in Socket => sock'[d] <= new
      BY <1>2, <1>5 DEF Shape, ClientInv
    <3>3. QED
      BY <1>0, <1>5, <3>1, <3>2
  <2>2. \A d \in Client : d # c /\ sock'[d] \in Socket => sock'[d] # new
    BY <1>2, <1>5 DEF Shape, ClientInv
  <2>3. \A d, e \in Client : sock'[d] = sock'[e] /\ sock'[d] \in Socket => d = e
    <3>1. \A d, e \in Client : sock[d] = sock[e] /\ sock[d] \in Socket => d = e
      BY DEF Shape, ClientInv
    <3>2. QED
      BY <1>5, <2>2, <3>1
  <2>4. \A d \in Client :
          /\ state'[d] \in {"HANDSHAKING", "CONNECTED"} => sock'[d] \in Socket
          /\ phase'[d] = "drain" => state'[d] = "NOT_CONNECTED" /\ sock'[d] \in Socket
    BY <1>0, <1>2, <1>5 DEF Shape, ClientInv
  <2>5. QED
    BY <1>0, <1>5, <2>1, <2>3, <2>4 DEF Shape, ClientInv
<1>12. FutureInv'
  <2>1. \A s \in Socket : s > connections' => s > connections
    BY <1>0, <1>2 DEF new, Socket
  <2>2. QED
    BY <1>0, <1>3, <2>1 DEF Shape, FutureInv
<1>13. ASSUME NEW d \in Client, d # c, state[d] \in {"HANDSHAKING", "CONNECTED"}
       PROVE  /\ sock[d] \in Socket /\ sock[d] # old /\ sock[d] # new
              /\ sEnd'[sock[d]] = sEnd[sock[d]] /\ toClient'[sock[d]] = toClient[sock[d]]
  <2>1. sock[d] \in Socket /\ sock[d] # old /\ sock[d] # new
    BY <1>2, <1>13 DEF Shape, ClientInv
  <2>2. QED
    BY <1>3, <1>5, <2>1
<1>14. HelloInv'
  <2>1. ASSUME NEW d \in Client, state'[d] = "HANDSHAKING"
        PROVE  toServer[sock'[d]] = <<>> /\ sock'[d] \notin identified /\ ~ Parsing(sock'[d])
    BY <1>4, <1>5, <2>1 DEF HelloInv
  <2>2. ASSUME NEW d \in Client, state'[d] = "CONNECTED", sEnd'[sock'[d]] = "open"
        PROVE  toServer[sock'[d]] # <<>> \/ sock'[d] \in identified \/ Parsing(sock'[d])
    BY <1>5, <1>13, <2>2 DEF HelloInv
  <2>3. QED
    BY <1>0, <1>1, <2>1, <2>2 DEF HelloInv, Parsing
<1>15. PrivacyInv'
  <2> SUFFICES ASSUME NEW d \in Client \ PrivateOnly, sock'[d] \in Socket
               PROVE  /\ sock'[d] \notin privateOnly
                      /\ \A i \in DOMAIN toServer[sock'[d]] :
                           toServer[sock'[d]][i].mid = "HELLO" => ~ toServer[sock'[d]][i].privateOnly
                      /\ Parsing(sock'[d]) => \A i \in DOMAIN inbox :
                           inbox[i].mid = "HELLO" => ~ inbox[i].privateOnly
    BY <1>0, <1>1 DEF PrivacyInv, Parsing
  <2>1. CASE d = c
    <3>1. DOMAIN <<>> = {}
      OBVIOUS
    <3>2. QED
      BY <1>4, <1>5, <2>1, <3>1
  <2>2. CASE d # c
    BY <1>5, <2>2 DEF PrivacyInv
  <2>3. QED
    BY <2>1, <2>2
<1>16. ASSUME NEW d \in Client
       PROVE  ToldInv(d)'
  <2>1. CASE d = c
    <3>1. c \notin Listening' /\ toClient'[sock'[c]] = <<>>
      BY <1>4, <1>5 DEF Listening
    <3>2. DOMAIN <<>> = {}
      OBVIOUS
    <3>3. QED
      BY <2>1, <3>1, <3>2 DEF ToldInv
  <2>2. CASE d # c
    <3>1. \/ state'[d] \notin {"HANDSHAKING", "CONNECTED"}
          \/ /\ sock[d] \in Socket
             /\ state'[d] = state[d] /\ sock'[d] = sock[d] /\ view'[d] = view[d]
             /\ toClient'[sock[d]] = toClient[sock[d]] /\ sEnd'[sock[d]] = sEnd[sock[d]]
      BY <1>0, <1>5, <1>13, <2>2
    <3>2. QED
      BY <1>1, <3>1, ToldQuiet DEF Shape
  <2>3. QED
    BY <2>1, <2>2
<1>17. QED
  BY <1>7, <1>8, <1>9, <1>10, <1>11, <1>12, <1>14, <1>15, <1>16 DEF Shape

LEMMA ClientKeeps ==
  ASSUME Inductive, UNCHANGED serverVars, NEW c \in Client, ClientStep(c)
  PROVE  Inductive'
<1>1. CASE Poll(c)
  BY <1>1, ReconnectKeeps, AnswerHelloKeeps, GoneKeeps, LostKeeps, FlushKeeps,
     FlushFailsKeeps, ReadKeeps DEF Poll
<1>2. CASE Send(c)
  BY <1>2, SendDirectKeeps, SendOfflineKeeps DEF Send
<1>3. CASE Quit(c)
  BY <1>3, GoneKeeps
<1>4. QED
  BY <1>1, <1>2, <1>3 DEF ClientStep

-----------------------------------------------------------------------------
(* The network, and the theorems.                                          *)

LEMMA NetworkKeeps ==
  ASSUME Inductive, UNCHANGED serverVars, UNCHANGED clientVars, Network
  PROVE  Inductive'
<1> USE DEF Inductive
<1>0. PICK s \in Socket : Break(s) \/ Reset(s)
  BY DEF Network
<1>1. /\ sEnd[s] = "open" /\ sEnd' = [sEnd EXCEPT ![s] = "reset"]
      /\ toClient' = toClient \/ toClient' = [toClient EXCEPT ![s] = <<>>]
      /\ breaks' \in 0 .. MaxBreaks
      /\ UNCHANGED <<up, connections, cEnd, toServer, backlog>>
  <2>1. CASE Break(s)
    BY <2>1, NetworkAssumption DEF Break, Shape, NetType
  <2>2. CASE Reset(s)
    BY <2>2 DEF Reset, Shape, NetType
  <2>3. QED
    BY <1>0, <2>1, <2>2
<1>2. UNCHANGED <<state, sock, sendQueue, phase, sends, view>>
  BY DEF clientVars
<1>3. /\ sEnd' \in [Socket -> {"open", "reset", "closed"}]
      /\ sEnd'[s] = "reset" /\ \A t \in Socket : t # s => sEnd'[t] = sEnd[t]
      /\ toClient' \in [Socket -> Seq(ServerMessage)]
      /\ \A t \in Socket : toClient'[t] \in {<<>>, toClient[t]}
      /\ \A t \in Socket : t # s => toClient'[t] = toClient[t]
  <2>1. <<>> \in Seq(ServerMessage)
    OBVIOUS
  <2>2. QED
    BY <1>1, <2>1 DEF Shape, NetType
<1>4. NetType' /\ ClientInv'
  BY <1>1, <1>2, <1>3 DEF Shape, NetType, ClientInv
<1>5. Shape'
  BY <1>1, <1>3, <1>4, ShapeKept
<1>6. HelloInv' /\ PrivacyInv'
  <2>1. \A c \in Client : state[c] = "CONNECTED" /\ sEnd'[sock[c]] = "open" => sEnd[sock[c]] = "open"
    BY <1>3 DEF Shape, ClientInv
  <2>2. QED
    BY <1>1, <1>2, <2>1, ServerSame DEF HelloInv, PrivacyInv, Parsing
<1>7. ASSUME NEW c \in Client
      PROVE  ToldInv(c)'
  <2>1. state'[c] \in {"HANDSHAKING", "CONNECTED"} => sock[c] \in Socket
    BY <1>2 DEF Shape, ClientInv
  <2>2. sEnd'[sock[c]] = "open" /\ sock[c] \in Socket =>
          sEnd[sock[c]] = "open" /\ toClient'[sock[c]] = toClient[sock[c]]
    BY <1>3
  <2>3. \/ state'[c] \notin {"HANDSHAKING", "CONNECTED"}
        \/ /\ sock[c] \in Socket
           /\ state'[c] = state[c] /\ sock'[c] = sock[c] /\ view'[c] = view[c]
           /\ toClient'[sock[c]] \in {<<>>, toClient[sock[c]]}
           /\ sEnd'[sock[c]] = "open" =>
                sEnd[sock[c]] = "open" /\ toClient'[sock[c]] = toClient[sock[c]]
    BY <1>2, <1>3, <2>1, <2>2
  <2>4. QED
    BY <2>3, ServerSame, ToldQuiet DEF Shape
<1>8. QED
  BY <1>5, <1>6, <1>7

LEMMA InitInductive ==
  Init => Inductive
<1> SUFFICES ASSUME Init PROVE Inductive
  OBVIOUS
<1>0. /\ up \in BOOLEAN /\ connections = 0 /\ backlog = <<>> /\ breaks = 0
      /\ cEnd = [s \in Socket |-> "closed"] /\ sEnd = [s \in Socket |-> "closed"]
      /\ toServer = [s \in Socket |-> <<>>] /\ toClient = [s \in Socket |-> <<>>]
      /\ pc = "scan" /\ pos = 1 /\ slots = <<>> /\ clients = <<>> /\ maxID = 0
      /\ idOf = [s \in Socket |-> NoID]
      /\ identified = {} /\ privateOnly = {} /\ watched = {} /\ ready = {} /\ inbox = <<>> /\ crashes = 0
      /\ state = [c \in Client |-> "NOT_CONNECTED"]
      /\ sock = [c \in Client |-> NoSocket]
      /\ sendQueue = [c \in Client |-> <<>>]
      /\ phase = [c \in Client |-> "out"]
      /\ sends = 0 /\ view = [c \in Client |-> NewView]
  BY DEF Init, NetInit, ServerInit, ClientInit
<1>1. DOMAIN <<>> = {} /\ Len(<<>>) = 0 /\ \A S : <<>> \in Seq(S)
  OBVIOUS
<1>2. Listed = {}
  BY <1>0, <1>1 DEF Listed
<1>3. NetType /\ FutureInv
  BY <1>0, <1>1, NetworkAssumption DEF NetType, FutureInv
<1>4. ListInv
  <2>1. Packed
    <3>1. Rank(Len(slots)) = 0
      <4>1. Rank(Len(slots)) = Items(slots, 0)
        BY <1>0, <1>1 DEF Rank, Items
      <4>2. QED
        BY <4>1, ItemsStep
    <3>2. QED
      BY <1>0, <1>1, <3>1 DEF Packed
  <2>2. Aligned
    BY <1>0, <1>1, <1>2, <2>1 DEF Aligned, IsInjective
  <2>3. QED
    BY <1>0, <1>1, <1>2, <2>2, NetworkAssumption, ServerAssumption DEF ListInv
<1>5. BacklogInv /\ LoopInv
  BY <1>0, <1>1, <1>2, NetworkAssumption DEF BacklogInv, LoopInv
<1>6. ClientInv
  <2>1. NewView \in View /\ 0 \in 0 .. MaxSends
    BY ClientAssumption DEF NewView, View
  <2>2. QED
    BY <1>0, <1>1, <2>1, NetworkAssumption DEF ClientInv
<1>7. HelloInv /\ PrivacyInv
  BY <1>0, <1>1, NetworkAssumption DEF HelloInv, PrivacyInv
<1>8. \A c \in Client : ToldInv(c)
  BY <1>0 DEF ToldInv, Listening
<1>9. QED
  BY <1>3, <1>4, <1>5, <1>6, <1>7, <1>8 DEF Inductive, Shape

LEMMA StepInductive ==
  ASSUME Inductive, [Next]_vars
  PROVE  Inductive'
<1>1. CASE Server /\ UNCHANGED clientVars
  BY <1>1, ServerKeeps
<1>2. CASE (\E c \in Client : ClientStep(c)) /\ UNCHANGED serverVars
  BY <1>2, ClientKeeps
<1>3. CASE Network /\ UNCHANGED <<serverVars, clientVars>>
  BY <1>3, NetworkKeeps
<1>4. CASE UNCHANGED vars
  <2>1. UNCHANGED serverVars /\ UNCHANGED netVars /\ UNCHANGED clientVars
    BY <1>4 DEF vars
  <2>2. UNCHANGED <<sock, view, state>> /\ ClientInv'
    BY <2>1, ClientKept DEF Inductive, Shape, clientVars, netVars
  <2>3. QED
    BY <2>1, <2>2, OfflineKeeps
<1>5. QED
  BY <1>1, <1>2, <1>3, <1>4 DEF Next

\* The variables keep their types, and the two arrays of the server's client
\* list hold the same sockets in the same order, each once, whatever add()
\* and remove() do in the middle of iterate() (ObjectList.pm:132-151, 184-218).
THEOREM TypeCorrect ==
  Spec => []TypeOK
<1>1. Inductive => TypeOK
  BY ShapeTypes DEF Inductive
<1>2. QED
  BY <1>1, InitInductive, StepInductive, PTL DEF Spec

\* A client that has the list and keeps it up to date by JOIN and LEAVE
\* knows exactly the identified clients, once it has read its mail, however
\* many clients come, go, crash and talk meanwhile (MainServer.pm:57-64,
\* 133-188).
THEOREM RosterKept ==
  Spec => []Roster
BY InitInductive, StepInductive, InductiveTells, PTL DEF Spec

\* A client that keeps the list hears of another one's arrival before
\* anything from it, and nothing from it after its departure
\* (MainServer.pm:57-64, 83-131; DialogMaster.pm:130).
THEOREM AnnouncementsKept ==
  Spec => []Announced
BY InitInductive, StepInductive, InductiveTells, PTL DEF Spec

============================================================================
