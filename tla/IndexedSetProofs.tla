-------------------------- MODULE IndexedSetProofs --------------------------
(***************************************************************************)
(* What add, remove and shift do to a Set of Utils/Set.pm: facts the proofs *)
(* about its users cite instead of the definitions.                         *)
(***************************************************************************)
EXTENDS IndexedSet, SequenceTheorems, TLAPS

\* Cutting one item out of an array moves the later ones down by one.
LEMMA SpliceInside ==
    ASSUME NEW E, NEW s \in Seq(E), NEW k \in 0 .. Len(s) - 1
    PROVE  /\ Splice(s, k) \in Seq(E)
           /\ Len(Splice(s, k)) = Len(s) - 1
           /\ \A n \in 1 .. Len(s) - 1 :
                 /\ n <= k => Splice(s, k)[n] = s[n]
                 /\ n > k => Splice(s, k)[n] = s[n + 1]
<1> DEFINE front == SubSeq(s, 1, k)
           back  == SubSeq(s, k + 2, Len(s))
<1>1. /\ Len(s) \in Nat
      /\ k \in Int /\ k >= 0 /\ k < Len(s)
  OBVIOUS
<1>2. /\ front \in Seq(E) /\ Len(front) = k
      /\ \A n \in 1 .. k : front[n] = s[n]
  BY <1>1, SubSeqProperties
<1>3. /\ back \in Seq(E) /\ Len(back) = Len(s) - k - 1
      /\ \A n \in 1 .. Len(s) - k - 1 : back[n] = s[n + k + 1]
  BY <1>1, SubSeqProperties
<1>4. Splice(s, k) = front \o back
  <2>1. (IF k < 0 THEN Len(s) + k ELSE k) = k
    BY <1>1
  <2>2. Splice(s, k) = LET p == k IN IF p \in 0 .. Len(s) - 1
                                     THEN SubSeq(s, 1, p) \o SubSeq(s, p + 2, Len(s))
                                     ELSE s
    BY <2>1 DEF Splice
  <2> QED
    BY <2>2
<1>5. /\ front \o back \in Seq(E)
      /\ Len(front \o back) = Len(front) + Len(back)
      /\ \A n \in 1 .. Len(front) + Len(back) :
            (front \o back)[n] = IF n <= Len(front) THEN front[n] ELSE back[n - Len(front)]
  BY <1>2, <1>3, ConcatProperties
<1> HIDE DEF front, back
<1>6. ASSUME NEW n \in 1 .. Len(s) - 1
      PROVE  /\ n <= k => (front \o back)[n] = s[n]
             /\ n > k => (front \o back)[n] = s[n + 1]
  <2>1. CASE n <= k
    BY <2>1, <1>1, <1>2, <1>3, <1>5
  <2>2. CASE n > k
    <3>1. n - k \in 1 .. Len(s) - k - 1
      BY <2>2, <1>1
    <3>2. back[n - k] = s[(n - k) + k + 1]
      BY <3>1, <1>3
    <3>3. (n - k) + k + 1 = n + 1
      BY <1>1
    <3> QED
      BY <3>1, <3>2, <3>3, <2>2, <1>1, <1>2, <1>3, <1>5
  <2>3. n \in Int /\ (n <= k \/ n > k)
    BY <1>1
  <2> QED
    BY <2>1, <2>2, <2>3
<1> QED
  BY <1>1, <1>2, <1>3, <1>4, <1>5, <1>6

LEMMA SpliceOutside ==
    ASSUME NEW s, NEW k \in Nat, Len(s) \in Nat, k >= Len(s)
    PROVE  Splice(s, k) = s
<1>1. (IF k < 0 THEN Len(s) + k ELSE k) = k /\ k \notin 0 .. Len(s) - 1
  OBVIOUS
<1>2. Splice(s, k) = LET p == k IN IF p \in 0 .. Len(s) - 1
                                   THEN SubSeq(s, 1, p) \o SubSeq(s, p + 2, Len(s))
                                   ELSE s
  BY <1>1 DEF Splice
<1> QED
  BY <1>1, <1>2

\* Whatever the index, cutting leaves an array of the same items.
LEMMA SpliceType ==
    ASSUME NEW E, NEW s \in Seq(E), NEW k \in Int
    PROVE  Splice(s, k) \in Seq(E)
<1> DEFINE p == IF k < 0 THEN Len(s) + k ELSE k
<1>1. Len(s) \in Nat /\ p \in Int
  OBVIOUS
<1>2. CASE p \in 0 .. Len(s) - 1
  <2>1. SubSeq(s, 1, p) \in Seq(E) /\ SubSeq(s, p + 2, Len(s)) \in Seq(E)
    BY <1>1, <1>2, SubSeqProperties
  <2>2. Splice(s, k) = SubSeq(s, 1, p) \o SubSeq(s, p + 2, Len(s))
    BY <1>2 DEF Splice
  <2> HIDE DEF p
  <2> QED
    BY <2>1, <2>2, ConcatProperties
<1>3. CASE p \notin 0 .. Len(s) - 1
  BY <1>3 DEF Splice
<1> QED
  BY <1>2, <1>3

-----------------------------------------------------------------------------

LEMMA EmptyIsSet == ASSUME NEW E PROVE IsSet(EmptySet, E)
BY DEF IsSet, EmptySet

LEMMA AddIsSet ==
    ASSUME NEW E, NEW S, IsSet(S, E), NEW x \in E
    PROVE  IsSet(SetAdd(S, x), E)
<1>1. CASE SetHas(S, x)
  BY <1>1 DEF SetAdd
<1>2. CASE ~SetHas(S, x)
  <2>1. Append(S.items, x) \in Seq(E) /\ Len(S.items) \in Int
    BY DEF IsSet
  <2>2. /\ SetAdd(S, x).items = Append(S.items, x)
        /\ DOMAIN SetAdd(S, x).keys = DOMAIN S.keys \cup {x}
        /\ SetAdd(S, x) = [items |-> SetAdd(S, x).items, keys |-> SetAdd(S, x).keys]
    BY <1>2 DEF SetAdd
  <2>3. SetAdd(S, x).keys \in [DOMAIN S.keys \cup {x} -> Int]
    BY <1>2, <2>1 DEF SetAdd, IsSet
  <2> QED
    BY <2>1, <2>2, <2>3 DEF IsSet
<1> QED
  BY <1>1, <1>2

LEMMA RemoveIsSet ==
    ASSUME NEW E, NEW S, IsSet(S, E), NEW x
    PROVE  IsSet(SetRemove(S, x), E)
<1>1. CASE ~SetHas(S, x)
  BY <1>1 DEF SetRemove
<1>2. CASE SetHas(S, x)
  <2> DEFINE k      == S.keys[x]
             left   == Splice(S.items, k)
             later  == {left[n] : n \in {j \in 1 .. Len(left) : j > k}}
             others == DOMAIN S.keys \ {x}
             R      == SetRemove(S, x)
  <2>1. k \in Int /\ S.items \in Seq(E)
    BY <1>2 DEF IsSet, SetHas
  <2>2. left \in Seq(E)
    BY <2>1, SpliceType
  <2>3. later \subseteq E
    BY <2>2
  <2>4. R = [items |-> left,
             keys  |-> [y \in others \cup later |->
                          (IF y \in others THEN S.keys[y] ELSE 0)
                            - (IF y \in later THEN 1 ELSE 0)]]
    BY <1>2 DEF SetRemove
  <2>5. \A y \in others : S.keys[y] \in Int
    BY DEF IsSet
  <2> HIDE DEF later, others, left, k
  <2>6. /\ R.items = left
        /\ DOMAIN R.keys = others \cup later
        /\ R = [items |-> R.items, keys |-> R.keys]
        /\ R.keys \in [others \cup later -> Int]
    BY <2>4, <2>5
  <2>7. others \subseteq E
    BY DEF others, IsSet
  <2> QED
    BY <2>2, <2>3, <2>6, <2>7 DEF IsSet
<1> QED
  BY <1>1, <1>2

LEMMA ShiftIsSet ==
    ASSUME NEW E, NEW S, IsSet(S, E), S.items # <<>>
    PROVE  IsSet(ShiftArray(S), E)
<1>1. /\ ShiftArray(S).items = Tail(S.items) /\ ShiftArray(S).keys = S.keys
      /\ ShiftArray(S) = [items |-> ShiftArray(S).items, keys |-> ShiftArray(S).keys]
  BY DEF IsSet, ShiftArray
<1>2. Tail(S.items) \in Seq(E)
  BY HeadTailProperties DEF IsSet
<1> QED
  BY <1>1, <1>2 DEF IsSet

-----------------------------------------------------------------------------
(* The hash and the array agree, up to s shifts (IndexedBy).               *)

\* The hash gives an item its position, so no item is there twice.
LEMMA IndexedInjective ==
    ASSUME NEW S, NEW s \in Nat, Len(S.items) \in Nat, IndexedBy(S, s),
           NEW n \in 1 .. Len(S.items), NEW m \in 1 .. Len(S.items),
           S.items[n] = S.items[m]
    PROVE  n = m
<1>1. S.keys[S.items[n]] = n - 1 + s /\ S.keys[S.items[m]] = m - 1 + s
  BY DEF IndexedBy
<1> QED
  BY <1>1

LEMMA IndexedAdd ==
    ASSUME NEW E, NEW S, IsSet(S, E), NEW x \in E, IndexedBy(S, 0), ~SetHas(S, x)
    PROVE  /\ IndexedBy(SetAdd(S, x), 0)
           /\ SetAdd(S, x).items = Append(S.items, x)
           /\ DOMAIN SetAdd(S, x).keys = DOMAIN S.keys \cup {x}
           /\ Items(SetAdd(S, x)) = Items(S) \cup {x}
<1> DEFINE A == SetAdd(S, x)
           L == Len(S.items)
<1>1. /\ A.items = Append(S.items, x)
      /\ DOMAIN A.keys = DOMAIN S.keys \cup {x}
      /\ A.keys[x] = L
      /\ \A y \in DOMAIN S.keys : A.keys[y] = S.keys[y] /\ y # x
  BY DEF SetAdd, SetHas
<1>2. /\ L \in Nat /\ Len(A.items) = L + 1
      /\ A.items[L + 1] = x
      /\ \A n \in 1 .. L : A.items[n] = S.items[n]
  BY <1>1, AppendProperties DEF IsSet
<1> HIDE DEF A, L
<1>3. \A y \in DOMAIN A.keys : A.keys[y] \in Nat
  BY <1>1, <1>2 DEF IndexedBy
<1>4. ASSUME NEW n \in 1 .. Len(A.items)
      PROVE  A.items[n] \in DOMAIN A.keys /\ A.keys[A.items[n]] = n - 1 + 0
  <2>1. CASE n = L + 1
    BY <2>1, <1>1, <1>2
  <2>2. CASE n # L + 1
    <3>1. n \in 1 .. L
      BY <2>2, <1>2
    <3>2. S.items[n] \in DOMAIN S.keys /\ S.keys[S.items[n]] = n - 1 + 0
      BY <3>1 DEF IndexedBy, L
    <3> QED
      BY <3>1, <3>2, <1>1, <1>2
  <2> QED
    BY <2>1, <2>2
<1>5. Items(A) = Items(S) \cup {x}
  <2>1. ASSUME NEW y \in Items(A) PROVE y \in Items(S) \cup {x}
    <3>1. PICK n \in 1 .. Len(A.items) : y = A.items[n]
      BY DEF Items
    <3>2. n = L + 1 \/ n \in 1 .. L
      BY <1>2
    <3> QED
      BY <3>1, <3>2, <1>2 DEF Items, L
  <2>2. ASSUME NEW y \in Items(S) PROVE y \in Items(A)
    <3>1. PICK n \in 1 .. L : y = S.items[n]
      BY DEF Items, L
    <3>2. n \in 1 .. Len(A.items)
      BY <1>2
    <3> QED
      BY <3>1, <3>2, <1>2 DEF Items
  <2>3. x \in Items(A)
    <3>1. L + 1 \in 1 .. Len(A.items)
      BY <1>2
    <3> QED
      BY <3>1, <1>2 DEF Items
  <2> QED
    BY <2>1, <2>2, <2>3
<1> QED
  BY <1>1, <1>3, <1>4, <1>5 DEF IndexedBy, A

\* remove: x is gone from the hash and from the array, whether its hash entry was
\* stale or not, and where it was not the later items move down by one.
LEMMA IndexedRemove ==
    ASSUME NEW E, NEW S, IsSet(S, E), NEW x, IndexedBy(S, 0), SetHas(S, x)
    PROVE  /\ IndexedBy(SetRemove(S, x), 0)
           /\ DOMAIN SetRemove(S, x).keys = DOMAIN S.keys \ {x}
           /\ S.keys[x] >= Len(S.items) => SetRemove(S, x).items = S.items
           /\ S.keys[x] < Len(S.items) =>
                /\ Len(SetRemove(S, x).items) = Len(S.items) - 1
                /\ \A n \in 1 .. Len(S.items) - 1 :
                     /\ n <= S.keys[x] => SetRemove(S, x).items[n] = S.items[n]
                     /\ n > S.keys[x] => SetRemove(S, x).items[n] = S.items[n + 1]
           /\ Items(SetRemove(S, x)) \subseteq Items(S) \ {x}
<1> DEFINE k      == S.keys[x]
           left   == Splice(S.items, k)
           L      == Len(S.items)
           later  == {left[n] : n \in {j \in 1 .. Len(left) : j > k}}
           others == DOMAIN S.keys \ {x}
           R      == SetRemove(S, x)
<1>1. S.items \in Seq(E) /\ L \in Nat
  BY DEF IsSet
<1>2. k \in Nat
  BY DEF IndexedBy, SetHas
<1>3. \A n \in 1 .. L : S.items[n] \in DOMAIN S.keys /\ S.keys[S.items[n]] = n - 1
  BY <1>1 DEF IndexedBy
<1>4. R = [items |-> left,
           keys  |-> [y \in others \cup later |->
                        (IF y \in others THEN S.keys[y] ELSE 0)
                          - (IF y \in later THEN 1 ELSE 0)]]
  BY DEF SetRemove
<1>5. \A y \in DOMAIN S.keys : S.keys[y] \in Nat
  BY DEF IndexedBy
<1> HIDE DEF R, later, others
<1>6. /\ R.items = left
      /\ DOMAIN R.keys = others \cup later
      /\ \A y \in others \cap later : R.keys[y] = S.keys[y] - 1
      /\ \A y \in others \ later : R.keys[y] = S.keys[y]
  <2>1. \A y \in others : S.keys[y] \in Int
    BY <1>5 DEF others
  <2>2. R.items = left /\ DOMAIN R.keys = others \cup later
    BY <1>4
  <2>3. \A y \in others \cup later :
           R.keys[y] = (IF y \in others THEN S.keys[y] ELSE 0)
                         - (IF y \in later THEN 1 ELSE 0)
    BY <1>4
  <2> QED
    BY <2>1, <2>2, <2>3
<1>7. CASE k >= L
  <2>1. left = S.items
    BY <1>7, <1>1, <1>2, SpliceOutside
  <2>2. later = {}
    BY <2>1, <1>7, <1>1, <1>2 DEF later
  <2>3. ASSUME NEW n \in 1 .. L PROVE S.items[n] \in others
    BY <1>3, <1>7, <1>2, <1>1 DEF others
  <2>4. IndexedBy(R, 0)
    <3>1. \A y \in DOMAIN R.keys : R.keys[y] \in Nat
      BY <2>2, <1>6, <1>5 DEF others
    <3>2. \A n \in 1 .. Len(R.items) : /\ R.items[n] \in DOMAIN R.keys
                                       /\ R.keys[R.items[n]] = n - 1 + 0
      BY <2>1, <2>2, <2>3, <1>6, <1>3, <1>1
    <3> QED
      BY <3>1, <3>2 DEF IndexedBy
  <2>5. Items(R) \subseteq Items(S) \ {x}
    BY <2>1, <2>3, <1>6 DEF Items, others
  <2> QED
    BY <2>1, <2>2, <2>4, <2>5, <1>6, <1>7, <1>1, <1>2 DEF R, others
<1>8. CASE k < L
  <2>1. k \in 0 .. L - 1
    BY <1>8, <1>1, <1>2
  <2>2. /\ Len(left) = L - 1
        /\ \A n \in 1 .. L - 1 : /\ n <= k => left[n] = S.items[n]
                                 /\ n > k => left[n] = S.items[n + 1]
    BY <2>1, <1>1, SpliceInside
  <2> HIDE DEF left
  <2>3. ASSUME NEW y \in later
        PROVE  \E n \in 1 .. L - 1 : n > k /\ y = S.items[n + 1]
    <3>1. PICK n \in 1 .. Len(left) : n > k /\ y = left[n]
      BY DEF later
    <3> QED
      BY <3>1, <2>2
  <2>4. later \subseteq others
    <3>1. ASSUME NEW y \in later PROVE y \in others
      <4>1. PICK n \in 1 .. L - 1 : n > k /\ y = S.items[n + 1]
        BY <2>3
      <4>2. n + 1 \in 1 .. L
        BY <1>1
      <4>3. y \in DOMAIN S.keys /\ S.keys[y] = (n + 1) - 1
        BY <4>1, <4>2, <1>3
      <4> QED
        BY <4>1, <4>3, <1>2 DEF others
    <3> QED
      BY <3>1
  <2>5. ASSUME NEW n \in 1 .. L - 1
        PROVE  left[n] \in others /\ R.keys[left[n]] = n - 1
    <3>1. CASE n <= k
      <4>1. left[n] = S.items[n] /\ n \in 1 .. L
        BY <3>1, <2>2, <1>1
      <4>2. left[n] \in DOMAIN S.keys /\ S.keys[left[n]] = n - 1
        BY <4>1, <1>3
      <4>3. left[n] \in others
        BY <4>2, <3>1, <1>2 DEF others
      <4>4. left[n] \notin later
        <5>1. SUFFICES ASSUME left[n] \in later PROVE FALSE
          OBVIOUS
        <5>2. PICK j \in 1 .. L - 1 : j > k /\ left[n] = S.items[j + 1]
          BY <5>1, <2>3
        <5>3. j + 1 \in 1 .. L
          BY <1>1
        <5>4. S.keys[left[n]] = (j + 1) - 1
          BY <5>2, <5>3, <1>3
        <5> QED
          BY <5>2, <5>4, <4>2, <3>1, <1>2
      <4> QED
        BY <4>2, <4>3, <4>4, <1>6
    <3>2. CASE n > k
      <4>1. left[n] = S.items[n + 1] /\ n + 1 \in 1 .. L
        BY <3>2, <2>2, <1>1
      <4>2. left[n] \in DOMAIN S.keys /\ S.keys[left[n]] = (n + 1) - 1
        BY <4>1, <1>3
      <4>3. left[n] \in later
        BY <3>2, <2>2 DEF later
      <4> QED
        BY <4>2, <4>3, <2>4, <1>6
    <3>3. n <= k \/ n > k
      BY <1>2
    <3> QED
      BY <3>1, <3>2, <3>3
  <2>6. DOMAIN R.keys = others
    BY <2>4, <1>6
  <2>7. \A y \in DOMAIN R.keys : R.keys[y] \in Nat
    <3>1. ASSUME NEW y \in others PROVE R.keys[y] \in Nat
      <4>1. CASE y \in later
        <5>1. PICK n \in 1 .. Len(left) : n > k /\ y = left[n]
          BY <4>1 DEF later
        <5> QED
          BY <5>1, <2>2, <2>5, <1>1
      <4>2. CASE y \notin later
        BY <4>2, <1>5, <1>6 DEF others
      <4> QED
        BY <4>1, <4>2
    <3> QED
      BY <3>1, <2>6
  <2>8. IndexedBy(R, 0)
    BY <2>2, <2>5, <2>6, <2>7, <1>1, <1>6 DEF IndexedBy
  <2>9. Items(R) \subseteq Items(S) \ {x}
    <3>1. ASSUME NEW y \in Items(R) PROVE y \in Items(S) /\ y # x
      <4>1. PICK n \in 1 .. L - 1 : y = left[n]
        BY <1>6, <2>2 DEF Items
      <4>2. (y = S.items[n] /\ n \in 1 .. L) \/ (y = S.items[n + 1] /\ n + 1 \in 1 .. L)
        BY <4>1, <2>2, <1>1, <1>2
      <4> QED
        BY <4>1, <4>2, <2>5 DEF Items, others
    <3> QED
      BY <3>1
  <2> QED
    BY <2>2, <2>6, <2>8, <2>9, <1>6, <1>8, <1>1, <1>2 DEF R, others
<1> QED
  BY <1>7, <1>8, <1>1, <1>2

\* Shifting the array one more time puts the hash one more step ahead of it.
LEMMA IndexedShift ==
    ASSUME NEW E, NEW S, IsSet(S, E), NEW s \in Nat, IndexedBy(S, s), S.items # <<>>
    PROVE  /\ IndexedBy(ShiftArray(S), s + 1)
           /\ Items(ShiftArray(S)) = Items(S) \ {S.items[1]}
<1> DEFINE R == ShiftArray(S)
           L == Len(S.items)
<1>1. R.items = Tail(S.items) /\ R.keys = S.keys
  BY DEF ShiftArray
<1>2. /\ L \in Nat /\ L >= 1 /\ Len(R.items) = L - 1
      /\ \A n \in 1 .. L - 1 : R.items[n] = S.items[n + 1]
  BY <1>1, HeadTailProperties DEF IsSet
<1> HIDE DEF R, L
<1>3. IndexedBy(R, s + 1)
  <2>1. ASSUME NEW n \in 1 .. L - 1
        PROVE  R.items[n] \in DOMAIN R.keys /\ R.keys[R.items[n]] = n - 1 + (s + 1)
    <3>1. n + 1 \in 1 .. L
      BY <1>2
    <3>2. S.items[n + 1] \in DOMAIN S.keys /\ S.keys[S.items[n + 1]] = (n + 1) - 1 + s
      BY <3>1 DEF IndexedBy, L
    <3> QED
      BY <3>2, <1>1, <1>2
  <2>2. \A y \in DOMAIN R.keys : R.keys[y] \in Nat
    BY <1>1 DEF IndexedBy
  <2> QED
    BY <2>1, <2>2, <1>2 DEF IndexedBy
<1>4. Items(R) = Items(S) \ {S.items[1]}
  <2>1. ASSUME NEW n \in 1 .. L - 1
        PROVE  R.items[n] \in Items(S) /\ R.items[n] # S.items[1]
    <3>1. n + 1 \in 1 .. L /\ 1 \in 1 .. L
      BY <1>2
    <3>2. S.items[n + 1] # S.items[1]
      BY <3>1, <1>2, IndexedInjective DEF L
    <3> QED
      BY <3>1, <3>2, <1>2 DEF Items, L
  <2>2. ASSUME NEW y \in Items(S), y # S.items[1] PROVE y \in Items(R)
    <3>1. PICK n \in 1 .. L : y = S.items[n]
      BY DEF Items, L
    <3>2. n - 1 \in 1 .. L - 1 /\ (n - 1) + 1 = n
      BY <3>1, <2>2, <1>2
    <3>3. y = R.items[n - 1]
      BY <3>1, <3>2, <1>2
    <3> QED
      BY <3>2, <3>3, <1>2 DEF Items
  <2>3. ASSUME NEW y \in Items(R) PROVE y \in Items(S) /\ y # S.items[1]
    <3>1. PICK n \in 1 .. L - 1 : y = R.items[n]
      BY <1>2 DEF Items
    <3> QED
      BY <3>1, <2>1
  <2> QED
    BY <2>2, <2>3
<1> QED
  BY <1>3, <1>4 DEF R

\* remove() of the first item after a shift: its hash entry goes, the item stays.
LEMMA IndexedStuck ==
    ASSUME NEW E, NEW S, IsSet(S, E), NEW s \in Nat \ {0}, IndexedBy(S, s),
           S.items # <<>>
    PROVE  LET R == SetRemove(S, S.items[1])
           IN  /\ R.items # <<>> /\ R.items[1] = S.items[1]
               /\ ~SetHas(R, S.items[1])
<1> DEFINE x      == S.items[1]
           k      == S.keys[x]
           left   == Splice(S.items, k)
           L      == Len(S.items)
           later  == {left[n] : n \in {j \in 1 .. Len(left) : j > k}}
           R      == SetRemove(S, x)
<1>1. S.items \in Seq(E) /\ L \in Nat /\ L >= 1
  BY DEF IsSet
<1>2. x \in DOMAIN S.keys /\ k = s
  BY <1>1 DEF IndexedBy
<1>3. R.items = left /\ DOMAIN R.keys = (DOMAIN S.keys \ {x}) \cup later
  BY <1>2 DEF SetRemove, SetHas
<1> HIDE DEF R, left
<1>4. \A n \in 2 .. L : S.items[n] # x
  <2>1. ASSUME NEW n \in 2 .. L, S.items[n] = x PROVE FALSE
    <3>1. n \in 1 .. L /\ 1 \in 1 .. L
      BY <1>1
    <3>2. n = 1
      BY <3>1, <2>1, <1>1, IndexedInjective
    <3> QED
      BY <3>2
  <2> QED
    BY <2>1
<1>5. /\ Len(left) \in Nat /\ Len(left) >= 1 /\ left[1] = x
      /\ \A n \in 1 .. Len(left) : n > k => left[n] # x
  <2>1. CASE k >= L
    <3>1. left = S.items
      BY <2>1, <1>1, <1>2, SpliceOutside DEF left
    <3> QED
      BY <3>1, <2>1, <1>1, <1>2
  <2>2. CASE k < L
    <3>1. k \in 0 .. L - 1 /\ k >= 1
      BY <2>2, <1>1, <1>2
    <3>2. /\ Len(left) = L - 1
          /\ \A n \in 1 .. L - 1 : /\ n <= k => left[n] = S.items[n]
                                   /\ n > k => left[n] = S.items[n + 1]
      BY <3>1, <1>1, SpliceInside DEF left
    <3>3. \A n \in 1 .. L - 1 : n + 1 \in 2 .. L
      BY <1>1
    <3>4. L - 1 \in Nat /\ L - 1 >= 1 /\ 1 \in 1 .. L - 1
      BY <3>1, <1>1
    <3>5. left[1] = x
      BY <3>1, <3>2, <3>4
    <3>6. \A n \in 1 .. L - 1 : n > k => left[n] # x
      BY <3>2, <3>3, <1>4
    <3> QED
      BY <3>2, <3>4, <3>5, <3>6
  <2> QED
    BY <2>1, <2>2, <1>1, <1>2
<1>6. x \notin later
  BY <1>5
<1>7. R.items # <<>> /\ R.items[1] = x
  BY <1>3, <1>5
<1>8. x \notin DOMAIN R.keys
  BY <1>3, <1>6
<1> QED
  BY <1>7, <1>8 DEF R, SetHas

-----------------------------------------------------------------------------
(* A set whose users leave its array alone (Consistent).                   *)

LEMMA EmptyConsistent == Consistent(EmptySet) /\ Items(EmptySet) = {}
BY DEF Consistent, EmptySet, Items

LEMMA ConsistentIndexed ==
    ASSUME NEW S, Consistent(S)
    PROVE  /\ Len(S.items) \in Nat => IndexedBy(S, 0)
           /\ \A x : SetHas(S, x) <=> x \in Items(S)
<1>1. \A x : SetHas(S, x) <=> x \in Items(S)
  BY DEF SetHas, Consistent
<1>2. ASSUME Len(S.items) \in Nat PROVE IndexedBy(S, 0)
  <2>1. \A n \in 1 .. Len(S.items) : /\ S.items[n] \in DOMAIN S.keys
                                     /\ S.keys[S.items[n]] = n - 1 + 0
    BY <1>2 DEF Consistent, Items
  <2>2. ASSUME NEW x \in DOMAIN S.keys PROVE S.keys[x] \in Nat
    <3>1. PICK n \in 1 .. Len(S.items) : x = S.items[n]
      BY DEF Consistent, Items
    <3> QED
      BY <3>1, <2>1, <1>2
  <2> QED
    BY <2>1, <2>2 DEF IndexedBy
<1> QED
  BY <1>1, <1>2

LEMMA AddConsistent ==
    ASSUME NEW E, NEW S, IsSet(S, E), Consistent(S), NEW x \in E
    PROVE  /\ Consistent(SetAdd(S, x))
           /\ Items(SetAdd(S, x)) = Items(S) \cup {x}
           /\ x \in Items(S) => SetAdd(S, x) = S
           /\ x \notin Items(S) => SetAdd(S, x).items = Append(S.items, x)
<1>1. CASE x \in Items(S)
  BY <1>1, ConsistentIndexed DEF SetAdd
<1>2. CASE x \notin Items(S)
  <2>1. IndexedBy(S, 0) /\ ~SetHas(S, x)
    BY <1>2, ConsistentIndexed DEF IsSet
  <2>2. /\ IndexedBy(SetAdd(S, x), 0)
        /\ SetAdd(S, x).items = Append(S.items, x)
        /\ DOMAIN SetAdd(S, x).keys = DOMAIN S.keys \cup {x}
        /\ Items(SetAdd(S, x)) = Items(S) \cup {x}
    BY <2>1, IndexedAdd
  <2>3. Len(SetAdd(S, x).items) \in Nat
    BY <2>2, AppendProperties DEF IsSet
  <2>4. \A n \in 1 .. Len(SetAdd(S, x).items) :
           SetAdd(S, x).keys[SetAdd(S, x).items[n]] = n - 1
    BY <2>2, <2>3 DEF IndexedBy
  <2> QED
    BY <1>2, <2>2, <2>4 DEF Consistent
<1> QED
  BY <1>1, <1>2

LEMMA RemoveConsistent ==
    ASSUME NEW E, NEW S, IsSet(S, E), Consistent(S), NEW x
    PROVE  /\ Consistent(SetRemove(S, x))
           /\ Items(SetRemove(S, x)) = Items(S) \ {x}
           /\ x \notin Items(S) => SetRemove(S, x) = S
<1>1. CASE x \notin Items(S)
  BY <1>1, ConsistentIndexed DEF SetRemove
<1>2. CASE x \in Items(S)
  <2> DEFINE R == SetRemove(S, x)
  <2>1. IndexedBy(S, 0) /\ SetHas(S, x)
    BY <1>2, ConsistentIndexed DEF IsSet
  <2>2. /\ IndexedBy(R, 0)
        /\ DOMAIN R.keys = DOMAIN S.keys \ {x}
        /\ Items(R) \subseteq Items(S) \ {x}
    BY <2>1, IndexedRemove
  <2>3. Len(R.items) \in Nat
    BY RemoveIsSet DEF IsSet
  <2> HIDE DEF R
  <2>4. \A n \in 1 .. Len(R.items) : R.keys[R.items[n]] = n - 1
    BY <2>2, <2>3 DEF IndexedBy
  <2>5. \A y \in Items(S) \ {x} : y \in Items(R)
    <3>1. PICK p \in 1 .. Len(S.items) : x = S.items[p]
      BY <1>2 DEF Items
    <3>2. Len(S.items) \in Nat /\ S.keys[x] = p - 1
      BY <3>1 DEF Consistent, IsSet
    <3>3. /\ Len(R.items) = Len(S.items) - 1
          /\ \A n \in 1 .. Len(S.items) - 1 :
               /\ n <= p - 1 => R.items[n] = S.items[n]
               /\ n > p - 1 => R.items[n] = S.items[n + 1]
      BY <2>1, <3>2, IndexedRemove DEF R
    <3>4. ASSUME NEW y \in Items(S) \ {x} PROVE y \in Items(R)
      <4>1. PICK q \in 1 .. Len(S.items) : y = S.items[q]
        BY DEF Items
      <4>2. CASE q < p
        <5>1. q \in 1 .. Len(S.items) - 1 /\ q <= p - 1
          BY <4>2, <3>2
        <5> QED
          BY <5>1, <4>1, <3>3 DEF Items
      <4>3. CASE q > p
        <5>1. q - 1 \in 1 .. Len(S.items) - 1 /\ q - 1 > p - 1 /\ (q - 1) + 1 = q
          BY <4>3, <3>2
        <5>2. R.items[q - 1] = y
          BY <5>1, <4>1, <3>3
        <5> QED
          BY <5>1, <5>2, <3>3 DEF Items
      <4> QED
        BY <4>1, <4>2, <4>3, <3>1, <3>2
    <3> QED
      BY <3>4
  <2>6. Items(R) = Items(S) \ {x}
    BY <2>2, <2>5
  <2> QED
    BY <1>2, <2>2, <2>4, <2>6 DEF Consistent, R
<1> QED
  BY <1>1, <1>2

\* The one walking over the array while it removes the item it is at must not move
\* on: the next item is at the same position.
LEMMA RemoveAtPosition ==
    ASSUME NEW E, NEW S, IsSet(S, E), Consistent(S), NEW p \in 1 .. Len(S.items)
    PROVE  LET R == SetRemove(S, S.items[p])
           IN  /\ Len(R.items) = Len(S.items) - 1
               /\ \A n \in 1 .. Len(S.items) - 1 :
                    /\ n < p => R.items[n] = S.items[n]
                    /\ n >= p => R.items[n] = S.items[n + 1]
<1>1. Len(S.items) \in Nat
  BY DEF IsSet
<1>2. S.keys[S.items[p]] = p - 1
  BY DEF Consistent
<1>3. IndexedBy(S, 0) /\ SetHas(S, S.items[p])
  BY <1>1, ConsistentIndexed DEF Items
<1>4. p - 1 < Len(S.items)
  BY <1>1
<1> DEFINE R == SetRemove(S, S.items[p])
<1>5. /\ Len(R.items) = Len(S.items) - 1
      /\ \A n \in 1 .. Len(S.items) - 1 :
           /\ n <= p - 1 => R.items[n] = S.items[n]
           /\ n > p - 1 => R.items[n] = S.items[n + 1]
  BY <1>2, <1>3, <1>4, IndexedRemove
<1> HIDE DEF R
<1>6. \A n \in 1 .. Len(S.items) - 1 : /\ n < p => R.items[n] = S.items[n]
                                       /\ n >= p => R.items[n] = S.items[n + 1]
  BY <1>1, <1>5
<1> QED
  BY <1>5, <1>6 DEF R

LEMMA IndexedByHead ==
    ASSUME NEW E, NEW S, IsSet(S, E), NEW s \in Nat, IndexedBy(S, s)
    PROVE  /\ HeadShift(S) \in Nat /\ IndexedBy(S, HeadShift(S))
           /\ S.items # <<>> => HeadShift(S) = s
<1>1. Len(S.items) \in Nat
  BY DEF IsSet
<1>2. CASE S.items = <<>>
  <2>1. Len(S.items) = 0
    BY <1>2
  <2> QED
    BY <1>2, <2>1 DEF HeadShift, IndexedBy
<1>3. CASE S.items # <<>>
  <2>1. Len(S.items) >= 1
    BY <1>3 DEF IsSet
  <2>2. S.keys[S.items[1]] = s
    BY <1>1, <2>1 DEF IndexedBy
  <2> QED
    BY <1>3, <2>2 DEF HeadShift
<1> QED
  BY <1>2, <1>3
=============================================================================
