----------------------------- MODULE IndexedSet -----------------------------
(***************************************************************************)
(* Utils/Set.pm: an insertion-ordered set kept as an array of items and a  *)
(* hash from each item to its index in that array.  has() reads the hash,  *)
(* iteration and get() read the array, and @{$set} hands out the array     *)
(* itself, so a caller can change one without the other.                   *)
(*                                                                         *)
(* A set is a record [items, keys]; Perl's indices start at 0, positions   *)
(* of a TLA+ sequence at 1, so keys[x] = position of x - 1.                *)
(***************************************************************************)
EXTENDS Integers, Sequences

EmptySet == [items |-> <<>>, keys |-> [x \in {} |-> 0]]

Items(S) == {S.items[n] : n \in 1 .. Len(S.items)}

SetHas(S, x) == x \in DOMAIN S.keys

SetAdd(S, x) ==
    IF SetHas(S, x)
    THEN S
    ELSE [items |-> Append(S.items, x),
          keys  |-> [y \in DOMAIN S.keys \cup {x} |->
                        IF y = x THEN Len(S.items) ELSE S.keys[y]]]

\* splice(@items, k, 1): the items but the one at index k, which counts from the
\* end when negative.  Outside the array: a warning or an error, and no change.
Splice(s, k) ==
    LET p == IF k < 0 THEN Len(s) + k ELSE k
    IN  IF p \in 0 .. Len(s) - 1
        THEN SubSeq(s, 1, p) \o SubSeq(s, p + 2, Len(s))
        ELSE s

\* Cuts the array at the index the hash has for x and decrements the hash entry
\* of every item at that index or later (creating the entry, at -1, if there is
\* none).
SetRemove(S, x) ==
    IF ~SetHas(S, x)
    THEN S
    ELSE LET k      == S.keys[x]
             left   == Splice(S.items, k)
             later  == {left[n] : n \in {j \in 1 .. Len(left) : j > k}}
             others == DOMAIN S.keys \ {x}
         IN  [items |-> left,
              keys  |-> [y \in others \cup later |->
                           (IF y \in others THEN S.keys[y] ELSE 0)
                             - (IF y \in later THEN 1 ELSE 0)]]

\* shift @{$set}, done by a user of the set on the array getArray() returns: the
\* hash keeps its entry for the first item and the old indices of the others.
ShiftArray(S) == [items |-> Tail(S.items), keys |-> S.keys]

-----------------------------------------------------------------------------

\* S is a Set object whose elements come from E, consistent or not.
IsSet(S, E) ==
    /\ S = [items |-> S.items, keys |-> S.keys]
    /\ S.items \in Seq(E)
    /\ DOMAIN S.keys \subseteq E
    /\ S.keys \in [DOMAIN S.keys -> Int]

\* What the class documents: every item once, and the hash is its index.
Consistent(S) ==
    /\ DOMAIN S.keys = Items(S)
    /\ \A n \in 1 .. Len(S.items) : S.keys[S.items[n]] = n - 1

\* What is left of it when users shift the array: after s shifts in a row the hash
\* is s too high for the items still there, and has entries for items that are not.
IndexedBy(S, s) ==
    /\ \A x \in DOMAIN S.keys : S.keys[x] \in Nat
    /\ \A n \in 1 .. Len(S.items) : /\ S.items[n] \in DOMAIN S.keys
                                    /\ S.keys[S.items[n]] = n - 1 + s

\* By how much it is off.
HeadShift(S) == IF S.items = <<>> THEN 0 ELSE S.keys[S.items[1]]
=============================================================================
