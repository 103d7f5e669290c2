--------------------------- MODULE HierarchyProofs ---------------------------
(***************************************************************************)
(* Bases, MROs and subclasses of types agree, and every change of a type   *)
(* is announced to all that inherit from it, if assignments of __bases__   *)
(* follow one another and succeed; for any types, threads and values.      *)
(*                                                                         *)
(* computeMro merges lists of types in their orders.  Of a type that is    *)
(* being moved the invariant says which bases have it among their          *)
(* subclasses at the moment, and which types below it have still the MRO   *)
(* of before.  That nothing inherits from itself is a rank that falls from *)
(* a type to its bases; it is given anew when a type is moved.  What a     *)
(* change has still to announce lies in every set of types that is closed  *)
(* under subclasses and has the types that threads are about to visit.     *)
(***************************************************************************)
EXTENDS MethodCacheProofs, FiniteSetTheorems, WellFoundedInduction

------------------------------------------------------------------------------
(* Recursion over an interval. *)

\* A set with 0 and the successor of each of its numbers has all natural numbers.
LEMMA NatInd == ASSUME NEW S, 0 \in S, \A n \in Nat : n \in S => n + 1 \in S
                PROVE  Nat \subseteq S
<1> DEFINE T == Nat \ S
           R == {ss \in Nat \X Nat : ss[1] < ss[2]}
<1>1. IsWellFoundedOn(R, Nat)
  BY NatLessThanWellFounded DEF OpToRel
<1>2. \A x, y \in Nat : x < y => <<x, y>> \in R
  OBVIOUS
<1>3. ASSUME T # {} PROVE \E x \in T : \A y \in T : ~(<<y, x>> \in R)
  <2>1. T \subseteq Nat
    OBVIOUS
  <2> HIDE DEF T, R
  <2>2. QED BY <1>1, <1>3, <2>1, WFMin
<1> HIDE DEF R
<1>4. T = {}
  <2> SUFFICES ASSUME T # {} PROVE FALSE
    OBVIOUS
  <2>1. PICK x \in T : \A y \in T : ~(<<y, x>> \in R)
    BY <1>3
  <2>2. x \in Nat /\ x # 0 /\ x - 1 \in Nat /\ x - 1 < x /\ (x - 1) + 1 = x
    OBVIOUS
  <2>3. x - 1 \notin T
    BY <2>1, <2>2, <1>2
  <2>4. QED
    BY <2>2, <2>3
<1>5. QED
  BY <1>4

\* f is defined by recursion up to N.
Recursive(f, N, base, step) == \A k \in 0 .. N : f[k] = IF k = 0 THEN base ELSE step[<<k, f[k - 1]>>]

\* A function that is defined by recursion over an interval exists: base for 0, and for n + 1
\* what the step makes of its value for n.
LEMMA RecursionExists ==
    ASSUME NEW N \in Nat, NEW V, NEW base \in V, NEW step \in [Nat \X V -> V]
    PROVE  \E f \in [0 .. N -> V] : Recursive(f, N, base, step)
<1> USE DEF Recursive
<1> DEFINE Steps(n, f) == \A k \in 0 .. n : f[k] = IF k = 0 THEN base ELSE step[<<k, f[k - 1]>>]
           S == {n \in Nat : \E f \in [0 .. n -> V] : Steps(n, f)}
<1>1. 0 \in S
  <2> DEFINE g == [k \in 0 .. 0 |-> base]
  <2>1. g \in [0 .. 0 -> V] /\ Steps(0, g)
    OBVIOUS
  <2> HIDE DEF g
  <2>2. QED
    BY <2>1
<1>2. ASSUME NEW n \in Nat, n \in S PROVE n + 1 \in S
  <2>1. PICK f \in [0 .. n -> V] : Steps(n, f)
    BY <1>2
  <2> DEFINE g == [k \in 0 .. n + 1 |-> IF k = n + 1 THEN step[<<n + 1, f[n]>>] ELSE f[k]]
  <2>2. g \in [0 .. n + 1 -> V]
    OBVIOUS
  <2>3. ASSUME NEW k \in 0 .. n + 1 PROVE g[k] = IF k = 0 THEN base ELSE step[<<k, g[k - 1]>>]
    <3>1. CASE k = n + 1
      <4>1. k - 1 = n /\ n \in 0 .. n + 1 /\ n # n + 1 /\ k # 0
        BY <3>1
      <4>2. QED
        BY <3>1, <4>1
    <3>2. CASE k # n + 1
      <4>1. k \in 0 .. n /\ (k # 0 => k - 1 \in 0 .. n + 1 /\ k - 1 # n + 1)
        BY <3>2
      <4>2. f[k] = IF k = 0 THEN base ELSE step[<<k, f[k - 1]>>]
        BY <2>1, <4>1
      <4>3. QED
        BY <3>2, <4>1, <4>2
    <3>3. QED
      BY <3>1, <3>2
  <2> HIDE DEF g
  <2>4. QED
    BY <2>2, <2>3
<1> HIDE DEF S
<1>3. N \in S
  BY <1>1, <1>2, NatInd
<1>4. QED
  BY <1>3 DEF S

------------------------------------------------------------------------------
(* computeMro: the scans of its merge, and the MRO they end with. *)

\* The lists that are merged, and the sets of states after each number of scans.
Lists(bs, mros) == Append([i \in DOMAIN bs |-> mros[bs[i]]], bs)
Scans(type, lists) == CHOOSE f : f = [k \in 0 .. Cardinality(Types) |->
            IF k = 0 THEN {[toMerge |-> lists, mro |-> <<type>>]}
            ELSE UNION {Scan(state) : state \in f[k - 1]}]

\* An MRO that has been computed is that of a state in which every list is used up.
LEMMA Unfold ==
  ASSUME NEW type, NEW bs, NEW mros, NEW m \in computeMro(type, bs, mros)
  PROVE /\ IsInjective(bs) /\ m \in Seq(Types)
        /\ \E k \in 0 .. Cardinality(Types) : \E state \in Scans(type, Lists(bs, mros))[k] :
            /\ state.mro = m /\ \A i \in DOMAIN Lists(bs, mros) : state.toMerge[i] = <<>>
<1>1. IsInjective(bs)
  BY DEF computeMro
<1>2. m \in Seq(Types)
  BY <1>1 DEF computeMro
<1>3. PICK state \in UNION {Scans(type, Lists(bs, mros))[k] : k \in 0 .. Cardinality(Types)} :
          state.mro = m /\ \A i \in DOMAIN Lists(bs, mros) : state.toMerge[i] = <<>>
  BY Zenon, <1>1 DEF computeMro, Lists, Scans
<1>4. QED
  BY <1>2, <1>1, <1>3

\* What holds at the beginning of the merge and is kept by a scan holds of every state.
LEMMA ScansIn ==
    ASSUME IsFiniteSet(Types), NEW type, NEW lists, NEW V,
           [toMerge |-> lists, mro |-> <<type>>] \in V,
           \A state \in V : Scan(state) \subseteq V
    PROVE  \A k \in 0 .. Cardinality(Types) : Scans(type, lists)[k] \subseteq V
<1> DEFINE N == Cardinality(Types)
           base == {[toMerge |-> lists, mro |-> <<type>>]}
           Then(v) == UNION {Scan(state) : state \in v}
           step == [p \in Nat \X SUBSET V |-> Then(p[2])]
           From(f) == [k \in 0 .. N |-> IF k = 0 THEN base ELSE Then(f[k - 1])]
           g == Scans(type, lists)
<1>1. N \in Nat
  BY FS_CardinalityType
<1>2. base \in SUBSET V /\ \A v \in SUBSET V : Then(v) \in SUBSET V
  OBVIOUS
<1>3. g = CHOOSE f : f = From(f)
  BY DEF Scans
<1> HIDE DEF N, base, Then, g
<1>4. step \in [Nat \X SUBSET V -> SUBSET V]
  BY <1>2
<1>5. PICK f \in [0 .. N -> SUBSET V] :
           \A k \in 0 .. N : f[k] = IF k = 0 THEN base ELSE step[<<k, f[k - 1]>>]
  <2> DEFINE W == SUBSET V
  <2>1. base \in W /\ step \in [Nat \X W -> W]
    BY <1>2, <1>4
  <2> HIDE DEF step, W
  <2>2. \E f \in [0 .. N -> W] : Recursive(f, N, base, step)
    BY <1>1, <2>1, RecursionExists
  <2>3. QED
    BY <2>2 DEF W, Recursive
<1>6. f = From(f)
  <2>1. ASSUME NEW k \in 0 .. N PROVE f[k] = IF k = 0 THEN base ELSE Then(f[k - 1])
    <3>1. k \in Nat /\ (k # 0 => k - 1 \in 0 .. N)
      BY <1>1
    <3>2. k # 0 => step[<<k, f[k - 1]>>] = Then(f[k - 1])
      BY <1>5, <3>1
    <3>3. QED
      BY <1>5, <3>2
  <2>2. QED
    BY <2>1, <1>5
<1>7. g = From(g)
  <2> HIDE DEF From
  <2>1. QED
    BY <1>3, <1>6
<1>8. \A k \in 0 .. N : g[k] = IF k = 0 THEN base ELSE Then(g[k - 1])
  BY <1>7
<1> DEFINE S == {k \in Nat : k <= N => g[k] \subseteq V}
<1>9. 0 \in S
  BY <1>1, <1>2, <1>8
<1>10. ASSUME NEW n \in Nat, n \in S PROVE n + 1 \in S
  <2>1. CASE n + 1 <= N
    <3>1. n + 1 \in 0 .. N /\ n + 1 # 0 /\ (n + 1) - 1 = n /\ n <= N
      BY <1>1, <2>1
    <3>2. g[n] \subseteq V
      BY <1>10, <3>1
    <3>3. g[n + 1] = Then(g[n])
      BY <1>8, <3>1
    <3>4. QED
      BY <1>2, <3>2, <3>3
  <2>2. CASE ~(n + 1 <= N)
    BY <2>2
  <2>3. QED
    BY <2>1, <2>2
<1> HIDE DEF S
<1>11. Nat \subseteq S
  BY <1>9, <1>10, NatInd
<1>12. QED
  BY <1>1, <1>11 DEF S, N, g

\* r is the end of the list l.
Rest(l, r) == /\ r \in Seq(Types) /\ Len(r) <= Len(l)
              /\ \A p \in 1 .. Len(r) : r[p] = l[Len(l) - Len(r) + p]

\* How much of l has been taken if r is left.
Taken(l, r) == Len(l) - Len(r)

\* What can be merged: lists of types, each once, without the type the MRO is of.
ListsFor(type, lists) ==
    /\ \A i \in DOMAIN lists : /\ lists[i] \in Seq(Types) /\ IsInjective(lists[i])
                               /\ \A p \in 1 .. Len(lists[i]) : lists[i][p] # type
    /\ type \in Types

\* x comes before y in s.
Before(s, x, y) == \E k, l \in 1 .. Len(s) : k < l /\ s[k] = x /\ s[l] = y

\* Half way through the merge: the MRO has what has been taken of the lists, in their orders.
Merging(type, lists, state) ==
    /\ state \in [toMerge : [DOMAIN lists -> Seq(Types)], mro : Seq(Types)]
    /\ Len(state.mro) > 0 /\ state.mro[1] = type
    /\ \A k, l \in 1 .. Len(state.mro) : state.mro[k] = state.mro[l] => k = l
    /\ \A k \in 1 .. Len(state.mro) :
          k = 1 \/ \E i \in DOMAIN lists : \E p \in 1 .. Len(lists[i]) : lists[i][p] = state.mro[k]
    /\ \A i \in DOMAIN lists :
          /\ Rest(lists[i], state.toMerge[i])
          /\ \A p \in 1 .. Len(lists[i]) :
                (\E k \in 1 .. Len(state.mro) : state.mro[k] = lists[i][p])
                   <=> p <= Taken(lists[i], state.toMerge[i])
          /\ \A p, q \in 1 .. Len(lists[i]) :
                p < q /\ q <= Taken(lists[i], state.toMerge[i])
                   => Before(state.mro, lists[i][p], lists[i][q])

\* Nothing of the lists has been merged at the beginning.
LEMMA MergeStarts ==
    ASSUME NEW type, NEW lists, ListsFor(type, lists), lists = [i \in DOMAIN lists |-> lists[i]]
    PROVE  Merging(type, lists, [toMerge |-> lists, mro |-> <<type>>])
<1> DEFINE s == [toMerge |-> lists, mro |-> <<type>>]
<1>1. /\ s.toMerge = lists /\ s.mro = <<type>> /\ type \in Types
      /\ s \in [toMerge : [DOMAIN lists -> Seq(Types)], mro : Seq(Types)]
  BY DEF ListsFor
<1>2. Len(s.mro) = 1 /\ s.mro[1] = type
  BY <1>1
<1> HIDE DEF s
<1>3. ASSUME NEW i \in DOMAIN lists
      PROVE  /\ Rest(lists[i], s.toMerge[i]) /\ Taken(lists[i], s.toMerge[i]) = 0
             /\ \A p \in 1 .. Len(lists[i]) : p > 0 /\ lists[i][p] # type
  BY <1>1 DEF Rest, Taken, ListsFor
<1>4. Merging(type, lists, s)
  BY <1>1, <1>2, <1>3 DEF Merging
<1>5. QED
  BY <1>4 DEF s

\* A candidate is taken from the lists it is the head of, and is not past the head of any.
LEMMA ListTaken ==
    ASSUME NEW l \in Seq(Types), IsInjective(l), NEW r, Rest(l, r), NEW x,
           ~pastnextContains(r, x)
    PROVE  /\ Rest(l, noteMerged(r, x))
           /\ \A p \in 1 .. Len(l) : l[p] = x /\ p > Taken(l, r) =>
                 p = Taken(l, r) + 1 /\ Taken(l, noteMerged(r, x)) = p
           /\ Taken(l, noteMerged(r, x)) # Taken(l, r) =>
                 /\ Taken(l, noteMerged(r, x)) = Taken(l, r) + 1
                 /\ Taken(l, r) + 1 \in 1 .. Len(l)
                 /\ l[Taken(l, r) + 1] = x
           /\ Taken(l, r) \in 0 .. Len(l)
<1>1. /\ r \in Seq(Types) /\ Len(r) \in Nat /\ Len(l) \in Nat /\ Len(r) <= Len(l)
      /\ \A p \in 1 .. Len(r) : r[p] = l[Len(l) - Len(r) + p]
  BY DEF Rest
<1>2. CASE r = <<>>
  <2>1. noteMerged(r, x) = r /\ Len(r) = 0
    BY <1>2 DEF noteMerged
  <2>2. QED
    BY <1>1, <2>1 DEF Taken
<1>3. CASE r # <<>>
  <2>1. /\ Len(r) > 0 /\ Head(r) = r[1] /\ Tail(r) \in Seq(Types) /\ Len(Tail(r)) = Len(r) - 1
        /\ \A p \in 1 .. Len(r) - 1 : Tail(r)[p] = r[p + 1]
    BY <1>1, <1>3
  <2>2. \A p \in 1 .. Len(r) : p > 1 => r[p] # x
    <3>1. ASSUME NEW p \in 1 .. Len(r), p > 1, r[p] = x PROVE FALSE
      <4>1. p - 1 \in 1 .. Len(r) - 1 /\ (p - 1) + 1 = p
        BY <1>1, <3>1
      <4>2. Tail(r)[p - 1] = x /\ p - 1 \in DOMAIN Tail(r)
        BY <2>1, <3>1, <4>1
      <4>3. QED
        BY <1>3, <4>2 DEF pastnextContains, ToSet
    <3>2. QED
      BY <3>1
  <2>3. ASSUME NEW p \in 1 .. Len(l), l[p] = x, p > Taken(l, r)
        PROVE  p = Taken(l, r) + 1 /\ r[1] = x
    <3>1. p - Taken(l, r) \in 1 .. Len(r) /\ Len(l) - Len(r) + (p - Taken(l, r)) = p
      BY <1>1, <2>3 DEF Taken
    <3>2. r[p - Taken(l, r)] = x
      BY <1>1, <2>3, <3>1
    <3>3. p - Taken(l, r) = 1
      BY <2>2, <3>1, <3>2
    <3>4. QED
      BY <1>1, <3>1, <3>2, <3>3 DEF Taken
  <2>4. CASE r[1] = x
    <3>1. noteMerged(r, x) = Tail(r)
      BY <1>3, <2>1, <2>4 DEF noteMerged
    <3>2. Rest(l, Tail(r))
      BY <1>1, <2>1 DEF Rest
    <3>3. /\ Taken(l, Tail(r)) = Taken(l, r) + 1 /\ Taken(l, r) + 1 \in 1 .. Len(l)
          /\ l[Taken(l, r) + 1] = x /\ Taken(l, r) \in 0 .. Len(l)
      BY <1>1, <2>1, <2>4 DEF Taken
    <3>4. QED
      BY <2>3, <3>1, <3>2, <3>3
  <2>5. CASE r[1] # x
    <3>1. noteMerged(r, x) = r
      BY <1>3, <2>1, <2>5 DEF noteMerged
    <3>2. Taken(l, r) \in 0 .. Len(l)
      BY <1>1 DEF Taken
    <3>3. QED
      BY <2>3, <2>5, <3>1, <3>2
  <2>6. QED
    BY <2>4, <2>5
<1>4. QED
  BY <1>2, <1>3

\* What is appended comes after all that is there.
LEMMA BeforeAppend ==
    ASSUME NEW s \in Seq(Types), NEW x, NEW y, NEW z \in Types
    PROVE  /\ Before(s, x, y) => Before(Append(s, z), x, y)
           /\ (\E k \in 1 .. Len(s) : s[k] = x) => Before(Append(s, z), x, z)
<1> DEFINE a == Append(s, z)
<1>1. /\ Len(s) \in Nat /\ Len(a) = Len(s) + 1 /\ a[Len(s) + 1] = z
      /\ \A k \in 1 .. Len(s) : a[k] = s[k] /\ k \in 1 .. Len(a) /\ k < Len(s) + 1
      /\ Len(s) + 1 \in 1 .. Len(a)
  OBVIOUS
<1> HIDE DEF a
<1>2. Before(s, x, y) => Before(a, x, y)
  BY <1>1 DEF Before
<1>3. (\E k \in 1 .. Len(s) : s[k] = x) => Before(a, x, z)
  BY <1>1 DEF Before
<1>4. QED
  BY <1>2, <1>3 DEF a

\* A scan takes the next type of the lists that have it, in the order of each.
LEMMA MergeGoesOn ==
    ASSUME NEW type, NEW lists, ListsFor(type, lists), NEW state, Merging(type, lists, state),
           NEW after \in Scan(state)
    PROVE  Merging(type, lists, after)
<1> DEFINE m == state.mro
<1>0. /\ state \in [toMerge : [DOMAIN lists -> Seq(Types)], mro : Seq(Types)]
      /\ m \in Seq(Types) /\ Len(m) \in Nat /\ DOMAIN state.toMerge = DOMAIN lists
  BY DEF Merging
<1>1. PICK i0 \in Mergeable(state.toMerge) :
         after = [toMerge |-> [j \in DOMAIN state.toMerge |->
                                  noteMerged(state.toMerge[j], Head(state.toMerge[i0]))],
                  mro |-> Append(m, Head(state.toMerge[i0]))]
  BY DEF Scan
<1> DEFINE x == Head(state.toMerge[i0])
<1>2. /\ i0 \in DOMAIN lists /\ state.toMerge[i0] # <<>>
      /\ \A j \in DOMAIN lists : ~pastnextContains(state.toMerge[j], x)
  BY <1>0, <1>1 DEF Mergeable
<1>3. /\ after.mro = Append(m, x) /\ x \in Types
      /\ \A j \in DOMAIN lists : after.toMerge[j] = noteMerged(state.toMerge[j], x)
      /\ after.toMerge = [j \in DOMAIN lists |-> noteMerged(state.toMerge[j], x)]
      /\ after = [toMerge |-> after.toMerge, mro |-> after.mro]
  BY <1>0, <1>1, <1>2
<1> DEFINE r(j) == state.toMerge[j]
           l(j) == lists[j]
<1>4. ASSUME NEW j \in DOMAIN lists
      PROVE  /\ Rest(l(j), after.toMerge[j])
             /\ \A p \in 1 .. Len(l(j)) : l(j)[p] = x /\ p > Taken(l(j), r(j)) =>
                   p = Taken(l(j), r(j)) + 1 /\ Taken(l(j), after.toMerge[j]) = p
             /\ Taken(l(j), after.toMerge[j]) # Taken(l(j), r(j)) =>
                   /\ Taken(l(j), after.toMerge[j]) = Taken(l(j), r(j)) + 1
                   /\ Taken(l(j), r(j)) + 1 \in 1 .. Len(l(j))
                   /\ l(j)[Taken(l(j), r(j)) + 1] = x
             /\ Taken(l(j), r(j)) \in 0 .. Len(l(j))
             /\ l(j) \in Seq(Types) /\ Len(l(j)) \in Nat /\ IsInjective(l(j))
  <2>1. l(j) \in Seq(Types) /\ IsInjective(l(j)) /\ Rest(l(j), r(j)) /\ ~pastnextContains(r(j), x)
    BY <1>2 DEF ListsFor, Merging
  <2> HIDE DEF l, r, x
  <2>2. after.toMerge[j] = noteMerged(r(j), x)
    BY <1>3 DEF r, x
  <2>3. QED
    BY <2>1, <2>2, ListTaken
<1>5. PICK p0 \in 1 .. Len(l(i0)) : l(i0)[p0] = x /\ p0 > Taken(l(i0), r(i0))
  <2>1. r(i0) \in Seq(Types) /\ Len(r(i0)) > 0 /\ x = r(i0)[1]
    BY <1>0, <1>2
  <2>2. Rest(l(i0), r(i0)) /\ l(i0) \in Seq(Types)
    BY <1>2, <1>4 DEF Merging
  <2> HIDE DEF l, r, x
  <2>3. Len(r(i0)) \in Nat /\ Len(l(i0)) \in Nat /\ 1 \in 1 .. Len(r(i0))
    BY <2>1, <2>2
  <2>4. Len(r(i0)) <= Len(l(i0)) /\ r(i0)[1] = l(i0)[Len(l(i0)) - Len(r(i0)) + 1]
    BY <2>2, <2>3 DEF Rest
  <2> DEFINE at == Len(l(i0)) - Len(r(i0)) + 1
  <2>5. at \in 1 .. Len(l(i0)) /\ l(i0)[at] = x /\ at > Taken(l(i0), r(i0))
    BY <2>1, <2>3, <2>4 DEF Taken
  <2> HIDE DEF at
  <2>6. QED
    BY <2>5
\* x is new in the MRO.
<1>6. ASSUME NEW k \in 1 .. Len(m), m[k] = x PROVE FALSE
  <2>1. p0 <= Taken(l(i0), r(i0))
    BY <1>2, <1>5, <1>6 DEF Merging
  <2>2. QED
    BY <1>2, <1>4, <1>5, <2>1
<1> DEFINE a == after.mro
<1>7. /\ a \in Seq(Types) /\ Len(a) = Len(m) + 1 /\ a[Len(m) + 1] = x /\ Len(m) + 1 \in 1 .. Len(a)
      /\ \A k \in 1 .. Len(m) : a[k] = m[k] /\ k \in 1 .. Len(a)
      /\ \A k \in 1 .. Len(a) : k \in 1 .. Len(m) \/ k = Len(m) + 1
  BY <1>0, <1>3
<1>8. after \in [toMerge : [DOMAIN lists -> Seq(Types)], mro : Seq(Types)]
  <2>1. \A j \in DOMAIN lists : after.toMerge[j] \in Seq(Types)
    BY <1>4 DEF Rest
  <2>2. after.toMerge \in [DOMAIN lists -> Seq(Types)]
    BY <1>3, <2>1
  <2>3. QED
    BY <1>3, <1>7, <2>2
<1> HIDE DEF x, m, a, l, r
<1>9. Len(a) > 0 /\ a[1] = type
  BY <1>0, <1>7 DEF Merging, m
<1>10. ASSUME NEW k \in 1 .. Len(a), NEW q \in 1 .. Len(a), a[k] = a[q] PROVE k = q
  <2>1. \A i, j \in 1 .. Len(m) : m[i] = m[j] => i = j
    BY DEF Merging, m
  <2>2. CASE k = Len(m) + 1
    BY <1>6, <1>7, <1>10, <2>2
  <2>3. CASE q = Len(m) + 1
    BY <1>6, <1>7, <1>10, <2>3
  <2>4. CASE k \in 1 .. Len(m) /\ q \in 1 .. Len(m)
    BY <1>7, <1>10, <2>1, <2>4
  <2>5. QED
    BY <1>7, <2>2, <2>3, <2>4
<1>11. \A k \in 1 .. Len(a) :
          k = 1 \/ \E i \in DOMAIN lists : \E p \in 1 .. Len(lists[i]) : lists[i][p] = a[k]
  <2>1. \A k \in 1 .. Len(m) :
          k = 1 \/ \E i \in DOMAIN lists : \E p \in 1 .. Len(lists[i]) : lists[i][p] = a[k]
    <3>1. \A k \in 1 .. Len(m) :
              k = 1 \/ \E i \in DOMAIN lists : \E p \in 1 .. Len(lists[i]) : lists[i][p] = m[k]
      BY DEF Merging, m
    <3>2. \A k \in 1 .. Len(m) : a[k] = m[k]
      BY <1>7
    <3>3. QED
      BY <3>1, <3>2
  <2>2. \E i \in DOMAIN lists : \E p \in 1 .. Len(lists[i]) : lists[i][p] = a[Len(m) + 1]
    BY <1>2, <1>5, <1>7 DEF l
  <2>3. QED
    BY <1>7, <2>1, <2>2
<1>12. ASSUME NEW j \in DOMAIN lists, NEW p \in 1 .. Len(l(j))
       PROVE  (\E k \in 1 .. Len(a) : a[k] = l(j)[p]) <=> p <= Taken(l(j), after.toMerge[j])
  <2>1. (\E k \in 1 .. Len(m) : m[k] = l(j)[p]) <=> p <= Taken(l(j), r(j))
    BY DEF Merging, l, r, m
  <2>2. (\E k \in 1 .. Len(a) : a[k] = l(j)[p]) <=> (l(j)[p] = x \/ \E k \in 1 .. Len(m) : m[k] = l(j)[p])
    BY <1>7
  <2>3. CASE l(j)[p] = x
    BY <1>4, <1>6, <2>1, <2>2, <2>3
  <2>4. CASE l(j)[p] # x
    BY <1>4, <2>1, <2>2, <2>4
  <2>5. QED
    BY <2>3, <2>4
<1>13. ASSUME NEW j \in DOMAIN lists, NEW p \in 1 .. Len(l(j)), NEW q \in 1 .. Len(l(j)),
              p < q, q <= Taken(l(j), after.toMerge[j])
       PROVE  Before(a, l(j)[p], l(j)[q])
  <2>0. a = Append(m, x) /\ m \in Seq(Types) /\ x \in Types
    BY <1>0, <1>3 DEF a, m, x
  <2>1. CASE q <= Taken(l(j), r(j))
    <3>1. Before(m, l(j)[p], l(j)[q])
      BY <1>13, <2>1 DEF Merging, m, l, r
    <3>2. QED
      BY <2>0, <3>1, BeforeAppend
  <2>2. CASE q > Taken(l(j), r(j))
    <3>1. q = Taken(l(j), r(j)) + 1 /\ l(j)[q] = x /\ p <= Taken(l(j), r(j))
      BY <1>4, <1>13, <2>2
    <3>2. \E k \in 1 .. Len(m) : m[k] = l(j)[p]
      BY <3>1 DEF Merging, m, l, r
    <3>3. QED
      BY <2>0, <3>1, <3>2, BeforeAppend
  <2>3. QED
    BY <1>4, <2>1, <2>2
<1>14. \A j \in DOMAIN lists : Rest(lists[j], after.toMerge[j])
  BY <1>4 DEF l
<1>15. QED
  BY <1>8, <1>9, <1>10, <1>11, <1>12, <1>13, <1>14 DEF Merging, a, l

\* A type has itself first in its MRO, and no type twice.
Topped(T, m) == Len(m) > 0 /\ m[1] = T /\ IsInjective(m)

\* The MRO m is right for a type with the bases bs, if the MROs of these are as in f.
Resolves(T, bs, f, m) ==
    /\ m \in Seq(Types) /\ Topped(T, m) /\ IsInjective(bs)
    /\ ToSet(m) = {T} \cup UNION {ToSet(f[b]) : b \in ToSet(bs)}
    /\ Keeps(m, bs) /\ \A b \in ToSet(bs) : Keeps(m, f[b])

\* What has been merged when nothing is left of any list.
LEMMA MergeEnds ==
    ASSUME NEW type, NEW lists, ListsFor(type, lists), NEW state, Merging(type, lists, state),
           \A i \in DOMAIN lists : state.toMerge[i] = <<>>
    PROVE  /\ Len(state.mro) > 0 /\ state.mro[1] = type /\ IsInjective(state.mro)
           /\ ToSet(state.mro) = {type} \cup UNION {ToSet(lists[i]) : i \in DOMAIN lists}
           /\ \A i \in DOMAIN lists : Keeps(state.mro, lists[i])
<1> DEFINE m == state.mro
<1>1. m \in Seq(Types) /\ Len(m) > 0 /\ m[1] = type /\ DOMAIN m = 1 .. Len(m) /\ 1 \in 1 .. Len(m)
  BY DEF Merging
<1>2. ASSUME NEW i \in DOMAIN lists
      PROVE  /\ lists[i] \in Seq(Types) /\ DOMAIN lists[i] = 1 .. Len(lists[i])
             /\ \A p \in 1 .. Len(lists[i]) : \E k \in 1 .. Len(m) : m[k] = lists[i][p]
             /\ \A p, q \in 1 .. Len(lists[i]) : p < q => Before(m, lists[i][p], lists[i][q])
  <2>1. lists[i] \in Seq(Types) /\ Len(lists[i]) \in Nat
    BY DEF ListsFor
  <2>2. Taken(lists[i], state.toMerge[i]) = Len(lists[i])
    BY <2>1 DEF Taken
  <2>3. /\ \A p \in 1 .. Len(lists[i]) :
              (\E k \in 1 .. Len(m) : m[k] = lists[i][p]) <=> p <= Taken(lists[i], state.toMerge[i])
        /\ \A p, q \in 1 .. Len(lists[i]) :
              p < q /\ q <= Taken(lists[i], state.toMerge[i]) => Before(m, lists[i][p], lists[i][q])
    BY DEF Merging
  <2>4. QED
    BY <2>1, <2>2, <2>3
<1>3. IsInjective(m)
  BY <1>1 DEF Merging, IsInjective
<1>4. ToSet(m) \subseteq {type} \cup UNION {ToSet(lists[i]) : i \in DOMAIN lists}
  <2>1. ASSUME NEW k \in 1 .. Len(m), k # 1
        PROVE  \E i \in DOMAIN lists : m[k] \in ToSet(lists[i])
    <3>1. PICK i \in DOMAIN lists : \E p \in 1 .. Len(lists[i]) : lists[i][p] = m[k]
      BY <2>1 DEF Merging
    <3>2. QED
      BY <3>1, <1>2 DEF ToSet
  <2>2. QED
    BY <1>1, <2>1 DEF ToSet
<1>5. {type} \cup UNION {ToSet(lists[i]) : i \in DOMAIN lists} \subseteq ToSet(m)
  <2>1. type \in ToSet(m)
    BY <1>1 DEF ToSet
  <2>2. ASSUME NEW i \in DOMAIN lists, NEW x \in ToSet(lists[i]) PROVE x \in ToSet(m)
    <3>1. PICK p \in 1 .. Len(lists[i]) : x = lists[i][p]
      BY <1>2 DEF ToSet
    <3>2. QED
      BY <1>1, <1>2, <3>1 DEF ToSet
  <2>3. QED
    BY <2>1, <2>2
<1>6. ASSUME NEW i \in DOMAIN lists PROVE Keeps(m, lists[i])
  <2>1. ASSUME NEW p \in DOMAIN lists[i], NEW q \in DOMAIN lists[i], p < q
        PROVE  \E k, l \in DOMAIN m : k < l /\ m[k] = lists[i][p] /\ m[l] = lists[i][q]
    <3>1. Before(m, lists[i][p], lists[i][q])
      BY <1>2, <2>1
    <3>2. QED
      BY <1>1, <3>1 DEF Before
  <2>2. QED
    BY <2>1 DEF Keeps
<1>7. QED
  BY <1>1, <1>3, <1>4, <1>5, <1>6

\* What computeMro returns for a type and bases whose MROs begin with themselves and do not have
\* the type: the type first, then its ancestors, each once, the bases and the MRO of each base
\* in their order.
THEOREM MroRight ==
    ASSUME IsFiniteSet(Types), NEW T \in Types, NEW bs \in Seq(Types),
           NEW f \in [Types -> Seq(Types)], T \notin ToSet(bs),
           \A b \in ToSet(bs) : Topped(b, f[b]) /\ T \notin ToSet(f[b]),
           NEW m \in computeMro(T, bs, f)
    PROVE  Resolves(T, bs, f, m)
<1> DEFINE lists == Lists(bs, f)
           V == {s \in [toMerge : [DOMAIN lists -> Seq(Types)], mro : Seq(Types)] :
                    Merging(T, lists, s)}
           start == [toMerge |-> lists, mro |-> <<T>>]
<1>0. bs \in Seq(Types) /\ Len(bs) \in Nat /\ DOMAIN bs = 1 .. Len(bs)
  OBVIOUS
<1>1. /\ IsInjective(bs) /\ m \in Seq(Types)
      /\ \E k \in 0 .. Cardinality(Types) : \E state \in Scans(T, lists)[k] :
            state.mro = m /\ \A i \in DOMAIN lists : state.toMerge[i] = <<>>
  BY Unfold
<1>2. /\ lists \in Seq(Seq(Types)) /\ Len(lists) = Len(bs) + 1 /\ DOMAIN lists = 1 .. Len(bs) + 1
      /\ lists[Len(bs) + 1] = bs
      /\ \A i \in 1 .. Len(bs) : lists[i] = f[bs[i]]
  <2> DEFINE mros == [i \in DOMAIN bs |-> f[bs[i]]]
  <2>1. mros \in Seq(Seq(Types)) /\ Len(mros) = Len(bs) /\ \A i \in 1 .. Len(bs) : mros[i] = f[bs[i]]
    <3>1. mros \in [1 .. Len(bs) -> Seq(Types)]
      BY <1>0
    <3>2. QED
      BY <3>1, <1>0
  <2>2. lists = Append(mros, bs)
    BY DEF Lists
  <2> HIDE DEF mros, lists
  <2>3. bs \in Seq(Types)
    OBVIOUS
  <2>4. /\ lists \in Seq(Seq(Types)) /\ Len(lists) = Len(mros) + 1
        /\ \A i \in 1 .. Len(mros) : lists[i] = mros[i]
        /\ lists[Len(mros) + 1] = bs
    BY <2>1, <2>2, <2>3, AppendProperties
  <2>5. QED
    BY <2>1, <2>4, <1>0
<1>3. \A i \in 1 .. Len(bs) : bs[i] \in ToSet(bs)
  BY <1>0 DEF ToSet
<1> HIDE DEF lists
<1>4. ListsFor(T, lists)
  <2>1. ASSUME NEW i \in DOMAIN lists
        PROVE  lists[i] \in Seq(Types) /\ IsInjective(lists[i]) /\ T \notin ToSet(lists[i])
    <3>1. CASE i = Len(bs) + 1
      BY <3>1, <1>1, <1>2
    <3>2. CASE i \in 1 .. Len(bs)
      <4>1. bs[i] \in ToSet(bs) /\ bs[i] \in Types /\ lists[i] = f[bs[i]]
        BY <3>2, <1>2, <1>3
      <4>2. Topped(bs[i], f[bs[i]]) /\ T \notin ToSet(f[bs[i]]) /\ f[bs[i]] \in Seq(Types)
        BY <4>1
      <4>3. QED
        BY <4>1, <4>2 DEF Topped
    <3>3. QED
      BY <1>0, <1>2, <3>1, <3>2
  <2>2. ASSUME NEW i \in DOMAIN lists, NEW p \in 1 .. Len(lists[i]) PROVE lists[i][p] # T
    BY <2>1 DEF ToSet
  <2>3. QED
    BY <2>1, <2>2 DEF ListsFor
<1>5. start \in V
  <2>1. lists = [i \in DOMAIN lists |-> lists[i]]
    BY <1>2
  <2>2. Merging(T, lists, start)
    BY <1>4, <2>1, MergeStarts
  <2>3. start \in [toMerge : [DOMAIN lists -> Seq(Types)], mro : Seq(Types)]
    BY <2>2 DEF Merging
  <2>4. QED
    BY <2>2, <2>3
<1>6. ASSUME NEW state \in V PROVE Scan(state) \subseteq V
  <2>1. ASSUME NEW after \in Scan(state) PROVE after \in V
    <3>1. Merging(T, lists, after)
      BY <1>4, MergeGoesOn
    <3>2. QED
      BY <3>1 DEF Merging
  <2>2. QED
    BY <2>1
<1>7. PICK k \in 0 .. Cardinality(Types) : \E state \in Scans(T, lists)[k] :
          state.mro = m /\ \A i \in DOMAIN lists : state.toMerge[i] = <<>>
  BY <1>1
<1>8. PICK state \in Scans(T, lists)[k] :
         state.mro = m /\ \A i \in DOMAIN lists : state.toMerge[i] = <<>>
  BY <1>7
<1>9. Merging(T, lists, state)
  <2> HIDE DEF V
  <2>1. Scans(T, lists)[k] \subseteq V
    BY <1>5, <1>6, ScansIn
  <2>2. state \in V
    BY <2>1
  <2>3. QED
    BY <2>2 DEF V
<1>10. /\ Len(m) > 0 /\ m[1] = T /\ IsInjective(m)
       /\ ToSet(m) = {T} \cup UNION {ToSet(lists[i]) : i \in DOMAIN lists}
       /\ \A i \in DOMAIN lists : Keeps(m, lists[i])
  <2>1. \A i \in DOMAIN lists : state.toMerge[i] = <<>>
    BY <1>8
  <2>2. /\ Len(state.mro) > 0 /\ state.mro[1] = T /\ IsInjective(state.mro)
        /\ ToSet(state.mro) = {T} \cup UNION {ToSet(lists[i]) : i \in DOMAIN lists}
        /\ \A i \in DOMAIN lists : Keeps(state.mro, lists[i])
    BY <1>4, <1>9, <2>1, MergeEnds
  <2>3. state.mro = m
    BY <1>8
  <2>4. QED
    BY <2>2, <2>3
<1>11. Keeps(m, bs)
  <2>1. Len(bs) + 1 \in DOMAIN lists
    BY <1>0, <1>2
  <2>2. QED
    BY <2>1, <1>2, <1>10
<1>12. ASSUME NEW b \in ToSet(bs) PROVE Keeps(m, f[b])
  <2>1. PICK i \in 1 .. Len(bs) : bs[i] = b
    BY <1>0 DEF ToSet
  <2>2. QED
    BY <2>1, <1>0, <1>2, <1>10
<1>13. UNION {ToSet(lists[i]) : i \in DOMAIN lists} = UNION {ToSet(f[b]) : b \in ToSet(bs)}
  <2>1. ASSUME NEW b \in ToSet(bs)
        PROVE  b \in ToSet(f[b]) /\ \E i \in DOMAIN lists : lists[i] = f[b]
    <3>1. f[b] \in Seq(Types) /\ Len(f[b]) > 0 /\ f[b][1] = b /\ b \in Types
      BY <1>0 DEF Topped, ToSet
    <3>2. b \in ToSet(f[b])
      BY <3>1 DEF ToSet
    <3>3. PICK i \in 1 .. Len(bs) : bs[i] = b
      BY <1>0 DEF ToSet
    <3>4. i \in DOMAIN lists /\ lists[i] = f[b]
      BY <3>3, <1>0, <1>2
    <3>5. QED
      BY <3>2, <3>4
  <2>2. ASSUME NEW i \in DOMAIN lists, NEW x \in ToSet(lists[i])
        PROVE  \E b \in ToSet(bs) : x \in ToSet(f[b])
    <3>1. CASE i = Len(bs) + 1
      BY <3>1, <1>2, <2>1, <2>2
    <3>2. CASE i \in 1 .. Len(bs)
      BY <3>2, <1>2, <1>3, <2>2
    <3>3. QED
      BY <1>0, <1>2, <3>1, <3>2
  <2>3. QED
    BY <2>1, <2>2
<1>14. QED
  BY <1>1, <1>10, <1>11, <1>12, <1>13 DEF Resolves, Topped

------------------------------------------------------------------------------
(* What holds of the hierarchy while one type at a time is moved. *)

\* An assignment of __bases__ before it announces the types it has changed.
Moving == {"b_assign", "b_mro", "b_subclasses", "b_edges"}

\* Assignments of __bases__ do not fail and one ends, but for the announcement, before the
\* next one begins.
Orderly ==
    /\ \A t \in Threads : pc[t] # "b_restore"
    /\ \A t, u \in Threads : pc[t] \in Moving /\ pc[u] \in Moving => t = u

\* The types a recursion has on its way back still to enter.
Pending(p) == UNION {ToSet(p[i].left) : i \in DOMAIN p}

\* s has x at most once.
Single(s, x) == \A i, j \in DOMAIN s : s[i] = x /\ s[j] = x => i = j

\* What is to be done with a base.
Edge(do, b) == [do |-> do, base |-> b]

\* The types that have self[t] among their subclasses while t moves it.
Held(t) == {S \in Types :
    \/ pc[t] = "b_assign" /\ S \in ToSet(bases[self[t]])
    \/ pc[t] \in {"b_mro", "b_subclasses"} /\ S \in ToSet(savedBases[t])
    \/ /\ pc[t] = "b_edges"
       /\ \/ Edge("detach", S) \in ToSet(edges[t])
          \/ S \in ToSet(newBases[t]) /\ Edge("attach", S) \notin ToSet(edges[t])}

\* The types whose MRO t has still to compute.
Unresolved(t) == {T \in Types : \/ pc[t] = "b_mro" /\ T = self[t]
                                \/ pc[t] = "b_subclasses" /\ T \in Pending(path[t])}

\* Every MRO begins with its type and has no type twice; and those that are not to be computed
\* again are what the bases give.
MroTop == \A T \in Types : Topped(T, mro[T])

MroResolved == \A T \in Types :
    (\A t \in Threads : T \notin Unresolved(t)) => Resolves(T, bases[T], mro, mro[T])

\* t is about to move T.
Moved(t, T) == pc[t] \in Moving /\ self[t] = T

\* A type is once among the subclasses of its bases, or of those that hold it while it is moved.
SubclassesRight == \A S, T \in Types :
    /\ Single(subclasses[S], T)
    /\ \A t \in Threads : Moved(t, T) => (T \in ToSet(subclasses[S]) <=> S \in Held(t))
    /\ (\A t \in Threads : ~Moved(t, T)) =>
          (T \in ToSet(subclasses[S]) <=> S \in ToSet(bases[T]))

\* All that are to be detached come before all that are to be attached.
EdgesRight(t) ==
    /\ \A i, j \in DOMAIN edges[t] : edges[t][i] = edges[t][j] => i = j
    /\ \A i, j \in DOMAIN edges[t] : edges[t][i].do = "attach" /\ edges[t][j].do = "detach" => j < i
    /\ \A i \in DOMAIN edges[t] : edges[t][i].do = "attach" => edges[t][i].base \in ToSet(newBases[t])
    /\ \A i \in DOMAIN edges[t] : edges[t][i].do = "detach" =>
          \A b \in ToSet(newBases[t]) : Edge("attach", b) \in ToSet(edges[t])

\* What a thread that moves a type has at hand.
MoveRight(t) ==
    /\ pc[t] \in Moving \ {"b_assign"} => bases[self[t]] = newBases[t] /\ IsInjective(savedBases[t])
    /\ pc[t] \in {"b_subclasses", "b_edges"} => IsInjective(newBases[t])
    /\ pc[t] = "b_edges" => EdgesRight(t)

\* The rank falls along MROs, to the bases, new and old, and from what is pending.
Ranked(rank) ==
    /\ \A T \in Types : \A U \in ToSet(mro[T]) : U = T \/ rank[U] < rank[T]
    /\ \A T \in Types : \A U \in ToSet(bases[T]) : rank[U] < rank[T]
    /\ \A t \in Threads : pc[t] \in Moving =>
          \A U \in ToSet(newBases[t]) : rank[U] < rank[self[t]]
    /\ \A t \in Threads : pc[t] \in Moving \ {"b_assign"} =>
          \A U \in ToSet(savedBases[t]) : rank[U] < rank[self[t]]
    /\ \A t \in Threads : pc[t] = "b_subclasses" =>
          \A U \in Pending(path[t]) : rank[self[t]] < rank[U]

\* Q has the subclasses of all it has, and what threads have still to visit or to announce.
Closed(Q) == \A S \in Q : ToSet(subclasses[S]) \subseteq Q

Visits(Q) == \A t \in Threads :
    /\ pc[t] \in Announcing => Pending(path[t]) \subseteq Q
    /\ pc[t] \in Moving => self[t] \in Q

\* What an assignment has pending is below the type it moves; and what is stale is below what is
\* to be visited.
Reached == \A t \in Threads : pc[t] = "b_subclasses" =>
    \A Q \in SUBSET Types : Closed(Q) /\ self[t] \in Q => Pending(path[t]) \subseteq Q

Covered == \A Q \in SUBSET Types : Closed(Q) /\ Visits(Q) => stale \subseteq Q

------------------------------------------------------------------------------
(* The hierarchy that the creation of the types leaves. *)

Created == Len(Hierarchy)

\* The types created and their bases.
LEMMA HierarchyFacts ==
    /\ Created \in Nat /\ DOMAIN Hierarchy = 1 .. Created
    /\ \A k \in 1 .. Created : Hierarchy[k].type \in Types /\ Hierarchy[k].bases \in Seq(Types)
<1>1. Created \in Nat /\ DOMAIN Hierarchy = 1 .. Created
      /\ \A k \in 1 .. Created : Hierarchy[k] \in [type : Types, bases : Seq(Types)]
  <2> DEFINE R == [type : Types, bases : Seq(Types)]
  <2>1. Hierarchy \in Seq(R)
    BY MethodCacheAssumption
  <2> HIDE DEF R
  <2>2. Created \in Nat /\ DOMAIN Hierarchy = 1 .. Created /\ \A k \in 1 .. Created : Hierarchy[k] \in R
    BY <2>1 DEF Created
  <2>3. QED
    BY <2>2 DEF R
<1>2. QED
  BY <1>1

\* What the creation of a type adds.
WithMro(k, f) == [f EXCEPT ![Hierarchy[k].type] =
    CHOOSE m \in computeMro(Hierarchy[k].type, Hierarchy[k].bases, f) : TRUE]

WithSubclass(k, f) == [T \in Types |->
    IF T \in ToSet(Hierarchy[k].bases) THEN Append(f[T], Hierarchy[k].type) ELSE f[T]]

\* MroOf is what its recursion says: from nothing, an MRO for each type that is created.
LEMMA MroOfFacts ==
    /\ \A T \in Types : MroOf[0][T] = <<>>
    /\ \A k \in 0 .. Created : MroOf[k] \in [Types -> Seq(Types)]
    /\ \A k \in 1 .. Created : MroOf[k] = WithMro(k, MroOf[k - 1])
<1> DEFINE none == CHOOSE m \in {} : TRUE
           V == [Types -> Seq(Types) \cup {none}]
           base == [T \in Types |-> <<>>]
           step == [p \in Nat \X V |-> WithMro(p[1], p[2])]
           From(f) == [k \in 0 .. Created |-> IF k = 0 THEN base ELSE WithMro(k, f[k - 1])]
<1>1. MroOf = CHOOSE f : f = From(f)
  BY Zenon DEF MroOf, WithMro, Created
<1>2. ASSUME NEW k, NEW f \in V PROVE WithMro(k, f) \in V
  <2> DEFINE T == Hierarchy[k].type
             c == CHOOSE m \in computeMro(T, Hierarchy[k].bases, f) : TRUE
  <2>1. CASE computeMro(T, Hierarchy[k].bases, f) = {}
    BY <2>1 DEF WithMro
  <2>2. CASE computeMro(T, Hierarchy[k].bases, f) # {}
    <3>1. c \in Seq(Types)
      BY <2>2, MroTyped
    <3> HIDE DEF c, none
    <3>2. [f EXCEPT ![T] = c] \in V
      BY <3>1
    <3>3. QED
      BY <3>2 DEF WithMro, c
  <2>3. QED
    BY <2>1, <2>2
<1>3. base \in V
  OBVIOUS
<1> HIDE DEF none, V, base, From
<1>4. step \in [Nat \X V -> V]
  BY <1>2
<1>5. PICK g \in [0 .. Created -> V] : Recursive(g, Created, base, step)
  <2> HIDE DEF step
  <2>1. QED
    BY <1>3, <1>4, HierarchyFacts, RecursionExists
<1>6. ASSUME NEW k \in 0 .. Created PROVE g[k] = IF k = 0 THEN base ELSE WithMro(k, g[k - 1])
  <2>1. k \in Nat /\ (k # 0 => k - 1 \in 0 .. Created)
    BY HierarchyFacts
  <2>2. g[k] = IF k = 0 THEN base ELSE step[<<k, g[k - 1]>>]
    BY <1>5 DEF Recursive
  <2>3. k # 0 => step[<<k, g[k - 1]>>] = WithMro(k, g[k - 1])
    BY <2>1, <1>5
  <2>4. QED
    BY <2>2, <2>3
<1>7. g = From(g)
  BY <1>5, <1>6 DEF From
<1>8. MroOf = From(MroOf)
  BY <1>1, <1>7
<1>9. \A k \in 0 .. Created : MroOf[k] = IF k = 0 THEN base ELSE WithMro(k, MroOf[k - 1])
  BY <1>8 DEF From
<1>10. 0 \in 0 .. Created
  BY HierarchyFacts
<1>11. MroOf[0] = base
  BY <1>9, <1>10
<1> DEFINE S == {k \in Nat : k <= Created => MroOf[k] \in [Types -> Seq(Types)]}
<1>12. 0 \in S
  <2>1. base \in [Types -> Seq(Types)]
    BY DEF base
  <2>2. QED
    BY <1>11, <2>1
<1>13. ASSUME NEW n \in Nat, n \in S PROVE n + 1 \in S
  <2>1. CASE n + 1 <= Created
    <3>1. n + 1 \in 1 .. Created /\ n + 1 \in 0 .. Created /\ n + 1 # 0 /\ (n + 1) - 1 = n /\ n <= Created
      BY <2>1, HierarchyFacts
    <3>2. MroOf[n] \in [Types -> Seq(Types)] /\ MroOf[n + 1] = WithMro(n + 1, MroOf[n])
      BY <1>9, <1>13, <3>1
    <3>3. computeMro(Hierarchy[n + 1].type, Hierarchy[n + 1].bases, MroOf[n]) # {}
      BY <3>1, HierarchyAssumption, HierarchyFacts
    <3> DEFINE c == CHOOSE m \in computeMro(Hierarchy[n + 1].type, Hierarchy[n + 1].bases, MroOf[n]) : TRUE
    <3>4. c \in Seq(Types)
      BY <3>3, MroTyped
    <3>5. MroOf[n + 1] = [MroOf[n] EXCEPT ![Hierarchy[n + 1].type] = c]
      BY <3>2 DEF WithMro
    <3> HIDE DEF c
    <3>6. MroOf[n + 1] \in [Types -> Seq(Types)]
      BY <3>2, <3>4, <3>5
    <3>7. QED
      BY <3>6
  <2>2. CASE ~(n + 1 <= Created)
    BY <2>2
  <2>3. QED
    BY <2>1, <2>2
<1> HIDE DEF S
<1>14. Nat \subseteq S
  BY <1>12, <1>13, NatInd
<1>15. \A k \in 0 .. Created : MroOf[k] \in [Types -> Seq(Types)]
  BY <1>14, HierarchyFacts DEF S
<1>16. \A k \in 1 .. Created : MroOf[k] = WithMro(k, MroOf[k - 1])
  BY <1>9, HierarchyFacts
<1>17. QED
  BY <1>11, <1>15, <1>16 DEF base

\* SubclassesOf likewise: each type that is created is attached to its bases.
LEMMA SubclassesOfFacts ==
    /\ \A T \in Types : SubclassesOf[0][T] = <<>>
    /\ \A k \in 0 .. Created : SubclassesOf[k] \in [Types -> Seq(Types)]
    /\ \A k \in 1 .. Created : SubclassesOf[k] = WithSubclass(k, SubclassesOf[k - 1])
<1> DEFINE V == [Types -> Seq(Types)]
           base == [T \in Types |-> <<>>]
           step == [p \in Nat \X V |-> IF p[1] \in 1 .. Created THEN WithSubclass(p[1], p[2]) ELSE p[2]]
           From(f) == [k \in 0 .. Created |-> IF k = 0 THEN base ELSE WithSubclass(k, f[k - 1])]
<1>1. SubclassesOf = CHOOSE f : f = From(f)
  BY Zenon DEF SubclassesOf, WithSubclass, Created
<1>2. ASSUME NEW k \in 1 .. Created, NEW f \in V PROVE WithSubclass(k, f) \in V
  BY HierarchyFacts DEF WithSubclass
<1>3. base \in V
  OBVIOUS
<1> HIDE DEF V, base, From
<1>4. step \in [Nat \X V -> V]
  BY <1>2
<1>5. PICK g \in [0 .. Created -> V] : Recursive(g, Created, base, step)
  <2> HIDE DEF step
  <2>1. QED
    BY <1>3, <1>4, HierarchyFacts, RecursionExists
<1>6. ASSUME NEW k \in 0 .. Created PROVE g[k] = IF k = 0 THEN base ELSE WithSubclass(k, g[k - 1])
  <2>1. k \in Nat /\ (k # 0 => k - 1 \in 0 .. Created /\ k \in 1 .. Created)
    BY HierarchyFacts
  <2>2. g[k] = IF k = 0 THEN base ELSE step[<<k, g[k - 1]>>]
    BY <1>5 DEF Recursive
  <2>3. k # 0 => step[<<k, g[k - 1]>>] = WithSubclass(k, g[k - 1])
    BY <2>1, <1>5
  <2>4. QED
    BY <2>2, <2>3
<1>7. g = From(g)
  BY <1>5, <1>6 DEF From
<1>8. SubclassesOf = From(SubclassesOf)
  BY <1>1, <1>7
<1>9. \A k \in 0 .. Created : SubclassesOf[k] = IF k = 0 THEN base ELSE WithSubclass(k, SubclassesOf[k - 1])
  BY <1>8 DEF From
<1>10. 0 \in 0 .. Created
  BY HierarchyFacts
<1>11. SubclassesOf[0] = base
  BY <1>9, <1>10
<1> DEFINE S == {k \in Nat : k <= Created => SubclassesOf[k] \in V}
<1>12. 0 \in S
  BY <1>3, <1>11
<1>13. ASSUME NEW n \in Nat, n \in S PROVE n + 1 \in S
  <2>1. CASE n + 1 <= Created
    <3>1. n + 1 \in 1 .. Created /\ n + 1 \in 0 .. Created /\ n + 1 # 0 /\ (n + 1) - 1 = n /\ n <= Created
      BY <2>1, HierarchyFacts
    <3>2. SubclassesOf[n] \in V /\ SubclassesOf[n + 1] = WithSubclass(n + 1, SubclassesOf[n])
      BY <1>9, <1>13, <3>1
    <3>3. QED
      BY <1>2, <3>1, <3>2
  <2>2. CASE ~(n + 1 <= Created)
    BY <2>2
  <2>3. QED
    BY <2>1, <2>2
<1> HIDE DEF S
<1>14. Nat \subseteq S
  BY <1>12, <1>13, NatInd
<1>15. \A k \in 0 .. Created : SubclassesOf[k] \in V
  BY <1>14, HierarchyFacts DEF S
<1>16. \A k \in 1 .. Created : SubclassesOf[k] = WithSubclass(k, SubclassesOf[k - 1])
  BY <1>9, HierarchyFacts
<1>17. QED
  BY <1>11, <1>15, <1>16 DEF base, V

\* Only the MROs of its bases matter to that of a type.
LEMMA ResolvesSame ==
    ASSUME NEW T, NEW bs, NEW f, NEW g, NEW m, Resolves(T, bs, f, m),
           \A b \in ToSet(bs) : f[b] = g[b]
    PROVE  Resolves(T, bs, g, m)
<1>1. UNION {ToSet(f[b]) : b \in ToSet(bs)} = UNION {ToSet(g[b]) : b \in ToSet(bs)}
  OBVIOUS
<1>2. \A b \in ToSet(bs) : Keeps(m, f[b]) => Keeps(m, g[b])
  OBVIOUS
<1>3. QED
  BY <1>1, <1>2 DEF Resolves

\* After the creation of the first k types.
CreatedRight(k) == \A j \in 1 .. k :
    /\ Resolves(Hierarchy[j].type, Hierarchy[j].bases, MroOf[k], MroOf[k][Hierarchy[j].type])
    /\ \A U \in ToSet(MroOf[k][Hierarchy[j].type]) : \E i \in 1 .. j : Hierarchy[i].type = U

\* A type that is created gets a right MRO, of types that have been created.
LEMMA CreationRight ==
    ASSUME NEW n \in Nat, n + 1 <= Created, CreatedRight(n)
    PROVE  CreatedRight(n + 1)
<1> DEFINE T == Hierarchy[n + 1].type
           bs == Hierarchy[n + 1].bases
           f == MroOf[n]
           g == MroOf[n + 1]
           m == CHOOSE o \in computeMro(T, bs, f) : TRUE
<1>1. Created \in Nat /\ n + 1 \in 1 .. Created /\ (n + 1) - 1 = n /\ n \in 0 .. Created /\ n + 1 \in 0 .. Created
  BY HierarchyFacts
<1>2. T \in Types /\ bs \in Seq(Types) /\ f \in [Types -> Seq(Types)]
  BY <1>1, HierarchyFacts, MroOfFacts
<1>3. m \in computeMro(T, bs, f)
  <2>1. computeMro(Hierarchy[n + 1].type, Hierarchy[n + 1].bases, MroOf[(n + 1) - 1]) # {}
    BY <1>1, HierarchyAssumption, HierarchyFacts
  <2>2. computeMro(T, bs, f) # {}
    BY <2>1, <1>1
  <2> HIDE DEF T, bs, f
  <2>3. QED
    BY <2>2
<1>4. g = [f EXCEPT ![T] = m]
  <2>1. g = WithMro(n + 1, MroOf[(n + 1) - 1])
    BY <1>1, MroOfFacts
  <2>2. g = WithMro(n + 1, MroOf[n])
    BY <2>1, <1>1
  <2>3. QED
    BY <2>2 DEF WithMro
<1>5. \A j \in 1 .. n : j \in 1 .. Created /\ Hierarchy[j].type # T /\ Hierarchy[j].type \in Types
  <2>1. ASSUME NEW j \in 1 .. n
        PROVE  j \in DOMAIN Hierarchy /\ n + 1 \in DOMAIN Hierarchy /\ j # n + 1 /\ j \in 1 .. Created
    BY <1>1, HierarchyFacts
  <2>2. \A j \in 1 .. n : Hierarchy[j].type # T
    BY <2>1, HierarchyAssumption
  <2>3. QED
    BY <2>1, <2>2, HierarchyFacts
<1>6. ASSUME NEW j \in 1 .. n + 1, NEW b \in ToSet(Hierarchy[j].bases)
      PROVE  \E i \in 1 .. n : i < j /\ Hierarchy[i].type = b
  <2>1. j \in 1 .. Created
    BY <1>1
  <2>2. PICK i \in 1 .. j - 1 : Hierarchy[i].type = b
    BY <2>1, HierarchyAssumption, HierarchyFacts
  <2>3. QED
    BY <2>1, <2>2, <1>1
<1> HIDE DEF f, g, m
<1>7. ASSUME NEW b \in ToSet(bs)
      PROVE  /\ b # T /\ b \in Types /\ Topped(b, f[b]) /\ T \notin ToSet(f[b])
             /\ \A U \in ToSet(f[b]) : \E i \in 1 .. n + 1 : Hierarchy[i].type = U
  <2>1. PICK i \in 1 .. n : Hierarchy[i].type = b
    BY <1>1, <1>6
  <2>2. Resolves(b, Hierarchy[i].bases, f, f[b])
    BY <2>1 DEF CreatedRight, f
  <2>3. \A U \in ToSet(f[b]) : \E j \in 1 .. n : Hierarchy[j].type = U
    <3>1. \A U \in ToSet(f[b]) : \E j \in 1 .. i : Hierarchy[j].type = U
      BY <2>1 DEF CreatedRight, f
    <3>2. QED
      BY <3>1
  <2>4. T \notin ToSet(f[b])
    BY <2>3, <1>5
  <2>5. Topped(b, f[b])
    BY <2>2 DEF Resolves
  <2>6. b # T /\ b \in Types
    BY <2>1, <1>5
  <2>7. \A U \in ToSet(f[b]) : \E j \in 1 .. n + 1 : Hierarchy[j].type = U
    <3>1. \A j \in 1 .. n : j \in 1 .. n + 1
      OBVIOUS
    <3>2. QED
      BY <2>3, <3>1
  <2>8. QED
    BY <2>4, <2>5, <2>6, <2>7
<1>8. T \notin ToSet(bs)
  BY <1>7
<1>9. Resolves(T, bs, f, m)
  <2>1. IsFiniteSet(Types)
    BY MethodCacheAssumption
  <2>2. \A b \in ToSet(bs) : Topped(b, f[b]) /\ T \notin ToSet(f[b])
    BY <1>7
  <2> HIDE DEF T, bs
  <2>3. QED
    BY <1>2, <1>3, <1>8, <2>1, <2>2, MroRight
<1>10. \A U \in Types : U # T => g[U] = f[U]
  BY <1>2, <1>4
<1>11. g[T] = m
  BY <1>2, <1>4
<1>12. ASSUME NEW j \in 1 .. n + 1
       PROVE  /\ Resolves(Hierarchy[j].type, Hierarchy[j].bases, g, g[Hierarchy[j].type])
              /\ \A U \in ToSet(g[Hierarchy[j].type]) : \E i \in 1 .. j : Hierarchy[i].type = U
  <2>1. \A b \in ToSet(Hierarchy[j].bases) : g[b] = f[b]
    BY <1>5, <1>6, <1>10
  <2>2. CASE j = n + 1
    <3>1. Resolves(T, bs, g, m)
      <4> HIDE DEF T, bs
      <4>1. \A b \in ToSet(bs) : f[b] = g[b]
        BY <2>1, <2>2 DEF bs
      <4>2. QED
        BY <4>1, <1>9, ResolvesSame
    <3>2. ToSet(m) = {T} \cup UNION {ToSet(f[b]) : b \in ToSet(bs)}
      BY <1>9 DEF Resolves
    <3>3. n + 1 \in 1 .. n + 1
      OBVIOUS
    <3>4. \A U \in ToSet(m) : \E i \in 1 .. n + 1 : Hierarchy[i].type = U
      BY <3>2, <3>3, <1>7
    <3>5. QED
      BY <3>1, <3>4, <2>2, <1>11
  <2>3. CASE j \in 1 .. n
    <3>1. Resolves(Hierarchy[j].type, Hierarchy[j].bases, f, f[Hierarchy[j].type])
      BY <2>3 DEF CreatedRight, f
    <3>2. Resolves(Hierarchy[j].type, Hierarchy[j].bases, g, f[Hierarchy[j].type])
      BY <3>1, <2>1, ResolvesSame
    <3>3. g[Hierarchy[j].type] = f[Hierarchy[j].type]
      BY <2>3, <1>5, <1>10
    <3>4. \A U \in ToSet(f[Hierarchy[j].type]) : \E i \in 1 .. j : Hierarchy[i].type = U
      BY <2>3 DEF CreatedRight, f
    <3>5. QED
      BY <3>2, <3>3, <3>4
  <2>4. QED
    BY <2>2, <2>3
<1>13. QED
  BY <1>12 DEF CreatedRight, g

\* All types have been created right.
LEMMA AllCreatedRight == CreatedRight(Created)
<1> DEFINE S == {n \in Nat : n <= Created => CreatedRight(n)}
<1>1. 0 \in S
  BY DEF CreatedRight
<1>2. ASSUME NEW n \in Nat, n \in S PROVE n + 1 \in S
  <2>1. CASE n + 1 <= Created
    BY <1>2, <2>1, HierarchyFacts, CreationRight
  <2>2. CASE ~(n + 1 <= Created)
    BY <2>2
  <2>3. QED
    BY <2>1, <2>2
<1> HIDE DEF S
<1>3. Created \in S
  BY <1>1, <1>2, NatInd, HierarchyFacts
<1>4. QED
  BY <1>3, HierarchyFacts DEF S

\* Appending a type to a list that does not have it.
LEMMA SingleAppend ==
    ASSUME NEW s \in Seq(Types), NEW x \in Types
    PROVE  /\ \A y : y \in ToSet(Append(s, x)) <=> y \in ToSet(s) \/ y = x
           /\ \A y : Single(s, y) /\ (x = y => y \notin ToSet(s)) => Single(Append(s, x), y)
<1> DEFINE a == Append(s, x)
<1>1. /\ Len(s) \in Nat /\ DOMAIN s = 1 .. Len(s) /\ DOMAIN a = 1 .. Len(s) + 1
      /\ a[Len(s) + 1] = x /\ \A i \in 1 .. Len(s) : a[i] = s[i]
      /\ \A i \in 1 .. Len(s) + 1 : i \in 1 .. Len(s) \/ i = Len(s) + 1
      /\ \A i \in 1 .. Len(s) : i \in 1 .. Len(s) + 1
      /\ Len(s) + 1 \in 1 .. Len(s) + 1
  OBVIOUS
<1> HIDE DEF a
<1>2. ASSUME NEW y PROVE y \in ToSet(a) <=> y \in ToSet(s) \/ y = x
  BY <1>1 DEF ToSet
<1>3. ASSUME NEW y, Single(s, y), x = y => y \notin ToSet(s)
      PROVE  Single(a, y)
  <2>1. ASSUME NEW i \in 1 .. Len(s), s[i] = y PROVE x # y
    BY <2>1, <1>1, <1>3 DEF ToSet
  <2>2. QED
    BY <1>1, <1>3, <2>1 DEF Single
<1>4. QED
  BY <1>2, <1>3 DEF a

\* After the creation of the first k types exactly the bases have them as subclasses.
AttachedRight(k) == \A S, T \in Types :
    /\ Single(SubclassesOf[k][S], T)
    /\ T \in ToSet(SubclassesOf[k][S]) <=>
          \E j \in 1 .. k : Hierarchy[j].type = T /\ S \in ToSet(Hierarchy[j].bases)

\* A type that is created is attached to its bases and to nothing else.
LEMMA AttachingRight ==
    ASSUME NEW n \in Nat, n + 1 <= Created, AttachedRight(n)
    PROVE  AttachedRight(n + 1)
<1> DEFINE X == Hierarchy[n + 1].type
           bs == Hierarchy[n + 1].bases
           f == SubclassesOf[n]
           g == SubclassesOf[n + 1]
<1>1. Created \in Nat /\ n + 1 \in 1 .. Created /\ (n + 1) - 1 = n /\ n \in 0 .. Created
  BY HierarchyFacts
<1>2. X \in Types /\ f \in [Types -> Seq(Types)]
  BY <1>1, HierarchyFacts, SubclassesOfFacts
<1>3. \A S \in Types : g[S] = IF S \in ToSet(bs) THEN Append(f[S], X) ELSE f[S]
  <2>1. g = WithSubclass(n + 1, SubclassesOf[(n + 1) - 1])
    BY <1>1, SubclassesOfFacts
  <2>2. g = WithSubclass(n + 1, SubclassesOf[n])
    BY <2>1, <1>1
  <2>3. QED
    BY <2>2 DEF WithSubclass
<1>4. \A j \in 1 .. n : j \in 1 .. Created /\ Hierarchy[j].type # X
  <2>1. ASSUME NEW j \in 1 .. n
        PROVE  j \in DOMAIN Hierarchy /\ n + 1 \in DOMAIN Hierarchy /\ j # n + 1 /\ j \in 1 .. Created
    BY <1>1, HierarchyFacts
  <2>2. \A j \in 1 .. n : Hierarchy[j].type # X
    BY <2>1, HierarchyAssumption
  <2>3. QED
    BY <2>1, <2>2, HierarchyFacts
<1>5. n + 1 \in 1 .. n + 1 /\ \A j \in 1 .. n + 1 : j \in 1 .. n \/ j = n + 1
  OBVIOUS
<1>6. \A j \in 1 .. n : j \in 1 .. n + 1
  OBVIOUS
<1> HIDE DEF f, g, X, bs
<1>7. ASSUME NEW S \in Types, NEW T \in Types
      PROVE  /\ Single(g[S], T)
             /\ T \in ToSet(g[S]) <=>
                   \E j \in 1 .. n + 1 : Hierarchy[j].type = T /\ S \in ToSet(Hierarchy[j].bases)
  <2>1. /\ Single(f[S], T)
        /\ T \in ToSet(f[S]) <=>
              \E j \in 1 .. n : Hierarchy[j].type = T /\ S \in ToSet(Hierarchy[j].bases)
    BY DEF AttachedRight, f
  <2>2. T = X => T \notin ToSet(f[S])
    BY <2>1, <1>4
  <2>3. (\E j \in 1 .. n + 1 : Hierarchy[j].type = T /\ S \in ToSet(Hierarchy[j].bases))
           <=> T \in ToSet(f[S]) \/ (T = X /\ S \in ToSet(bs))
    BY <2>1, <1>5, <1>6 DEF X, bs
  <2>4. CASE S \in ToSet(bs)
    <3>1. g[S] = Append(f[S], X) /\ f[S] \in Seq(Types)
      BY <1>2, <1>3, <2>4
    <3>2. (T \in ToSet(g[S]) <=> T \in ToSet(f[S]) \/ T = X) /\ Single(g[S], T)
      BY <3>1, <1>2, <2>1, <2>2, SingleAppend
    <3>3. QED
      BY <3>2, <2>3, <2>4
  <2>5. CASE S \notin ToSet(bs)
    BY <2>5, <2>1, <2>3, <1>3
  <2>6. QED
    BY <2>4, <2>5
<1>8. QED
  BY <1>7 DEF AttachedRight, g

\* All types have been attached.
LEMMA AllAttachedRight == AttachedRight(Created)
<1> DEFINE S == {n \in Nat : n <= Created => AttachedRight(n)}
<1>1. 0 \in S
  <2>1. \A T \in Types : SubclassesOf[0][T] = <<>>
    BY SubclassesOfFacts
  <2>2. AttachedRight(0)
    BY <2>1 DEF AttachedRight, Single, ToSet
  <2>3. QED
    BY <2>2
<1>2. ASSUME NEW n \in Nat, n \in S PROVE n + 1 \in S
  <2>1. CASE n + 1 <= Created
    BY <1>2, <2>1, HierarchyFacts, AttachingRight
  <2>2. CASE ~(n + 1 <= Created)
    BY <2>2
  <2>3. QED
    BY <2>1, <2>2
<1> HIDE DEF S
<1>3. Created \in S
  BY <1>1, <1>2, NatInd, HierarchyFacts
<1>4. QED
  BY <1>3, HierarchyFacts DEF S

\* The hierarchy at the beginning: position in the order of creation is a rank.
LEMMA InitialRight ==
    /\ \A T \in Types : Resolves(T, InitialBases[T], InitialMro, InitialMro[T])
    /\ \A S, T \in Types : /\ Single(InitialSubclasses[S], T)
                           /\ T \in ToSet(InitialSubclasses[S]) <=> S \in ToSet(InitialBases[T])
    /\ \E rank \in [Types -> 0 .. Created] :
          \A T \in Types : /\ \A U \in ToSet(InitialMro[T]) : U = T \/ rank[U] < rank[T]
                           /\ \A U \in ToSet(InitialBases[T]) : rank[U] < rank[T]
<1> DEFINE rank == [T \in Types |-> CHOOSE k \in 1 .. Created : Hierarchy[k].type = T]
<1>1. \A T \in Types : rank[T] \in 1 .. Created /\ Hierarchy[rank[T]].type = T
  BY HierarchyAssumption, HierarchyFacts
<1>2. \A k \in 1 .. Created : rank[Hierarchy[k].type] = k
  BY <1>1, HierarchyAssumption, HierarchyFacts
<1>3. Created \in Nat /\ \A k \in 1 .. Created : \A i \in 1 .. k : i \in 1 .. Created
  BY HierarchyFacts
<1>4. rank \in [Types -> 0 .. Created]
  BY <1>1, <1>3
<1> HIDE DEF rank
<1>5. ASSUME NEW T \in Types PROVE InitialBases[T] = Hierarchy[rank[T]].bases
  <2>1. Hierarchy[rank[T]] \in ToSet(Hierarchy) /\ Hierarchy[rank[T]].type = T
    BY <1>1, HierarchyFacts DEF ToSet
  <2>2. \A c \in ToSet(Hierarchy) : c.type = T => c = Hierarchy[rank[T]]
    BY <1>2, HierarchyFacts DEF ToSet
  <2>3. (CHOOSE c \in ToSet(Hierarchy) : c.type = T) = Hierarchy[rank[T]]
    BY <2>1, <2>2
  <2>4. QED
    BY <2>3 DEF InitialBases
<1>6. ASSUME NEW T \in Types
      PROVE  /\ Resolves(T, InitialBases[T], InitialMro, InitialMro[T])
             /\ \A U \in ToSet(InitialMro[T]) : U = T \/ rank[U] < rank[T]
             /\ \A U \in ToSet(InitialBases[T]) : rank[U] < rank[T]
  <2>1. rank[T] \in 1 .. Created /\ Hierarchy[rank[T]].type = T
    BY <1>1
  <2>2. /\ Resolves(T, Hierarchy[rank[T]].bases, InitialMro, InitialMro[T])
        /\ \A U \in ToSet(InitialMro[T]) : \E i \in 1 .. rank[T] : Hierarchy[i].type = U
    BY <2>1, AllCreatedRight DEF CreatedRight, InitialMro, Created
  <2>3. ASSUME NEW U \in ToSet(InitialMro[T]) PROVE U = T \/ rank[U] < rank[T]
    <3>1. PICK i \in 1 .. rank[T] : Hierarchy[i].type = U
      BY <2>2
    <3>2. i \in 1 .. Created /\ rank[U] = i
      BY <3>1, <2>1, <1>2, <1>3
    <3>3. QED
      BY <3>1, <3>2, <2>1, <1>3
  <2>4. ASSUME NEW U \in ToSet(InitialBases[T]) PROVE rank[U] < rank[T]
    <3>1. PICK i \in 1 .. rank[T] - 1 : Hierarchy[i].type = U
      BY <1>5, <2>1, HierarchyAssumption, HierarchyFacts
    <3>2. i \in 1 .. Created /\ rank[U] = i
      BY <3>1, <2>1, <1>2, <1>3
    <3>3. QED
      BY <3>1, <3>2, <2>1, <1>3
  <2>5. QED
    BY <2>2, <2>3, <2>4, <1>5
<1>7. ASSUME NEW S \in Types, NEW T \in Types
      PROVE  /\ Single(InitialSubclasses[S], T)
             /\ T \in ToSet(InitialSubclasses[S]) <=> S \in ToSet(InitialBases[T])
  <2>1. /\ Single(InitialSubclasses[S], T)
        /\ T \in ToSet(InitialSubclasses[S]) <=>
              \E j \in 1 .. Created : Hierarchy[j].type = T /\ S \in ToSet(Hierarchy[j].bases)
    BY AllAttachedRight DEF AttachedRight, InitialSubclasses, Created
  <2>2. QED
    BY <2>1, <1>1, <1>2, <1>5
<1>8. QED
  BY <1>4, <1>6, <1>7

------------------------------------------------------------------------------
(* What is left as it was. *)

\* The invariant of the hierarchy: everything is where it should be, and nothing inherits from
\* itself.
Placed == MroTop /\ MroResolved /\ SubclassesRight /\ \A t \in Threads : MoveRight(t)
Acyclic == \E n \in Nat : \E rank \in [Types -> 0 .. n] : Ranked(rank)

\* Only t, if any thread, is moving a type.
Alone(t) == \A u \in Threads \ {t} : pc[u] \notin Moving

\* A thread that moves a type stays where it is.
SameMove(u) == pc[u] \in Moving \/ pc'[u] \in Moving =>
    /\ pc'[u] = pc[u] /\ self'[u] = self[u] /\ path'[u] = path[u]
    /\ newBases'[u] = newBases[u] /\ savedBases'[u] = savedBases[u] /\ edges'[u] = edges[u]

\* A step that changes neither the hierarchy nor what a thread that moves a type knows.
LEMMA MovesSame ==
    ASSUME UNCHANGED hierarchy, \A u \in Threads : SameMove(u)
    PROVE  /\ Placed => Placed'
           /\ Acyclic => Acyclic'
<1>0. bases' = bases /\ mro' = mro /\ subclasses' = subclasses
  BY DEF hierarchy
<1>1. ASSUME NEW u \in Threads
      PROVE  /\ Unresolved(u)' = Unresolved(u) /\ (pc'[u] \in Moving <=> pc[u] \in Moving)
             /\ \A T : Moved(u, T)' <=> Moved(u, T)
             /\ pc[u] \in Moving => Held(u)' = Held(u)
             /\ MoveRight(u) => MoveRight(u)'
  <2>1. CASE pc[u] \in Moving
    BY <2>1, <1>0 DEF SameMove, Unresolved, Moved, Held, MoveRight, EdgesRight
  <2>2. CASE pc[u] \notin Moving
    BY <2>2 DEF SameMove, Unresolved, Moved, Held, MoveRight, EdgesRight, Moving
  <2>3. QED
    BY <2>1, <2>2
<1>2. MroTop => MroTop'
  BY <1>0 DEF MroTop
<1>3. MroResolved => MroResolved'
  BY <1>0, <1>1 DEF MroResolved
<1>4. SubclassesRight => SubclassesRight'
  BY <1>0, <1>1 DEF SubclassesRight, Moved
<1>5. ASSUME NEW rank, Ranked(rank) PROVE Ranked(rank)'
  BY <1>0, <1>1, <1>5 DEF Ranked, SameMove, Moving
<1>6. Placed => Placed'
  BY <1>1, <1>2, <1>3, <1>4 DEF Placed
<1>7. QED
  BY <1>5, <1>6 DEF Acyclic

\* What the invariant says when at most t moves a type.
LEMMA AloneFacts ==
    ASSUME Placed, NEW t \in Threads, Alone(t)
    PROVE  /\ \A T \in Types : T \notin Unresolved(t) => Resolves(T, bases[T], mro, mro[T])
           /\ \A S, T \in Types : /\ Single(subclasses[S], T)
                                  /\ Moved(t, T) => (T \in ToSet(subclasses[S]) <=> S \in Held(t))
                                  /\ ~Moved(t, T) =>
                                        (T \in ToSet(subclasses[S]) <=> S \in ToSet(bases[T]))
           /\ \A T \in Types : Topped(T, mro[T])
           /\ MoveRight(t)
<1>1. \A u \in Threads : \A T : u # t => T \notin Unresolved(u) /\ ~Moved(u, T)
  BY DEF Alone, Unresolved, Moved, Moving
<1>2. \A T \in Types : T \notin Unresolved(t) => Resolves(T, bases[T], mro, mro[T])
  BY <1>1 DEF Placed, MroResolved
<1>3. \A S, T \in Types : ~Moved(t, T) => (T \in ToSet(subclasses[S]) <=> S \in ToSet(bases[T]))
  BY <1>1 DEF Placed, SubclassesRight
<1>4. QED
  BY <1>2, <1>3 DEF Placed, SubclassesRight, MroTop

\* What is to be shown of a step after which at most t moves a type.
LEMMA PlacedNext ==
    ASSUME NEW t \in Threads, Alone(t)', MoveRight(t)',
           \A T \in Types : Topped(T, mro'[T]),
           \A T \in Types : T \notin Unresolved(t)' => Resolves(T, bases'[T], mro', mro'[T]),
           \A S, T \in Types : /\ Single(subclasses'[S], T)
                               /\ Moved(t, T)' => (T \in ToSet(subclasses'[S]) <=> S \in Held(t)')
                               /\ ~Moved(t, T)' =>
                                     (T \in ToSet(subclasses'[S]) <=> S \in ToSet(bases'[T]))
    PROVE  Placed'
<1>1. \A u \in Threads : u # t => pc'[u] \notin Moving
  BY DEF Alone
<1>2. ASSUME NEW u \in Threads, u # t PROVE MoveRight(u)' /\ \A T : ~Moved(u, T)'
  BY <1>1, <1>2 DEF MoveRight, Moved, Moving
<1>3. MroTop'
  BY DEF MroTop
<1>4. MroResolved'
  BY DEF MroResolved
<1>5. SubclassesRight'
  BY <1>2 DEF SubclassesRight
<1>6. \A u \in Threads : MoveRight(u)'
  BY <1>2
<1>7. QED
  BY <1>3, <1>4, <1>5, <1>6 DEF Placed

\* What a rank must satisfy when at most t moves a type.
RankedFor(t, rank) ==
    /\ \A T \in Types : \A U \in ToSet(mro[T]) : U = T \/ rank[U] < rank[T]
    /\ \A T \in Types : \A U \in ToSet(bases[T]) : rank[U] < rank[T]
    /\ pc[t] \in Moving => \A U \in ToSet(newBases[t]) : rank[U] < rank[self[t]]
    /\ pc[t] \in Moving \ {"b_assign"} =>
          \A U \in ToSet(savedBases[t]) : rank[U] < rank[self[t]]
    /\ pc[t] = "b_subclasses" =>
          \A U \in Pending(path[t]) : rank[self[t]] < rank[U]

\* The two forms of a rank agree when at most t moves a type.
LEMMA RankedAlone ==
    ASSUME NEW t \in Threads, NEW rank
    PROVE  /\ Ranked(rank) => RankedFor(t, rank)
           /\ Alone(t)' /\ RankedFor(t, rank)' => Ranked(rank)'
<1>1. Ranked(rank) => RankedFor(t, rank)
  BY DEF Ranked, RankedFor
<1>2. ASSUME Alone(t)', RankedFor(t, rank)' PROVE Ranked(rank)'
  <2>1. \A u \in Threads : pc'[u] \in Moving => u = t
    BY <1>2 DEF Alone
  <2>2. \A u \in Threads : pc'[u] = "b_subclasses" => pc'[u] \in Moving
    BY DEF Moving
  <2>3. QED
    BY <1>2, <2>1, <2>2 DEF Ranked, RankedFor
<1>3. QED
  BY <1>1, <1>2

\* What a path has pending: what is left of the innermost type, and of the others.
LEMMA PendingFacts ==
    ASSUME NEW p \in Seq(Frames), p # <<>>
    PROVE  /\ Pending(p) = ToSet(Head(p).left) \cup Pending(Tail(p))
           /\ \A a, b \in Frames : Pending(<<a, b>> \o Tail(p)) =
                 ToSet(a.left) \cup ToSet(b.left) \cup Pending(Tail(p))
           /\ Pending(p) \subseteq Types
<1> DEFINE q == Tail(p)
<1>1. /\ Len(p) \in Nat /\ Len(p) > 0 /\ Head(p) = p[1] /\ q \in Seq(Frames)
      /\ Len(q) = Len(p) - 1 /\ \A i \in 1 .. Len(p) - 1 : q[i] = p[i + 1]
      /\ DOMAIN p = 1 .. Len(p) /\ DOMAIN q = 1 .. Len(p) - 1
  OBVIOUS
<1> HIDE DEF q
<1>2. Pending(p) = ToSet(Head(p).left) \cup Pending(q)
  <2>1. ASSUME NEW i \in 1 .. Len(p)
        PROVE  i = 1 \/ (i - 1 \in DOMAIN q /\ q[i - 1] = p[i])
    BY <1>1
  <2>2. ASSUME NEW i \in DOMAIN q PROVE i + 1 \in DOMAIN p /\ p[i + 1] = q[i]
    BY <1>1
  <2>3. 1 \in DOMAIN p /\ p[1] = Head(p)
    BY <1>1
  <2>4. \A x : x \in Pending(p) => x \in ToSet(Head(p).left) \cup Pending(q)
    BY <1>1, <2>1 DEF Pending
  <2>5. \A x : x \in ToSet(Head(p).left) \cup Pending(q) => x \in Pending(p)
    BY <2>2, <2>3 DEF Pending
  <2>6. QED
    BY <2>4, <2>5
<1>3. ASSUME NEW a \in Frames, NEW b \in Frames
      PROVE  Pending(<<a, b>> \o q) = ToSet(a.left) \cup ToSet(b.left) \cup Pending(q)
  <2> DEFINE r == <<a, b>> \o q
  <2>1. /\ DOMAIN r = 1 .. Len(q) + 2 /\ r[1] = a /\ r[2] = b
        /\ \A i \in 1 .. Len(q) : r[i + 2] = q[i]
        /\ DOMAIN q = 1 .. Len(q) /\ Len(q) \in Nat
    BY <1>1
  <2> HIDE DEF r
  <2>2. ASSUME NEW i \in DOMAIN r
        PROVE  i = 1 \/ i = 2 \/ (i - 2 \in DOMAIN q /\ q[i - 2] = r[i])
    <3>1. i = 1 \/ i = 2 \/ (i - 2 \in 1 .. Len(q) /\ (i - 2) + 2 = i)
      BY <2>1
    <3>2. QED
      BY <3>1, <2>1
  <2>3. ASSUME NEW i \in DOMAIN q PROVE i + 2 \in DOMAIN r /\ r[i + 2] = q[i]
    BY <2>1
  <2>4. 1 \in DOMAIN r /\ 2 \in DOMAIN r
    BY <2>1
  <2>5. \A x : x \in Pending(r) => x \in ToSet(a.left) \cup ToSet(b.left) \cup Pending(q)
    BY <2>1, <2>2 DEF Pending
  <2>6. \A x : x \in ToSet(a.left) \cup ToSet(b.left) \cup Pending(q) => x \in Pending(r)
    BY <2>1, <2>3, <2>4 DEF Pending
  <2>7. QED
    BY <2>5, <2>6 DEF r
<1>4. Pending(p) \subseteq Types
  <2>1. ASSUME NEW i \in DOMAIN p PROVE ToSet(p[i].left) \subseteq Types
    <3>1. p[i] \in Frames
      BY <1>1
    <3>2. p[i].left \in Seq(Types)
      BY <3>1 DEF Frames
    <3>3. QED
      BY <3>2 DEF ToSet
  <2>2. QED
    BY <2>1 DEF Pending
<1>5. QED
  BY <1>2, <1>3, <1>4 DEF q

\* Entering a type takes it from those pending, and adds its subclasses.
LEMMA EnteredFacts ==
    ASSUME Types0, NEW t \in Threads, path[t] # <<>>, Head(path[t]).left # <<>>,
           NEW S, S = Head(Head(path[t]).left)
    PROVE  /\ S \in Types /\ S \in Pending(path[t]) /\ Pending(path[t]) \subseteq Types
           /\ Pending(path[t]) \subseteq {S} \cup Pending(Entered(t, S))
           /\ Pending(Entered(t, S)) \subseteq Pending(path[t]) \cup ToSet(subclasses[S])
           /\ ToSet(subclasses[S]) \subseteq Pending(Entered(t, S))
<1> DEFINE p == path[t]
           l == Head(p).left
           a == [type |-> S, left |-> subclasses[S]]
           b == [Head(p) EXCEPT !.left = Tail(@)]
<1>1. p \in Seq(Frames) /\ p # <<>> /\ Head(p) \in Frames
  BY HeadTailProperties DEF Types0, RebindTypes
<1>2. l \in Seq(Types) /\ l # <<>>
  BY <1>1 DEF Frames
<1>3. /\ S \in Types /\ S = l[1] /\ ToSet(l) = {S} \cup ToSet(Tail(l))
      /\ Tail(l) \in Seq(Types)
  <2>1. /\ Len(l) \in Nat /\ Len(l) > 0 /\ S = l[1] /\ DOMAIN l = 1 .. Len(l) /\ l[1] \in Types
        /\ Tail(l) \in Seq(Types) /\ DOMAIN Tail(l) = 1 .. Len(l) - 1
        /\ \A i \in 1 .. Len(l) - 1 : Tail(l)[i] = l[i + 1]
    BY <1>2
  <2> HIDE DEF l
  <2>2. \A i \in 1 .. Len(l) : i = 1 \/ (i - 1 \in DOMAIN Tail(l) /\ Tail(l)[i - 1] = l[i])
    BY <2>1
  <2>3. \A i \in DOMAIN Tail(l) : i + 1 \in DOMAIN l /\ l[i + 1] = Tail(l)[i]
    BY <2>1
  <2>4. 1 \in DOMAIN l
    BY <2>1
  <2>5. \A x : x \in ToSet(l) <=> x = S \/ x \in ToSet(Tail(l))
    <3>1. ASSUME NEW x \in ToSet(l) PROVE x = S \/ x \in ToSet(Tail(l))
      <4>1. PICK i \in 1 .. Len(l) : x = l[i]
        BY <2>1 DEF ToSet
      <4>2. i = 1 \/ (i - 1 \in DOMAIN Tail(l) /\ Tail(l)[i - 1] = x)
        BY <2>2, <4>1
      <4>3. QED
        BY <2>1, <4>1, <4>2 DEF ToSet
    <3>2. \A x : x \in ToSet(Tail(l)) => x \in ToSet(l)
      BY <2>1, <2>3 DEF ToSet
    <3>3. S \in ToSet(l)
      BY <2>1, <2>4 DEF ToSet
    <3>4. QED
      BY <3>1, <3>2, <3>3
  <2>6. QED
    BY <2>1, <2>5
<1>4. a \in Frames /\ a.left = subclasses[S]
  BY <1>3 DEF Frames, Types0, TypeTypes
<1>5. b \in Frames /\ b.left = Tail(l)
  BY <1>1, <1>2, <1>3 DEF Frames
<1>6. Entered(t, S) = <<a, b>> \o Tail(p)
  BY DEF Entered
<1> HIDE DEF p, l, a, b
<1>7. /\ Pending(p) = ToSet(Head(p).left) \cup Pending(Tail(p)) /\ Pending(p) \subseteq Types
      /\ Pending(<<a, b>> \o Tail(p)) = ToSet(a.left) \cup ToSet(b.left) \cup Pending(Tail(p))
  <2>1. \A c, d \in Frames :
            Pending(<<c, d>> \o Tail(p)) = ToSet(c.left) \cup ToSet(d.left) \cup Pending(Tail(p))
    BY <1>1, PendingFacts
  <2>2. Pending(p) = ToSet(Head(p).left) \cup Pending(Tail(p)) /\ Pending(p) \subseteq Types
    BY <1>1, PendingFacts
  <2>3. QED
    BY <2>1, <2>2, <1>4, <1>5
<1>8. Pending(p) = {S} \cup ToSet(Tail(l)) \cup Pending(Tail(p))
  BY <1>3, <1>7 DEF l
<1>9. Pending(Entered(t, S)) = ToSet(subclasses[S]) \cup ToSet(Tail(l)) \cup Pending(Tail(p))
  BY <1>4, <1>5, <1>6, <1>7
<1>10. QED
  BY <1>3, <1>7, <1>8, <1>9 DEF p

------------------------------------------------------------------------------
(* A new MRO. *)

\* In a hierarchy that is settled the MRO of a type has those of all its members.
LEMMA MroTransitive ==
    ASSUME Types0, NEW n \in Nat, NEW rank \in [Types -> 0 .. n],
           \A T \in Types : Resolves(T, bases[T], mro, mro[T]),
           \A T \in Types : \A U \in ToSet(bases[T]) : rank[U] < rank[T]
    PROVE  \A T \in Types : \A U \in ToSet(mro[T]) : ToSet(mro[U]) \subseteq ToSet(mro[T])
<1> DEFINE P(T) == \A U \in ToSet(mro[T]) : ToSet(mro[U]) \subseteq ToSet(mro[T])
           S == {k \in Nat : \A T \in Types : rank[T] < k => P(T)}
<1>1. 0 \in S
  OBVIOUS
<1>2. ASSUME NEW k \in Nat, k \in S PROVE k + 1 \in S
  <2>1. ASSUME NEW T \in Types, rank[T] < k + 1, NEW U \in ToSet(mro[T])
        PROVE  ToSet(mro[U]) \subseteq ToSet(mro[T])
    <3>1. ToSet(mro[T]) = {T} \cup UNION {ToSet(mro[b]) : b \in ToSet(bases[T])}
      BY DEF Resolves
    <3>2. CASE U = T
      BY <3>2
    <3>3. CASE U # T
      <4>1. PICK b \in ToSet(bases[T]) : U \in ToSet(mro[b])
        BY <3>1, <3>3, <2>1
      <4>2. bases[T] \in Seq(Types)
        BY DEF Types0, TypeTypes
      <4>3. b \in Types
        BY <4>1, <4>2 DEF ToSet
      <4>4. rank[b] < rank[T] /\ rank[b] \in 0 .. n /\ rank[T] \in 0 .. n
        BY <4>1, <4>3
      <4>5. rank[b] < k
        BY <4>4, <2>1
      <4>6. P(b)
        BY <1>2, <4>3, <4>5
      <4>7. ToSet(mro[U]) \subseteq ToSet(mro[b])
        BY <4>1, <4>6
      <4>8. QED
        BY <3>1, <4>1, <4>7
    <3>4. QED
      BY <3>2, <3>3
  <2>2. QED
    BY <2>1
<1> HIDE DEF S, P
<1>3. n + 1 \in S
  BY <1>1, <1>2, NatInd
<1>4. \A T \in Types : rank[T] < n + 1
  OBVIOUS
<1>5. \A T \in Types : P(T)
  BY <1>3, <1>4 DEF S
<1>6. QED
  BY <1>5 DEF P

\* A type that is not among the ancestors of its new bases goes above them, and all that
\* inherit from it with it.
LEMMA NewRank ==
    ASSUME Types0, NEW n \in Nat, NEW rank \in [Types -> 0 .. n],
           \A T \in Types : Resolves(T, bases[T], mro, mro[T]),
           \A T \in Types : \A U \in ToSet(mro[T]) : U = T \/ rank[U] < rank[T],
           \A T \in Types : \A U \in ToSet(bases[T]) : rank[U] < rank[T],
           NEW X \in Types, NEW bs \in Seq(Types), \A b \in ToSet(bs) : X \notin ToSet(mro[b])
    PROVE  \E k \in Nat : \E new \in [Types -> 0 .. k] :
              /\ \A T \in Types : \A U \in ToSet(mro[T]) : U = T \/ new[U] < new[T]
              /\ \A T \in Types : \A U \in ToSet(bases[T]) : new[U] < new[T]
              /\ \A U \in ToSet(bs) : new[U] < new[X]
<1> DEFINE k == n + n + 1
           new == [T \in Types |-> IF X \in ToSet(mro[T]) THEN rank[T] + n + 1 ELSE rank[T]]
<1>1. k \in Nat /\ new \in [Types -> 0 .. k]
  OBVIOUS
<1>2. \A T \in Types : /\ rank[T] \in 0 .. n
                       /\ X \in ToSet(mro[T]) => new[T] = rank[T] + n + 1
                       /\ X \notin ToSet(mro[T]) => new[T] = rank[T]
  OBVIOUS
<1> HIDE DEF new, k
<1>3. \A T \in Types : bases[T] \in Seq(Types) /\ mro[T] \in Seq(Types)
  BY DEF Types0, TypeTypes
<1>4. \A T \in Types : ToSet(bases[T]) \subseteq Types /\ ToSet(mro[T]) \subseteq Types
  BY <1>3 DEF ToSet
<1>5. ASSUME NEW T \in Types, NEW U \in Types, rank[U] < rank[T],
             ToSet(mro[U]) \subseteq ToSet(mro[T])
      PROVE  new[U] < new[T]
  <2>1. X \in ToSet(mro[U]) => X \in ToSet(mro[T])
    BY <1>5
  <2>2. QED
    BY <1>2, <1>5, <2>1
<1>6. ASSUME NEW T \in Types, NEW U \in ToSet(mro[T]) PROVE U = T \/ new[U] < new[T]
  <2>1. ToSet(mro[U]) \subseteq ToSet(mro[T])
    BY MroTransitive
  <2>2. QED
    BY <1>4, <1>5, <2>1
<1>7. ASSUME NEW T \in Types, NEW U \in ToSet(bases[T]) PROVE new[U] < new[T]
  <2>0. ToSet(mro[T]) = {T} \cup UNION {ToSet(mro[b]) : b \in ToSet(bases[T])}
    BY DEF Resolves
  <2>1. ToSet(mro[U]) \subseteq ToSet(mro[T])
    BY <2>0
  <2>2. QED
    BY <1>4, <1>5, <2>1
<1>8. ASSUME NEW U \in ToSet(bs) PROVE new[U] < new[X]
  <2>1. U \in Types /\ X \notin ToSet(mro[U])
    BY DEF ToSet
  <2>2. X \in ToSet(mro[X])
    BY DEF Resolves
  <2>3. QED
    BY <1>2, <2>1, <2>2
<1>9. QED
  BY <1>1, <1>6, <1>7, <1>8

\* A type of at least the rank of the one that is moved gets the MRO its bases give it: it
\* is right now, and only its subclasses may have lost theirs.
LEMMA MroReplaced ==
    ASSUME Types0, Placed, NEW t \in Threads, Alone(t), pc[t] \in {"b_mro", "b_subclasses"},
           NEW n \in Nat, NEW rank \in [Types -> 0 .. n], RankedFor(t, rank),
           NEW S \in Types, S = self[t] \/ rank[self[t]] < rank[S],
           NEW m \in computeMro(S, bases[S], mro), mro' = [mro EXCEPT ![S] = m]
    PROVE  /\ Resolves(S, bases[S], mro', mro'[S])
           /\ \A T \in Types : Topped(T, mro'[T])
           /\ \A T \in Types : T # S /\ T \notin ToSet(subclasses[S])
                                     /\ Resolves(T, bases[T], mro, mro[T])
                                  => Resolves(T, bases[T], mro', mro'[T])
           /\ \A T \in Types : \A U \in ToSet(mro'[T]) : U = T \/ rank[U] < rank[T]
           /\ \A T \in ToSet(subclasses[S]) : rank[self[t]] < rank[T] /\ T # S
<1>0. /\ self[t] \in Types /\ \A T \in Types : rank[T] \in 0 .. n
      /\ bases \in [Types -> Seq(Types)] /\ mro \in [Types -> Seq(Types)]
      /\ subclasses \in [Types -> Seq(Types)]
  BY DEF Types0, TypeTypes, AtHand, HasAtHand, RebindLabels
<1>1. \A T \in Types : /\ ToSet(bases[T]) \subseteq Types /\ ToSet(mro[T]) \subseteq Types
                       /\ ToSet(subclasses[T]) \subseteq Types
  <2>1. \A T \in Types : bases[T] \in Seq(Types) /\ mro[T] \in Seq(Types) /\ subclasses[T] \in Seq(Types)
    BY <1>0
  <2>2. QED
    BY <2>1 DEF ToSet
<1>2. \A T \in Types : Topped(T, mro[T])
  BY AloneFacts
<1>3. /\ \A T \in Types : \A U \in ToSet(mro[T]) : U = T \/ rank[U] < rank[T]
      /\ \A T \in Types : \A U \in ToSet(bases[T]) : rank[U] < rank[T]
      /\ \A U \in ToSet(savedBases[t]) : rank[U] < rank[self[t]]
  BY DEF RankedFor, Moving
<1>4. ASSUME NEW b \in ToSet(bases[S]) PROVE b \in Types /\ b # S /\ S \notin ToSet(mro[b])
  <2>1. b \in Types /\ rank[b] < rank[S]
    BY <1>1, <1>3
  <2>2. b # S
    BY <1>0, <2>1
  <2>3. S \in ToSet(mro[b]) => rank[S] < rank[b]
    BY <1>3, <2>1, <2>2
  <2>4. QED
    BY <1>0, <2>1, <2>2, <2>3
<1>5. Resolves(S, bases[S], mro, m)
  <2> DEFINE bs == bases[S]
  <2>1. IsFiniteSet(Types) /\ bs \in Seq(Types) /\ S \notin ToSet(bs)
    BY <1>0, <1>4, MethodCacheAssumption
  <2>2. \A b \in ToSet(bs) : Topped(b, mro[b]) /\ S \notin ToSet(mro[b])
    BY <1>2, <1>4
  <2>3. m \in computeMro(S, bs, mro)
    OBVIOUS
  <2> HIDE DEF bs
  <2>4. Resolves(S, bs, mro, m)
    BY <1>0, <2>1, <2>2, <2>3, MroRight
  <2>5. QED
    BY <2>4 DEF bs
<1>6. mro'[S] = m /\ \A T \in Types : T # S => mro'[T] = mro[T]
  BY <1>0
<1>7. Resolves(S, bases[S], mro', m)
  BY <1>4, <1>5, <1>6, ResolvesSame
<1>8. \A T \in Types : Topped(T, mro'[T])
  BY <1>2, <1>5, <1>6 DEF Resolves
<1>9. ASSUME NEW T \in ToSet(subclasses[S]) PROVE rank[self[t]] < rank[T] /\ T # S
  <2>1. T \in Types
    BY <1>1
  <2>2. CASE T = self[t]
    <3>1. S \in Held(t)
      BY <2>1, <2>2, AloneFacts DEF Moved, Moving
    <3>2. S \in ToSet(savedBases[t])
      BY <3>1 DEF Held
    <3>3. rank[S] < rank[self[t]]
      BY <1>3, <3>2
    <3>4. QED
      BY <3>3, <1>0
  <2>3. CASE T # self[t]
    <3>1. S \in ToSet(bases[T])
      BY <2>1, <2>3, AloneFacts DEF Moved
    <3>2. rank[S] < rank[T]
      BY <1>3, <2>1, <3>1
    <3>3. QED
      BY <3>2, <2>1, <1>0
  <2>4. QED
    BY <2>2, <2>3
<1>10. ASSUME NEW T \in Types, T # S, T \notin ToSet(subclasses[S]),
              Resolves(T, bases[T], mro, mro[T])
       PROVE  Resolves(T, bases[T], mro', mro'[T])
  <2>1. S \notin ToSet(bases[T])
    <3>1. CASE T = self[t]
      <4>1. rank[T] < rank[S]
        BY <1>10, <3>1
      <4>2. S \in ToSet(bases[T]) => rank[S] < rank[T]
        BY <1>3
      <4>3. QED
        BY <4>1, <4>2, <1>0
    <3>2. CASE T # self[t]
      BY <1>10, <3>2, AloneFacts DEF Moved
    <3>3. QED
      BY <3>1, <3>2
  <2>2. \A b \in ToSet(bases[T]) : mro[b] = mro'[b]
    BY <1>1, <1>6, <2>1
  <2>3. Resolves(T, bases[T], mro', mro[T])
    BY <1>10, <2>2, ResolvesSame
  <2>4. QED
    BY <1>6, <1>10, <2>3
<1>11. ASSUME NEW T \in Types, NEW U \in ToSet(mro'[T]) PROVE U = T \/ rank[U] < rank[T]
  <2>1. CASE T # S
    BY <2>1, <1>3, <1>6
  <2>2. CASE T = S
    <3>1. U = S \/ \E b \in ToSet(bases[S]) : U \in ToSet(mro[b])
      BY <2>2, <1>5, <1>6 DEF Resolves
    <3>2. ASSUME NEW b \in ToSet(bases[S]), U \in ToSet(mro[b]) PROVE rank[U] < rank[S]
      <4>1. b \in Types /\ U \in Types /\ rank[b] < rank[S] /\ (U = b \/ rank[U] < rank[b])
        BY <1>1, <1>3, <1>4, <3>2
      <4>2. rank[b] \in Nat /\ rank[U] \in Nat /\ rank[S] \in Nat
        BY <4>1, <1>0
      <4>3. QED
        BY <4>1, <4>2
    <3>3. QED
      BY <2>2, <3>1, <3>2
  <2>3. QED
    BY <2>1, <2>2
<1>12. QED
  BY <1>6, <1>7, <1>8, <1>9, <1>10, <1>11

------------------------------------------------------------------------------
(* The steps of an assignment of __bases__. *)

\* Where a type that is moved is, and the labels of the thread that moves it.
LEMMA MoverFacts ==
    ASSUME Types0, NEW t \in Threads
    PROVE  /\ pc[t] \in Moving => self[t] \in Types
           /\ bases \in [Types -> Seq(Types)] /\ mro \in [Types -> Seq(Types)]
           /\ subclasses \in [Types -> Seq(Types)]
           /\ newBases[t] \in Seq(Types) /\ savedBases[t] \in Seq(Types)
  BY DEF Types0, TypeTypes, RebindTypes, AtHand, HasAtHand, Moving, RebindLabels

\* A rank for the state after a step.
LEMMA RankKept ==
    ASSUME NEW t \in Threads, Alone(t)', NEW n \in Nat, NEW rank \in [Types -> 0 .. n],
           RankedFor(t, rank)'
    PROVE  Acyclic'
<1>1. Ranked(rank)'
  BY RankedAlone
<1>2. QED
  BY <1>1 DEF Acyclic

\* The type that is to be moved gets a rank above its new bases: none of them inherits from it.
LEMMA CallSetBasesRight ==
    ASSUME Types0, Placed, Acyclic, NEW t \in Threads, Alone(t), Alone(t)', CallSetBases(t)
    PROVE  Placed' /\ Acyclic'
<1>1. PICK r \in Rebinds : /\ ~Cyclic(r.type, r.bases)
                           /\ self' = [self EXCEPT ![t] = r.type]
                           /\ newBases' = [newBases EXCEPT ![t] = r.bases]
  BY DEF CallSetBases
<1> DEFINE T == r.type
           bs == r.bases
<1>2. T \in Types /\ bs \in Seq(Types)
  BY RebindFacts
<1>3. /\ pc[t] = "idle" /\ pc'[t] = "b_assign" /\ self'[t] = T /\ newBases'[t] = bs
      /\ bases' = bases /\ mro' = mro /\ subclasses' = subclasses
  BY <1>1 DEF CallSetBases, Begin, Goto, hierarchy, Types0, ThreadTypes, RebindTypes
<1>4. \A b \in ToSet(bs) : T \notin ToSet(mro[b])
  BY <1>1 DEF Cyclic, ToSet
<1> HIDE DEF T, bs
<1>5. \A X \in Types : X \notin Unresolved(t) /\ ~Moved(t, X)
  BY <1>3 DEF Unresolved, Moved, Moving
<1>6. /\ \A X \in Types : Resolves(X, bases[X], mro, mro[X]) /\ Topped(X, mro[X])
      /\ \A S, X \in Types : /\ Single(subclasses[S], X)
                             /\ X \in ToSet(subclasses[S]) <=> S \in ToSet(bases[X])
  BY <1>5, AloneFacts
<1>7. Placed'
  <2>1. MoveRight(t)'
    BY <1>3 DEF MoveRight, Moving
  <2>2. ASSUME NEW S \in Types, NEW X \in Types, Moved(t, X)'
        PROVE  S \in Held(t)' <=> S \in ToSet(bases[X])
    BY <2>2, <1>3 DEF Moved, Held
  <2>3. QED
    BY <2>1, <2>2, <1>3, <1>6, PlacedNext
<1>8. PICK n \in Nat : \E rank \in [Types -> 0 .. n] : Ranked(rank)
  BY DEF Acyclic
<1>9. PICK rank \in [Types -> 0 .. n] : RankedFor(t, rank)
  BY <1>8, RankedAlone
<1>10. PICK k \in Nat : \E new \in [Types -> 0 .. k] :
           /\ \A X \in Types : \A U \in ToSet(mro[X]) : U = X \/ new[U] < new[X]
           /\ \A X \in Types : \A U \in ToSet(bases[X]) : new[U] < new[X]
           /\ \A U \in ToSet(bs) : new[U] < new[T]
  <2>1. /\ \A X \in Types : \A U \in ToSet(mro[X]) : U = X \/ rank[U] < rank[X]
        /\ \A X \in Types : \A U \in ToSet(bases[X]) : rank[U] < rank[X]
    BY <1>9 DEF RankedFor
  <2>2. QED
    BY <1>2, <1>4, <1>6, <1>9, <2>1, NewRank
<1>11. PICK new \in [Types -> 0 .. k] :
            /\ \A X \in Types : \A U \in ToSet(mro[X]) : U = X \/ new[U] < new[X]
            /\ \A X \in Types : \A U \in ToSet(bases[X]) : new[U] < new[X]
            /\ \A U \in ToSet(bs) : new[U] < new[T]
  BY <1>10
<1>12. RankedFor(t, new)'
  BY <1>3, <1>11 DEF RankedFor, Moving
<1>13. QED
  BY <1>7, <1>11, <1>12, RankKept

\* New bases: the type is still among the subclasses of the old ones, and its MRO is the old one.
LEMMA AssignBasesRight ==
    ASSUME Types0, Placed, Acyclic, NEW t \in Threads, Alone(t), Alone(t)', AssignBases(t)
    PROVE  Placed' /\ Acyclic'
<1> DEFINE T == self[t]
<1>1. /\ pc[t] = "b_assign" /\ pc'[t] = "b_mro" /\ self' = self /\ newBases' = newBases
      /\ savedBases'[t] = bases[T] /\ mro' = mro /\ subclasses' = subclasses
      /\ bases' = [bases EXCEPT ![T] = newBases[t]]
  BY DEF AssignBases, Goto, Types0, ThreadTypes, RebindTypes
<1>2. T \in Types /\ bases \in [Types -> Seq(Types)]
  BY <1>1, MoverFacts DEF Moving
<1>3. bases'[T] = newBases[t] /\ \A X \in Types : X # T => bases'[X] = bases[X]
  BY <1>1, <1>2
<1>4. \A X \in Types : X \notin Unresolved(t) /\ (Moved(t, X) <=> X = T)
  BY <1>1 DEF Unresolved, Moved, Moving
<1>5. \A X \in Types : (Moved(t, X)' <=> X = T) /\ (X \in Unresolved(t)' <=> X = T)
  BY <1>1 DEF Unresolved, Moved, Moving
<1>6. /\ \A X \in Types : Resolves(X, bases[X], mro, mro[X]) /\ Topped(X, mro[X])
      /\ \A S, X \in Types : /\ Single(subclasses[S], X)
                             /\ X = T => (X \in ToSet(subclasses[S]) <=> S \in Held(t))
                             /\ X # T => (X \in ToSet(subclasses[S]) <=> S \in ToSet(bases[X]))
  BY <1>4, AloneFacts
<1>7. \A S \in Types : (S \in Held(t) <=> S \in ToSet(bases[T]))
                       /\ (S \in Held(t)' <=> S \in ToSet(bases[T]))
  BY <1>1 DEF Held
<1>8. Placed'
  <2>1. IsInjective(bases[T])
    BY <1>2, <1>6 DEF Resolves
  <2>2. MoveRight(t)'
    BY <2>1, <1>1, <1>3 DEF MoveRight
  <2>3. \A X \in Types : X \notin Unresolved(t)' => Resolves(X, bases'[X], mro', mro'[X])
    BY <1>1, <1>3, <1>5, <1>6
  <2>4. \A S, X \in Types : /\ Single(subclasses'[S], X)
                            /\ Moved(t, X)' => (X \in ToSet(subclasses'[S]) <=> S \in Held(t)')
                            /\ ~Moved(t, X)' =>
                                  (X \in ToSet(subclasses'[S]) <=> S \in ToSet(bases'[X]))
    BY <1>1, <1>3, <1>5, <1>6, <1>7
  <2>5. \A X \in Types : Topped(X, mro'[X])
    BY <1>1, <1>6
  <2>6. QED
    BY <2>2, <2>3, <2>4, <2>5, PlacedNext
<1>9. PICK n \in Nat : \E rank \in [Types -> 0 .. n] : Ranked(rank)
  BY DEF Acyclic
<1>10. PICK rank \in [Types -> 0 .. n] : RankedFor(t, rank)
  BY <1>9, RankedAlone
<1>11. /\ \A X \in Types : \A U \in ToSet(mro[X]) : U = X \/ rank[U] < rank[X]
       /\ \A X \in Types : \A U \in ToSet(bases[X]) : rank[U] < rank[X]
       /\ \A U \in ToSet(newBases[t]) : rank[U] < rank[T]
  BY <1>1, <1>10 DEF RankedFor, Moving
<1>12. \A X \in Types : \A U \in ToSet(bases'[X]) : rank[U] < rank[X]
  BY <1>3, <1>11
<1>13. RankedFor(t, rank)'
  BY <1>1, <1>2, <1>11, <1>12 DEF RankedFor
<1>14. QED
  BY <1>8, <1>10, <1>13, RankKept

\* A new MRO of the type that is moved: those of its subclasses are pending.
LEMMA MroInternalRight ==
    ASSUME Types0, Placed, Acyclic, NEW t \in Threads, Alone(t), Alone(t)', MroInternal(t),
           pc'[t] # "b_restore"
    PROVE  Placed' /\ Acyclic'
<1> DEFINE T == self[t]
           frame == [type |-> T, left |-> subclasses[T]]
<1>1. PICK m \in computeMro(T, bases[T], mro) :
           NewMro(T, m) /\ path' = [path EXCEPT ![t] = <<frame>>] /\ Goto(t, "b_subclasses")
  BY DEF MroInternal, Goto, Types0, ThreadTypes
<1>2. /\ pc[t] = "b_mro" /\ pc'[t] = "b_subclasses" /\ path'[t] = <<frame>>
      /\ self' = self /\ newBases' = newBases /\ savedBases' = savedBases
      /\ bases' = bases /\ subclasses' = subclasses /\ mro' = [mro EXCEPT ![T] = m]
  BY <1>1 DEF MroInternal, Goto, NewMro, rebindVars, Types0, ThreadTypes, RebindTypes
<1>3. T \in Types /\ subclasses[T] \in Seq(Types) /\ newBases[t] \in Seq(Types)
  BY <1>2, MoverFacts DEF Moving
<1>4. Pending(path'[t]) = ToSet(subclasses[T])
  <2>1. frame.left = subclasses[T] /\ DOMAIN <<frame>> = {1} /\ <<frame>>[1] = frame
    OBVIOUS
  <2> HIDE DEF frame
  <2>2. QED
    BY <1>2, <2>1 DEF Pending
<1>5. /\ \A X \in Types : X \in Unresolved(t) <=> X = T
      /\ \A X \in Types : X \in Unresolved(t)' <=> X \in ToSet(subclasses[T])
      /\ \A X \in Types : (Moved(t, X) <=> X = T) /\ (Moved(t, X)' <=> X = T)
      /\ \A S \in Types : S \in Held(t)' <=> S \in Held(t)
  BY <1>2, <1>4 DEF Unresolved, Moved, Moving, Held
<1>6. PICK n \in Nat : \E rank \in [Types -> 0 .. n] : Ranked(rank)
  BY DEF Acyclic
<1>7. PICK rank \in [Types -> 0 .. n] : RankedFor(t, rank)
  BY <1>6, RankedAlone
<1>8. /\ Resolves(T, bases[T], mro', mro'[T])
      /\ \A X \in Types : Topped(X, mro'[X])
      /\ \A X \in Types : X # T /\ X \notin ToSet(subclasses[T])
                                /\ Resolves(X, bases[X], mro, mro[X])
                             => Resolves(X, bases[X], mro', mro'[X])
      /\ \A X \in Types : \A U \in ToSet(mro'[X]) : U = X \/ rank[U] < rank[X]
      /\ \A X \in ToSet(subclasses[T]) : rank[self[t]] < rank[X] /\ X # T
  <2>1. T = self[t] /\ pc[t] \in {"b_mro", "b_subclasses"}
    BY <1>2
  <2> HIDE DEF T
  <2>2. QED
    BY <1>1, <1>2, <1>3, <1>7, <2>1, MroReplaced
<1>9. IsInjective(bases[T]) /\ MoveRight(t)
  BY <1>8, AloneFacts DEF Resolves
<1>10. Placed'
  <2>1. MoveRight(t)'
    BY <1>2, <1>9 DEF MoveRight, Moving
  <2>2. \A X \in Types : X \notin Unresolved(t)' => Resolves(X, bases'[X], mro', mro'[X])
    BY <1>2, <1>5, <1>8, AloneFacts
  <2>3. \A S, X \in Types : /\ Single(subclasses'[S], X)
                            /\ Moved(t, X)' => (X \in ToSet(subclasses'[S]) <=> S \in Held(t)')
                            /\ ~Moved(t, X)' =>
                                  (X \in ToSet(subclasses'[S]) <=> S \in ToSet(bases'[X]))
    BY <1>2, <1>5, AloneFacts
  <2>4. QED
    BY <1>8, <2>1, <2>2, <2>3, PlacedNext
<1>11. RankedFor(t, rank)'
  BY <1>2, <1>4, <1>7, <1>8 DEF RankedFor, Moving
<1>12. QED
  BY <1>7, <1>10, <1>11, RankKept

\* A new MRO of a subclass: those of its own subclasses are pending.
LEMMA MroSubclassRight ==
    ASSUME Types0, Placed, Acyclic, NEW t \in Threads, Alone(t), Alone(t)', MroSubclass(t),
           pc'[t] # "b_restore"
    PROVE  Placed' /\ Acyclic'
<1> DEFINE S == Head(Head(path[t]).left)
<1>1. PICK m \in computeMro(S, bases[S], mro) :
           NewMro(S, m) /\ path' = [path EXCEPT ![t] = Entered(t, S)] /\ UNCHANGED pc
  BY DEF MroSubclass, Goto, Types0, ThreadTypes
<1>2. /\ pc[t] = "b_subclasses" /\ pc' = pc /\ path'[t] = Entered(t, S)
      /\ self' = self /\ newBases' = newBases /\ savedBases' = savedBases /\ edges' = edges
      /\ bases' = bases /\ subclasses' = subclasses /\ mro' = [mro EXCEPT ![S] = m]
  BY <1>1 DEF MroSubclass, NewMro, Types0, RebindTypes
<1>3. path[t] # <<>> /\ Head(path[t]).left # <<>>
  BY <1>2 DEF MroSubclass, Types0, AtHand, HasAtHand
<1>4. /\ S \in Types /\ S \in Pending(path[t])
      /\ Pending(path[t]) \subseteq {S} \cup Pending(path'[t])
      /\ Pending(path'[t]) \subseteq Pending(path[t]) \cup ToSet(subclasses[S])
      /\ ToSet(subclasses[S]) \subseteq Pending(path'[t])
  BY <1>2, <1>3, EnteredFacts
<1>5. self[t] \in Types
  BY <1>2, MoverFacts DEF Moving
<1> HIDE DEF S
<1>6. PICK n \in Nat : \E rank \in [Types -> 0 .. n] : Ranked(rank)
  BY DEF Acyclic
<1>7. PICK rank \in [Types -> 0 .. n] : RankedFor(t, rank)
  BY <1>6, RankedAlone
<1>8. rank[self[t]] < rank[S]
  BY <1>2, <1>4, <1>7 DEF RankedFor
<1>9. /\ Resolves(S, bases[S], mro', mro'[S])
      /\ \A X \in Types : Topped(X, mro'[X])
      /\ \A X \in Types : X # S /\ X \notin ToSet(subclasses[S])
                                /\ Resolves(X, bases[X], mro, mro[X])
                             => Resolves(X, bases[X], mro', mro'[X])
      /\ \A X \in Types : \A U \in ToSet(mro'[X]) : U = X \/ rank[U] < rank[X]
      /\ \A X \in ToSet(subclasses[S]) : rank[self[t]] < rank[X] /\ X # S
  BY <1>1, <1>2, <1>4, <1>7, <1>8, MroReplaced
<1>10. /\ \A X \in Types : X \in Unresolved(t) <=> X \in Pending(path[t])
       /\ \A X \in Types : X \in Unresolved(t)' <=> X \in Pending(path'[t])
       /\ \A X \in Types : Moved(t, X)' <=> Moved(t, X)
       /\ \A U \in Types : U \in Held(t)' <=> U \in Held(t)
  BY <1>2 DEF Unresolved, Moved, Held
<1>11. Placed'
  <2>1. MoveRight(t)'
    BY <1>2, AloneFacts DEF MoveRight, Moving
  <2>2. ASSUME NEW X \in Types, X \notin Unresolved(t)'
        PROVE  Resolves(X, bases'[X], mro', mro'[X])
    <3>1. X \notin Pending(path'[t]) /\ X \notin ToSet(subclasses[S])
      <4>1. X \notin Pending(path'[t])
        BY <2>2, <1>10
      <4>2. QED
        BY <4>1, <1>4
    <3>2. CASE X = S
      BY <3>2, <1>2, <1>9
    <3>3. CASE X # S
      <4>1. X \notin Unresolved(t)
        BY <3>1, <3>3, <1>4, <1>10
      <4>2. Resolves(X, bases[X], mro, mro[X])
        BY <4>1, AloneFacts
      <4>3. QED
        BY <3>1, <3>3, <4>2, <1>2, <1>9
    <3>4. QED
      BY <3>2, <3>3
  <2>3. \A U, X \in Types : /\ Single(subclasses'[U], X)
                            /\ Moved(t, X)' => (X \in ToSet(subclasses'[U]) <=> U \in Held(t)')
                            /\ ~Moved(t, X)' =>
                                  (X \in ToSet(subclasses'[U]) <=> U \in ToSet(bases'[X]))
    <3>1. \A U, X \in Types : /\ Single(subclasses[U], X)
                              /\ Moved(t, X) => (X \in ToSet(subclasses[U]) <=> U \in Held(t))
                              /\ ~Moved(t, X) =>
                                    (X \in ToSet(subclasses[U]) <=> U \in ToSet(bases[X]))
      BY AloneFacts
    <3>2. bases' = bases /\ subclasses' = subclasses
      BY <1>2
    <3>3. QED
      BY <1>10, <3>1, <3>2
  <2>4. QED
    BY <1>9, <2>1, <2>2, <2>3, PlacedNext
<1>12. RankedFor(t, rank)'
  <2>1. \A U \in Pending(path'[t]) : rank[self[t]] < rank[U]
    BY <1>2, <1>4, <1>7, <1>9 DEF RankedFor
  <2>2. QED
    BY <1>2, <1>7, <1>9, <2>1 DEF RankedFor, Moving
<1>13. QED
  BY <1>7, <1>11, <1>12, RankKept

\* The head and the tail of a sequence have what the sequence has.
LEMMA TailFacts ==
    ASSUME NEW A, NEW s \in Seq(A), s # <<>>
    PROVE  /\ Tail(s) \in Seq(A) /\ 1 \in DOMAIN s /\ Head(s) = s[1] /\ s[1] \in A
           /\ \A i \in DOMAIN Tail(s) : i + 1 \in DOMAIN s /\ s[i + 1] = Tail(s)[i] /\ i + 1 > 1
           /\ \A i \in DOMAIN s : i = 1 \/ (i - 1 \in DOMAIN Tail(s) /\ Tail(s)[i - 1] = s[i])
           /\ ToSet(s) = {Head(s)} \cup ToSet(Tail(s))
           /\ DOMAIN s \subseteq Int /\ DOMAIN Tail(s) \subseteq Int
<1> DEFINE r == Tail(s)
<1>1. /\ Len(s) \in Nat /\ Len(s) > 0 /\ Head(s) = s[1] /\ DOMAIN s = 1 .. Len(s) /\ s[1] \in A
      /\ r \in Seq(A) /\ DOMAIN r = 1 .. Len(s) - 1
      /\ \A i \in 1 .. Len(s) - 1 : r[i] = s[i + 1]
  OBVIOUS
<1> HIDE DEF r
<1>2. \A i \in DOMAIN r : i + 1 \in DOMAIN s /\ s[i + 1] = r[i] /\ i + 1 > 1
  BY <1>1
<1>3. \A i \in DOMAIN s : i = 1 \/ (i - 1 \in DOMAIN r /\ r[i - 1] = s[i])
  BY <1>1
<1>4. 1 \in DOMAIN s
  BY <1>1
<1>5. ASSUME NEW x \in ToSet(s) PROVE x = Head(s) \/ x \in ToSet(r)
  <2>1. PICK i \in DOMAIN s : x = s[i]
    BY DEF ToSet
  <2>2. i = 1 \/ (i - 1 \in DOMAIN r /\ r[i - 1] = x)
    BY <1>3, <2>1
  <2>3. QED
    BY <1>1, <2>1, <2>2 DEF ToSet
<1>6. ASSUME NEW x \in ToSet(r) PROVE x \in ToSet(s)
  BY <1>2 DEF ToSet
<1>7. Head(s) \in ToSet(s)
  BY <1>1, <1>4 DEF ToSet
<1>8. ToSet(s) = {Head(s)} \cup ToSet(r)
  BY <1>5, <1>6, <1>7
<1>9. DOMAIN s \subseteq Int /\ DOMAIN r \subseteq Int
  BY <1>1
<1>10. QED
  BY <1>1, <1>2, <1>3, <1>4, <1>8, <1>9 DEF r

\* Only the first x leaves the sequence.
LEMMA DetachedFacts ==
    ASSUME NEW s \in Seq(Types), NEW x
    PROVE  /\ \A y : y # x => (y \in ToSet(Detached(s, x)) <=> y \in ToSet(s))
           /\ \A y : Single(s, y) => Single(Detached(s, x), y)
           /\ Single(s, x) => x \notin ToSet(Detached(s, x))
<1> DEFINE first == {i \in DOMAIN s : s[i] = x /\ \A j \in 1 .. i - 1 : s[j] # x}
           d == Detached(s, x)
<1>1. Len(s) \in Nat /\ DOMAIN s = 1 .. Len(s)
  OBVIOUS
<1>2. CASE first = {}
  <2>1. d = s
    BY <1>2 DEF Detached
  <2>2. x \notin ToSet(s)
    <3> DEFINE at == {i \in Nat : \A j \in 1 .. i : j \in 1 .. Len(s) => s[j] # x}
    <3>1. 0 \in at
      OBVIOUS
    <3>2. ASSUME NEW i \in Nat, i \in at PROVE i + 1 \in at
      <4>1. \A j \in 1 .. i : j \in 1 .. Len(s) => s[j] # x
        BY <3>2
      <4>2. i + 1 \in 1 .. Len(s) => s[i + 1] # x
        <5> SUFFICES ASSUME i + 1 \in 1 .. Len(s), s[i + 1] = x PROVE FALSE
          OBVIOUS
        <5>1. \A j \in 1 .. (i + 1) - 1 : s[j] # x
          BY <1>1, <4>1
        <5>2. i + 1 \in first
          BY <1>1, <5>1
        <5>3. QED
          BY <1>2, <5>2
      <4>3. \A j \in 1 .. i + 1 : j \in 1 .. i \/ j = i + 1
        OBVIOUS
      <4>4. QED
        BY <4>1, <4>2, <4>3
    <3> HIDE DEF at, first
    <3>3. Len(s) \in at
      BY <1>1, <3>1, <3>2, NatInd
    <3>4. QED
      BY <1>1, <3>3 DEF at, ToSet
  <2>3. QED
    BY <2>1, <2>2
<1>3. CASE first # {}
  <2> DEFINE k == CHOOSE i \in first : TRUE
  <2>1. k \in 1 .. Len(s) /\ s[k] = x
    BY <1>1, <1>3
  <2>2. d = SubSeq(s, 1, k - 1) \o SubSeq(s, k + 1, Len(s))
    BY <1>3 DEF Detached, RemoveAt
  <2> HIDE DEF k, first
  <2> DEFINE a == SubSeq(s, 1, k - 1)
             b == SubSeq(s, k + 1, Len(s))
  <2>3. /\ a \in Seq(Types) /\ Len(a) = k - 1 /\ \A j \in 1 .. k - 1 : a[j] = s[j]
        /\ b \in Seq(Types) /\ Len(b) = Len(s) - k /\ \A j \in 1 .. Len(s) - k : b[j] = s[k + j]
    <3>1. a \in Seq(Types) /\ Len(a) = k - 1 /\ \A j \in 1 .. k - 1 : a[j] = s[j]
      BY <1>1, <2>1
    <3>2. b \in Seq(Types) /\ Len(b) = Len(s) - k /\ \A j \in 1 .. Len(s) - k : b[j] = s[k + j]
      <4> DEFINE from == k + 1
      <4>1. from \in Int /\ Len(s) \in Int /\ \A i \in from .. Len(s) : s[i] \in Types
        BY <1>1, <2>1
      <4>2. b = SubSeq(s, from, Len(s))
        OBVIOUS
      <4>3. Len(s) - from + 1 = Len(s) - k /\ \A j \in 1 .. Len(s) - k : from + j - 1 = k + j
        BY <1>1, <2>1
      <4>4. (IF from <= Len(s) THEN Len(s) - from + 1 ELSE 0) = Len(s) - k
        <5>1. \A p \in Nat : \A q \in 1 .. p : IF q + 1 <= p THEN p - (q + 1) + 1 = p - q ELSE p - q = 0
          OBVIOUS
        <5>2. IF from <= Len(s) THEN Len(s) - from + 1 = Len(s) - k ELSE Len(s) - k = 0
          BY <1>1, <2>1, <5>1
        <5>3. QED
          BY <5>2
      <4> HIDE DEF b, from
      <4>5. /\ b \in Seq(Types) /\ Len(b) = IF from <= Len(s) THEN Len(s) - from + 1 ELSE 0
            /\ \A j \in 1 .. Len(s) - from + 1 : b[j] = s[from + j - 1]
        BY <4>1, <4>2, SubSeqProperties
      <4>6. QED
        BY <4>3, <4>4, <4>5
    <3>3. QED
      BY <3>1, <3>2
  <2> HIDE DEF a, b
  <2>4. /\ DOMAIN d = 1 .. Len(s) - 1
        /\ \A j \in 1 .. Len(s) - 1 : j < k => d[j] = s[j]
        /\ \A j \in 1 .. Len(s) - 1 : j >= k => d[j] = s[j + 1]
    <3>1. d = a \o b
      BY <2>2 DEF a, b
    <3> HIDE DEF d
    <3>2. DOMAIN d = 1 .. Len(s) - 1
      <4>1. d \in Seq(Types) /\ Len(d) = Len(a) + Len(b)
        BY <2>3, <3>1
      <4>2. DOMAIN d = 1 .. Len(d)
        BY <4>1
      <4>3. Len(a) + Len(b) = Len(s) - 1
        BY <1>1, <2>1, <2>3
      <4>4. QED
        BY <4>1, <4>2, <4>3
    <3>3. ASSUME NEW j \in 1 .. Len(s) - 1, j < k PROVE d[j] = s[j]
      BY <1>1, <2>1, <2>3, <3>1, <3>3
    <3>4. ASSUME NEW j \in 1 .. Len(s) - 1, j >= k PROVE d[j] = s[j + 1]
      <4>1. j - (k - 1) \in 1 .. Len(s) - k /\ k + (j - (k - 1)) = j + 1
        BY <1>1, <2>1, <3>4
      <4>2. d[j] = b[j - (k - 1)]
        BY <1>1, <2>1, <2>3, <3>1, <3>4, <4>1
      <4>3. QED
        BY <2>3, <4>1, <4>2
    <3>5. QED
      BY <3>2, <3>3, <3>4
  <2> HIDE DEF d
  <2>5. ASSUME NEW j \in DOMAIN d
        PROVE  \E i \in DOMAIN s : /\ d[j] = s[i] /\ i # k /\ (j < k => i = j)
                                   /\ (j >= k => i = j + 1)
    <3>1. CASE j < k
      BY <3>1, <1>1, <2>1, <2>4
    <3>2. CASE j >= k
      BY <3>2, <1>1, <2>1, <2>4
    <3>3. QED
      BY <3>1, <3>2, <1>1, <2>1, <2>4
  <2>6. ASSUME NEW i \in DOMAIN s, i # k PROVE \E j \in DOMAIN d : d[j] = s[i]
    <3>1. CASE i < k
      <4>1. i \in 1 .. Len(s) - 1
        BY <3>1, <1>1, <2>1
      <4>2. QED
        BY <3>1, <4>1, <2>4
    <3>2. CASE i > k
      <4>1. i - 1 \in 1 .. Len(s) - 1 /\ i - 1 >= k /\ (i - 1) + 1 = i
        BY <3>2, <1>1, <2>1
      <4>2. QED
        BY <4>1, <2>4
    <3>3. QED
      BY <3>1, <3>2, <2>6, <1>1, <2>1
  <2>7. ASSUME NEW y, y # x PROVE y \in ToSet(d) <=> y \in ToSet(s)
    BY <2>1, <2>5, <2>6, <2>7 DEF ToSet
  <2>8. ASSUME NEW y, Single(s, y) PROVE Single(d, y)
    <3>1. ASSUME NEW i \in DOMAIN d, NEW j \in DOMAIN d, d[i] = y, d[j] = y PROVE i = j
      <4>1. PICK p \in DOMAIN s : /\ d[i] = s[p] /\ (i < k => p = i) /\ (i >= k => p = i + 1)
        BY <2>5
      <4>2. PICK q \in DOMAIN s : /\ d[j] = s[q] /\ (j < k => q = j) /\ (j >= k => q = j + 1)
        BY <2>5
      <4>3. p = q
        BY <2>8, <3>1, <4>1, <4>2 DEF Single
      <4>4. QED
        BY <1>1, <2>1, <2>4, <4>1, <4>2, <4>3
    <3>2. QED
      BY <3>1 DEF Single
  <2>9. ASSUME Single(s, x), x \in ToSet(d) PROVE FALSE
    <3>1. PICK j \in DOMAIN d : d[j] = x
      BY <2>9 DEF ToSet
    <3>2. PICK i \in DOMAIN s : d[j] = s[i] /\ i # k
      BY <2>5
    <3>3. QED
      BY <1>1, <2>1, <2>9, <3>1, <3>2 DEF Single
  <2>10. QED
    BY <2>7, <2>8, <2>9 DEF d
<1>4. QED
  BY <1>2, <1>3

\* The edges E of an assignment from the bases old to new when it begins to move them.
Exchange(E, old, new) ==
    /\ \A b : Edge("detach", b) \in ToSet(E) <=> b \in ToSet(old)
    /\ \A b : Edge("attach", b) \in ToSet(E) <=> b \in ToSet(new)
    /\ \A i, j \in DOMAIN E : E[i] = E[j] => i = j
    /\ \A i, j \in DOMAIN E : E[i].do = "attach" /\ E[j].do = "detach" => j < i
    /\ \A i \in DOMAIN E : E[i].do = "attach" => E[i].base \in ToSet(new)

\* The edges of an assignment, old bases first.
LEMMA EdgesMade ==
    ASSUME NEW old \in Seq(Types), NEW new \in Seq(Types), IsInjective(old), IsInjective(new),
           NEW E, E = [i \in DOMAIN old |-> Edge("detach", old[i])]
                          \o [i \in DOMAIN new |-> Edge("attach", new[i])]
    PROVE  Exchange(E, old, new)
<1> DEFINE o == Len(old)
           n == Len(new)
           x == [i \in DOMAIN old |-> Edge("detach", old[i])]
           y == [i \in DOMAIN new |-> Edge("attach", new[i])]
<1>1. /\ o \in Nat /\ DOMAIN old = 1 .. o /\ n \in Nat /\ DOMAIN new = 1 .. n
      /\ \A i \in 1 .. o : old[i] \in Types
      /\ \A i \in 1 .. n : new[i] \in Types
  OBVIOUS
<1>2. /\ x \in Seq(Step) /\ Len(x) = o /\ \A i \in 1 .. o : x[i] = Edge("detach", old[i])
      /\ y \in Seq(Step) /\ Len(y) = n /\ \A i \in 1 .. n : y[i] = Edge("attach", new[i])
  <2>1. \A i \in 1 .. o : Edge("detach", old[i]) \in Step
    BY <1>1 DEF Edge, Step
  <2>2. \A i \in 1 .. n : Edge("attach", new[i]) \in Step
    BY <1>1 DEF Edge, Step
  <2>3. x \in [1 .. o -> Step] /\ y \in [1 .. n -> Step]
    BY <1>1, <2>1, <2>2
  <2>4. x \in Seq(Step) /\ Len(x) = o
    BY <1>1, <2>3
  <2>5. y \in Seq(Step) /\ Len(y) = n
    BY <1>1, <2>3
  <2>6. QED
    BY <1>1, <2>4, <2>5
<1>3. E = x \o y
  OBVIOUS
<1> HIDE DEF o, n, x, y
<1>4. /\ DOMAIN E = 1 .. o + n
      /\ \A i \in 1 .. o : E[i] = Edge("detach", old[i])
      /\ \A i \in o + 1 .. o + n : E[i] = Edge("attach", new[i - o])
  <2>1. DOMAIN E = 1 .. o + n /\ \A i \in 1 .. o : E[i] = x[i]
    BY <1>1, <1>2, <1>3
  <2>2. ASSUME NEW i \in o + 1 .. o + n PROVE E[i] = Edge("attach", new[i - o])
    <3>1. i - o \in 1 .. n /\ i \in 1 .. o + n /\ ~(i <= o)
      BY <1>1
    <3>2. E[i] = y[i - o]
      BY <1>1, <1>2, <1>3, <3>1
    <3>3. QED
      BY <1>2, <3>1, <3>2
  <2>3. QED
    BY <1>2, <2>1, <2>2
<1>5. \A do, b : Edge(do, b).do = do /\ Edge(do, b).base = b
  BY DEF Edge
<1>6. ASSUME NEW i \in DOMAIN E
      PROVE  \/ /\ i \in 1 .. o /\ E[i].do = "detach" /\ E[i].base = old[i]
             \/ /\ i \in o + 1 .. o + n /\ i - o \in 1 .. n
                /\ E[i].do = "attach" /\ E[i].base = new[i - o]
  <2>1. CASE i \in 1 .. o
    <3>1. E[i] = Edge("detach", old[i])
      BY <1>4, <2>1
    <3>2. QED
      BY <1>5, <2>1, <3>1
  <2>2. CASE i \notin 1 .. o
    <3>1. i \in o + 1 .. o + n /\ i - o \in 1 .. n
      BY <1>1, <1>4, <2>2
    <3>2. E[i] = Edge("attach", new[i - o])
      BY <1>4, <3>1
    <3>3. QED
      BY <1>5, <3>1, <3>2
  <2>3. QED
    BY <2>1, <2>2
<1>7. ASSUME NEW b PROVE Edge("detach", b) \in ToSet(E) <=> b \in ToSet(old)
  <2>1. ASSUME Edge("detach", b) \in ToSet(E) PROVE b \in ToSet(old)
    <3>1. PICK i \in DOMAIN E : E[i] = Edge("detach", b)
      BY <2>1 DEF ToSet
    <3>2. E[i].do = "detach" /\ E[i].base = b
      BY <1>5, <3>1
    <3>3. i \in 1 .. o /\ old[i] = b
      BY <1>6, <3>1, <3>2
    <3>4. QED
      BY <1>1, <3>3 DEF ToSet
  <2>2. ASSUME b \in ToSet(old) PROVE Edge("detach", b) \in ToSet(E)
    <3>1. PICK i \in 1 .. o : old[i] = b
      BY <1>1, <2>2 DEF ToSet
    <3>2. i \in DOMAIN E /\ E[i] = Edge("detach", b)
      BY <1>1, <1>4, <3>1
    <3>3. QED
      BY <3>2 DEF ToSet
  <2>3. QED
    BY <2>1, <2>2
<1>8. ASSUME NEW b PROVE Edge("attach", b) \in ToSet(E) <=> b \in ToSet(new)
  <2>1. ASSUME Edge("attach", b) \in ToSet(E) PROVE b \in ToSet(new)
    <3>1. PICK i \in DOMAIN E : E[i] = Edge("attach", b)
      BY <2>1 DEF ToSet
    <3>2. E[i].do = "attach" /\ E[i].base = b
      BY <1>5, <3>1
    <3>3. i - o \in 1 .. n /\ new[i - o] = b
      BY <1>6, <3>1, <3>2
    <3>4. QED
      BY <1>1, <3>3 DEF ToSet
  <2>2. ASSUME b \in ToSet(new) PROVE Edge("attach", b) \in ToSet(E)
    <3>1. PICK i \in 1 .. n : new[i] = b
      BY <1>1, <2>2 DEF ToSet
    <3>2. i + o \in o + 1 .. o + n /\ i + o \in DOMAIN E /\ (i + o) - o = i
      BY <1>1, <1>4
    <3>3. E[i + o] = Edge("attach", b)
      BY <1>4, <3>1, <3>2
    <3>4. QED
      BY <3>2, <3>3 DEF ToSet
  <2>3. QED
    BY <2>1, <2>2
<1>9. ASSUME NEW i \in DOMAIN E, NEW j \in DOMAIN E, E[i] = E[j] PROVE i = j
  <2>1. CASE E[i].do = "detach"
    <3>1. i \in 1 .. o /\ j \in 1 .. o /\ old[i] = old[j]
      BY <1>6, <1>9, <2>1
    <3>2. QED
      BY <1>1, <3>1 DEF IsInjective
  <2>2. CASE E[i].do # "detach"
    <3>1. i - o \in 1 .. n /\ j - o \in 1 .. n /\ new[i - o] = new[j - o]
      BY <1>6, <1>9, <2>2
    <3>2. i - o = j - o
      BY <1>1, <3>1 DEF IsInjective
    <3>3. QED
      BY <1>1, <1>4, <3>2
  <2>3. QED
    BY <2>1, <2>2
<1>10. ASSUME NEW i \in DOMAIN E, NEW j \in DOMAIN E, E[i].do = "attach", E[j].do = "detach"
       PROVE  j < i
  <2>1. i \in o + 1 .. o + n /\ j \in 1 .. o
    BY <1>6, <1>10
  <2>2. QED
    BY <1>1, <2>1
<1>11. ASSUME NEW i \in DOMAIN E, E[i].do = "attach" PROVE E[i].base \in ToSet(new)
  <2>1. i - o \in 1 .. n /\ E[i].base = new[i - o]
    BY <1>6, <1>11
  <2>2. QED
    BY <1>1, <2>1 DEF ToSet
<1>12. QED
  BY <1>7, <1>8, <1>9, <1>10, <1>11 DEF Exchange

\* All MROs have been computed when the recursion is back at the type that is moved.
LEMMA LeaveSubclassesRight ==
    ASSUME Types0, Placed, Acyclic, NEW t \in Threads, Alone(t), Alone(t)', LeaveSubclasses(t)
    PROVE  Placed' /\ Acyclic'
<1>1. /\ pc[t] = "b_subclasses" /\ Head(path[t]).left = <<>> /\ path[t] # <<>>
      /\ path'[t] = Tail(path[t]) /\ path[t] \in Seq(Frames)
      /\ self' = self /\ newBases' = newBases /\ savedBases' = savedBases
      /\ bases' = bases /\ mro' = mro /\ subclasses' = subclasses
  BY DEF LeaveSubclasses, Types0, RebindTypes, AtHand, HasAtHand, hierarchy
<1>2. Pending(path'[t]) = Pending(path[t])
  <2>1. ToSet(Head(path[t]).left) = {}
    BY <1>1 DEF ToSet
  <2>2. QED
    BY <1>1, <2>1, PendingFacts
<1>3. self[t] \in Types /\ newBases[t] \in Seq(Types) /\ savedBases[t] \in Seq(Types)
  BY <1>1, MoverFacts DEF Moving
<1>4. /\ bases[self[t]] = newBases[t] /\ IsInjective(savedBases[t]) /\ IsInjective(newBases[t])
  BY <1>1, AloneFacts DEF MoveRight, Moving
<1>5. CASE Tail(path[t]) # <<>>
  <2>1. pc'[t] = "b_subclasses" /\ edges' = edges
    BY <1>1, <1>5 DEF LeaveSubclasses
  <2>2. /\ \A X \in Types : X \in Unresolved(t)' <=> X \in Unresolved(t)
        /\ \A X \in Types : Moved(t, X)' <=> Moved(t, X)
        /\ \A S \in Types : S \in Held(t)' <=> S \in Held(t)
    BY <1>1, <1>2, <2>1 DEF Unresolved, Moved, Held
  <2>3. MoveRight(t)'
    BY <1>1, <1>4, <2>1 DEF MoveRight, Moving
  <2>4. Placed'
    BY <1>1, <2>2, <2>3, AloneFacts, PlacedNext
  <2>5. PICK n \in Nat : \E rank \in [Types -> 0 .. n] : Ranked(rank)
    BY DEF Acyclic
  <2>6. PICK rank \in [Types -> 0 .. n] : RankedFor(t, rank)
    BY <2>5, RankedAlone
  <2>7. RankedFor(t, rank)'
    BY <1>1, <1>2, <2>1, <2>6 DEF RankedFor
  <2>8. QED
    BY <2>4, <2>6, <2>7, RankKept
<1>6. CASE Tail(path[t]) = <<>>
  <2> DEFINE old == savedBases[t]
             new == newBases[t]
             E == [i \in DOMAIN old |-> Edge("detach", old[i])]
                     \o [i \in DOMAIN new |-> Edge("attach", new[i])]
  <2>1. pc'[t] = "b_edges" /\ edges'[t] = E
    BY <1>1, <1>6 DEF LeaveSubclasses, Goto, Edge, Types0, ThreadTypes, RebindTypes
  <2>2. /\ \A b : Edge("detach", b) \in ToSet(E) <=> b \in ToSet(savedBases[t])
        /\ \A b : Edge("attach", b) \in ToSet(E) <=> b \in ToSet(newBases[t])
        /\ \A i, j \in DOMAIN E : E[i] = E[j] => i = j
        /\ \A i, j \in DOMAIN E : E[i].do = "attach" /\ E[j].do = "detach" => j < i
        /\ \A i \in DOMAIN E : E[i].do = "attach" => E[i].base \in ToSet(newBases[t])
    <3> HIDE DEF old, new
    <3>0. E = [i \in DOMAIN old |-> Edge("detach", old[i])]
                 \o [i \in DOMAIN new |-> Edge("attach", new[i])]
      OBVIOUS
    <3>1. old \in Seq(Types) /\ new \in Seq(Types) /\ IsInjective(old) /\ IsInjective(new)
      BY <1>3, <1>4 DEF old, new
    <3>2. Exchange(E, old, new)
      <4> HIDE DEF E
      <4>1. QED
        BY <3>0, <3>1, EdgesMade
    <3>3. QED
      BY <3>2 DEF Exchange, old, new
  <2> HIDE DEF E
  <2>3. EdgesRight(t)'
    BY <1>1, <2>1, <2>2 DEF EdgesRight
  <2>4. MoveRight(t)'
    BY <1>1, <1>4, <2>1, <2>3 DEF MoveRight, Moving
  <2>5. \A X \in Types : X \notin Unresolved(t)
    <3>1. path'[t] = <<>> /\ DOMAIN path'[t] = {}
      BY <1>1, <1>6
    <3>2. Pending(path'[t]) = {}
      BY <3>1 DEF Pending
    <3>3. Pending(path[t]) = {}
      BY <1>2, <3>2
    <3>4. QED
      BY <1>1, <3>3 DEF Unresolved
  <2>6. \A X \in Types : Moved(t, X)' <=> Moved(t, X)
    BY <1>1, <2>1 DEF Moved, Moving
  <2>7. \A S \in Types : S \in Held(t)' <=> S \in Held(t)
    BY <1>1, <2>1, <2>2 DEF Held
  <2>8. Placed'
    BY <1>1, <2>4, <2>5, <2>6, <2>7, AloneFacts, PlacedNext
  <2>9. PICK n \in Nat : \E rank \in [Types -> 0 .. n] : Ranked(rank)
    BY DEF Acyclic
  <2>10. PICK rank \in [Types -> 0 .. n] : RankedFor(t, rank)
    BY <2>9, RankedAlone
  <2>11. RankedFor(t, rank)'
    BY <1>1, <2>1, <2>10 DEF RankedFor, Moving
  <2>12. QED
    BY <2>8, <2>10, <2>11, RankKept
<1>7. QED
  BY <1>5, <1>6

\* A base loses the type that is moved, or gets it, and no other type.
LEMMA MoveEdgeRight ==
    ASSUME Types0, Placed, Acyclic, NEW t \in Threads, Alone(t), Alone(t)', MoveEdge(t)
    PROVE  Placed' /\ Acyclic'
<1> DEFINE T == self[t]
           E == edges[t]
           e == Head(E)
           B == e.base
           F == Tail(E)
<1>1. /\ pc[t] = "b_edges" /\ E # <<>> /\ E \in Seq(Step)
      /\ pc' = pc /\ self' = self /\ newBases' = newBases /\ savedBases' = savedBases
      /\ path' = path /\ bases' = bases /\ mro' = mro /\ edges'[t] = F
      /\ subclasses' = [subclasses EXCEPT ![B] = IF e.do = "attach" THEN Append(subclasses[B], T)
                                                ELSE Detached(subclasses[B], T)]
  <2>1. pc[t] = "b_edges" /\ E # <<>> /\ E \in Seq(Step)
    BY DEF MoveEdge, Types0, RebindTypes
  <2>2. edges'[t] = F
    BY DEF MoveEdge, Types0, RebindTypes
  <2>3. B \in Types
    <3>1. e \in Step
      BY <2>1, HeadTailProperties
    <3>2. QED
      BY <3>1 DEF Step
  <2>4. subclasses' = [subclasses EXCEPT ![B] = IF e.do = "attach" THEN Append(subclasses[B], T)
                                                ELSE Detached(subclasses[B], T)]
    BY <2>3, MoverFacts DEF MoveEdge
  <2>5. QED
    BY <2>1, <2>2, <2>4 DEF MoveEdge
<1>2. /\ T \in Types /\ subclasses \in [Types -> Seq(Types)]
  BY <1>1, MoverFacts DEF Moving
<1>3. /\ F \in Seq(Step) /\ 1 \in DOMAIN E /\ e = E[1] /\ e \in Step
      /\ \A i \in DOMAIN F : i + 1 \in DOMAIN E /\ E[i + 1] = F[i] /\ i + 1 > 1
      /\ ToSet(E) = {e} \cup ToSet(F)
      /\ DOMAIN E \subseteq Int /\ DOMAIN F \subseteq Int
  BY <1>1, TailFacts
<1>4. EdgesRight(t) /\ MoveRight(t)
  BY <1>1, AloneFacts DEF MoveRight
<1>5. B \in Types /\ e = Edge(e.do, B) /\ (e.do = "attach" \/ e.do = "detach")
  BY <1>3 DEF Step, Edge
<1> HIDE DEF T, E, e, B, F
<1>6. e \notin ToSet(F)
  <2>1. ASSUME NEW i \in DOMAIN F, F[i] = e PROVE FALSE
    <3>1. i + 1 = 1
      BY <1>3, <1>4, <2>1 DEF EdgesRight, E
    <3>2. QED
      BY <1>3, <3>1
  <2>2. QED
    BY <2>1 DEF ToSet
<1>7. \A x : x # e => (x \in ToSet(F) <=> x \in ToSet(E))
  BY <1>3
\* An edge to attach is followed by no edge to detach.
<1>8. e.do = "attach" => \A b : Edge("detach", b) \notin ToSet(E)
  <2>1. ASSUME e.do = "attach", NEW b, Edge("detach", b) \in ToSet(E) PROVE FALSE
    <3>1. PICK j \in DOMAIN E : E[j] = Edge("detach", b)
      BY <2>1 DEF ToSet
    <3>2. E[j].do = "detach"
      BY <3>1 DEF Edge
    <3>3. j < 1 /\ j # 1
      BY <1>3, <1>4, <2>1, <3>2 DEF EdgesRight, E
    <3>4. j = 1 \/ j - 1 \in DOMAIN F
      BY <1>1, TailFacts DEF E, F
    <3>5. j - 1 >= 1
      <4>1. DOMAIN F = 1 .. Len(F)
        BY <1>3
      <4>2. QED
        BY <3>3, <3>4, <4>1, <1>3
    <3>6. QED
      BY <1>3, <3>3, <3>5
  <2>2. QED
    BY <2>1
<1>9. EdgesRight(t)'
  <2>1. \A i, j \in DOMAIN F : F[i] = F[j] => i = j
    <3>1. ASSUME NEW i \in DOMAIN F, NEW j \in DOMAIN F, F[i] = F[j] PROVE i = j
      <4>1. i + 1 = j + 1
        BY <1>3, <1>4, <3>1 DEF EdgesRight, E
      <4>2. QED
        BY <1>3, <4>1
    <3>2. QED
      BY <3>1
  <2>2. \A i, j \in DOMAIN F : F[i].do = "attach" /\ F[j].do = "detach" => j < i
    <3>1. ASSUME NEW i \in DOMAIN F, NEW j \in DOMAIN F, F[i].do = "attach", F[j].do = "detach"
          PROVE  j < i
      <4>1. j + 1 < i + 1
        BY <1>3, <1>4, <3>1 DEF EdgesRight, E
      <4>2. QED
        BY <1>3, <4>1
    <3>2. QED
      BY <3>1
  <2>3. \A i \in DOMAIN F : F[i].do = "attach" => F[i].base \in ToSet(newBases[t])
    BY <1>3, <1>4 DEF EdgesRight, E
  <2>4. ASSUME NEW i \in DOMAIN F, F[i].do = "detach", NEW b \in ToSet(newBases[t])
        PROVE  Edge("attach", b) \in ToSet(F)
    <3>1. Edge("attach", b) \in ToSet(E)
      BY <1>3, <1>4, <2>4 DEF EdgesRight, E
    <3>2. F[i] \in Step /\ F[i] \in ToSet(F)
      BY <1>3 DEF ToSet
    <3>3. F[i] = Edge("detach", F[i].base)
      BY <2>4, <3>2 DEF Step, Edge
    <3>4. e.do # "attach"
      BY <1>3, <1>8, <3>2, <3>3
    <3>5. Edge("attach", b) # e
      BY <3>4 DEF Edge
    <3>6. QED
      BY <1>7, <3>1, <3>5
  <2>5. QED
    BY <1>1, <2>1, <2>2, <2>3, <2>4 DEF EdgesRight
<1>10. /\ \A X \in Types : X \notin Unresolved(t) /\ X \notin Unresolved(t)'
       /\ \A X \in Types : (Moved(t, X) <=> X = T) /\ (Moved(t, X)' <=> X = T)
       /\ \A S \in Types : S \in Held(t) <=>
             \/ Edge("detach", S) \in ToSet(E)
             \/ S \in ToSet(newBases[t]) /\ Edge("attach", S) \notin ToSet(E)
       /\ \A S \in Types : S \in Held(t)' <=>
             \/ Edge("detach", S) \in ToSet(F)
             \/ S \in ToSet(newBases[t]) /\ Edge("attach", S) \notin ToSet(F)
  BY <1>1 DEF Unresolved, Moved, Held, Moving, T, E, F
<1>11. \A S \in Types : S # B => subclasses'[S] = subclasses[S]
  BY <1>1, <1>2
<1>12. subclasses[B] \in Seq(Types)
       /\ subclasses'[B] = IF e.do = "attach" THEN Append(subclasses[B], T)
                           ELSE Detached(subclasses[B], T)
  BY <1>1, <1>2, <1>5
<1>13. \A S \in Types : S # B => (S \in Held(t)' <=> S \in Held(t))
  <2>1. \A S : S # B => Edge("detach", S) # e /\ Edge("attach", S) # e
    BY <1>5 DEF Edge
  <2>2. QED
    BY <1>7, <1>10, <2>1
<1>14. \A X \in Types : /\ Single(subclasses'[B], X)
                        /\ X # T => (X \in ToSet(subclasses'[B]) <=> X \in ToSet(subclasses[B]))
                        /\ X = T => (X \in ToSet(subclasses'[B]) <=> B \in Held(t)')
  <2>0. \A X \in Types : Single(subclasses[B], X)
    BY <1>5, AloneFacts
  <2>1. CASE e.do = "attach"
    <3>1. e = Edge("attach", B) /\ B \in ToSet(newBases[t])
      BY <1>3, <1>4, <1>5, <2>1 DEF EdgesRight, E, B
    <3>2. B \notin Held(t) /\ B \in Held(t)'
      BY <1>3, <1>5, <1>6, <1>8, <1>10, <2>1, <3>1
    <3>3. T \notin ToSet(subclasses[B])
      BY <1>2, <1>5, <1>10, <3>2, AloneFacts
    <3>4. \A X \in Types : /\ X \in ToSet(Append(subclasses[B], T)) <=> X \in ToSet(subclasses[B]) \/ X = T
                           /\ Single(Append(subclasses[B], T), X)
      BY <1>2, <1>12, <2>0, <3>3, SingleAppend
    <3>5. QED
      BY <1>12, <2>1, <3>2, <3>4
  <2>2. CASE e.do = "detach"
    <3>1. e = Edge("detach", B)
      BY <1>5, <2>2
    <3>2. B \notin Held(t)'
      <4>1. B \in ToSet(newBases[t]) => Edge("attach", B) \in ToSet(E)
        BY <1>3, <1>4, <2>2 DEF EdgesRight, E
      <4>2. Edge("attach", B) # e
        BY <3>1 DEF Edge
      <4>3. QED
        BY <1>5, <1>6, <1>7, <1>10, <3>1, <4>1, <4>2
    <3>3. /\ \A X \in Types : X # T => (X \in ToSet(Detached(subclasses[B], T)) <=> X \in ToSet(subclasses[B]))
          /\ \A X \in Types : Single(Detached(subclasses[B], T), X)
          /\ T \notin ToSet(Detached(subclasses[B], T))
      BY <1>2, <1>12, <2>0, DetachedFacts
    <3>4. QED
      BY <1>12, <2>2, <3>2, <3>3
  <2>3. QED
    BY <1>5, <2>1, <2>2
<1>15. \A S, X \in Types : /\ Single(subclasses'[S], X)
                           /\ Moved(t, X)' => (X \in ToSet(subclasses'[S]) <=> S \in Held(t)')
                           /\ ~Moved(t, X)' =>
                                 (X \in ToSet(subclasses'[S]) <=> S \in ToSet(bases'[X]))
  <2>1. \A S, X \in Types : /\ Single(subclasses[S], X)
                            /\ X = T => (X \in ToSet(subclasses[S]) <=> S \in Held(t))
                            /\ X # T => (X \in ToSet(subclasses[S]) <=> S \in ToSet(bases[X]))
    BY <1>10, AloneFacts
  <2>2. ASSUME NEW S \in Types, NEW X \in Types
        PROVE  /\ Single(subclasses'[S], X)
               /\ X = T => (X \in ToSet(subclasses'[S]) <=> S \in Held(t)')
               /\ X # T => (X \in ToSet(subclasses'[S]) <=> S \in ToSet(bases[X]))
    <3>1. CASE S = B
      BY <3>1, <1>14, <2>1
    <3>2. CASE S # B
      BY <3>2, <1>11, <1>13, <2>1
    <3>3. QED
      BY <3>1, <3>2
  <2>3. QED
    BY <1>1, <1>10, <2>2
<1>16. Placed'
  <2>1. MoveRight(t)'
    BY <1>1, <1>4, <1>9 DEF MoveRight, Moving
  <2>2. \A X \in Types : Topped(X, mro'[X]) /\ Resolves(X, bases'[X], mro', mro'[X])
    BY <1>1, <1>10, AloneFacts
  <2>3. QED
    BY <1>15, <2>1, <2>2, PlacedNext
<1>17. PICK n \in Nat : \E rank \in [Types -> 0 .. n] : Ranked(rank)
  BY DEF Acyclic
<1>18. PICK rank \in [Types -> 0 .. n] : RankedFor(t, rank)
  BY <1>17, RankedAlone
<1>19. RankedFor(t, rank)'
  BY <1>1, <1>18 DEF RankedFor
<1>20. QED
  BY <1>16, <1>18, <1>19, RankKept

\* When no edge is left exactly the new bases have the type among their subclasses.
LEMMA EndEdgesRight ==
    ASSUME Types0, Placed, Acyclic, NEW t \in Threads, Alone(t), Alone(t)', EndEdges(t)
    PROVE  Placed' /\ Acyclic'
<1>1. /\ pc[t] = "b_edges" /\ edges[t] = <<>> /\ pc'[t] = "b_announce"
      /\ bases' = bases /\ mro' = mro /\ subclasses' = subclasses
  BY DEF EndEdges, Goto, hierarchy, Types0, ThreadTypes
<1>2. bases[self[t]] = newBases[t]
  BY <1>1, AloneFacts DEF MoveRight, Moving
<1>3. \A S \in Types : S \in Held(t) <=> S \in ToSet(newBases[t])
  BY <1>1 DEF Held, ToSet
<1>4. /\ \A X \in Types : X \notin Unresolved(t) /\ ~Moved(t, X)'
      /\ \A X \in Types : Moved(t, X) <=> X = self[t]
  BY <1>1 DEF Unresolved, Moved, Moving
<1>5. \A S, X \in Types : /\ Single(subclasses[S], X)
                          /\ X \in ToSet(subclasses[S]) <=> S \in ToSet(bases[X])
  BY <1>2, <1>3, <1>4, AloneFacts
<1>6. MoveRight(t)'
  BY <1>1 DEF MoveRight, Moving
<1>7. \A X \in Types : Topped(X, mro'[X]) /\ Resolves(X, bases'[X], mro', mro'[X])
  BY <1>1, <1>4, AloneFacts
<1>8. Placed'
  BY <1>1, <1>4, <1>5, <1>6, <1>7, PlacedNext
<1>9. PICK n \in Nat : \E rank \in [Types -> 0 .. n] : Ranked(rank)
  BY DEF Acyclic
<1>10. PICK rank \in [Types -> 0 .. n] : RankedFor(t, rank)
  BY <1>9, RankedAlone
<1>11. RankedFor(t, rank)'
  BY <1>1, <1>10 DEF RankedFor, Moving
<1>12. QED
  BY <1>8, <1>10, <1>11, RankKept

------------------------------------------------------------------------------
(* The hierarchy is consistent. *)

\* The hierarchy is right at the beginning.
LEMMA InitPlaced == Init => Placed /\ Acyclic
<1> SUFFICES ASSUME Init PROVE Placed /\ Acyclic
  OBVIOUS
<1>1. /\ bases = InitialBases /\ mro = InitialMro /\ subclasses = InitialSubclasses
      /\ \A t \in Threads : pc[t] = "idle"
  BY DEF Init
<1>2. \A t \in Threads : /\ pc[t] \notin Moving /\ Unresolved(t) = {} /\ MoveRight(t)
                         /\ \A T : ~Moved(t, T)
  BY <1>1 DEF Moving, Unresolved, MoveRight, Moved
<1>3. /\ \A T \in Types : Resolves(T, bases[T], mro, mro[T])
      /\ \A S, T \in Types : /\ Single(subclasses[S], T)
                             /\ T \in ToSet(subclasses[S]) <=> S \in ToSet(bases[T])
  BY <1>1, InitialRight
<1>4. MroTop /\ MroResolved
  BY <1>3 DEF MroTop, MroResolved, Resolves
<1>5. SubclassesRight
  BY <1>2, <1>3 DEF SubclassesRight
<1>6. Placed
  BY <1>2, <1>4, <1>5 DEF Placed
<1>7. PICK rank \in [Types -> 0 .. Created] :
          \A T \in Types : /\ \A U \in ToSet(mro[T]) : U = T \/ rank[U] < rank[T]
                           /\ \A U \in ToSet(bases[T]) : rank[U] < rank[T]
  BY <1>1, InitialRight
<1>8. Ranked(rank)
  BY <1>1, <1>7 DEF Ranked, Moving
<1>9. Created \in Nat
  BY HierarchyFacts
<1>10. QED
  BY <1>6, <1>8, <1>9 DEF Acyclic

\* A thread that moves a type moves it alone.
LEMMA MoverAlone ==
    ASSUME Types0, Orderly, Orderly', NEW t \in Threads, Call(t) \/ Continue(t),
           pc[t] \in Moving \/ pc'[t] \in Moving
    PROVE  Alone(t) /\ Alone(t)'
<1>1. \A u \in Threads \ {t} : pc'[u] = pc[u]
  BY OthersKept DEF SameAtHand
<1>2. \A u \in Threads \ {t} : ~(pc[u] \in Moving /\ pc[t] \in Moving)
  BY DEF Orderly
<1>3. \A u \in Threads \ {t} : ~(pc'[u] \in Moving /\ pc'[t] \in Moving)
  BY DEF Orderly
<1>4. QED
  BY <1>1, <1>2, <1>3 DEF Alone

\* Every step of a thread keeps it right.
LEMMA PlacedStep ==
    ASSUME Types0, Orderly, Orderly', Placed, Acyclic, NEW t \in Threads, Call(t) \/ Continue(t)
    PROVE  Placed' /\ Acyclic'
<1>1. pc[t] # "b_restore" /\ pc'[t] # "b_restore"
  BY DEF Orderly
<1>2. CASE CallSetBases(t)
  <2>1. pc'[t] \in Moving
    BY <1>2 DEF CallSetBases, Begin, Goto, Types0, ThreadTypes, Moving
  <2>2. QED
    BY <1>2, <2>1, MoverAlone, CallSetBasesRight
<1>3. CASE AssignBases(t) \/ MroInternal(t) \/ MroSubclass(t) \/ LeaveSubclasses(t)
           \/ MoveEdge(t) \/ EndEdges(t)
  <2>1. pc[t] \in Moving
    BY <1>3 DEF AssignBases, MroInternal, MroSubclass, LeaveSubclasses, MoveEdge, EndEdges, Moving
  <2>2. Alone(t) /\ Alone(t)'
    BY <2>1, MoverAlone
  <2>3. QED
    BY <1>1, <1>3, <2>2, AssignBasesRight, MroInternalRight, MroSubclassRight,
       LeaveSubclassesRight, MoveEdgeRight, EndEdgesRight
<1>4. CASE RestoreSubclass(t) \/ RestoreBases(t)
  BY <1>1, <1>4 DEF RestoreSubclass, RestoreBases
<1>5. CASE \/ CallLookup(t) \/ ReadEntry(t) \/ GetValue(t) \/ ReadMro(t) \/ ReadDict(t)
           \/ EndWalk(t) \/ Store(t) \/ ReturnAnswer(t) \/ RejectCycle(t) \/ SetAttr(t) \/ DelAttr(t)
           \/ Invalidate(t) \/ LeaveType(t) \/ EndInvalidate(t)
  <2>1. UNCHANGED <<hierarchy, rebindVars>> /\ pc[t] \notin Moving /\ pc'[t] \notin Moving
    BY <1>5 DEF CallLookup, ReadEntry, GetValue, ReadMro, ReadDict, EndWalk, Store, ReturnAnswer,
       RejectCycle, SetAttr, DelAttr, WriteDict, Invalidate, LeaveType, EndInvalidate, Begin,
       Goto, Types0, ThreadTypes, Moving, Announcing
  <2>2. \A u \in Threads : SameMove(u)
    <3>1. ASSUME NEW u \in Threads, u # t PROVE SameMove(u)
      BY <2>1, <3>1, OthersKept DEF SameAtHand, SameMove, rebindVars
    <3>2. SameMove(t)
      BY <2>1 DEF SameMove
    <3>3. QED
      BY <3>1, <3>2
  <2>3. QED
    BY <2>1, <2>2, MovesSame
<1>6. QED
  BY <1>2, <1>3, <1>4, <1>5 DEF Call, Continue

\* The inductive invariants.
HierarchyInv == Types0 /\ Placed /\ Acyclic

\* The invariant is inductive as long as assignments succeed and follow one another.
LEMMA HierarchyStep == HierarchyInv /\ Orderly /\ Orderly' /\ [Next]_vars => HierarchyInv'
<1> SUFFICES ASSUME HierarchyInv, Orderly, Orderly', [Next]_vars PROVE HierarchyInv'
  OBVIOUS
<1>1. Types0'
  BY TypesStep DEF HierarchyInv
<1>2. CASE \E t \in Threads : Call(t) \/ Continue(t)
  BY <1>1, <1>2, PlacedStep DEF HierarchyInv
<1>3. CASE \E v \in Values : Collect(v)
  <2>1. /\ UNCHANGED hierarchy
        /\ \A u \in Threads : SameMove(u)
    BY <1>3 DEF Collect, SameMove, rebindVars
  <2>2. QED
    BY <1>1, <2>1, MovesSame DEF HierarchyInv
<1>4. CASE UNCHANGED vars
  <2>1. /\ UNCHANGED hierarchy
        /\ \A u \in Threads : SameMove(u)
    BY <1>4 DEF vars, SameMove, rebindVars
  <2>2. QED
    BY <1>1, <2>1, MovesSame DEF HierarchyInv
<1>5. QED
  BY <1>2, <1>3, <1>4 DEF Next

\* An element that a list has at most once it has once or not at all.
LEMMA SingleCounts ==
    ASSUME NEW s, NEW x, Single(s, x)
    PROVE  Cardinality({i \in DOMAIN s : s[i] = x}) = IF x \in ToSet(s) THEN 1 ELSE 0
<1> DEFINE I == {i \in DOMAIN s : s[i] = x}
<1>1. CASE x \in ToSet(s)
  <2>1. PICK i \in DOMAIN s : s[i] = x
    BY <1>1 DEF ToSet
  <2>2. I = {i}
    BY <2>1 DEF Single
  <2>3. QED
    BY <1>1, <2>2, FS_Singleton
<1>2. CASE x \notin ToSet(s)
  <2>1. I = {}
    BY <1>2 DEF ToSet
  <2>2. QED
    BY <1>2, <2>1, FS_EmptySet
<1>3. QED
  BY <1>1, <1>2

\* It implies that the hierarchy is consistent when no change is under way.
LEMMA PlacedConsistent == HierarchyInv => HierarchyConsistent
<1> SUFFICES ASSUME HierarchyInv, Settled, NEW T \in Types
             PROVE  /\ mro[T][1] = T /\ IsInjective(mro[T])
                    /\ ToSet(mro[T]) = {T} \cup UNION {ToSet(mro[b]) : b \in ToSet(bases[T])}
                    /\ Keeps(mro[T], bases[T]) /\ \A b \in ToSet(bases[T]) : Keeps(mro[T], mro[b])
                    /\ \A S \in Types :
                          Cardinality({i \in DOMAIN subclasses[S] : subclasses[S][i] = T})
                             = IF S \in ToSet(bases[T]) THEN 1 ELSE 0
  BY Zenon DEF HierarchyConsistent
<1>1. \A t \in Threads : pc[t] \notin Moving \cup {"b_restore"} \cup Announcing
  BY DEF Settled, LookupLabels, Moving, Announcing
<1>2. \A t \in Threads : \A X \in Types : X \notin Unresolved(t) /\ ~Moved(t, X)
  BY <1>1 DEF Unresolved, Moved, Moving
<1>3. Resolves(T, bases[T], mro, mro[T])
  BY <1>2 DEF HierarchyInv, Placed, MroResolved
<1>4. ASSUME NEW S \in Types
      PROVE  Cardinality({i \in DOMAIN subclasses[S] : subclasses[S][i] = T})
                = IF S \in ToSet(bases[T]) THEN 1 ELSE 0
  <2>1. Single(subclasses[S], T) /\ (T \in ToSet(subclasses[S]) <=> S \in ToSet(bases[T]))
    BY <1>2 DEF HierarchyInv, Placed, SubclassesRight
  <2>2. QED
    BY <2>1, SingleCounts
<1>5. QED
  BY <1>3, <1>4 DEF Resolves, Topped

\* When no change is under way bases, MROs and subclasses agree, whatever assignments of
\* __bases__ have been made one after the other: any types, threads and values.
THEOREM HierarchyConsistentHolds == Spec /\ []Orderly => []HierarchyConsistent
<1>1. Init => HierarchyInv
  BY InitPlaced, InitTypes DEF HierarchyInv
<1>2. QED
  BY <1>1, HierarchyStep, PlacedConsistent, PTL DEF Spec

------------------------------------------------------------------------------
(* Every change is announced. *)

\* What t has still to visit is in Q.
Visit(t, Q) == /\ pc[t] \in Announcing => Pending(path[t]) \subseteq Q
               /\ pc[t] \in Moving => self[t] \in Q

\* What threads are about to visit, thread by thread.
LEMMA VisitEach == \A Q : Visits(Q) <=> \A t \in Threads : Visit(t, Q)
  BY DEF Visits, Visit

\* If Q has T, what is to be visited and the subclasses of all it has, then it has all types
\* that inherit from T.
LEMMA HeirsIn ==
    ASSUME HierarchyInv, Reached, NEW Q \in SUBSET Types, Closed(Q), Visits(Q), NEW T \in Q,
           NEW S \in Types, T \in ToSet(mro[S])
    PROVE  S \in Q
<1>1. PICK n \in Nat : \E rank \in [Types -> 0 .. n] : Ranked(rank)
  BY DEF HierarchyInv, Acyclic
<1>2. PICK rank \in [Types -> 0 .. n] : Ranked(rank)
  BY <1>1
<1>3. \A X \in Types : rank[X] \in 0 .. n
  BY <1>2
<1>4. \A t \in Threads : \A X \in Types : Moved(t, X) \/ X \in Unresolved(t) => X \in Q
  <2>1. ASSUME NEW t \in Threads, NEW X \in Types, Moved(t, X) PROVE X \in Q
    BY <2>1 DEF Moved, Visits
  <2>2. ASSUME NEW t \in Threads, NEW X \in Types, X \in Unresolved(t) PROVE X \in Q
    <3>1. pc[t] \in Moving /\ self[t] \in Q
      BY <2>2 DEF Unresolved, Visits, Moving
    <3>2. pc[t] = "b_subclasses" => Pending(path[t]) \subseteq Q
      BY <3>1 DEF Reached
    <3>3. QED
      BY <2>2, <3>1, <3>2 DEF Unresolved
  <2>3. QED
    BY <2>1, <2>2
<1> DEFINE P == {k \in Nat : \A X \in Types : rank[X] < k /\ T \in ToSet(mro[X]) => X \in Q}
<1>5. 0 \in P
  BY <1>3
<1>6. ASSUME NEW k \in Nat, k \in P PROVE k + 1 \in P
  <2>1. ASSUME NEW X \in Types, rank[X] < k + 1, T \in ToSet(mro[X]), X # T,
               \A t \in Threads : ~Moved(t, X) /\ X \notin Unresolved(t)
        PROVE  X \in Q
    <3>1. Resolves(X, bases[X], mro, mro[X])
      BY <2>1 DEF HierarchyInv, Placed, MroResolved
    <3>2. PICK b \in ToSet(bases[X]) : T \in ToSet(mro[b])
      BY <2>1, <3>1 DEF Resolves
    <3>3. b \in Types
      BY <3>2 DEF HierarchyInv, Types0, TypeTypes, ToSet
    <3>4. rank[b] < rank[X]
      BY <1>2, <3>2 DEF Ranked
    <3>5. rank[b] < k
      BY <1>3, <2>1, <3>3, <3>4
    <3>6. b \in Q
      BY <1>6, <3>2, <3>3, <3>5
    <3>7. X \in ToSet(subclasses[b])
      BY <2>1, <3>2, <3>3 DEF HierarchyInv, Placed, SubclassesRight
    <3>8. QED
      BY <3>6, <3>7 DEF Closed
  <2>2. \A X \in Types : rank[X] < k + 1 /\ T \in ToSet(mro[X]) => X \in Q
    BY <1>4, <2>1
  <2>3. QED
    BY <2>2
<1> HIDE DEF P
<1>7. Nat \subseteq P
  BY <1>5, <1>6, NatInd
<1>8. n + 1 \in P /\ rank[S] < n + 1
  BY <1>3, <1>7
<1>9. QED
  BY <1>8 DEF P

\* What is to be shown of a step that adds stale types or takes types from those pending.
LEMMA CoveredNext ==
    ASSUME Types0, Covered, NEW t \in Threads, Call(t) \/ Continue(t),
           \A Q \in SUBSET Types : Closed(Q)' /\ Visits(Q)' =>
               Closed(Q) /\ Visit(t, Q) /\ (Visits(Q) => stale' \subseteq Q \cup stale)
    PROVE  Covered'
<1>1. ASSUME NEW Q \in SUBSET Types, Closed(Q)', Visits(Q)' PROVE stale' \subseteq Q
  <2>1. ASSUME NEW u \in Threads, u # t PROVE Visit(u, Q)
    <3>1. SameAtHand(u)
      BY <2>1, OthersKept
    <3>2. QED
      BY <1>1, <3>1 DEF SameAtHand, Visit, Visits
  <2>2. Visits(Q)
    BY <1>1, <2>1, VisitEach
  <2>3. stale \subseteq Q
    BY <1>1, <2>2 DEF Covered
  <2>4. QED
    BY <1>1, <2>2, <2>3
<1>2. QED
  BY <1>1 DEF Covered

\* What is to be shown of a step that does not change the subclasses.
LEMMA ReachedNext ==
    ASSUME Types0, Reached, NEW t \in Threads, Call(t) \/ Continue(t), subclasses' = subclasses,
           pc'[t] = "b_subclasses" => \A Q \in SUBSET Types :
               Closed(Q) /\ self'[t] \in Q => Pending(path'[t]) \subseteq Q
    PROVE  Reached'
<1>1. \A Q : Closed(Q)' <=> Closed(Q)
  BY DEF Closed
<1>2. ASSUME NEW u \in Threads, u # t, pc'[u] = "b_subclasses", NEW Q \in SUBSET Types, Closed(Q),
             self'[u] \in Q
      PROVE  Pending(path'[u]) \subseteq Q
  <2>1. SameAtHand(u)
    BY <1>2, OthersKept
  <2>2. QED
    BY <1>2, <2>1 DEF Reached, SameAtHand
<1>3. QED
  BY <1>1, <1>2 DEF Reached

\* A recursion begins with the type it is called with.
LEMMA CallingPending == \A T : Pending(Calling(T)) = {T}
<1>1. ASSUME NEW T PROVE Pending(Calling(T)) = {T}
  <2>1. DOMAIN Calling(T) = {1} /\ Calling(T)[1].left = <<T>>
    BY DEF Calling
  <2>2. ToSet(<<T>>) = {T}
    BY DEF ToSet
  <2>3. QED
    BY <2>1, <2>2 DEF Pending
<1>2. QED
  BY <1>1

Announced == Reached /\ Covered

\* The same sets are closed as long as the subclasses stay.
LEMMA ClosedSame == ASSUME subclasses' = subclasses PROVE \A Q : Closed(Q)' <=> Closed(Q)
  BY DEF Closed

\* Lookups, calls that change nothing yet, and the assignment of the new bases.
LEMMA QuietAnnounced ==
    ASSUME Types0, Announced, NEW t \in Threads,
           \/ CallLookup(t) \/ ReadEntry(t) \/ GetValue(t) \/ ReadMro(t) \/ ReadDict(t)
           \/ EndWalk(t) \/ Store(t) \/ ReturnAnswer(t) \/ RejectCycle(t) \/ CallSetBases(t)
           \/ AssignBases(t)
    PROVE  Announced'
<1>0. Call(t) \/ Continue(t)
  BY DEF Call, Continue
<1>1. /\ stale' = stale /\ subclasses' = subclasses
      /\ pc[t] \notin Announcing /\ pc'[t] # "b_subclasses"
      /\ pc[t] \in Moving => pc'[t] \in Moving /\ self'[t] = self[t]
  BY DEF CallLookup, ReadEntry, GetValue, ReadMro, ReadDict, EndWalk, Store, ReturnAnswer,
     RejectCycle, CallSetBases, AssignBases, Begin, Goto, Types0, ThreadTypes, Moving,
     Announcing, hierarchy, history
<1>2. \A Q \in SUBSET Types : Visits(Q)' => Visit(t, Q)
  BY <1>1 DEF Visit, Visits
<1>3. Covered'
  <2>1. \A Q \in SUBSET Types : Closed(Q)' /\ Visits(Q)' =>
            Closed(Q) /\ Visit(t, Q) /\ (Visits(Q) => stale' \subseteq Q \cup stale)
    BY <1>1, <1>2, ClosedSame
  <2>2. QED
    BY <1>0, <2>1, CoveredNext DEF Announced
<1>4. QED
  BY <1>0, <1>1, <1>3, ReachedNext DEF Announced

\* A write makes stale what inherits from the type, which is about to be visited.
LEMMA WriteAnnounced ==
    ASSUME HierarchyInv, Announced, NEW t \in Threads, SetAttr(t) \/ DelAttr(t)
    PROVE  Announced'
<1>0. Types0 /\ (Call(t) \/ Continue(t))
  BY DEF Call, HierarchyInv
<1>1. PICK T \in Types : /\ path' = [path EXCEPT ![t] = Calling(T)]
                         /\ Change({S \in Types : T \in ToSet(mro[S])})
                         /\ pc[t] = "idle" /\ pc' = [pc EXCEPT ![t] = "announce"]
                         /\ subclasses' = subclasses
  BY DEF SetAttr, DelAttr, WriteDict, Begin, Goto, hierarchy
<1>2. /\ path'[t] = Calling(T) /\ pc'[t] = "announce"
      /\ stale' = stale \cup {S \in Types : T \in ToSet(mro[S])}
  BY <1>0, <1>1 DEF Change, Types0, RebindTypes, ThreadTypes
<1>3. ASSUME NEW Q \in SUBSET Types, Closed(Q)', Visits(Q)'
      PROVE  Closed(Q) /\ Visit(t, Q) /\ (Visits(Q) => stale' \subseteq Q \cup stale)
  <2>1. T \in Q
    <3>1. Pending(path'[t]) \subseteq Q
      BY <1>2, <1>3 DEF Visits, Announcing
    <3>2. QED
      BY <1>2, <3>1, CallingPending
  <2>2. Closed(Q)
    BY <1>1, <1>3, ClosedSame
  <2>3. Visit(t, Q)
    BY <1>1 DEF Visit, Announcing, Moving
  <2>4. ASSUME Visits(Q), NEW S \in Types, T \in ToSet(mro[S]) PROVE S \in Q
    BY <2>1, <2>2, <2>4, HeirsIn DEF Announced
  <2>5. QED
    BY <1>2, <2>2, <2>3, <2>4
<1>4. Covered'
  BY <1>0, <1>3, CoveredNext DEF Announced
<1>5. QED
  BY <1>0, <1>1, <1>2, <1>4, ReachedNext DEF Announced

\* The type that is entered is stale no more, and its subclasses are pending.
LEMMA InvalidateAnnounced ==
    ASSUME Types0, Announced, NEW t \in Threads, Invalidate(t) PROVE Announced'
<1> DEFINE S == Head(Head(path[t]).left)
<1>0. Call(t) \/ Continue(t)
  BY DEF Continue
<1>1. /\ pc' = pc /\ self' = self /\ subclasses' = subclasses /\ stale' = stale \ {S}
      /\ path'[t] = Entered(t, S) /\ pc[t] \in Announcing
      /\ path[t] # <<>> /\ Head(path[t]).left # <<>>
  <2>1. path'[t] = Entered(t, S)
    BY DEF Invalidate, Types0, RebindTypes
  <2>2. path[t] # <<>>
    BY DEF Invalidate, Types0, AtHand, HasAtHand, Recursion
  <2>3. QED
    BY <2>1, <2>2 DEF Invalidate, hierarchy
<1>2. /\ S \in Types /\ Pending(path[t]) \subseteq {S} \cup Pending(Entered(t, S))
      /\ ToSet(subclasses[S]) \subseteq Pending(Entered(t, S))
  BY <1>1, EnteredFacts
<1> HIDE DEF S
<1>3. ASSUME NEW Q \in SUBSET Types, Closed(Q)', Visits(Q)' PROVE stale' \subseteq Q
  <2> DEFINE R == Q \cup {S}
  <2>1. Pending(Entered(t, S)) \subseteq Q
    BY <1>1, <1>3 DEF Visits
  <2>2. Closed(R)
    <3>1. Closed(Q)
      BY <1>1, <1>3, ClosedSame
    <3>2. QED
      BY <1>2, <2>1, <3>1 DEF Closed
  <2>3. ASSUME NEW u \in Threads PROVE Visit(u, R)
    <3>1. CASE u = t
      BY <1>1, <1>2, <1>3, <2>1, <3>1 DEF Visit, Visits
    <3>2. CASE u # t
      <4>1. SameAtHand(u)
        BY <1>0, <3>2, OthersKept
      <4>2. QED
        BY <1>3, <4>1 DEF SameAtHand, Visit, Visits
    <3>3. QED
      BY <3>1, <3>2
  <2>4. R \in SUBSET Types
    BY <1>2
  <2>5. Visits(R)
    BY <2>3, VisitEach
  <2>6. stale \subseteq R
    BY <2>2, <2>4, <2>5 DEF Announced, Covered
  <2>7. QED
    BY <1>1, <2>6
<1>4. Covered'
  BY <1>3 DEF Covered
<1>5. pc'[t] # "b_subclasses"
  BY <1>1 DEF Announcing
<1>6. QED
  BY <1>0, <1>1, <1>4, <1>5, ReachedNext DEF Announced

\* A type that is left has no subclass pending.
LEMMA LeaveTypeAnnounced ==
    ASSUME Types0, Announced, NEW t \in Threads, LeaveType(t) PROVE Announced'
<1>0. Call(t) \/ Continue(t)
  BY DEF Continue
<1>1. /\ pc' = pc /\ self' = self /\ subclasses' = subclasses /\ stale' = stale
      /\ path'[t] = Tail(path[t]) /\ pc[t] \in Announcing
      /\ path[t] # <<>> /\ Head(path[t]).left = <<>> /\ path[t] \in Seq(Frames)
  BY DEF LeaveType, hierarchy, history, Types0, RebindTypes, AtHand, HasAtHand, Recursion
<1>2. Pending(path'[t]) = Pending(path[t])
  <2>1. ToSet(Head(path[t]).left) = {}
    BY <1>1 DEF ToSet
  <2>2. QED
    BY <1>1, <2>1, PendingFacts
<1>3. \A Q \in SUBSET Types : Visits(Q)' => Visit(t, Q)
  BY <1>1, <1>2 DEF Visit, Visits
<1>4. \A Q \in SUBSET Types : Closed(Q)' /\ Visits(Q)' =>
          Closed(Q) /\ Visit(t, Q) /\ (Visits(Q) => stale' \subseteq Q \cup stale)
  BY <1>1, <1>3, ClosedSame
<1>5. Covered'
  BY <1>0, <1>4, CoveredNext DEF Announced
<1>6. pc'[t] # "b_subclasses"
  BY <1>1 DEF Announcing
<1>7. QED
  BY <1>0, <1>1, <1>5, <1>6, ReachedNext DEF Announced

\* A recursion that leaves the type it was called with has nothing more to visit.
LEMMA EndInvalidateAnnounced ==
    ASSUME Types0, Announced, NEW t \in Threads, EndInvalidate(t) PROVE Announced'
<1>0. Call(t) \/ Continue(t)
  BY DEF Continue
<1>1. /\ subclasses' = subclasses /\ stale' = stale /\ pc[t] \in Announcing
      /\ path[t] # <<>> /\ Head(path[t]).left = <<>> /\ path[t] \in Seq(Frames)
      /\ Recursion(t) /\ Head(path[t]).type = None
      /\ pc'[t] # "b_subclasses"
  BY DEF EndInvalidate, Goto, hierarchy, history, Types0, ThreadTypes, RebindTypes, AtHand,
     HasAtHand, Recursion
<1>2. Pending(path[t]) = {}
  <2>1. /\ Len(path[t]) \in Nat /\ 1 \in 1 .. Len(path[t]) /\ Head(path[t]) = path[t][1]
    BY <1>1
  <2>2. Len(path[t]) = 1
    BY <1>1, <2>1 DEF Recursion
  <2>3. DOMAIN path[t] = {1} /\ path[t][1].left = <<>>
    BY <1>1, <2>1, <2>2
  <2>4. QED
    BY <2>3 DEF Pending, ToSet
<1>3. \A Q \in SUBSET Types : Visit(t, Q)
  BY <1>1, <1>2 DEF Visit, Announcing, Moving
<1>4. \A Q \in SUBSET Types : Closed(Q)' /\ Visits(Q)' =>
          Closed(Q) /\ Visit(t, Q) /\ (Visits(Q) => stale' \subseteq Q \cup stale)
  BY <1>1, <1>3, ClosedSame
<1>5. Covered'
  BY <1>0, <1>4, CoveredNext DEF Announced
<1>6. QED
  BY <1>0, <1>1, <1>5, ReachedNext DEF Announced

\* The type that gets a new MRO is the one that is moved, which is to be announced.
LEMMA MroInternalAnnounced ==
    ASSUME Types0, Announced, NEW t \in Threads, MroInternal(t), pc'[t] # "b_restore"
    PROVE  Announced'
<1> DEFINE T == self[t]
           frame == [type |-> T, left |-> subclasses[T]]
<1>0. Call(t) \/ Continue(t)
  BY DEF Continue
<1>1. PICK m : NewMro(T, m) /\ path' = [path EXCEPT ![t] = <<frame>>] /\ Goto(t, "b_subclasses")
  BY DEF MroInternal, Goto, Types0, ThreadTypes
<1>2. /\ pc[t] = "b_mro" /\ pc'[t] = "b_subclasses" /\ path'[t] = <<frame>> /\ self' = self
      /\ subclasses' = subclasses /\ stale' \subseteq stale \cup {T}
  BY <1>1 DEF MroInternal, Goto, NewMro, Change, Types0, ThreadTypes, RebindTypes
<1>3. T \in Types
  BY <1>2, MoverFacts DEF Moving
<1>4. Pending(path'[t]) = ToSet(subclasses[T])
  <2>1. frame.left = subclasses[T] /\ DOMAIN <<frame>> = {1} /\ <<frame>>[1] = frame
    OBVIOUS
  <2> HIDE DEF frame
  <2>2. QED
    BY <1>2, <2>1 DEF Pending
<1>5. \A Q \in SUBSET Types : Visits(Q)' => Visit(t, Q) /\ T \in Q
  BY <1>2 DEF Visit, Visits, Moving, Announcing
<1>6. \A Q \in SUBSET Types : Closed(Q)' /\ Visits(Q)' =>
          Closed(Q) /\ Visit(t, Q) /\ (Visits(Q) => stale' \subseteq Q \cup stale)
  BY <1>2, <1>5, ClosedSame
<1>7. Covered'
  BY <1>0, <1>6, CoveredNext DEF Announced
<1>8. \A Q \in SUBSET Types : Closed(Q) /\ self'[t] \in Q => Pending(path'[t]) \subseteq Q
  BY <1>2, <1>4 DEF Closed
<1>9. QED
  BY <1>0, <1>2, <1>7, <1>8, ReachedNext DEF Announced

\* A subclass that gets a new MRO is below the type that is moved.
LEMMA MroSubclassAnnounced ==
    ASSUME Types0, Announced, NEW t \in Threads, MroSubclass(t), pc'[t] # "b_restore"
    PROVE  Announced'
<1> DEFINE S == Head(Head(path[t]).left)
<1>0. Call(t) \/ Continue(t)
  BY DEF Continue
<1>1. PICK m : NewMro(S, m) /\ path' = [path EXCEPT ![t] = Entered(t, S)] /\ UNCHANGED pc
  BY DEF MroSubclass, Goto, Types0, ThreadTypes
<1>2. /\ pc[t] = "b_subclasses" /\ pc' = pc /\ path'[t] = Entered(t, S) /\ self' = self
      /\ subclasses' = subclasses /\ stale' \subseteq stale \cup {S}
  BY <1>1 DEF MroSubclass, NewMro, Change, Types0, RebindTypes
<1>3. path[t] # <<>> /\ Head(path[t]).left # <<>>
  BY <1>2 DEF MroSubclass, Types0, AtHand, HasAtHand
<1>4. /\ S \in Types /\ S \in Pending(path[t])
      /\ Pending(path'[t]) \subseteq Pending(path[t]) \cup ToSet(subclasses[S])
  BY <1>2, <1>3, EnteredFacts
<1> HIDE DEF S
<1>5. \A Q \in SUBSET Types : Closed(Q) /\ self[t] \in Q =>
          S \in Q /\ Pending(path[t]) \subseteq Q /\ Pending(path'[t]) \subseteq Q
  BY <1>2, <1>4 DEF Announced, Reached, Closed
<1>6. \A Q \in SUBSET Types : Visits(Q)' => Visit(t, Q) /\ self[t] \in Q
  BY <1>2 DEF Visit, Visits, Moving, Announcing
<1>7. \A Q \in SUBSET Types : Closed(Q)' /\ Visits(Q)' =>
          Closed(Q) /\ Visit(t, Q) /\ (Visits(Q) => stale' \subseteq Q \cup stale)
  BY <1>2, <1>5, <1>6, ClosedSame
<1>8. Covered'
  BY <1>0, <1>7, CoveredNext DEF Announced
<1>9. QED
  BY <1>0, <1>2, <1>5, <1>8, ReachedNext DEF Announced

\* A subclass that is left has no subclass pending.
LEMMA LeaveSubclassesAnnounced ==
    ASSUME Types0, Announced, NEW t \in Threads, LeaveSubclasses(t) PROVE Announced'
<1>0. Call(t) \/ Continue(t)
  BY DEF Continue
<1>1. /\ pc[t] = "b_subclasses" /\ Head(path[t]).left = <<>> /\ path[t] # <<>>
      /\ path'[t] = Tail(path[t]) /\ path[t] \in Seq(Frames)
      /\ self' = self /\ subclasses' = subclasses /\ stale' = stale
      /\ pc'[t] \in {"b_subclasses", "b_edges"}
  BY DEF LeaveSubclasses, Goto, Types0, ThreadTypes, RebindTypes, AtHand, HasAtHand, hierarchy, history
<1>2. Pending(path'[t]) = Pending(path[t])
  <2>1. ToSet(Head(path[t]).left) = {}
    BY <1>1 DEF ToSet
  <2>2. QED
    BY <1>1, <2>1, PendingFacts
<1>3. \A Q \in SUBSET Types : Visits(Q)' => Visit(t, Q)
  BY <1>1 DEF Visit, Visits, Moving, Announcing
<1>4. \A Q \in SUBSET Types : Closed(Q)' /\ Visits(Q)' =>
          Closed(Q) /\ Visit(t, Q) /\ (Visits(Q) => stale' \subseteq Q \cup stale)
  BY <1>1, <1>3, ClosedSame
<1>5. Covered'
  BY <1>0, <1>4, CoveredNext DEF Announced
<1>6. \A Q \in SUBSET Types : Closed(Q) /\ self'[t] \in Q => Pending(path'[t]) \subseteq Q
  BY <1>1, <1>2 DEF Announced, Reached
<1>7. QED
  BY <1>0, <1>1, <1>5, <1>6, ReachedNext DEF Announced

\* What a set closed under the subclasses of the moment lacks to have been closed before an
\* edge was moved is the type that moves.
LEMMA MoveEdgeAnnounced ==
    ASSUME Types0, Announced, NEW t \in Threads, Alone(t)', MoveEdge(t) PROVE Announced'
<1> DEFINE T == self[t]
           e == Head(edges[t])
           B == e.base
<1>0. Call(t) \/ Continue(t)
  BY DEF Continue
<1>1. /\ pc[t] = "b_edges" /\ pc' = pc /\ self' = self /\ stale' = stale
      /\ subclasses' = [subclasses EXCEPT ![B] = IF e.do = "attach" THEN Append(subclasses[B], T)
                                                ELSE Detached(subclasses[B], T)]
  <2>1. pc[t] = "b_edges" /\ edges[t] # <<>> /\ edges[t] \in Seq(Step)
    BY DEF MoveEdge, Types0, RebindTypes
  <2>2. B \in Types
    <3>1. e \in Step
      BY <2>1, HeadTailProperties
    <3>2. QED
      BY <3>1 DEF Step
  <2>3. QED
    BY <2>1, <2>2, MoverFacts DEF MoveEdge, history
<1>2. T \in Types /\ subclasses \in [Types -> Seq(Types)]
  BY <1>1, MoverFacts DEF Moving
<1> HIDE DEF T, e, B
<1>3. ASSUME NEW S \in Types, NEW X \in ToSet(subclasses[S]), X # T
      PROVE  X \in ToSet(subclasses'[S])
  <2>1. subclasses[S] \in Seq(Types)
    BY <1>2
  <2>2. X \in ToSet(Append(subclasses[S], T))
    <3>1. X \in Types
      BY <2>1, <1>3 DEF ToSet
    <3>2. \A y : y \in ToSet(Append(subclasses[S], T)) <=> y \in ToSet(subclasses[S]) \/ y = T
      BY <1>2, <2>1, SingleAppend
    <3>3. QED
      BY <1>3, <3>2
  <2>3. X \in ToSet(Detached(subclasses[S], T))
    BY <1>3, <2>1, DetachedFacts
  <2>4. \/ subclasses'[S] = subclasses[S] \/ subclasses'[S] = Append(subclasses[S], T)
        \/ subclasses'[S] = Detached(subclasses[S], T)
    BY <1>1, <1>2
  <2>5. QED
    BY <1>3, <2>2, <2>3, <2>4
<1>4. \A Q \in SUBSET Types : Closed(Q)' /\ T \in Q => Closed(Q)
  BY <1>3 DEF Closed
<1>5. \A Q \in SUBSET Types : Visits(Q)' => Visit(t, Q) /\ T \in Q
  BY <1>1 DEF Visit, Visits, Moving, Announcing, T
<1>6. \A Q \in SUBSET Types : Closed(Q)' /\ Visits(Q)' =>
          Closed(Q) /\ Visit(t, Q) /\ (Visits(Q) => stale' \subseteq Q \cup stale)
  BY <1>1, <1>4, <1>5
<1>7. Covered'
  BY <1>0, <1>6, CoveredNext DEF Announced
<1>8. Reached'
  BY <1>1 DEF Reached, Alone, Moving
<1>9. QED
  BY <1>7, <1>8 DEF Announced

\* The announcement begins with the type that has been moved.
LEMMA EndEdgesAnnounced ==
    ASSUME Types0, Announced, NEW t \in Threads, EndEdges(t) PROVE Announced'
<1>0. Call(t) \/ Continue(t)
  BY DEF Continue
<1>1. /\ pc[t] = "b_edges" /\ pc'[t] = "b_announce" /\ path'[t] = Calling(self[t])
      /\ subclasses' = subclasses /\ stale' = stale
  BY DEF EndEdges, Goto, hierarchy, history, Types0, ThreadTypes, RebindTypes
<1>2. \A Q \in SUBSET Types : Visits(Q)' => Visit(t, Q)
  <2>1. Pending(path'[t]) = {self[t]}
    BY <1>1, CallingPending
  <2>2. QED
    BY <1>1, <2>1 DEF Visit, Visits, Moving, Announcing
<1>3. \A Q \in SUBSET Types : Closed(Q)' /\ Visits(Q)' =>
          Closed(Q) /\ Visit(t, Q) /\ (Visits(Q) => stale' \subseteq Q \cup stale)
  BY <1>1, <1>2, ClosedSame
<1>4. Covered'
  BY <1>0, <1>3, CoveredNext DEF Announced
<1>5. QED
  BY <1>0, <1>1, <1>4, ReachedNext DEF Announced

AnnouncedInv == HierarchyInv /\ Announced

\* Every step keeps what is stale covered.
LEMMA AnnouncedStep == AnnouncedInv /\ Orderly /\ Orderly' /\ [Next]_vars => Announced'
<1> SUFFICES ASSUME AnnouncedInv, Orderly, Orderly', [Next]_vars PROVE Announced'
  OBVIOUS
<1>0. Types0 /\ HierarchyInv /\ Announced
  BY DEF AnnouncedInv, HierarchyInv
<1>1. ASSUME NEW t \in Threads, Call(t) \/ Continue(t) PROVE Announced'
  <2>1. pc[t] # "b_restore" /\ pc'[t] # "b_restore"
    BY DEF Orderly
  <2>2. CASE \/ CallLookup(t) \/ ReadEntry(t) \/ GetValue(t) \/ ReadMro(t) \/ ReadDict(t)
             \/ EndWalk(t) \/ Store(t) \/ ReturnAnswer(t) \/ RejectCycle(t) \/ CallSetBases(t)
             \/ AssignBases(t)
    BY <1>0, <2>2, QuietAnnounced
  <2>3. CASE SetAttr(t) \/ DelAttr(t)
    BY <1>0, <2>3, WriteAnnounced
  <2>4. CASE Invalidate(t) \/ LeaveType(t) \/ EndInvalidate(t)
    BY <1>0, <2>4, InvalidateAnnounced, LeaveTypeAnnounced, EndInvalidateAnnounced
  <2>5. CASE MroInternal(t) \/ MroSubclass(t) \/ LeaveSubclasses(t) \/ EndEdges(t)
    BY <1>0, <2>1, <2>5, MroInternalAnnounced, MroSubclassAnnounced, LeaveSubclassesAnnounced,
       EndEdgesAnnounced
  <2>6. CASE MoveEdge(t)
    <3>1. pc[t] \in Moving
      BY <2>6 DEF MoveEdge, Moving
    <3>2. QED
      BY <1>0, <1>1, <2>6, <3>1, MoverAlone, MoveEdgeAnnounced
  <2>7. CASE RestoreSubclass(t) \/ RestoreBases(t)
    BY <2>1, <2>7 DEF RestoreSubclass, RestoreBases
  <2>8. QED
    BY <1>1, <2>2, <2>3, <2>4, <2>5, <2>6, <2>7 DEF Call, Continue
<1>2. CASE UNCHANGED vars \/ \E v \in Values : Collect(v)
  <2>1. UNCHANGED <<subclasses, stale, pc, self, path>>
    BY <1>2 DEF vars, Collect, hierarchy, history
  <2>2. /\ Reached => Reached'
        /\ Covered => Covered'
    BY <2>1 DEF Reached, Covered, Closed, Visits
  <2>3. QED
    BY <1>0, <2>2 DEF Announced
<1>3. QED
  BY <1>1, <1>2 DEF Next

\* Nothing is stale at the beginning.
LEMMA InitAnnounced == Init => Announced
  BY DEF Init, Announced, Reached, Covered

\* When no change is under way nothing is to be visited, so that nothing is stale.
LEMMA AnnouncedAll == AnnouncedInv => AllAnnounced
<1> SUFFICES ASSUME AnnouncedInv, Settled PROVE stale \subseteq putBack
  BY DEF AllAnnounced
<1>1. \A t \in Threads : pc[t] \notin Moving /\ pc[t] \notin Announcing
  BY DEF Settled, LookupLabels, Moving, Announcing
<1>2. Closed({}) /\ Visits({})
  BY <1>1 DEF Closed, Visits
<1>3. stale \subseteq {}
  BY <1>2 DEF AnnouncedInv, Announced, Covered
<1>4. QED
  BY <1>3

\* When no change is under way every type has been given a tag after the last change of what
\* lookups on it find, although the announcements of several writes go down the subclasses at
\* the same time as an assignment of __bases__ moves them.
THEOREM AllAnnouncedHolds == Spec /\ []Orderly => []AllAnnounced
<1>1. Init => AnnouncedInv
  BY InitPlaced, InitTypes, InitAnnounced DEF HierarchyInv, AnnouncedInv
<1>2. AnnouncedInv /\ Orderly /\ Orderly' /\ [Next]_vars => AnnouncedInv'
  BY HierarchyStep, AnnouncedStep DEF AnnouncedInv
<1>3. QED
  BY <1>1, <1>2, AnnouncedAll, PTL DEF Spec

------------------------------------------------------------------------------
(* Where assignments follow one another: with one thread that makes them, or none. *)

RebindersOnly == \A t \in Threads : pc[t] \in RebindLabels => t \in Rebinders
NoFailure == \A t \in Threads : pc[t] # "b_restore"

\* Only those that assign __bases__ come to the labels of an assignment.
LEMMA RebindersStep == Types0 /\ RebindersOnly /\ [Next]_vars => RebindersOnly'
<1> SUFFICES ASSUME Types0, RebindersOnly, [Next]_vars PROVE RebindersOnly'
  OBVIOUS
<1>1. ASSUME NEW t \in Threads, Call(t) \/ Continue(t) PROVE RebindersOnly'
  <2>1. ASSUME NEW u \in Threads, u # t PROVE pc'[u] = pc[u]
    BY <1>1, <2>1, OthersKept DEF SameAtHand
  <2>2. pc'[t] \in RebindLabels => t \in Rebinders
    <3>1. CASE CallSetBases(t)
      BY <3>1 DEF CallSetBases, Begin
    <3>2. CASE AssignBases(t) \/ MroInternal(t) \/ MroSubclass(t) \/ LeaveSubclasses(t)
               \/ MoveEdge(t) \/ EndEdges(t) \/ RestoreSubclass(t) \/ RestoreBases(t)
      BY <3>2 DEF AssignBases, MroInternal, MroSubclass, LeaveSubclasses, MoveEdge, EndEdges,
         RestoreSubclass, RestoreBases, RebindersOnly, RebindLabels
    <3>3. CASE Invalidate(t) \/ LeaveType(t)
      BY <3>3 DEF Invalidate, LeaveType, RebindersOnly
    <3>4. CASE \/ CallLookup(t) \/ ReadEntry(t) \/ GetValue(t) \/ ReadMro(t) \/ ReadDict(t)
               \/ EndWalk(t) \/ Store(t) \/ ReturnAnswer(t) \/ RejectCycle(t) \/ SetAttr(t)
               \/ DelAttr(t) \/ EndInvalidate(t)
      <4>1. pc'[t] \notin RebindLabels
        BY <3>4 DEF CallLookup, ReadEntry, GetValue, ReadMro, ReadDict, EndWalk, Store,
           ReturnAnswer, RejectCycle, SetAttr, DelAttr, WriteDict, EndInvalidate, Begin, Goto,
           Types0, ThreadTypes, RebindLabels
      <4>2. QED
        BY <4>1
    <3>5. QED
      BY <1>1, <3>1, <3>2, <3>3, <3>4 DEF Call, Continue
  <2>3. QED
    BY <2>1, <2>2 DEF RebindersOnly
<1>2. CASE UNCHANGED vars \/ \E v \in Values : Collect(v)
  BY <1>2 DEF vars, Collect, RebindersOnly
<1>3. QED
  BY <1>1, <1>2 DEF Next

\* Hierarchies are consistent and changes announced, whatever other threads write and look up
\* meanwhile, if one thread at most assigns __bases__ and is never refused a new MRO.
THEOREM OneRebinder ==
    ASSUME \A t, u \in Rebinders : t = u
    PROVE  Spec /\ []NoFailure => [](HierarchyConsistent /\ AllAnnounced)
<1>1. Init => Types0 /\ RebindersOnly
  BY InitTypes DEF Init, RebindersOnly, RebindLabels
<1>2. Types0 /\ RebindersOnly /\ [Next]_vars => Types0' /\ RebindersOnly'
  BY TypesStep, RebindersStep
<1>3. RebindersOnly /\ NoFailure => Orderly
  BY DEF RebindersOnly, NoFailure, Orderly, Moving, RebindLabels
<1>4. Spec /\ []NoFailure => []Orderly
  BY <1>1, <1>2, <1>3, PTL DEF Spec
<1>5. QED
  BY <1>4, HierarchyConsistentHolds, AllAnnouncedHolds, PTL

\* So it is, with no further premise, as long as attributes are set and deleted but no type
\* gets new bases.
THEOREM NoRebinder ==
    ASSUME Rebinders = {} PROVE Spec => [](HierarchyConsistent /\ AllAnnounced)
<1>1. Init => Types0 /\ RebindersOnly
  BY InitTypes DEF Init, RebindersOnly, RebindLabels
<1>2. Types0 /\ RebindersOnly /\ [Next]_vars => Types0' /\ RebindersOnly'
  BY TypesStep, RebindersStep
<1>3. RebindersOnly => NoFailure
  BY DEF RebindersOnly, NoFailure, RebindLabels
<1>4. Spec => []NoFailure
  BY <1>1, <1>2, <1>3, PTL DEF Spec
<1>5. \A t, u \in Rebinders : t = u
  OBVIOUS
<1>6. Spec /\ []NoFailure => [](HierarchyConsistent /\ AllAnnounced)
  BY <1>5, OneRebinder
<1>7. QED
  BY <1>4, <1>6, PTL
==============================================================================
