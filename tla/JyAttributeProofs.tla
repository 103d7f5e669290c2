-------------------------- MODULE JyAttributeProofs --------------------------
(***************************************************************************)
(* The list of attributes is well formed in every reachable state and      *)
(* implements a map, for any set of threads, types and values and any      *)
(* number of links.                                                        *)
(*                                                                         *)
(* WellFormed is not inductive: a link is created with a next of null only *)
(* if those to come have none, a writer that has wrapped a proxy will give *)
(* it a successor, and the one that may have left a proxy alone is still   *)
(* inside the monitor.  Inv adds that.                                     *)
(*                                                                         *)
(* For the refinement, the chain is the smallest set that has the head and *)
(* what next leads to (From); the lemmas say what a link more or less does *)
(* to that set, and so to the map.  RInv adds that every reader has a      *)
(* Guide: links, some of them removed perhaps, along which its walk can    *)
(* only end with a value that its attribute had since the read began.      *)
(***************************************************************************)
EXTENDS JyAttribute, TLAPS

Created == 1 .. made

\* Every link anybody can get at has been created; the others are blank.
Reachable ==
    /\ attributes \in Links => attributes \in Created
    /\ \A l \in Links \ Created : next[l] = Null
    /\ \A t \in Threads : cursor[t] \in Links => cursor[t] \in Created

\* Who is between two writes holds the monitor.
Writing ==
    \A t \in Threads :
        /\ pc[t] \in {"s_chain", "d_collapse"} \cup Exceptions => monitor = t
        /\ pc[t] = "s_chain" => /\ attributes \in Links /\ next[attributes] = Null
                                /\ type[attributes] = JAVA_PROXY_ATTR
                                /\ key[t] # JAVA_PROXY_ATTR
        /\ pc[t] \in Exceptions => attributes \notin Links

Inv == TypeOK /\ WellFormed /\ Reachable /\ Writing
------------------------------------------------------------------------------
\* What a writer leaves behind is a map from types to values.
LEMMA ContentType ==
    ASSUME value' \in [Links -> Values \cup {Null}], made' \in 0 .. MaxLinks
    PROVE  Content' \in [Types -> Values \cup {Null}]
<1> DEFINE is(l, k) == type'[l] = k
           entry(k) == IF \E l \in Chain' : is(l, k) THEN value'[CHOOSE l \in Chain' : is(l, k)]
                       ELSE IF k = JAVA_PROXY_ATTR /\ attributes' \in Values
                            THEN attributes' ELSE Null
<1>1. Chain' \subseteq Links
  BY AttributeAssumption DEF Chain, Links
<1>2. ASSUME NEW k \in Types PROVE entry(k) \in Values \cup {Null}
  <2>1. CASE \E l \in Chain' : is(l, k)
    <3>1. (CHOOSE l \in Chain' : is(l, k)) \in Links
      BY <2>1, <1>1, Zenon
    <3>2. entry(k) = value'[CHOOSE l \in Chain' : is(l, k)]
      BY <2>1, Zenon
    <3> HIDE DEF is, entry
    <3> QED BY <3>1, <3>2
  <2>2. CASE ~\E l \in Chain' : is(l, k)
    BY <2>2, Zenon
  <2> QED BY <2>1, <2>2
<1>3. Content' = [k \in Types |-> entry(k)]
  BY Zenon DEF Content
<1> HIDE DEF entry
<1> QED BY <1>2, <1>3

\* So the history stays well typed when a write is observed.
LEMMA ObservedType ==
    ASSUME TypeOK, Observed,
           value' \in [Links -> Values \cup {Null}], made' \in 0 .. MaxLinks
    PROVE  /\ content' \in [Types -> Values \cup {Null}]
           /\ seen' \in [Threads -> SUBSET (Values \cup {Null})]
<1>1. content' \in [Types -> Values \cup {Null}]
  BY ContentType DEF Observed
<1>2. QED
  BY <1>1 DEF Observed, TypeOK
------------------------------------------------------------------------------
LEMMA InvInit == Init => Inv
  BY AttributeAssumption
  DEF Init, Inv, TypeOK, WellFormed, Sorted, NoLoneProxy, Reachable, Writing, Created,
      Links, JAVA_PROXY_ATTR, Exceptions

LEMMA LinkFacts ==
    ASSUME Inv
    PROVE  /\ \A l \in Created : l \in Links
           /\ \A l \in Links : type[l] \in Types /\ l # Null
           /\ \A k \in Types : k \in Int /\ JAVA_PROXY_ATTR <= k
           /\ made < MaxLinks => made + 1 \in Links \ Created
<1> USE AttributeAssumption DEF Inv, TypeOK, Created, Links, JAVA_PROXY_ATTR
<1>1. made \in Nat /\ made <= MaxLinks /\ MaxLinks \in Nat
  OBVIOUS
<1>2. \A k \in Types : k \in -128 .. 127
  OBVIOUS
<1> QED BY <1>1, <1>2

LEMMA SetAttrInv ==
    ASSUME Inv, NEW t \in Threads, NEW k \in Types, NEW v \in Values, SetAttr(t, k, v)
    PROVE  Inv'
<1> USE AttributeAssumption
    DEF Inv, TypeOK, WellFormed, Sorted, NoLoneProxy, Reachable, Writing, Created, Links,
        JAVA_PROXY_ATTR, Exceptions, Goto, reader, NewLink
<1>1. CASE SetProxy(t, k, v)
  BY <1>1, ObservedType DEF SetProxy, Inside
<1>2. CASE SetFirst(t, k, v)
  <2>1. TypeOK'
    BY <1>2, ObservedType DEF SetFirst, Inside
  <2>2. WellFormed'
    BY <1>2 DEF SetFirst, Inside
  <2>3. Reachable' /\ Writing'
    BY <1>2 DEF SetFirst, Inside
  <2> QED BY <2>1, <2>2, <2>3
<1>3. CASE WrapProxy(t, k, v)
  <2>1. TypeOK'
    BY <1>3, ObservedType DEF WrapProxy, Stay
  <2>2. WellFormed'
    BY <1>3 DEF WrapProxy, Stay
  <2>3. Reachable' /\ Writing'
    BY <1>3 DEF WrapProxy, Stay
  <2> QED BY <2>1, <2>2, <2>3
<1>4. CASE SetHead(t, k, v)
  <2>1. TypeOK'
    BY <1>4, ObservedType DEF SetHead, Inside
  <2>2. WellFormed'
    BY <1>4 DEF SetHead, Inside
  <2>3. Reachable' /\ Writing'
    BY <1>4 DEF SetHead, Inside
  <2> QED BY <2>1, <2>2, <2>3
<1>5. CASE SetValue(t, k, v)
  BY <1>5, ObservedType DEF SetValue, Inside
<1>6. CASE InsertAfter(t, k, v)
  <2>1. PICK att \in Links : /\ att \in Created /\ type[att] < k
                             /\ next[att] # Null => type[next[att]] > k
                             /\ next' = [next EXCEPT ![made + 1] = next[att],
                                                     ![att] = made + 1]
    BY <1>6 DEF InsertAfter, LastUpTo, Chain
  <2>2. TypeOK'
    <3>1. next' \in [Links -> Links \cup {Null}]
      <4>1. made + 1 \in Links /\ next[att] \in Links \cup {Null}
        BY <1>6 DEF InsertAfter
      <4> QED BY <4>1, <2>1
    <3>2. QED
      BY <1>6, <3>1, ObservedType DEF InsertAfter, Inside
  <2>3. Sorted'
    <3> HIDE DEF Inv, TypeOK, WellFormed, NoLoneProxy, Reachable, Writing, Links, JAVA_PROXY_ATTR
    <3>1. /\ made < MaxLinks /\ made' = made + 1 /\ made \in Nat
          /\ type' = [type EXCEPT ![made + 1] = k]
          /\ type \in [Links -> Types] /\ next \in [Links -> Links \cup {Null}]
      BY <1>6 DEF InsertAfter, Inv, TypeOK
    <3>2. made + 1 \in Links \ Created /\ att # made + 1
      BY <2>1, <3>1, LinkFacts
    <3>3. ASSUME NEW l \in Created
          PROVE  type'[l] = type[l] /\ (l # att => next'[l] = next[l])
      BY <2>1, <3>1, <3>2, <3>3, LinkFacts
    <3>4. /\ next'[att] = made + 1 /\ next'[made + 1] = next[att] /\ type'[made + 1] = k
      BY <2>1, <3>1, <3>2
    <3>5. Sorted /\ next[att] # Null => next[att] \in Created
      BY <2>1 DEF Inv, WellFormed
    <3>6. ASSUME NEW l \in 1 .. made', next'[l] # Null
          PROVE  next'[l] \in 1 .. made' /\ type'[l] < type'[next'[l]]
      <4>1. CASE l = made + 1
        BY <4>1, <2>1, <3>1, <3>2, <3>3, <3>4, <3>5, <3>6, Inv DEF Inv, WellFormed
      <4>2. CASE l = att
        BY <4>2, <2>1, <3>1, <3>2, <3>3, <3>4
      <4>3. CASE l \in Created \ {att}
        <5>1. next'[l] = next[l] /\ type'[l] = type[l]
          BY <4>3, <3>3
        <5>2. next[l] \in Created /\ type[l] < type[next[l]]
          BY <4>3, <5>1, <3>6 DEF Inv, WellFormed
        <5> QED BY <5>1, <5>2, <3>1, <3>3
      <4> QED BY <4>1, <4>2, <4>3, <3>1
    <3> QED BY <3>6
  <2>4. NoLoneProxy' /\ Reachable' /\ Writing'
    BY <1>6, <2>1 DEF InsertAfter, Inside
  <2> QED BY <2>2, <2>3, <2>4
<1> QED BY <1>1, <1>2, <1>3, <1>4, <1>5, <1>6 DEF SetAttr

LEMMA ChainAfterProxyInv ==
    ASSUME Inv, NEW t \in Threads, ChainAfterProxy(t)
    PROVE  Inv'
<1> USE AttributeAssumption
    DEF Inv, TypeOK, WellFormed, Sorted, NoLoneProxy, Reachable, Writing, Created, Links,
        JAVA_PROXY_ATTR, Exceptions, Goto, reader, NewLink
<1>1. TypeOK'
  BY ObservedType DEF ChainAfterProxy, Leave
<1>2. WellFormed'
  <2>1. /\ attributes \in Created /\ next[attributes] = Null
        /\ type[attributes] < key[t]
    <3>1. key[t] \in Types /\ key[t] # JAVA_PROXY_ATTR
      BY DEF ChainAfterProxy
    <3>2. JAVA_PROXY_ATTR < key[t]
      <4> HIDE DEF Inv, TypeOK, WellFormed, NoLoneProxy, Reachable, Writing, Links,
                   JAVA_PROXY_ATTR
      <4>1. JAVA_PROXY_ATTR \in Int /\ key[t] \in Int /\ JAVA_PROXY_ATTR <= key[t]
        BY <3>1, LinkFacts
      <4> QED BY <3>1, <4>1
    <3> QED BY <3>2 DEF ChainAfterProxy
  <2>2. Sorted'
    BY <2>1 DEF ChainAfterProxy
  <2>3. NoLoneProxy'
    BY <2>1 DEF ChainAfterProxy
  <2> QED BY <2>2, <2>3
<1>3. Reachable' /\ Writing'
  BY DEF ChainAfterProxy, Leave
<1> QED BY <1>1, <1>2, <1>3

LEMMA DelAttrInv ==
    ASSUME Inv, NEW t \in Threads, NEW k \in Types, DelAttr(t, k)
    PROVE  Inv'
<1> USE AttributeAssumption
    DEF Inv, TypeOK, WellFormed, Sorted, NoLoneProxy, Reachable, Writing, Created, Links,
        JAVA_PROXY_ATTR, Exceptions, Goto, reader
<1>1. CASE DelBare(t, k)
  BY <1>1, ObservedType DEF DelBare, Stay
<1>2. CASE DelHead(t, k)
  BY <1>2, ObservedType DEF DelHead, Stay
<1>3. CASE DelInside(t, k)
  <2>1. CASE UNCHANGED next
    BY <1>3, <2>1, ObservedType DEF DelInside, Stay
  <2>2. ASSUME NEW att \in Links, Precedes(att, k),
               next' = [next EXCEPT ![att] = next[next[att]]]
        PROVE  Inv'
    <3>1. /\ att \in Created /\ next[att] \in Created
          /\ next[next[att]] \in Links \cup {Null}
          /\ next[next[att]] # Null =>
                next[next[att]] \in Created /\ type[att] < type[next[next[att]]]
      <4>1. att \in Created /\ next[att] \in Created
        BY <2>2 DEF Precedes, Chain
      <4>2. ASSUME NEW l \in Created, NEW m \in Created, NEW n \in Links,
                   next[l] = m, next[m] = n
            PROVE  n \in Created /\ type[l] < type[n]
        <5> HIDE DEF Inv, TypeOK, NoLoneProxy, Reachable, Writing, Links, JAVA_PROXY_ATTR
        <5>1. /\ l \in Links /\ m \in Links /\ n # Null /\ m # Null
              /\ type[l] \in Int /\ type[m] \in Int /\ type[n] \in Int
          BY LinkFacts
        <5>2. n \in Created /\ type[l] < type[m] /\ type[m] < type[n]
          BY <4>2, <5>1 DEF Inv
        <5> QED BY <5>1, <5>2
      <4> QED BY <4>1, <4>2
    <3>2. TypeOK'
      BY <1>3, <2>2, <3>1, ObservedType DEF DelInside, Stay
    <3>3. Sorted'
      BY <1>3, <2>2, <3>1 DEF DelInside
    <3>4. NoLoneProxy' /\ Reachable' /\ Writing'
      BY <1>3, <2>2, <3>1 DEF DelInside, Stay
    <3> QED BY <3>2, <3>3, <3>4
  <2> QED BY <1>3, <2>1, <2>2 DEF DelInside
<1> QED BY <1>1, <1>2, <1>3 DEF DelAttr

LEMMA LeaveInv ==
    ASSUME Inv, NEW t \in Threads, Collapse(t) \/ Unwind(t)
    PROVE  Inv'
<1> USE AttributeAssumption
    DEF Inv, TypeOK, WellFormed, Sorted, NoLoneProxy, Reachable, Writing, Created, Links,
        JAVA_PROXY_ATTR, Exceptions, Goto, reader
<1>1. CASE Collapse(t)
  BY <1>1, ObservedType DEF Collapse, Leave
<1>2. CASE Unwind(t)
  BY <1>2, ObservedType DEF Unwind, Leave, listVars
<1> QED BY <1>1, <1>2

LEMMA ReadInv ==
    ASSUME Inv, NEW t \in Threads,
           \/ \E k \in Types : GetHead(t, k)
           \/ Read(t)
           \/ Return(t)
    PROVE  Inv'
<1> USE AttributeAssumption
    DEF Inv, TypeOK, WellFormed, Sorted, NoLoneProxy, Reachable, Writing, Created, Links,
        JAVA_PROXY_ATTR, Exceptions, Goto, listVars
<1>1. ASSUME NEW k \in Types, GetHead(t, k) PROVE Inv'
  BY <1>1 DEF GetHead
<1>2. CASE GetNext(t)
  BY <1>2 DEF GetNext, Short
<1>3. CASE GetValue(t)
  BY <1>3 DEF GetValue, Short
<1>4. CASE Return(t)
  BY <1>4 DEF Return
<1> QED BY <1>1, <1>2, <1>3, <1>4 DEF Read

LEMMA InvNext == Inv /\ [Next]_vars => Inv'
<1> SUFFICES ASSUME Inv, [Next]_vars PROVE Inv'
  OBVIOUS
<1>1. ASSUME NEW t \in Threads, NEW k \in Types, NEW v \in Values, SetAttr(t, k, v)
      PROVE  Inv'
  BY <1>1, SetAttrInv
<1>2. ASSUME NEW t \in Threads, NEW k \in Types, DelAttr(t, k) PROVE Inv'
  BY <1>2, DelAttrInv
<1>3. ASSUME NEW t \in Threads, ChainAfterProxy(t) \/ Collapse(t) \/ Unwind(t)
      PROVE  Inv'
  BY <1>3, ChainAfterProxyInv, LeaveInv
<1>4. ASSUME NEW t \in Threads, (\E k \in Types : GetHead(t, k)) \/ Read(t) \/ Return(t)
      PROVE  Inv'
  BY <1>4, ReadInv
<1>5. CASE UNCHANGED vars
  BY <1>5 DEF vars, listVars, Inv, TypeOK, WellFormed, Sorted, NoLoneProxy, Reachable,
              Writing, Created
<1> QED BY <1>1, <1>2, <1>3, <1>4, <1>5 DEF Next

LEMMA InvAlways == Spec => []Inv
<1>1. Init => Inv
  BY InvInit
<1>2. Inv /\ [Next]_vars => Inv'
  BY InvNext
<1> QED BY <1>1, <1>2, PTL DEF Spec

\* The list is well formed whatever writers do, and so is every removed link a reader
\* may still stand on.
THEOREM ListWellFormed == Spec => []WellFormed
<1>1. Inv => WellFormed
  BY DEF Inv
<1> QED BY <1>1, InvAlways, PTL

\* The walk of getAttr (JyAttribute.java:230-231) goes from a link to one of a higher
\* type, or to the end, at every step: it is no longer than the types are many, with
\* any writers and without a lock.
WalkForward ==
    [][\A t \in Threads : GetNext(t) /\ cursor'[t] # Null =>
          cursor'[t] \in Links /\ type[cursor[t]] < type[cursor'[t]]]_vars

THEOREM WalksForward == Spec => WalkForward
<1>1. ASSUME Inv, NEW t \in Threads, GetNext(t), cursor'[t] # Null
      PROVE  cursor'[t] \in Links /\ type[cursor[t]] < type[cursor'[t]]
  <2>1. cursor[t] \in Created /\ cursor[t] \in Links
    BY <1>1 DEF GetNext, Short, Inv, Reachable
  <2>2. cursor'[t] = next[cursor[t]]
    BY <1>1 DEF GetNext, Inv, TypeOK
  <2> QED BY <1>1, <2>1, <2>2, LinkFacts DEF Inv, WellFormed, Sorted, Created
<1>2. Inv /\ [Next]_vars =>
        [\A t \in Threads : GetNext(t) /\ cursor'[t] # Null =>
           cursor'[t] \in Links /\ type[cursor[t]] < type[cursor'[t]]]_vars
  BY <1>1
<1> QED BY <1>2, InvAlways, PTL DEF Spec, WalkForward
------------------------------------------------------------------------------
(* Lists.  h is what the field holds, and n, nx, ty and vl are the links made so far *)
(* and their fields.                                                                  *)

\* Links lead to later ones in the order of the types.
List(h, nx, ty, n) ==
    /\ n \in 0 .. MaxLinks /\ (h \in Links => h \in 1 .. n)
    /\ \A l \in 1 .. n : /\ l \in Links /\ ty[l] \in Types /\ ty[l] \in Int
                         /\ nx[l] = Null \/ (nx[l] \in 1 .. n /\ ty[l] < ty[nx[l]])
    /\ Null \notin 1 .. n

Follows(h, L, nx, n) ==
    /\ h \in 1 .. n => h \in L
    /\ \A m \in L : nx[m] \in 1 .. n => nx[m] \in L

From(h, nx, n) == {l \in 1 .. n : \A L \in SUBSET (1 .. n) : Follows(h, L, nx, n) => l \in L}

LEMMA ChainIsFrom == /\ Chain = From(attributes, next, made)
                     /\ Chain' = From(attributes', next', made')
  BY DEF Chain, From, Follows

\* The chain is the smallest set with the head and all that next leads to.
LEMMA FromFacts ==
    ASSUME NEW h, NEW nx, NEW n
    PROVE  /\ From(h, nx, n) \subseteq 1 .. n
           /\ h \in 1 .. n => h \in From(h, nx, n)
           /\ \A l \in From(h, nx, n) : nx[l] \in 1 .. n => nx[l] \in From(h, nx, n)
           /\ \A L \in SUBSET (1 .. n) : Follows(h, L, nx, n) => From(h, nx, n) \subseteq L
<1>1. ASSUME NEW l \in From(h, nx, n), nx[l] \in 1 .. n PROVE nx[l] \in From(h, nx, n)
  <2>1. ASSUME NEW L \in SUBSET (1 .. n), Follows(h, L, nx, n) PROVE nx[l] \in L
    <3>1. l \in L
      BY <2>1 DEF From
    <3>2. QED
      BY <1>1, <2>1, <3>1 DEF Follows
  <2>2. QED
    BY <1>1, <2>1 DEF From
<1>2. QED
  BY <1>1 DEF From, Follows

LEMMA FromNone == ASSUME NEW h, NEW nx, NEW n, h \notin 1 .. n PROVE From(h, nx, n) = {}
<1>1. Follows(h, {}, nx, n)
  BY DEF Follows
<1>2. QED
  BY <1>1 DEF From

\* What follows a link is of higher types, beginning with that of the next one.
LEMMA FromLink ==
    ASSUME NEW h, NEW nx, NEW ty, NEW n, List(h, nx, ty, n), NEW x \in 1 .. n
    PROVE  \A y \in From(x, nx, n) :
              y = x \/ (nx[x] \in 1 .. n /\ y \in From(nx[x], nx, n) /\ ty[nx[x]] <= ty[y])
<1>1. CASE nx[x] \notin 1 .. n
  <2>1. Follows(x, {x}, nx, n)
    BY <1>1 DEF Follows
  <2>2. From(x, nx, n) \subseteq {x}
    BY <2>1, FromFacts
  <2>3. QED
    BY <2>2
<1>2. CASE nx[x] \in 1 .. n
  <2> DEFINE z == nx[x]
             L == {x} \cup From(z, nx, n)
             H == {y \in 1 .. n : ty[z] <= ty[y]}
  <2>1. L \subseteq 1 .. n /\ Follows(x, L, nx, n)
    BY <1>2, FromFacts DEF Follows
  <2>2. Follows(z, H, nx, n)
    <3>1. \A y \in 1 .. n : ty[y] \in Int
      BY DEF List
    <3>2. z \in H
      BY <1>2, <3>1
    <3>3. ASSUME NEW y \in H, nx[y] \in 1 .. n PROVE nx[y] \in H
      <4>1. ty[y] < ty[nx[y]]
        BY <3>3 DEF List
      <4>2. QED
        BY <1>2, <3>1, <3>3, <4>1
    <3> HIDE DEF H
    <3>4. QED
      BY <3>2, <3>3 DEF Follows
  <2>3. From(x, nx, n) \subseteq L
    BY <2>1, FromFacts
  <2>4. From(z, nx, n) \subseteq H
    BY <2>2, FromFacts
  <2>5. QED
    BY <1>2, <2>3, <2>4
<1>3. QED
  BY <1>1, <1>2

\* The links of a list are in the order of their types, and between a link and the next
\* there is no type.
LEMMA ChainOrder ==
    ASSUME NEW h, NEW nx, NEW ty, NEW n, List(h, nx, ty, n),
           NEW x \in From(h, nx, n), NEW y \in From(h, nx, n), x # y
    PROVE  \/ nx[x] \in 1 .. n /\ ty[nx[x]] <= ty[y] /\ ty[x] < ty[y]
           \/ nx[y] \in 1 .. n /\ ty[nx[y]] <= ty[x] /\ ty[y] < ty[x]
<1> DEFINE Z == {z \in 1 .. n : x \in From(z, nx, n)} \cup From(x, nx, n)
<1>1. x \in 1 .. n /\ y \in 1 .. n /\ x \in From(x, nx, n) /\ Z \subseteq 1 .. n
  BY FromFacts
<1>2. ASSUME NEW z \in Z, nx[z] \in 1 .. n PROVE nx[z] \in Z
  <2>1. CASE z \in From(x, nx, n)
    BY <1>1, <1>2, <2>1, FromFacts
  <2>2. CASE x \in From(z, nx, n) /\ z \in 1 .. n
    <3>1. x = z \/ x \in From(nx[z], nx, n)
      BY <2>2, FromLink
    <3>2. x = z => nx[z] \in From(x, nx, n)
      BY <1>1, <1>2, FromFacts
    <3>3. QED
      BY <1>2, <3>1, <3>2
  <2>3. QED
    BY <1>2, <2>1, <2>2
<1>3. Follows(h, Z, nx, n)
  BY <1>2 DEF Follows
<1>4. y \in Z
  BY <1>1, <1>3, FromFacts
<1>5. ASSUME NEW a \in 1 .. n, NEW b \in From(a, nx, n), a # b
      PROVE  nx[a] \in 1 .. n /\ ty[nx[a]] <= ty[b] /\ ty[a] < ty[b]
  <2>1. nx[a] \in 1 .. n /\ ty[nx[a]] <= ty[b]
    BY <1>5, FromLink
  <2>2. ty[a] < ty[nx[a]] /\ ty[a] \in Int /\ ty[nx[a]] \in Int /\ ty[b] \in Int
    BY <2>1, FromFacts DEF List
  <2>3. QED
    BY <2>1, <2>2
<1>6. QED
  BY <1>1, <1>4, <1>5

\* The map of a list: the value of its link of each type, which is the only one.
MapOf(C, ty, vl, h) ==
    [k \in Types |-> IF \E l \in C : ty[l] = k THEN vl[CHOOSE l \in C : ty[l] = k]
                     ELSE IF k = JAVA_PROXY_ATTR /\ h \in Values THEN h ELSE Null]

LEMMA ContentIsMap == /\ Content = MapOf(Chain, type, value, attributes)
                      /\ Content' = MapOf(Chain', type', value', attributes')
  BY DEF Content, MapOf

\* No two links have the same type.
Distinct(C, ty) == \A x, y \in C : x # y => ty[x] # ty[y]

LEMMA MapFacts ==
    ASSUME NEW C, NEW ty, NEW vl, NEW h, NEW k \in Types, Distinct(C, ty)
    PROVE  /\ \A l \in C : ty[l] = k => MapOf(C, ty, vl, h)[k] = vl[l]
           /\ (\A l \in C : ty[l] # k) =>
                 MapOf(C, ty, vl, h)[k] = IF k = JAVA_PROXY_ATTR /\ h \in Values THEN h ELSE Null
<1>1. ASSUME NEW l \in C, ty[l] = k PROVE MapOf(C, ty, vl, h)[k] = vl[l]
  <2>1. (CHOOSE m \in C : ty[m] = k) = l
    BY <1>1 DEF Distinct
  <2>2. QED
    BY <1>1, <2>1 DEF MapOf
<1>2. QED
  BY <1>1 DEF MapOf
------------------------------------------------------------------------------
(* What a write does to the list. *)

\* A link is put before the others, or is the only one.
LEMMA FromHead ==
    ASSUME NEW h, NEW nx, NEW n \in Nat, NEW mx,
           \A l \in 1 .. n : mx[l] = nx[l] /\ (nx[l] \in 1 .. n + 1 => nx[l] \in 1 .. n),
           mx[n + 1] = h \/ (h \notin 1 .. n /\ mx[n + 1] \notin 1 .. n + 1),
           h \in 1 .. n + 1 => h \in 1 .. n
    PROVE  From(n + 1, mx, n + 1) = {n + 1} \cup From(h, nx, n)
<1> DEFINE X == {n + 1} \cup From(h, nx, n)
<1>0. 1 .. n \subseteq 1 .. n + 1 /\ n + 1 \in 1 .. n + 1 /\ n + 1 \notin 1 .. n
      /\ \A l \in 1 .. n + 1 : l = n + 1 \/ l \in 1 .. n
  OBVIOUS
<1>1. X \in SUBSET (1 .. n + 1)
  BY <1>0, FromFacts
<1>2. ASSUME NEW m \in X, mx[m] \in 1 .. n + 1 PROVE mx[m] \in X
  <2>1. CASE m = n + 1
    BY <1>0, <1>2, <2>1, FromFacts
  <2>2. CASE m \in From(h, nx, n)
    <3>1. m \in 1 .. n
      BY <2>2, FromFacts
    <3>2. mx[m] = nx[m] /\ nx[m] \in 1 .. n
      BY <1>2, <3>1
    <3>3. QED
      BY <2>2, <3>2, FromFacts
  <2>3. QED
    BY <1>2, <2>1, <2>2
<1>3. Follows(n + 1, X, mx, n + 1)
  BY <1>2 DEF Follows
<1>4. From(n + 1, mx, n + 1) \subseteq X
  BY <1>1, <1>3, FromFacts
<1>5. ASSUME NEW L \in SUBSET (1 .. n + 1), Follows(n + 1, L, mx, n + 1) PROVE X \subseteq L
  <2> DEFINE K == L \cap (1 .. n)
  <2>1. n + 1 \in L
    BY <1>0, <1>5 DEF Follows
  <2>2. ASSUME NEW m \in K, nx[m] \in 1 .. n PROVE nx[m] \in K
    BY <1>0, <1>5, <2>2 DEF Follows
  <2>3. h \in 1 .. n => h \in K
    BY <1>0, <1>5, <2>1 DEF Follows
  <2>4. Follows(h, K, nx, n)
    BY <2>2, <2>3 DEF Follows
  <2>5. From(h, nx, n) \subseteq K
    BY <2>4, FromFacts
  <2>6. QED
    BY <2>1, <2>5
<1>6. X \subseteq From(n + 1, mx, n + 1)
  BY <1>1, <1>5 DEF From
<1>7. QED
  BY <1>4, <1>6

\* A link is put after a.
LEMMA FromInsert ==
    ASSUME NEW h, NEW nx, NEW n \in Nat, NEW a \in From(h, nx, n), NEW mx,
           \A l \in 1 .. n : nx[l] \in 1 .. n + 1 => nx[l] \in 1 .. n,
           \A l \in 1 .. n : l # a => mx[l] = nx[l],
           mx[a] = n + 1, mx[n + 1] = nx[a],
           h \in 1 .. n + 1 => h \in 1 .. n
    PROVE  From(h, mx, n + 1) = From(h, nx, n) \cup {n + 1}
<1> DEFINE X == From(h, nx, n) \cup {n + 1}
<1>0. 1 .. n \subseteq 1 .. n + 1 /\ n + 1 \in 1 .. n + 1 /\ n + 1 \notin 1 .. n
      /\ \A l \in 1 .. n + 1 : l = n + 1 \/ l \in 1 .. n
  OBVIOUS
<1>1. X \in SUBSET (1 .. n + 1) /\ a \in 1 .. n
  BY <1>0, FromFacts
<1>2. ASSUME NEW m \in X, mx[m] \in 1 .. n + 1 PROVE mx[m] \in X
  <2>1. CASE m = n + 1
    BY <1>1, <1>2, <2>1, FromFacts
  <2>2. CASE m \in From(h, nx, n)
    <3>1. m \in 1 .. n
      BY <2>2, FromFacts
    <3>2. m # a => mx[m] = nx[m] /\ nx[m] \in 1 .. n
      BY <1>2, <3>1
    <3>3. QED
      BY <2>2, <3>2, FromFacts
  <2>3. QED
    BY <1>2, <2>1, <2>2
<1>3. Follows(h, X, mx, n + 1)
  BY <1>0, <1>2, FromFacts DEF Follows
<1>4. From(h, mx, n + 1) \subseteq X
  BY <1>1, <1>3, FromFacts
<1>5. ASSUME NEW L \in SUBSET (1 .. n + 1), Follows(h, L, mx, n + 1) PROVE X \subseteq L
  <2> DEFINE K == L \cap (1 .. n)
  <2>2. ASSUME NEW m \in K, nx[m] \in 1 .. n PROVE nx[m] \in K
    <3>1. CASE m # a
      BY <1>0, <1>5, <2>2, <3>1 DEF Follows
    <3>2. CASE m = a
      <4>1. n + 1 \in L
        BY <1>0, <1>5, <2>2, <3>2 DEF Follows
      <4>2. QED
        BY <1>0, <1>5, <2>2, <3>2, <4>1 DEF Follows
    <3>3. QED
      BY <3>1, <3>2
  <2>3. h \in 1 .. n => h \in K
    BY <1>0, <1>5 DEF Follows
  <2>4. Follows(h, K, nx, n)
    BY <2>2, <2>3 DEF Follows
  <2>5. From(h, nx, n) \subseteq K
    BY <2>4, FromFacts
  <2>6. n + 1 \in L
    BY <1>0, <1>1, <1>5, <2>5 DEF Follows
  <2>7. QED
    BY <2>5, <2>6
<1>6. X \subseteq From(h, mx, n + 1)
  BY <1>1, <1>5 DEF From
<1>7. QED
  BY <1>4, <1>6

\* The first link is removed.
LEMMA FromNext ==
    ASSUME NEW h, NEW nx, NEW ty, NEW n, List(h, nx, ty, n), h \in 1 .. n
    PROVE  From(nx[h], nx, n) = From(h, nx, n) \ {h}
<1>1. CASE nx[h] \notin 1 .. n
  BY <1>1, FromNone, FromLink, FromFacts
<1>2. CASE nx[h] \in 1 .. n
  <2>1. From(nx[h], nx, n) \subseteq From(h, nx, n)
    <3>1. Follows(nx[h], From(h, nx, n), nx, n)
      BY FromFacts DEF Follows
    <3>2. QED
      BY <3>1, FromFacts
  <2>2. From(h, nx, n) \ {h} \subseteq From(nx[h], nx, n)
    BY FromLink
  <2>3. h \notin From(nx[h], nx, n)
    <3> SUFFICES ASSUME h \in From(nx[h], nx, n) PROVE FALSE
      OBVIOUS
    <3>1. ty[h] < ty[nx[h]] /\ ty[h] \in Int /\ ty[nx[h]] \in Int
      BY <1>2 DEF List
    <3>2. h = nx[h] \/ (ty[nx[nx[h]]] <= ty[h] /\ nx[nx[h]] \in 1 .. n)
      BY <1>2, FromLink
    <3>3. nx[nx[h]] \in 1 .. n => ty[nx[h]] < ty[nx[nx[h]]] /\ ty[nx[nx[h]]] \in Int
      BY <1>2 DEF List
    <3>4. QED
      BY <3>1, <3>2, <3>3
  <2>4. QED
    BY <2>1, <2>2, <2>3
<1>3. QED
  BY <1>1, <1>2

\* The link after a is removed.
LEMMA FromRemove ==
    ASSUME NEW h, NEW nx, NEW ty, NEW n, List(h, nx, ty, n), NEW a \in From(h, nx, n),
           nx[a] \in 1 .. n, NEW mx,
           \A l \in 1 .. n : l # a => mx[l] = nx[l],
           mx[a] = nx[nx[a]]
    PROVE  From(h, mx, n) = From(h, nx, n) \ {nx[a]}
<1> DEFINE d == nx[a]
           X == From(h, nx, n) \ {d}
<1>1. a \in 1 .. n /\ d \in From(h, nx, n) /\ X \in SUBSET (1 .. n)
  BY FromFacts
<1>2. ty[a] < ty[d] /\ ty[a] \in Int /\ ty[d] \in Int
  BY <1>1 DEF List
<1>3. nx[d] \in 1 .. n => ty[d] < ty[nx[d]]
  BY <1>1 DEF List
<1>4. ASSUME NEW m \in From(h, nx, n), m # a, nx[m] = d PROVE FALSE
  <2>1. ty[m] < ty[d] /\ ty[m] \in Int
    BY <1>1, <1>4, FromFacts DEF List
  <2>2. QED
    BY <1>2, <1>4, <2>1, ChainOrder
<1>5. h # d
  <2> SUFFICES ASSUME h = d PROVE FALSE
    OBVIOUS
  <2>1. a = d \/ (nx[d] \in 1 .. n /\ ty[nx[d]] <= ty[a] /\ ty[nx[d]] \in Int)
    BY <1>1, FromLink DEF List
  <2>2. QED
    BY <1>2, <1>3, <2>1
<1>6. ASSUME NEW m \in X, mx[m] \in 1 .. n PROVE mx[m] \in X
  <2>1. CASE m = a
    <3>1. nx[d] # d
      BY <1>2, <1>3, <1>6, <2>1
    <3>2. QED
      BY <1>1, <1>6, <2>1, <3>1, FromFacts
  <2>2. CASE m # a
    BY <1>1, <1>4, <1>6, <2>2, FromFacts
  <2>3. QED
    BY <2>1, <2>2
<1>7. Follows(h, X, mx, n)
  BY <1>5, <1>6, FromFacts DEF Follows
<1>8. From(h, mx, n) \subseteq X
  BY <1>1, <1>7, FromFacts
<1>9. ASSUME NEW L \in SUBSET (1 .. n), Follows(h, L, mx, n) PROVE X \subseteq L
  <2>1. a \in L
    <3> SUFFICES ASSUME a \notin L PROVE FALSE
      OBVIOUS
    <3>1. Follows(h, L, nx, n)
      BY <1>9 DEF Follows
    <3>2. QED
      BY <3>1, FromFacts
  <2>2. nx[d] \in 1 .. n => nx[d] \in L
    BY <1>9, <2>1 DEF Follows
  <2>3. ASSUME NEW m \in L \cup {d}, nx[m] \in 1 .. n PROVE nx[m] \in L \cup {d}
    <3>1. CASE m = a \/ m = d
      BY <2>2, <2>3, <3>1
    <3>2. CASE m # a /\ m # d
      BY <1>9, <2>3, <3>2 DEF Follows
    <3>3. QED
      BY <3>1, <3>2
  <2>4. Follows(h, L \cup {d}, nx, n)
    BY <1>9, <2>3 DEF Follows
  <2>5. From(h, nx, n) \subseteq L \cup {d}
    BY <1>1, <2>4, FromFacts
  <2>6. QED
    BY <2>5
<1>10. X \subseteq From(h, mx, n)
  BY <1>1, <1>9 DEF From
<1>11. QED
  BY <1>8, <1>10

\* The map of a list with one more link, with another value in one, and without one.
Put(f, y, w) == [f EXCEPT ![y] = w]

LEMMA MapWritten ==
    ASSUME NEW C, NEW ty, NEW vl, NEW h, NEW D, NEW uy, NEW wl, NEW g, NEW y \in Types, NEW w,
           \A k \in Types : MapOf(D, uy, wl, g)[k] = IF k = y THEN w ELSE MapOf(C, ty, vl, h)[k]
    PROVE  MapOf(D, uy, wl, g) = Put(MapOf(C, ty, vl, h), y, w)
<1> DEFINE f == MapOf(C, ty, vl, h)
           e == MapOf(D, uy, wl, g)
<1>1. f = [k \in Types |-> f[k]]
  BY Zenon DEF MapOf
<1>2. e = [k \in Types |-> e[k]]
  BY Zenon DEF MapOf
<1>3. \A k \in Types : e[k] = IF k = y THEN w ELSE f[k]
  OBVIOUS
<1> HIDE DEF e, f
<1>4. e = Put(f, y, w)
  BY <1>1, <1>2, <1>3 DEF Put
<1>5. QED
  BY <1>4 DEF e, f

\* The links of C are as they were, and x is not of their types.
Beside(C, x, ty, vl, uy, wl) ==
    \A l \in C : uy[l] = ty[l] /\ wl[l] = vl[l] /\ ty[l] # uy[x]

LEMMA MapGrows ==
    ASSUME NEW C, NEW x, x \notin C, NEW ty, NEW vl, NEW h, NEW uy, NEW wl, NEW g,
           Beside(C, x, ty, vl, uy, wl), Distinct(C, ty),
           uy[x] \in Types, g \notin Values, h \in Values => uy[x] = JAVA_PROXY_ATTR
    PROVE  MapOf(C \cup {x}, uy, wl, g) = Put(MapOf(C, ty, vl, h), uy[x], wl[x])
<1> DEFINE D == C \cup {x}
<1>1. Distinct(D, uy) /\ C \subseteq D /\ x \in D
  BY DEF Distinct, Beside
<1>2. \A l \in D : l = x \/ l \in C
  OBVIOUS
<1> HIDE DEF D
<1>3. ASSUME NEW k \in Types
      PROVE  MapOf(D, uy, wl, g)[k] = IF k = uy[x] THEN wl[x] ELSE MapOf(C, ty, vl, h)[k]
  <2>1. CASE k = uy[x]
    BY <1>1, <2>1, MapFacts
  <2>2. ASSUME NEW l \in C, ty[l] = k
        PROVE  MapOf(D, uy, wl, g)[k] = MapOf(C, ty, vl, h)[k] /\ k # uy[x]
    <3>1. MapOf(C, ty, vl, h)[k] = vl[l]
      BY <2>2, MapFacts
    <3>2. uy[l] = k /\ wl[l] = vl[l] /\ k # uy[x] /\ l \in D
      BY <1>1, <2>2 DEF Beside
    <3>3. MapOf(D, uy, wl, g)[k] = wl[l]
      BY <1>1, <3>2, MapFacts
    <3>4. QED
      BY <3>1, <3>2, <3>3
  <2>3. CASE k # uy[x] /\ \A l \in C : ty[l] # k
    <3>1. MapOf(C, ty, vl, h)[k] = Null
      BY <2>3, MapFacts
    <3>2. \A l \in D : uy[l] # k
      BY <1>2, <2>3 DEF Beside
    <3>3. MapOf(D, uy, wl, g)[k] = Null
      BY <1>1, <3>2, MapFacts
    <3>4. QED
      BY <2>3, <3>1, <3>3
  <2>4. QED
    BY <2>1, <2>2, <2>3
<1>4. MapOf(D, uy, wl, g) = Put(MapOf(C, ty, vl, h), uy[x], wl[x])
  BY <1>3, MapWritten
<1>5. QED
  BY <1>4 DEF D

LEMMA MapChanges ==
    ASSUME NEW C, NEW x \in C, NEW ty, NEW vl, NEW h, NEW wl,
           \A l \in C : l # x => wl[l] = vl[l], Distinct(C, ty), ty[x] \in Types
    PROVE  MapOf(C, ty, wl, h) = Put(MapOf(C, ty, vl, h), ty[x], wl[x])
<1>1. ASSUME NEW k \in Types
      PROVE  MapOf(C, ty, wl, h)[k] = IF k = ty[x] THEN wl[x] ELSE MapOf(C, ty, vl, h)[k]
  <2>1. CASE k = ty[x]
    BY <2>1, MapFacts
  <2>2. ASSUME k # ty[x], NEW l \in C, ty[l] = k
        PROVE  MapOf(C, ty, wl, h)[k] = MapOf(C, ty, vl, h)[k]
    <3>1. MapOf(C, ty, vl, h)[k] = vl[l] /\ MapOf(C, ty, wl, h)[k] = wl[l]
      BY <2>2, MapFacts
    <3>2. QED
      BY <2>2, <3>1
  <2>3. CASE \A l \in C : ty[l] # k
    BY <2>3, MapFacts
  <2>4. QED
    BY <2>1, <2>2, <2>3
<1>2. QED
  BY <1>1, MapWritten

LEMMA MapShrinks ==
    ASSUME NEW C, NEW x \in C, NEW ty, NEW vl, NEW h, NEW g, h \notin Values, g \notin Values,
           Distinct(C, ty), ty[x] \in Types
    PROVE  MapOf(C \ {x}, ty, vl, g) = Put(MapOf(C, ty, vl, h), ty[x], Null)
<1> DEFINE D == C \ {x}
<1>1. Distinct(D, ty) /\ \A l \in C : l = x \/ l \in D
  BY DEF Distinct
<1>2. \A l \in D : l \in C /\ ty[l] # ty[x]
  BY DEF Distinct
<1> HIDE DEF D
<1>3. ASSUME NEW k \in Types
      PROVE  MapOf(D, ty, vl, g)[k] = IF k = ty[x] THEN Null ELSE MapOf(C, ty, vl, h)[k]
  <2>1. CASE \A l \in D : ty[l] # k
    <3>1. MapOf(D, ty, vl, g)[k] = Null
      BY <1>1, <2>1, MapFacts
    <3>2. k # ty[x] => \A l \in C : ty[l] # k
      BY <1>1, <2>1
    <3>3. k # ty[x] => MapOf(C, ty, vl, h)[k] = Null
      BY <3>2, MapFacts
    <3>4. QED
      BY <3>1, <3>3
  <2>2. ASSUME NEW l \in D, ty[l] = k
        PROVE  MapOf(D, ty, vl, g)[k] = MapOf(C, ty, vl, h)[k] /\ k # ty[x]
    <3>1. MapOf(D, ty, vl, g)[k] = vl[l]
      BY <1>1, <2>2, MapFacts
    <3>2. l \in C /\ k # ty[x]
      BY <1>2, <2>2
    <3>3. MapOf(C, ty, vl, h)[k] = vl[l]
      BY <2>2, <3>2, MapFacts
    <3>4. QED
      BY <3>1, <3>2, <3>3
  <2>3. QED
    BY <2>1, <2>2
<1>4. MapOf(D, ty, vl, g) = Put(MapOf(C, ty, vl, h), ty[x], Null)
  BY <1>3, MapWritten
<1>5. QED
  BY <1>4 DEF D
------------------------------------------------------------------------------
(* What a write does to the map. *)

LEMMA ListNow == /\ Inv => List(attributes, next, type, made)
                 /\ Inv' => List(attributes', next', type', made')
<1> USE AttributeAssumption DEF Inv, TypeOK, WellFormed, Sorted, Reachable, Created, Links, List
<1>0. \A k \in Types : k \in Int
  OBVIOUS
<1>1. ASSUME Inv PROVE List(attributes, next, type, made)
  <2>1. ASSUME NEW l \in 1 .. made
        PROVE  /\ l \in Links /\ type[l] \in Types
               /\ next[l] = Null \/ (next[l] \in 1 .. made /\ type[l] < type[next[l]])
    BY <1>1, <2>1
  <2>2. QED
    BY <1>0, <1>1, <2>1
<1>2. ASSUME Inv' PROVE List(attributes', next', type', made')
  <2>1. ASSUME NEW l \in 1 .. made'
        PROVE  /\ l \in Links /\ type'[l] \in Types
               /\ next'[l] = Null \/ (next'[l] \in 1 .. made' /\ type'[l] < type'[next'[l]])
    BY <1>2, <2>1
  <2>2. QED
    BY <1>0, <1>2, <2>1
<1>3. QED
  BY <1>1, <1>2

LEMMA ChainFacts ==
    ASSUME Inv
    PROVE  /\ Chain \subseteq 1 .. made /\ made \in Nat /\ made <= MaxLinks
           /\ attributes \in Links => attributes \in Chain /\ attributes \notin Values
           /\ attributes \notin Links => Chain = {} /\ attributes \notin 1 .. made
           /\ \A l \in Chain : l \in Links /\ type[l] \in Types /\ type[l] \in Int
           /\ \A l \in Chain : next[l] = Null
                                \/ (next[l] \in Chain /\ type[l] < type[next[l]] /\ next[l] # Null)
           /\ Distinct(Chain, type)
           /\ \A x, y \in Chain : type[x] < type[y] =>
                 next[x] \in Chain /\ next[x] # Null /\ type[next[x]] <= type[y]
<1>0. List(attributes, next, type, made) /\ Chain = From(attributes, next, made)
  BY ListNow, ChainIsFrom
<1>1. /\ made \in Nat /\ made <= MaxLinks /\ MaxLinks \in Nat
      /\ Links \cap Values = {} /\ 1 .. made \subseteq Links
  BY <1>0, AttributeAssumption DEF List, Links
<1>2. attributes \in Links => attributes \in 1 .. made
  BY <1>0 DEF List
<1>3. attributes \notin Links => attributes \notin 1 .. made
  BY <1>1
<1>4. \A l \in Chain : l \in 1 .. made
  BY <1>0, FromFacts
<1>5. \A l \in Chain : l \in Links /\ type[l] \in Types /\ type[l] \in Int
  BY <1>0, <1>4 DEF List
<1>6. \A l \in Chain : next[l] = Null
                        \/ (next[l] \in Chain /\ type[l] < type[next[l]] /\ next[l] # Null)
  BY <1>0, <1>4, FromFacts DEF List
<1>7. ASSUME NEW x \in Chain, NEW y \in Chain, x # y
      PROVE  \/ next[x] \in 1 .. made /\ type[next[x]] <= type[y] /\ type[x] < type[y]
             \/ next[y] \in 1 .. made /\ type[next[y]] <= type[x] /\ type[y] < type[x]
  BY <1>0, <1>7, ChainOrder
<1>8. Distinct(Chain, type)
  BY <1>5, <1>7 DEF Distinct
<1>9. ASSUME NEW x \in Chain, NEW y \in Chain, type[x] < type[y]
      PROVE  next[x] \in Chain /\ next[x] # Null /\ type[next[x]] <= type[y]
  <2>1. x # y
    BY <1>5, <1>9
  <2>2. next[x] \in 1 .. made /\ type[next[x]] <= type[y]
    BY <1>5, <1>7, <1>9, <2>1
  <2>3. next[x] # Null
    BY <1>0, <2>2 DEF List
  <2>4. QED
    BY <1>6, <2>2, <2>3
<1>10. QED
  BY <1>0, <1>1, <1>2, <1>3, <1>4, <1>5, <1>6, <1>8, <1>9, FromFacts, FromNone

\* What the map has for a type.
LEMMA ContentFacts ==
    ASSUME Inv, NEW k \in Types
    PROVE  /\ \A l \in Chain : type[l] = k => Content[k] = value[l]
           /\ (\A l \in Chain : type[l] # k) =>
                 Content[k] = IF k = JAVA_PROXY_ATTR /\ attributes \in Values THEN attributes
                              ELSE Null
  BY ChainFacts, MapFacts, ContentIsMap

LEMMA BareEffect ==
    ASSUME Inv, Inv', attributes \notin Links, attributes' \notin Links,
           NEW v, v = Null \/ v \in Values, attributes' = v
    PROVE  Content' = [Content EXCEPT ![JAVA_PROXY_ATTR] = v]
<1>1. Chain = {} /\ Chain' = {}
  BY ListNow, ChainIsFrom, FromNone, AttributeAssumption DEF List, Links
<1>2. ASSUME NEW k \in Types
      PROVE  Content'[k] = IF k = JAVA_PROXY_ATTR THEN v ELSE Content[k]
  <2>1. Content'[k] = IF k = JAVA_PROXY_ATTR /\ attributes' \in Values THEN attributes' ELSE Null
    BY <1>1 DEF Content
  <2>2. Content[k] = IF k = JAVA_PROXY_ATTR /\ attributes \in Values THEN attributes ELSE Null
    BY <1>1 DEF Content
  <2>3. QED
    BY <2>1, <2>2
<1>3. QED
  <2>1. Content' = [k \in Types |-> IF k = JAVA_PROXY_ATTR THEN v ELSE Content[k]]
    BY <1>2 DEF Content
  <2>2. QED
    BY <2>1 DEF Content

\* A new head.
LEMMA HeadEffect ==
    ASSUME Inv, Inv', NEW k \in Types, NEW v, NewLink(k, v), attributes' = made + 1,
           \A l \in 1 .. made : next'[l] = next[l],
           next'[made + 1] = IF attributes \in Links THEN attributes ELSE Null,
           \A l \in Chain : type[l] # k, attributes \in Values => k = JAVA_PROXY_ATTR
    PROVE  Content' = [Content EXCEPT ![k] = v]
<1>1. made \in Nat /\ made' = made + 1 /\ made + 1 \in Links /\ made + 1 \notin 1 .. made
      /\ Null \notin 1 .. made + 1 /\ made + 1 \notin Values
  BY ChainFacts, AttributeAssumption DEF NewLink, Links
<1>2. /\ type'[made + 1] = k /\ value'[made + 1] = v
      /\ \A l \in 1 .. made : type'[l] = type[l] /\ value'[l] = value[l]
  BY <1>1, ChainFacts, AttributeAssumption DEF NewLink, Inv, TypeOK, Links
<1>3. \A l \in 1 .. made : next'[l] = next[l]
                           /\ (next[l] \in 1 .. made + 1 => next[l] \in 1 .. made)
  BY <1>1, ListNow DEF List
<1>4. /\ next'[made + 1] = attributes
         \/ (attributes \notin 1 .. made /\ next'[made + 1] \notin 1 .. made + 1)
      /\ attributes \in 1 .. made + 1 => attributes \in 1 .. made
  BY <1>1, ListNow, ChainFacts DEF List, Links
<1>5. From(made + 1, next', made + 1) = {made + 1} \cup From(attributes, next, made)
  BY <1>1, <1>3, <1>4, FromHead
<1>6. Chain' = Chain \cup {made + 1}
  BY <1>1, <1>5, ChainIsFrom
<1>7. \A l \in Chain : l \in 1 .. made
  BY ChainFacts
<1>8. Distinct(Chain, type)
  BY ChainFacts
<1>9. MapOf(Chain \cup {made + 1}, type', value', attributes') =
         Put(MapOf(Chain, type, value, attributes), type'[made + 1], value'[made + 1])
  <2> DEFINE x == made + 1
  <2>1. x \notin Chain /\ type'[x] \in Types /\ attributes' \notin Values
        /\ (attributes \in Values => type'[x] = JAVA_PROXY_ATTR)
    BY <1>1, <1>2, <1>7
  <2>2. Beside(Chain, x, type, value, type', value')
    BY <1>2, <1>7 DEF Beside
  <2> HIDE DEF x
  <2>3. MapOf(Chain \cup {x}, type', value', attributes') =
           Put(MapOf(Chain, type, value, attributes), type'[x], value'[x])
    BY <1>8, <2>1, <2>2, MapGrows
  <2>4. QED
    BY <2>3 DEF x
<1>10. QED
  BY <1>2, <1>6, <1>9, ContentIsMap DEF Put

\* A new link after a.
LEMMA InsertEffect ==
    ASSUME Inv, Inv', NEW k \in Types, NEW v, NewLink(k, v), attributes' = attributes,
           NEW a \in Chain, \A l \in 1 .. made : l # a => next'[l] = next[l],
           next'[a] = made + 1, next'[made + 1] = next[a],
           \A l \in Chain : type[l] # k
    PROVE  Content' = [Content EXCEPT ![k] = v]
<1>1. made \in Nat /\ made' = made + 1 /\ made + 1 \in Links /\ made + 1 \notin 1 .. made
      /\ Null \notin 1 .. made + 1 /\ made + 1 \notin Values
  BY ChainFacts, AttributeAssumption DEF NewLink, Links
<1>2. /\ type'[made + 1] = k /\ value'[made + 1] = v
      /\ \A l \in 1 .. made : type'[l] = type[l] /\ value'[l] = value[l]
  BY <1>1, ChainFacts, AttributeAssumption DEF NewLink, Inv, TypeOK, Links
<1>3. \A l \in 1 .. made : next[l] \in 1 .. made + 1 => next[l] \in 1 .. made
  BY <1>1, ListNow DEF List
<1>4. attributes \in Links /\ attributes \notin Values
      /\ (attributes \in 1 .. made + 1 => attributes \in 1 .. made)
  BY <1>1, ListNow, ChainFacts DEF List, Links
<1>5. From(attributes, next', made + 1) = From(attributes, next, made) \cup {made + 1}
  <2> DEFINE h == attributes
  <2>1. a \in From(h, next, made)
    BY ChainIsFrom
  <2>2. h \in 1 .. made + 1 => h \in 1 .. made
    BY <1>4
  <2> HIDE DEF h
  <2>3. From(h, next', made + 1) = From(h, next, made) \cup {made + 1}
    BY <1>1, <1>3, <2>1, <2>2, FromInsert
  <2>4. QED
    BY <2>3 DEF h
<1>6. Chain' = Chain \cup {made + 1}
  BY <1>1, <1>5, ChainIsFrom
<1>7. \A l \in Chain : l \in 1 .. made
  BY ChainFacts
<1>8. Distinct(Chain, type)
  BY ChainFacts
<1>9. MapOf(Chain \cup {made + 1}, type', value', attributes') =
         Put(MapOf(Chain, type, value, attributes), type'[made + 1], value'[made + 1])
  <2> DEFINE x == made + 1
  <2>1. /\ x \notin Chain /\ type'[x] \in Types
        /\ attributes' \notin Values /\ attributes \notin Values
    BY <1>1, <1>2, <1>4, <1>7
  <2>2. Beside(Chain, x, type, value, type', value')
    BY <1>2, <1>7 DEF Beside
  <2> HIDE DEF x
  <2>3. MapOf(Chain \cup {x}, type', value', attributes') =
           Put(MapOf(Chain, type, value, attributes), type'[x], value'[x])
    BY <1>8, <2>1, <2>2, MapGrows
  <2>4. QED
    BY <2>3 DEF x
<1>10. QED
  BY <1>2, <1>6, <1>9, ContentIsMap DEF Put

\* A link that is removed.
LEMMA RemoveEffect ==
    ASSUME Inv, NEW d \in Chain, Chain' = Chain \ {d}, type' = type, value' = value,
           attributes' \notin Values
    PROVE  Content' = [Content EXCEPT ![type[d]] = Null]
<1>1. attributes \notin Values /\ type[d] \in Types
      /\ Distinct(Chain, type)
  BY ChainFacts
<1>2. MapOf(Chain \ {d}, type, value, attributes') =
         Put(MapOf(Chain, type, value, attributes), type[d], Null)
  BY <1>1, MapShrinks
<1>3. QED
  BY <1>2, ContentIsMap DEF Put

LEMMA NothingWritten ==
    ASSUME UNCHANGED listVars PROVE Content' = Content
  BY DEF listVars, Content, Chain

LEMMA FromPredecessor ==
    ASSUME NEW h, NEW nx, NEW n, NEW y \in From(h, nx, n), y # h
    PROVE  \E p \in From(h, nx, n) : nx[p] = y
<1> DEFINE L == {l \in From(h, nx, n) : l = h \/ \E p \in From(h, nx, n) : nx[p] = l}
<1>1. L \in SUBSET (1 .. n)
  BY FromFacts
<1>2. ASSUME NEW m \in L, nx[m] \in 1 .. n PROVE nx[m] \in L
  BY <1>2, FromFacts
<1>3. h \in 1 .. n => h \in L
  BY FromFacts
<1>4. Follows(h, L, nx, n)
  BY <1>2, <1>3 DEF Follows
<1>5. y \in L
  BY <1>1, <1>4, FromFacts
<1>6. QED
  BY <1>5

\* The head is the first, and each other link has one before it.
LEMMA HeadFacts ==
    ASSUME Inv, NEW l \in Chain
    PROVE  /\ attributes \in Links /\ attributes \in Chain
           /\ l # attributes => /\ type[attributes] < type[l] /\ next[attributes] # Null
                                /\ \E p \in Chain : next[p] = l
<1>1. attributes \in Links /\ attributes \in Chain
  BY ChainFacts
<1>2. ASSUME l # attributes PROVE type[attributes] < type[l] /\ next[attributes] # Null
  <2>1. List(attributes, next, type, made) /\ Chain = From(attributes, next, made)
    BY ListNow, ChainIsFrom
  <2>2. attributes \in 1 .. made
    BY <1>1, ChainFacts
  <2>3. next[attributes] \in 1 .. made /\ type[next[attributes]] <= type[l]
    BY <1>2, <2>1, <2>2, FromLink
  <2>4. /\ type[attributes] < type[next[attributes]] /\ next[attributes] # Null
        /\ type[attributes] \in Int /\ type[next[attributes]] \in Int /\ type[l] \in Int
    BY <2>1, <2>2, <2>3, ChainFacts DEF List
  <2>5. QED
    BY <2>3, <2>4
<1>3. l # attributes => \E p \in Chain : next[p] = l
  BY ChainIsFrom, FromPredecessor
<1>4. QED
  BY <1>1, <1>2, <1>3

LEMMA BlankLink == ASSUME Inv, made < MaxLinks
                   PROVE  made + 1 \in Links /\ next[made + 1] = Null /\ made + 1 \notin 1 .. made
<1>1. made + 1 \in Links \ Created
  BY LinkFacts
<1>2. QED
  BY <1>1 DEF Inv, Reachable, Created

LEMMA NextAfterInsert ==
    ASSUME Inv, made < MaxLinks, NEW a \in 1 .. made, NEW x,
           next' = [next EXCEPT ![made + 1] = x, ![a] = made + 1]
    PROVE  /\ \A l \in 1 .. made : l # a => next'[l] = next[l]
           /\ next'[a] = made + 1 /\ next'[made + 1] = x
<1>1. next \in [Links -> Links \cup {Null}] /\ 1 .. made \subseteq Links
  BY LinkFacts DEF Inv, TypeOK, Created
<1>2. made + 1 \in Links /\ made + 1 \notin 1 .. made
  BY BlankLink
<1>3. QED
  BY <1>1, <1>2

\* setAttr writes one attribute, or wraps a proxy.
LEMMA SetEffect ==
    ASSUME Inv, Inv', NEW t \in Threads, NEW k \in Types, NEW v \in Values, SetAttr(t, k, v)
    PROVE  Content' = [Content EXCEPT ![k] = v] \/ (WrapProxy(t, k, v) /\ Content' = Content)
<1>0. /\ v \notin Links /\ v # Null /\ Null \notin Links /\ JAVA_PROXY_ATTR \in Types
      /\ next \in [Links -> Links \cup {Null}]
      /\ attributes \in Values => attributes \notin Links
  BY AttributeAssumption DEF Inv, TypeOK
<1>1. CASE SetProxy(t, k, v)
  BY <1>0, <1>1, BareEffect DEF SetProxy
<1>2. CASE SetFirst(t, k, v)
  <2>1. Chain = {} /\ attributes \notin Values /\ attributes \notin Links
    BY <1>0, <1>2, ChainFacts, AttributeAssumption DEF SetFirst
  <2>2. NewLink(k, v) /\ attributes' = made + 1 /\ next' = next /\ next[made + 1] = Null
    BY <1>2, BlankLink DEF SetFirst, NewLink
  <2>3. QED
    BY <2>1, <2>2, HeadEffect
<1>3. CASE WrapProxy(t, k, v)
  <2>1. Chain = {} /\ attributes \in Values /\ attributes \notin Links
    BY <1>0, <1>3, ChainFacts DEF WrapProxy
  <2>2. /\ NewLink(JAVA_PROXY_ATTR, attributes) /\ attributes' = made + 1 /\ next' = next
        /\ next[made + 1] = Null
    BY <1>3, BlankLink DEF WrapProxy, NewLink
  <2>3. Content' = [Content EXCEPT ![JAVA_PROXY_ATTR] = attributes]
    BY <1>0, <2>1, <2>2, HeadEffect
  <2>4. Content[JAVA_PROXY_ATTR] = attributes
    BY <1>0, <2>1, ContentFacts
  <2>5. Content' = Content
    BY <2>3, <2>4 DEF Content
  <2>6. QED
    BY <1>3, <2>5
<1>4. CASE SetHead(t, k, v)
  <2>1. /\ NewLink(k, v) /\ attributes' = made + 1 /\ attributes \in Links /\ made < MaxLinks
        /\ next' = [next EXCEPT ![made + 1] = attributes] /\ type[attributes] > k
    BY <1>4 DEF SetHead, NewLink
  <2>2. \A l \in 1 .. made : next'[l] = next[l] /\ l \in Links
    BY <1>0, <2>1, BlankLink, LinkFacts DEF Created
  <2>3. next'[made + 1] = attributes
    BY <1>0, <2>1, BlankLink
  <2>4. attributes \notin Values
    BY <1>0, <2>1
  <2>5. ASSUME NEW l \in Chain, type[l] = k PROVE FALSE
    <3>1. type[l] \in Int /\ type[attributes] \in Int
      BY <2>1, ChainFacts
    <3>2. l = attributes \/ type[attributes] < type[l]
      BY HeadFacts
    <3>3. QED
      BY <2>1, <2>5, <3>1, <3>2
  <2>6. QED
    BY <2>1, <2>2, <2>3, <2>4, <2>5, HeadEffect
<1>5. CASE SetValue(t, k, v)
  <2>1. PICK a \in Chain : type[a] = k /\ value' = [value EXCEPT ![a] = v]
    BY <1>5 DEF SetValue, LastUpTo
  <2>2. UNCHANGED <<attributes, made, type, next>> /\ Chain' = Chain
    BY <1>5 DEF SetValue, Chain
  <2>3. value \in [Links -> Values \cup {Null}] /\ a \in Links /\ \A l \in Chain : l \in Links
    BY ChainFacts DEF Inv, TypeOK
  <2>4. value'[a] = v /\ \A l \in Chain : l # a => value'[l] = value[l]
    BY <2>1, <2>3
  <2>5. MapOf(Chain, type, value', attributes) =
           Put(MapOf(Chain, type, value, attributes), type[a], value'[a])
    <3>1. type[a] \in Types /\ Distinct(Chain, type)
      BY ChainFacts
    <3>2. QED
      BY <2>4, <3>1, MapChanges
  <2>6. QED
    BY <2>1, <2>2, <2>4, <2>5, ContentIsMap DEF Put
<1>6. CASE InsertAfter(t, k, v)
  <2>1. NewLink(k, v) /\ attributes' = attributes /\ made < MaxLinks
    BY <1>6 DEF InsertAfter, NewLink
  <2>2. PICK a \in Links : /\ LastUpTo(a, k) /\ type[a] # k
                           /\ next' = [next EXCEPT ![made + 1] = next[a], ![a] = made + 1]
    BY <1>6 DEF InsertAfter
  <2>3. /\ a \in Chain /\ a \in 1 .. made /\ type[a] \in Int /\ type[a] < k
        /\ next[a] # Null => type[next[a]] > k /\ type[next[a]] \in Int
    BY <2>2, ChainFacts, LinkFacts DEF LastUpTo
  <2>4. /\ \A l \in 1 .. made : l # a => next'[l] = next[l]
        /\ next'[a] = made + 1 /\ next'[made + 1] = next[a]
    BY <2>1, <2>2, <2>3, NextAfterInsert
  <2>5. ASSUME NEW l \in Chain, type[l] = k PROVE FALSE
    <3>1. next[a] # Null /\ type[next[a]] <= type[l]
      BY <2>3, <2>5, ChainFacts
    <3>2. QED
      BY <2>3, <2>5, <3>1, LinkFacts
  <2>6. QED
    BY <2>1, <2>3, <2>4, <2>5, InsertEffect
<1>7. QED
  BY <1>1, <1>2, <1>3, <1>4, <1>5, <1>6 DEF SetAttr

LEMMA ChainEffect ==
    ASSUME Inv, Inv', NEW t \in Threads, ChainAfterProxy(t)
    PROVE  Content' = [Content EXCEPT ![key[t]] = arg[t]]
<1> DEFINE k == key[t]
           v == arg[t]
           a == attributes
<1>1. /\ a \in Links /\ next[a] = Null /\ type[a] = JAVA_PROXY_ATTR /\ k # JAVA_PROXY_ATTR
      /\ k \in Types
  BY DEF ChainAfterProxy, Inv, Writing, TypeOK
<1>2. /\ NewLink(k, v) /\ attributes' = attributes /\ made < MaxLinks
      /\ next' = [next EXCEPT ![a] = made + 1]
  BY DEF ChainAfterProxy, NewLink
<1>3. a \in Chain /\ a \in 1 .. made
  BY <1>1, ChainFacts
<1>4. made + 1 \in Links /\ next[made + 1] = Null /\ made + 1 # a
  BY <1>2, <1>3, BlankLink
<1>5. next \in [Links -> Links \cup {Null}] /\ \A l \in 1 .. made : l \in Links
  BY LinkFacts DEF Inv, TypeOK, Created
<1>6. /\ \A l \in 1 .. made : l # a => next'[l] = next[l]
      /\ next'[a] = made + 1 /\ next'[made + 1] = next[a]
  BY <1>1, <1>2, <1>4, <1>5
<1>7. ASSUME NEW l \in Chain, type[l] = k PROVE FALSE
  BY <1>1, <1>7, HeadFacts
<1> HIDE DEF k, v, a
<1>8. Content' = [Content EXCEPT ![k] = v]
  BY <1>1, <1>2, <1>3, <1>6, <1>7, InsertEffect
<1>9. QED
  BY <1>8 DEF k, v

\* delAttr removes an attribute, in the step that unlinks it.
LEMMA DelEffect ==
    ASSUME Inv, Inv', NEW t \in Threads, NEW k \in Types, DelAttr(t, k)
    PROVE  Content' = [Content EXCEPT ![k] = Null]
<1>0. /\ Null \notin Links /\ JAVA_PROXY_ATTR \in Types
      /\ \A w \in Values : w \notin Links /\ w # Null
      /\ next \in [Links -> Links \cup {Null}]
  BY AttributeAssumption DEF Inv, TypeOK
<1>1. ASSUME UNCHANGED listVars, Content[k] = Null PROVE Content' = [Content EXCEPT ![k] = Null]
  <2>1. Content' = Content
    BY <1>1, NothingWritten
  <2>2. QED
    BY <1>1, <2>1 DEF Content
<1>2. CASE DelBare(t, k)
  <2>1. attributes \in Values /\ attributes \notin Links /\ Chain = {}
    BY <1>0, <1>2, ChainFacts DEF DelBare
  <2>2. CASE k = JAVA_PROXY_ATTR
    BY <1>0, <1>2, <2>1, <2>2, BareEffect DEF DelBare
  <2>3. CASE k # JAVA_PROXY_ATTR
    <3>1. Content[k] = Null
      BY <2>1, <2>3, ContentFacts
    <3>2. UNCHANGED listVars
      BY <1>2, <2>3 DEF DelBare, listVars
    <3>3. QED
      BY <1>1, <3>1, <3>2
  <2>4. QED
    BY <2>2, <2>3
<1>3. CASE DelHead(t, k)
  <2>1. /\ attributes \in Links /\ type[attributes] = k /\ attributes' = next[attributes]
        /\ UNCHANGED <<made, type, next, value>>
    BY <1>3 DEF DelHead
  <2>2. attributes \in Chain /\ attributes \in 1 .. made
    BY <2>1, ChainFacts
  <2>3. Chain' = Chain \ {attributes}
    BY <2>1, <2>2, ListNow, ChainIsFrom, FromNext
  <2>4. attributes' \notin Values
    BY <1>0, <2>1
  <2>5. QED
    BY <2>1, <2>2, <2>3, <2>4, RemoveEffect
<1>4. CASE DelInside(t, k)
  <2>1. /\ attributes \in Links /\ type[attributes] # k
        /\ UNCHANGED <<attributes, made, type, value>>
    BY <1>4 DEF DelInside
  <2>2. ASSUME NEW a \in Links, Precedes(a, k), next' = [next EXCEPT ![a] = next[next[a]]]
        PROVE  Content' = [Content EXCEPT ![k] = Null]
    <3>1. a \in Chain /\ next[a] \in Chain /\ type[next[a]] = k /\ next[a] \in 1 .. made
      BY <2>2, ChainFacts DEF Precedes
    <3>2. next'[a] = next[next[a]] /\ \A l \in 1 .. made : l # a => next'[l] = next[l]
      BY <1>0, <2>2, LinkFacts DEF Created
    <3>3. From(attributes, next', made) = From(attributes, next, made) \ {next[a]}
      BY <3>1, <3>2, ListNow, ChainIsFrom, FromRemove
    <3>4. Chain' = Chain \ {next[a]}
      BY <2>1, <3>3, ChainIsFrom
    <3>5. attributes' \notin Values
      BY <1>0, <2>1
    <3>6. QED
      BY <2>1, <3>1, <3>4, <3>5, RemoveEffect
  <2>3. ASSUME \A a \in Links : ~Precedes(a, k), UNCHANGED next
        PROVE  Content' = [Content EXCEPT ![k] = Null]
    <3>1. ASSUME NEW d \in Chain, type[d] = k PROVE FALSE
      <4>1. PICK p \in Chain : next[p] = d
        BY <2>1, <3>1, HeadFacts
      <4>2. p \in Links /\ d # Null
        BY <1>0, ChainFacts
      <4>3. QED
        BY <2>3, <3>1, <4>1, <4>2 DEF Precedes
    <3>2. Content[k] = Null
      BY <1>0, <2>1, <3>1, ContentFacts
    <3>3. QED
      BY <1>1, <2>1, <2>3, <3>2 DEF listVars
  <2>4. QED
    BY <1>4, <2>2, <2>3 DEF DelInside
<1>5. QED
  BY <1>2, <1>3, <1>4 DEF DelAttr

\* A proxy that is left alone is the same with its link or without.
LEMMA CollapseEffect ==
    ASSUME Inv, Inv', NEW t \in Threads, Collapse(t) \/ Unwind(t)
    PROVE  Content' = Content
<1>1. CASE UNCHANGED listVars
  BY <1>1, NothingWritten
<1>2. CASE Collapse(t) /\ attributes \in Links /\ next[attributes] = Null
           /\ type[attributes] = JAVA_PROXY_ATTR
  <2>1. attributes' = value[attributes] /\ value[attributes] \in Values \cup {Null}
        /\ attributes' \notin Links /\ attributes \in Chain
    BY <1>2, ChainFacts, AttributeAssumption DEF Collapse, Inv, TypeOK
  <2>2. \A l \in Chain : l = attributes
    BY <1>2, HeadFacts
  <2>3. Chain' = {}
    BY <2>1, ListNow, ChainIsFrom, FromNone, AttributeAssumption DEF List, Links
  <2>4. ASSUME NEW k \in Types PROVE Content'[k] = Content[k]
    <3>1. Content'[k] = IF k = JAVA_PROXY_ATTR /\ attributes' \in Values THEN attributes' ELSE Null
      BY <2>3 DEF Content
    <3>2. Content[k] = IF k = JAVA_PROXY_ATTR THEN value[attributes] ELSE Null
      BY <1>2, <2>1, <2>2, ContentFacts, AttributeAssumption
    <3>3. QED
      BY <2>1, <3>1, <3>2
  <2>5. QED
    BY <2>4 DEF Content
<1>3. QED
  BY <1>1, <1>2 DEF Collapse, Unwind, listVars
------------------------------------------------------------------------------
(* What a reader may still meet. *)

\* G has, from any of its links, the way of a reader that looks for type k to an answer
\* in S; the links of G need not be in the list any more.
Guide(G, k, S, nx, ty, vl) ==
    \A l \in G : /\ ty[l] < k => IF nx[l] = Null THEN Null \in S ELSE nx[l] \in G
                 /\ ty[l] = k => vl[l] \in S
                 /\ ty[l] > k => Null \in S

NoLink(t) == IF key[t] = JAVA_PROXY_ATTR THEN cursor[t] ELSE Null

Guided(t) ==
    /\ content[key[t]] \in seen[t]
    /\ IF cursor[t] \in Links
       THEN \E G \in SUBSET (1 .. made) :
               cursor[t] \in G /\ Guide(G, key[t], seen[t], next, type, value)
       ELSE NoLink(t) \in seen[t]

Reads == \A t \in Threads : pc[t] = "g_walk" => Guided(t)

\* The write is in what the history has, and leaves the readers where they are.
Written ==
    /\ Inv /\ Inv' /\ Reads /\ Observed
    /\ \A r \in Threads : pc'[r] = "g_walk" =>
          pc[r] = "g_walk" /\ key'[r] = key[r] /\ cursor'[r] = cursor[r]

LEMMA SeenGrows ==
    ASSUME Written, NEW r \in Threads, pc'[r] = "g_walk"
    PROVE  /\ seen'[r] = seen[r] \cup {content'[key[r]]}
           /\ key'[r] = key[r] /\ cursor'[r] = cursor[r] /\ key[r] \in Types /\ Guided(r)
  BY DEF Written, Observed, Reads, Inv, TypeOK

\* If next of a link is as it was, and its value is or is what the map has now.
LEMMA ReadsKept ==
    ASSUME Written, made' >= made,
           \A l \in 1 .. made : /\ next'[l] = next[l] /\ type'[l] = type[l]
                                /\ value'[l] = value[l] \/ value'[l] = content'[type[l]]
    PROVE  Reads'
<1> SUFFICES ASSUME NEW r \in Threads, pc'[r] = "g_walk" PROVE Guided(r)'
  BY DEF Reads
<1>0. made \in Nat /\ made' \in Nat
  BY AttributeAssumption DEF Written, Inv, TypeOK
<1>1. /\ seen'[r] = seen[r] \cup {content'[key[r]]}
      /\ key'[r] = key[r] /\ cursor'[r] = cursor[r] /\ Guided(r)
  BY SeenGrows
<1>2. CASE cursor[r] \in Links
  <2>1. PICK G \in SUBSET (1 .. made) :
               cursor[r] \in G /\ Guide(G, key[r], seen[r], next, type, value)
    BY <1>1, <1>2 DEF Guided
  <2>2. Guide(G, key'[r], seen'[r], next', type', value')
    <3> SUFFICES ASSUME NEW l \in G
                 PROVE  /\ type'[l] < key[r] => IF next'[l] = Null THEN Null \in seen'[r]
                                                ELSE next'[l] \in G
                        /\ type'[l] = key[r] => value'[l] \in seen'[r]
                        /\ type'[l] > key[r] => Null \in seen'[r]
      BY <1>1 DEF Guide
    <3>1. /\ next'[l] = next[l] /\ type'[l] = type[l]
          /\ value'[l] = value[l] \/ value'[l] = content'[type[l]]
      OBVIOUS
    <3>2. QED
      BY <1>1, <2>1, <3>1 DEF Guide
  <2>3. G \in SUBSET (1 .. made')
    BY <1>0
  <2>4. QED
    BY <1>1, <1>2, <2>1, <2>2, <2>3 DEF Guided
<1>3. CASE cursor[r] \notin Links
  BY <1>1, <1>3 DEF Guided, NoLink
<1>4. QED
  BY <1>2, <1>3

\* If a link is put behind a: the readers that come by a meet it.
LEMMA ReadsInserted ==
    ASSUME Written, NEW a \in 1 .. made, NEW x, x = made + 1, made' = made + 1,
           \A l \in 1 .. made : /\ l # a => next'[l] = next[l]
                                /\ type'[l] = type[l] /\ value'[l] = value[l],
           next'[a] = x, next'[x] = next[a], type[a] < type'[x],
           next[a] # Null => type'[x] < type[next[a]],
           value'[x] = content'[type'[x]]
    PROVE  Reads'
<1> SUFFICES ASSUME NEW r \in Threads, pc'[r] = "g_walk" PROVE Guided(r)'
  BY DEF Reads
<1>0. /\ made \in Nat /\ x \in 1 .. made' /\ x \notin 1 .. made /\ x # Null
      /\ \A l \in 1 .. made : l \in 1 .. made' /\ type[l] \in Int
      /\ type'[x] \in Int
      /\ next[a] # Null => type[next[a]] \in Int
  <2>1. List(attributes, next, type, made) /\ List(attributes', next', type', made')
    BY ListNow DEF Written
  <2>2. made \in Nat
    BY <2>1 DEF List
  <2>3. x \in 1 .. made' /\ x \notin 1 .. made
    BY <2>2
  <2>4. QED
    BY <2>1, <2>2, <2>3 DEF List
<1>1. /\ seen'[r] = seen[r] \cup {content'[key[r]]}
      /\ key'[r] = key[r] /\ cursor'[r] = cursor[r] /\ Guided(r) /\ key[r] \in Types
  BY SeenGrows
<1> DEFINE k == key[r]
<1>2. k \in Int
  BY <1>1, AttributeAssumption
<1>3. CASE cursor[r] \in Links
  <2>1. PICK G \in SUBSET (1 .. made) :
               cursor[r] \in G /\ Guide(G, k, seen[r], next, type, value)
    BY <1>1, <1>3 DEF Guided
  <2>2. CASE a \in G /\ type[a] < k
    <3> DEFINE H == G \cup {x}
    <3>1. ASSUME NEW l \in G, l # a
          PROVE  /\ type'[l] < k => IF next'[l] = Null THEN Null \in seen'[r] ELSE next'[l] \in H
                 /\ type'[l] = k => value'[l] \in seen'[r]
                 /\ type'[l] > k => Null \in seen'[r]
      BY <1>1, <2>1, <3>1 DEF Guide
    <3>2. /\ type'[a] < k => IF next'[a] = Null THEN Null \in seen'[r] ELSE next'[a] \in H
          /\ type'[a] = k => value'[a] \in seen'[r]
          /\ type'[a] > k => Null \in seen'[r]
      BY <1>0, <1>2, <2>2
    <3>3. IF next[a] = Null THEN Null \in seen[r] ELSE next[a] \in G
      BY <2>1, <2>2 DEF Guide
    <3>4. /\ type'[x] < k => IF next'[x] = Null THEN Null \in seen'[r] ELSE next'[x] \in H
          /\ type'[x] = k => value'[x] \in seen'[r]
      BY <1>1, <3>3
    <3>5. ASSUME type'[x] > k PROVE Null \in seen'[r]
      <4>1. next[a] # Null => type[next[a]] > k
        BY <1>0, <1>2, <3>5
      <4>2. next[a] # Null => Null \in seen[r]
        BY <2>1, <3>3, <4>1 DEF Guide
      <4>3. QED
        BY <1>1, <3>3, <4>2
    <3>6. Guide(H, key'[r], seen'[r], next', type', value')
      <4>1. \A l \in H : l = x \/ l = a \/ (l \in G /\ l # a)
        OBVIOUS
      <4> HIDE DEF H
      <4>2. QED
        BY <1>1, <3>1, <3>2, <3>4, <3>5, <4>1 DEF Guide
    <3>7. H \in SUBSET (1 .. made') /\ cursor[r] \in H
      BY <1>0, <2>1
    <3> HIDE DEF H
    <3>8. QED
      BY <1>1, <1>3, <3>6, <3>7 DEF Guided
  <2>3. CASE ~(a \in G /\ type[a] < k)
    <3>1. ASSUME NEW l \in G
          PROVE  /\ type'[l] < k => IF next'[l] = Null THEN Null \in seen'[r] ELSE next'[l] \in G
                 /\ type'[l] = k => value'[l] \in seen'[r]
                 /\ type'[l] > k => Null \in seen'[r]
      <4>1. type'[l] = type[l] /\ value'[l] = value[l] /\ (type[l] < k => l # a)
        BY <2>3
      <4>2. type[l] < k => next'[l] = next[l]
        BY <4>1
      <4>3. QED
        BY <1>1, <2>1, <4>1, <4>2 DEF Guide
    <3>2. Guide(G, key'[r], seen'[r], next', type', value')
      BY <1>1, <3>1 DEF Guide
    <3>3. G \in SUBSET (1 .. made')
      BY <1>0
    <3>4. QED
      BY <1>1, <1>3, <2>1, <3>2, <3>3 DEF Guided
  <2>4. QED
    BY <2>2, <2>3
<1>4. CASE cursor[r] \notin Links
  BY <1>1, <1>4 DEF Guided, NoLink
<1>5. QED
  BY <1>3, <1>4

\* If the link behind a is taken out: the readers that stand on it go on as before.
LEMMA ReadsRemoved ==
    ASSUME Written, UNCHANGED <<made, type, value>>, NEW a \in 1 .. made, NEW d \in 1 .. made,
           next[a] = d, next'[a] = next[d], \A l \in 1 .. made : l # a => next'[l] = next[l],
           content'[type[d]] = Null
    PROVE  Reads'
<1> SUFFICES ASSUME NEW r \in Threads, pc'[r] = "g_walk" PROVE Guided(r)'
  BY DEF Reads
<1>0. /\ \A l \in 1 .. made : type[l] \in Int /\ l # Null
      /\ next[d] = Null \/ (next[d] \in 1 .. made /\ type[d] < type[next[d]])
      /\ type[a] < type[d]
  <2>1. List(attributes, next, type, made)
    BY ListNow DEF Written
  <2>2. QED
    BY <2>1 DEF List
<1>1. /\ seen'[r] = seen[r] \cup {content'[key[r]]}
      /\ key'[r] = key[r] /\ cursor'[r] = cursor[r] /\ Guided(r) /\ key[r] \in Types
  BY SeenGrows
<1> DEFINE k == key[r]
<1>2. k \in Int
  BY <1>1, AttributeAssumption
<1>3. CASE cursor[r] \in Links
  <2>1. PICK G \in SUBSET (1 .. made) :
               cursor[r] \in G /\ Guide(G, k, seen[r], next, type, value)
    BY <1>1, <1>3 DEF Guided
  <2> DEFINE H == IF d \in G /\ next[d] # Null /\ type[d] >= k THEN G \cup {next[d]} ELSE G
  <2>2. ASSUME NEW l \in G, l # a
        PROVE  /\ type[l] < k => IF next'[l] = Null THEN Null \in seen'[r] ELSE next'[l] \in H
               /\ type[l] = k => value[l] \in seen'[r]
               /\ type[l] > k => Null \in seen'[r]
    <3>1. next'[l] = next[l] /\ G \subseteq H
      BY <2>2
    <3> HIDE DEF H
    <3>2. QED
      BY <1>1, <2>1, <3>1 DEF Guide
  <2>3. ASSUME a \in G
        PROVE  /\ type[a] < k => IF next'[a] = Null THEN Null \in seen'[r] ELSE next'[a] \in H
               /\ type[a] = k => value[a] \in seen'[r]
               /\ type[a] > k => Null \in seen'[r]
    <3>1. ASSUME type[a] < k
          PROVE  IF next[d] = Null THEN Null \in seen'[r] ELSE next[d] \in H
      <4>1. d \in G
        BY <1>0, <2>1, <2>3, <3>1 DEF Guide
      <4>2. CASE type[d] < k
        BY <1>1, <2>1, <4>1, <4>2 DEF Guide
      <4>3. CASE type[d] = k
        BY <1>1, <4>1, <4>3, <1>2
      <4>4. CASE type[d] > k
        <5>1. Null \in seen[r]
          BY <2>1, <4>1, <4>4 DEF Guide
        <5>2. QED
          BY <1>0, <1>1, <1>2, <4>1, <4>4, <5>1
      <4>5. QED
        BY <1>0, <1>2, <4>2, <4>3, <4>4
    <3> HIDE DEF H
    <3>2. QED
      BY <1>1, <2>1, <2>3, <3>1 DEF Guide
  <2>4. ASSUME NEW l \in H, l \notin G
        PROVE  type[l] > k /\ Null \in seen'[r] /\ l \in 1 .. made
    <3>1. d \in G /\ next[d] # Null /\ type[d] >= k /\ l = next[d]
      BY <2>4
    <3>2. type[l] > k /\ l \in 1 .. made
      BY <1>0, <1>2, <3>1
    <3>3. type[d] = k \/ type[d] > k
      BY <1>0, <1>2, <3>1
    <3>4. type[d] > k => Null \in seen[r]
      BY <2>1, <3>1 DEF Guide
    <3>5. QED
      BY <1>1, <3>2, <3>3, <3>4
  <2>5. G \subseteq H
    OBVIOUS
  <2> HIDE DEF H
  <2>6. Guide(H, k, seen'[r], next', type, value)
    <3> SUFFICES ASSUME NEW l \in H
                 PROVE  /\ type[l] < k => IF next'[l] = Null THEN Null \in seen'[r]
                                          ELSE next'[l] \in H
                        /\ type[l] = k => value[l] \in seen'[r]
                        /\ type[l] > k => Null \in seen'[r]
      BY DEF Guide
    <3>1. CASE l \in G
      BY <2>2, <2>3, <3>1
    <3>2. CASE l \notin G
      BY <1>0, <1>2, <2>4, <3>2
    <3>3. QED
      BY <3>1, <3>2
  <2>7. H \in SUBSET (1 .. made) /\ cursor[r] \in H
    BY <2>1, <2>4, <2>5
  <2>8. QED
    BY <1>1, <1>3, <2>6, <2>7 DEF Guided
<1>4. CASE cursor[r] \notin Links
  BY <1>1, <1>4 DEF Guided, NoLink
<1>5. QED
  BY <1>3, <1>4

\* setAttr, delAttr and what follows them keep every reader guided.
LEMMA ReadsSet ==
    ASSUME Written, NEW t \in Threads, NEW k \in Types, NEW v \in Values, SetAttr(t, k, v),
           attributes \in Links => content' = [content EXCEPT ![k] = v]
    PROVE  Reads'
<1>0. /\ Inv /\ made \in Nat /\ \A l \in 1 .. made : l \in Links
      /\ content \in [Types -> Values \cup {Null}]
      /\ next \in [Links -> Links \cup {Null}]
      /\ type \in [Links -> Types] /\ value \in [Links -> Values \cup {Null}]
  BY ChainFacts, LinkFacts DEF Written, Inv, TypeOK, Created
<1>1. CASE SetProxy(t, k, v)
  BY <1>0, <1>1, ReadsKept DEF SetProxy
<1>2. ASSUME NEW y, NEW w, NewLink(y, w), \A l \in 1 .. made : next'[l] = next[l]
      PROVE  Reads'
  <2>1. /\ made' >= made
        /\ \A l \in 1 .. made : type'[l] = type[l] /\ value'[l] = value[l]
    <3>1. made' = made + 1 /\ made + 1 \notin 1 .. made
      BY <1>0, <1>2 DEF NewLink
    <3>2. QED
      BY <1>0, <1>2, <3>1 DEF NewLink
  <2>2. QED
    BY <1>2, <2>1, ReadsKept
<1>3. CASE SetFirst(t, k, v)
  BY <1>2, <1>3 DEF SetFirst
<1>4. CASE WrapProxy(t, k, v)
  BY <1>2, <1>4 DEF WrapProxy
<1>5. CASE SetHead(t, k, v)
  <2>1. next' = [next EXCEPT ![made + 1] = attributes] /\ NewLink(k, v)
    BY <1>5 DEF SetHead
  <2>2. made + 1 \notin 1 .. made
    BY <1>0
  <2>3. \A l \in 1 .. made : next'[l] = next[l]
    BY <1>0, <2>1, <2>2
  <2>4. QED
    BY <1>2, <2>1, <2>3
<1>6. CASE SetValue(t, k, v)
  <2>1. PICK a \in Links : type[a] = k /\ value' = [value EXCEPT ![a] = v]
    BY <1>6 DEF SetValue
  <2>2. UNCHANGED <<made, type, next>> /\ content'[k] = v
    <3>1. attributes \in Links
      BY <1>0, <1>6, HeadFacts DEF SetValue, LastUpTo
    <3>2. QED
      BY <1>0, <1>6, <3>1 DEF SetValue
  <2>3. \A l \in 1 .. made : value'[l] = value[l] \/ value'[l] = content'[type[l]]
    BY <1>0, <2>1, <2>2
  <2>4. QED
    BY <1>0, <2>2, <2>3, ReadsKept
<1>7. CASE InsertAfter(t, k, v)
  <2>1. NewLink(k, v) /\ made < MaxLinks /\ made' = made + 1
    BY <1>7 DEF InsertAfter, NewLink
  <2>2. PICK a \in Links : /\ LastUpTo(a, k) /\ type[a] # k
                           /\ next' = [next EXCEPT ![made + 1] = next[a], ![a] = made + 1]
    BY <1>7 DEF InsertAfter
  <2>3. a \in 1 .. made /\ type[a] < k /\ (next[a] # Null => k < type[next[a]])
    <3>1. a \in 1 .. made /\ type[a] \in Int /\ type[a] <= k
      BY <1>0, <2>2, ChainFacts DEF LastUpTo
    <3>2. next[a] # Null => type[next[a]] > k /\ type[next[a]] \in Int
      BY <1>0, <2>2, LinkFacts DEF LastUpTo
    <3>3. k \in Int
      BY LinkFacts, <1>0
    <3>4. QED
      BY <2>2, <3>1, <3>2, <3>3
  <2>4. /\ \A l \in 1 .. made : l # a => next'[l] = next[l]
        /\ next'[a] = made + 1 /\ next'[made + 1] = next[a]
    BY <1>0, <2>1, <2>2, <2>3, NextAfterInsert
  <2>5. made + 1 \in Links /\ made + 1 \notin 1 .. made
    BY <1>0, <2>1, BlankLink
  <2>6. /\ type'[made + 1] = k /\ value'[made + 1] = v
        /\ \A l \in 1 .. made : type'[l] = type[l] /\ value'[l] = value[l]
    BY <1>0, <2>1, <2>5 DEF NewLink
  <2>7. content'[k] = v
    <3>1. attributes \in Links
      BY <1>0, <2>2, HeadFacts DEF LastUpTo
    <3>2. QED
      BY <1>0, <3>1
  <2>8. QED
    BY <2>1, <2>3, <2>4, <2>6, <2>7, ReadsInserted
<1>8. QED
  BY <1>1, <1>3, <1>4, <1>5, <1>6, <1>7 DEF SetAttr

LEMMA ReadsChained ==
    ASSUME Written, NEW t \in Threads, ChainAfterProxy(t),
           content' = [content EXCEPT ![key[t]] = arg[t]]
    PROVE  Reads'
<1> DEFINE a == attributes
           k == key[t]
<1>0. /\ Inv /\ made \in Nat /\ \A l \in 1 .. made : l \in Links
      /\ content \in [Types -> Values \cup {Null}]
      /\ next \in [Links -> Links \cup {Null}]
      /\ type \in [Links -> Types] /\ value \in [Links -> Values \cup {Null}]
  BY ChainFacts, LinkFacts DEF Written, Inv, TypeOK, Created
<1>1. /\ a \in Links /\ next[a] = Null /\ type[a] = JAVA_PROXY_ATTR /\ k # JAVA_PROXY_ATTR
      /\ k \in Types
  BY DEF ChainAfterProxy, Written, Inv, Writing, TypeOK
<1>2. /\ NewLink(k, arg[t]) /\ made < MaxLinks /\ made' = made + 1
      /\ next' = [next EXCEPT ![a] = made + 1]
  BY DEF ChainAfterProxy, NewLink
<1>3. a \in 1 .. made
  BY <1>0, <1>1, ChainFacts
<1>4. made + 1 \in Links /\ next[made + 1] = Null /\ made + 1 \notin 1 .. made
  BY <1>0, <1>2, BlankLink
<1>5. /\ \A l \in 1 .. made : l # a => next'[l] = next[l]
      /\ next'[a] = made + 1 /\ next'[made + 1] = next[a]
  BY <1>0, <1>1, <1>2, <1>3, <1>4
<1>6. /\ type'[made + 1] = k /\ value'[made + 1] = arg[t]
      /\ \A l \in 1 .. made : type'[l] = type[l] /\ value'[l] = value[l]
  BY <1>0, <1>2, <1>4 DEF NewLink
<1>7. type[a] < k
  <2>1. k \in Int /\ JAVA_PROXY_ATTR <= k /\ JAVA_PROXY_ATTR \in Int
    BY <1>0, <1>1, LinkFacts DEF JAVA_PROXY_ATTR
  <2>2. QED
    BY <1>1, <2>1
<1>8. content'[k] = arg[t]
  BY <1>0, <1>1
<1> HIDE DEF a, k
<1>9. QED
  BY <1>1, <1>2, <1>3, <1>5, <1>6, <1>7, <1>8, ReadsInserted

LEMMA ReadsDeleted ==
    ASSUME Written, NEW t \in Threads, NEW k \in Types, DelAttr(t, k),
           content' = [content EXCEPT ![k] = Null]
    PROVE  Reads'
<1>0. /\ Inv /\ made \in Nat /\ \A l \in 1 .. made : l \in Links
      /\ content \in [Types -> Values \cup {Null}]
      /\ next \in [Links -> Links \cup {Null}]
  BY ChainFacts, LinkFacts DEF Written, Inv, TypeOK, Created
<1>1. CASE DelBare(t, k) \/ DelHead(t, k)
  BY <1>0, <1>1, ReadsKept DEF DelBare, DelHead
<1>2. CASE DelInside(t, k)
  <2>1. UNCHANGED <<made, type, value>>
    BY <1>2 DEF DelInside
  <2>2. ASSUME NEW a \in Links, Precedes(a, k), next' = [next EXCEPT ![a] = next[next[a]]]
        PROVE  Reads'
    <3>1. a \in 1 .. made /\ next[a] \in 1 .. made /\ type[next[a]] = k
      BY <1>0, <2>2, ChainFacts DEF Precedes
    <3>2. next'[a] = next[next[a]] /\ \A l \in 1 .. made : l # a => next'[l] = next[l]
      BY <1>0, <2>2
    <3>3. content'[k] = Null
      BY <1>0
    <3>4. QED
      BY <2>1, <3>1, <3>2, <3>3, ReadsRemoved
  <2>3. CASE UNCHANGED next
    BY <1>0, <2>1, <2>3, ReadsKept
  <2>4. QED
    BY <1>2, <2>2, <2>3 DEF DelInside
<1>3. QED
  BY <1>1, <1>2 DEF DelAttr

LEMMA ReadsLeft ==
    ASSUME Written, NEW t \in Threads, Collapse(t) \/ Unwind(t)
    PROVE  Reads'
<1>1. made \in Nat /\ UNCHANGED <<made, type, next, value>>
  BY ChainFacts DEF Written, Collapse, Unwind, listVars
<1>2. QED
  BY <1>1, ReadsKept

\* A read that begins is guided by the list as it is.
LEMMA ReadsBegun ==
    ASSUME Inv, Reads, content = Content, NEW t \in Threads, NEW k \in Types, GetHead(t, k)
    PROVE  Reads'
<1> SUFFICES ASSUME NEW r \in Threads, pc'[r] = "g_walk" PROVE Guided(r)'
  BY DEF Reads
<1>0. /\ UNCHANGED <<made, type, next, value, attributes, content>>
      /\ \A u \in Threads \ {t} : /\ pc'[u] = pc[u] /\ key'[u] = key[u]
                                  /\ cursor'[u] = cursor[u] /\ seen'[u] = seen[u]
      /\ key'[t] = k /\ cursor'[t] = attributes /\ seen'[t] = {content[k]}
  BY DEF GetHead, Goto, listVars, Inv, TypeOK
<1>1. CASE r # t
  <2>1. Guided(r)
    BY <1>0, <1>1 DEF Reads
  <2>2. QED
    BY <1>0, <1>1, <2>1 DEF Guided, NoLink
<1>2. CASE r = t /\ attributes \notin Links
  <2>1. Chain = {}
    BY <1>2, ChainFacts
  <2>2. content[k] = IF k = JAVA_PROXY_ATTR /\ attributes \in Values THEN attributes ELSE Null
    BY <2>1, ContentFacts
  <2>3. attributes \in Values \/ attributes = Null
    BY <1>2 DEF Inv, TypeOK
  <2>4. content[k] = IF k = JAVA_PROXY_ATTR THEN attributes ELSE Null
    BY <2>2, <2>3
  <2>5. QED
    BY <1>0, <1>2, <2>4 DEF Guided, NoLink
<1>3. CASE r = t /\ attributes \in Links
  <2> DEFINE G == {l \in Chain : type[l] <= k \/ \A m \in Chain : type[m] # k}
  <2>1. /\ attributes \in Chain /\ attributes \notin Values /\ Chain \subseteq 1 .. made
        /\ \A l \in Chain : type[l] \in Int
    BY <1>3, ChainFacts
  <2>2. k \in Int
    BY AttributeAssumption
  <2>3. (\A l \in Chain : type[l] # k) => content[k] = Null
    BY <2>1, ContentFacts
  <2>4. \A l \in Chain : type[l] = k => content[k] = value[l]
    BY ContentFacts
  <2>5. attributes \in G
    <3>1. ASSUME NEW m \in Chain, type[m] = k PROVE type[attributes] <= k
      BY <2>1, <2>2, <3>1, HeadFacts
    <3>2. QED
      BY <2>1, <3>1
  <2>6. ASSUME NEW l \in G, type[l] < k
        PROVE  IF next[l] = Null THEN Null \in {content[k]} ELSE next[l] \in G
    <3>1. /\ next[l] = Null \/ next[l] \in Chain
          /\ \A m \in Chain : type[m] = k => next[l] # Null /\ type[next[l]] <= k
      BY <2>6, ChainFacts
    <3>2. CASE next[l] = Null
      BY <2>3, <3>1, <3>2
    <3>3. CASE next[l] # Null
      BY <3>1, <3>3
    <3>4. QED
      BY <3>2, <3>3
  <2>7. ASSUME NEW l \in G, type[l] > k PROVE content[k] = Null
    BY <2>1, <2>2, <2>3, <2>7
  <2>8. Guide(G, k, {content[k]}, next, type, value)
    BY <2>4, <2>6, <2>7 DEF Guide
  <2>9. G \in SUBSET (1 .. made)
    BY <2>1
  <2> HIDE DEF G
  <2>10. QED
    BY <1>0, <1>3, <2>5, <2>8, <2>9 DEF Guided
<1>4. QED
  BY <1>1, <1>2, <1>3

\* A step of the walk follows the guide.
LEMMA ReadsNext ==
    ASSUME Inv, Reads, NEW t \in Threads, GetNext(t) PROVE Reads'
<1> SUFFICES ASSUME NEW r \in Threads, pc'[r] = "g_walk" PROVE Guided(r)'
  BY DEF Reads
<1>0. /\ UNCHANGED <<made, type, next, value, content, seen, key>>
      /\ pc' = pc /\ \A u \in Threads \ {t} : cursor'[u] = cursor[u]
      /\ cursor'[t] = next[cursor[t]] /\ Guided(r)
      /\ cursor[t] \in Links /\ type[cursor[t]] < key[t]
      /\ next[cursor[t]] \in Links \cup {Null} /\ Null \notin Links
  BY AttributeAssumption DEF GetNext, Short, listVars, Inv, TypeOK, Reads
<1>1. CASE r # t
  BY <1>0, <1>1 DEF Guided, NoLink
<1>2. CASE r = t
  <2>1. PICK G \in SUBSET (1 .. made) :
               cursor[t] \in G /\ Guide(G, key[t], seen[t], next, type, value)
    BY <1>0, <1>2 DEF Guided
  <2>2. IF next[cursor[t]] = Null THEN Null \in seen[t] ELSE next[cursor[t]] \in G
    BY <1>0, <2>1 DEF Guide
  <2>3. QED
    BY <1>0, <1>2, <2>1, <2>2 DEF Guided, NoLink
<1>3. QED
  BY <1>1, <1>2

LEMMA ReadsOver ==
    ASSUME Inv, Reads, NEW t \in Threads, GetValue(t) \/ Return(t) PROVE Reads'
<1> SUFFICES ASSUME NEW r \in Threads, pc'[r] = "g_walk" PROVE Guided(r)'
  BY DEF Reads
<1>1. r # t /\ pc[r] = "g_walk"
  BY DEF GetValue, Return, Goto, Inv, TypeOK
<1>2. /\ UNCHANGED <<made, type, next, value, content>>
      /\ key'[r] = key[r] /\ cursor'[r] = cursor[r] /\ seen'[r] = seen[r] /\ Guided(r)
  <2>1. Guided(r)
    BY <1>1 DEF Reads
  <2>2. CASE GetValue(t)
    BY <1>1, <2>1, <2>2 DEF GetValue, listVars, Inv, TypeOK
  <2>3. CASE Return(t)
    BY <1>1, <2>1, <2>3 DEF Return, listVars, Inv, TypeOK
  <2>4. QED
    BY <2>2, <2>3
<1>3. QED
  BY <1>2 DEF Guided, NoLink

\* The answer is a value the attribute had during the read.
LEMMA AnswerSeen ==
    ASSUME Inv, Reads, NEW t \in Threads, GetValue(t)
    PROVE  answer' = [answer EXCEPT ![t] = answer'[t]] /\ answer'[t] \in seen[t]
<1> DEFINE a == IF cursor[t] \in Links
                THEN IF type[cursor[t]] = key[t] THEN value[cursor[t]] ELSE Null
                ELSE NoLink(t)
<1>1. answer' = [answer EXCEPT ![t] = a] /\ answer'[t] = a
  BY DEF GetValue, NoLink, Inv, TypeOK
<1>2. Guided(t) /\ ~Short(t)
  BY DEF GetValue, Reads
<1>3. a \in seen[t]
  <2>1. CASE cursor[t] \in Links
    <3>1. PICK G \in SUBSET (1 .. made) :
                 cursor[t] \in G /\ Guide(G, key[t], seen[t], next, type, value)
      BY <1>2, <2>1 DEF Guided
    <3>2. type[cursor[t]] = key[t] \/ type[cursor[t]] > key[t]
      <4>1. type[cursor[t]] \in Int /\ key[t] \in Int
        <5>1. type[cursor[t]] \in Types /\ key[t] \in Types
          BY <2>1 DEF Inv, TypeOK
        <5>2. QED
          BY <5>1, LinkFacts
      <4>2. QED
        BY <1>2, <2>1, <4>1 DEF Short
    <3>3. QED
      BY <2>1, <3>1, <3>2 DEF Guide
  <2>2. CASE cursor[t] \notin Links
    BY <1>2, <2>2 DEF Guided
  <2>3. QED
    BY <2>1, <2>2
<1> HIDE DEF a
<1>4. QED
  BY <1>1, <1>3
------------------------------------------------------------------------------
(* Refinement: a write takes effect in the one step that changes the map of the list. *)

RInv == Inv /\ Reads /\ content = Content

\* What a step of a writer is to the map.
LEMMA WriteStep ==
    ASSUME RInv, Written, NEW k \in Types, NEW w \in Values \cup {Null},
           Content' = [Content EXCEPT ![k] = w], answer' = answer,
           \A r \in Threads : Phase(r)' = Phase(r)
    PROVE  Map!Write(k, w)
<1>1. content' = [content EXCEPT ![k] = w]
  BY DEF RInv, Written, Observed
<1>2. content \in [Types -> Values \cup {Null}]
  BY DEF RInv, Inv, TypeOK
<1>3. ASSUME NEW r \in Threads
      PROVE  /\ (IF Phase(r) = "reading" THEN key[r] ELSE Null)' =
                   IF Phase(r) = "reading" THEN key[r] ELSE Null
             /\ seen'[r] = IF Phase(r) = "reading" /\ key[r] = k THEN seen[r] \cup {w} ELSE seen[r]
  <2>1. Phase(r) = "reading" <=> pc[r] = "g_walk"
    BY DEF Phase
  <2>2. Phase(r)' = "reading" <=> pc'[r] = "g_walk"
    BY DEF Phase
  <2>3. CASE pc[r] = "g_walk"
    <3>1. pc'[r] = "g_walk"
      BY <2>1, <2>2, <2>3
    <3>2. seen'[r] = seen[r] \cup {content'[key[r]]} /\ key'[r] = key[r]
          /\ key[r] \in Types /\ content[key[r]] \in seen[r]
      BY <3>1, SeenGrows DEF Guided
    <3>3. key[r] # k => content'[key[r]] \in seen[r]
      BY <1>1, <1>2, <3>2
    <3>4. key[r] = k => content'[key[r]] = w
      BY <1>1, <1>2, <3>2
    <3>5. QED
      BY <2>1, <2>2, <2>3, <3>1, <3>2, <3>3, <3>4
  <2>4. CASE pc[r] # "g_walk"
    <3>1. seen'[r] = seen[r]
      BY <2>4 DEF Written, Observed
    <3>2. QED
      BY <2>1, <2>2, <2>4, <3>1
  <2>5. QED
    BY <2>3, <2>4
<1>4. seen' = [r \in Threads |-> IF Phase(r) = "reading" /\ key[r] = k
                                 THEN seen[r] \cup {w} ELSE seen[r]]
  BY <1>3 DEF Written, Observed
<1>5. [r \in Threads |-> Phase(r)]' = [r \in Threads |-> Phase(r)]
  OBVIOUS
<1>6. [r \in Threads |-> IF Phase(r) = "reading" THEN key[r] ELSE Null]' =
         [r \in Threads |-> IF Phase(r) = "reading" THEN key[r] ELSE Null]
  BY <1>3
<1>7. seen' = [r \in Threads |->
                 IF /\ [s \in Threads |-> Phase(s)][r] = "reading"
                    /\ [s \in Threads |-> IF Phase(s) = "reading" THEN key[s] ELSE Null][r] = k
                 THEN seen[r] \cup {w} ELSE seen[r]]
  BY <1>4
<1>8. QED
  BY <1>1, <1>5, <1>6, <1>7 DEF Map!Write

LEMMA WriteStutter ==
    ASSUME RInv, Written, Content' = Content, answer' = answer,
           \A r \in Threads : Phase(r)' = Phase(r)
    PROVE  UNCHANGED Map!absVars
<1>1. content' = content
  BY DEF RInv, Written, Observed
<1>2. ASSUME NEW r \in Threads
      PROVE  /\ (IF Phase(r) = "reading" THEN key[r] ELSE Null)' =
                   IF Phase(r) = "reading" THEN key[r] ELSE Null
             /\ seen'[r] = seen[r]
  <2>1. Phase(r) = "reading" <=> pc[r] = "g_walk"
    BY DEF Phase
  <2>2. Phase(r)' = "reading" <=> pc'[r] = "g_walk"
    BY DEF Phase
  <2>3. CASE pc[r] = "g_walk"
    <3>1. pc'[r] = "g_walk"
      BY <2>1, <2>2, <2>3
    <3>2. seen'[r] = seen[r] \cup {content'[key[r]]} /\ key'[r] = key[r]
          /\ content[key[r]] \in seen[r]
      BY <3>1, SeenGrows DEF Guided
    <3>3. QED
      BY <1>1, <2>1, <2>2, <2>3, <3>1, <3>2
  <2>4. CASE pc[r] # "g_walk"
    <3>1. seen'[r] = seen[r]
      BY <2>4 DEF Written, Observed
    <3>2. QED
      BY <2>1, <2>2, <2>4, <3>1
  <2>5. QED
    BY <2>3, <2>4
<1>3. seen' = seen
  <2>1. seen = [r \in Threads |-> seen[r]]
    BY DEF RInv, Inv, TypeOK
  <2>2. seen' = [r \in Threads |-> seen'[r]]
    BY DEF Written, Inv, TypeOK
  <2>3. QED
    BY <1>2, <2>1, <2>2
<1>4. [r \in Threads |-> Phase(r)]' = [r \in Threads |-> Phase(r)]
  OBVIOUS
<1>5. [r \in Threads |-> IF Phase(r) = "reading" THEN key[r] ELSE Null]' =
         [r \in Threads |-> IF Phase(r) = "reading" THEN key[r] ELSE Null]
  BY <1>2
<1>6. QED
  BY <1>1, <1>3, <1>4, <1>5 DEF Map!absVars

\* A writer's step leaves the readers where they are.
LEMMA WriterStep ==
    ASSUME RInv, Inv', NEW t \in Threads,
           \/ \E k \in Types : (\E v \in Values : SetAttr(t, k, v)) \/ DelAttr(t, k)
           \/ ChainAfterProxy(t) \/ Collapse(t) \/ Unwind(t)
    PROVE  /\ Written /\ answer' = answer
           /\ \A r \in Threads : Phase(r)' = Phase(r)
<1> USE DEF Goto, reader, Exceptions
<1>1. /\ Observed /\ UNCHANGED <<cursor, answer>>
      /\ pc[t] \notin {"g_walk", "g_return"} /\ pc'[t] \notin {"g_walk", "g_return"}
      /\ \A r \in Threads \ {t} : pc'[r] = pc[r] /\ key'[r] = key[r]
  <2>0. pc \in [Threads -> {"idle", "g_walk", "g_return", "s_chain", "d_collapse"} \cup Exceptions]
        /\ key \in [Threads -> Types]
    BY DEF RInv, Inv, TypeOK
  <2>1. ASSUME NEW k \in Types, NEW v \in Values, SetAttr(t, k, v)
        PROVE  /\ Observed /\ UNCHANGED <<cursor, answer>>
               /\ pc[t] \notin {"g_walk", "g_return"} /\ pc'[t] \notin {"g_walk", "g_return"}
               /\ \A r \in Threads \ {t} : pc'[r] = pc[r] /\ key'[r] = key[r]
    BY <2>0, <2>1 DEF SetAttr, SetProxy, SetFirst, WrapProxy, SetHead, SetValue, InsertAfter,
                      Inside, Stay
  <2>2. ASSUME NEW k \in Types, DelAttr(t, k)
        PROVE  /\ Observed /\ UNCHANGED <<cursor, answer>>
               /\ pc[t] \notin {"g_walk", "g_return"} /\ pc'[t] \notin {"g_walk", "g_return"}
               /\ \A r \in Threads \ {t} : pc'[r] = pc[r] /\ key'[r] = key[r]
    BY <2>0, <2>2 DEF DelAttr, DelBare, DelHead, DelInside, Stay
  <2>3. CASE ChainAfterProxy(t) \/ Collapse(t) \/ Unwind(t)
    BY <2>0, <2>3 DEF ChainAfterProxy, Collapse, Unwind, Leave
  <2>4. QED
    BY <2>1, <2>2, <2>3
<1>2. Written
  BY <1>1 DEF Written, RInv
<1>3. ASSUME NEW r \in Threads PROVE Phase(r)' = Phase(r)
  BY <1>1 DEF Phase
<1>4. QED
  BY <1>1, <1>2, <1>3

LEMMA RefinesWrite ==
    ASSUME RInv, Inv', NEW t \in Threads,
           \/ \E k \in Types : (\E v \in Values : SetAttr(t, k, v)) \/ DelAttr(t, k)
           \/ ChainAfterProxy(t) \/ Collapse(t) \/ Unwind(t)
    PROVE  RInv' /\ [Map!ANext]_(Map!absVars)
<1>0. /\ Written /\ answer' = answer
      /\ \A r \in Threads : Phase(r)' = Phase(r)
  BY WriterStep
<1>1. Inv /\ content = Content /\ content' = Content'
  BY <1>0 DEF RInv, Written, Observed
<1>2. SUFFICES Reads' /\ [Map!ANext]_(Map!absVars)
  BY <1>0, <1>1 DEF RInv
<1>3. ASSUME NEW k \in Types, NEW w \in Values \cup {Null}, Content' = [Content EXCEPT ![k] = w]
      PROVE  Map!ANext
  <2>1. Map!Write(k, w)
    BY <1>0, <1>3, WriteStep
  <2>2. QED
    BY <2>1 DEF Map!ANext
<1>4. ASSUME Content' = Content PROVE UNCHANGED Map!absVars
  BY <1>0, <1>4, WriteStutter
<1>5. ASSUME NEW k \in Types, NEW v \in Values, SetAttr(t, k, v)
      PROVE  Reads' /\ [Map!ANext]_(Map!absVars)
  <2>1. \/ Content' = [Content EXCEPT ![k] = v]
        \/ WrapProxy(t, k, v) /\ Content' = Content
    BY <1>1, <1>5, SetEffect
  <2>2. attributes \in Links => content' = [content EXCEPT ![k] = v]
    BY <1>1, <2>1, AttributeAssumption DEF WrapProxy
  <2>3. Reads'
    BY <1>0, <1>5, <2>2, ReadsSet
  <2>4. QED
    BY <1>3, <1>4, <2>1, <2>3
<1>6. ASSUME NEW k \in Types, DelAttr(t, k)
      PROVE  Reads' /\ [Map!ANext]_(Map!absVars)
  <2>1. Content' = [Content EXCEPT ![k] = Null]
    BY <1>1, <1>6, DelEffect
  <2>2. Reads'
    BY <1>0, <1>1, <1>6, <2>1, ReadsDeleted
  <2>3. QED
    BY <1>3, <2>1, <2>2
<1>7. CASE ChainAfterProxy(t)
  <2>1. Content' = [Content EXCEPT ![key[t]] = arg[t]]
    BY <1>1, <1>7, ChainEffect
  <2>2. key[t] \in Types /\ arg[t] \in Values \cup {Null}
    BY <1>1 DEF Inv, TypeOK
  <2>3. Reads'
    BY <1>0, <1>1, <1>7, <2>1, ReadsChained
  <2>4. QED
    BY <1>3, <2>1, <2>2, <2>3
<1>8. CASE Collapse(t) \/ Unwind(t)
  <2>1. Content' = Content
    BY <1>1, <1>8, CollapseEffect
  <2>2. Reads'
    BY <1>0, <1>8, ReadsLeft
  <2>3. QED
    BY <1>4, <2>1, <2>2
<1>9. QED
  BY <1>5, <1>6, <1>7, <1>8

LEMMA RefinesRead ==
    ASSUME RInv, Inv', NEW t \in Threads,
           (\E k \in Types : GetHead(t, k)) \/ Read(t) \/ Return(t)
    PROVE  RInv' /\ [Map!ANext]_(Map!absVars)
<1> DEFINE Asked(r) == IF Phase(r) = "reading" THEN key[r] ELSE Null
           P == [r \in Threads |-> Phase(r)]
           A == [r \in Threads |-> Asked(r)]
<1>0. Inv /\ Reads /\ content = Content
  BY DEF RInv
<1>1. content' = content /\ content' = Content' /\ UNCHANGED listVars
  <2>1. content' = content /\ UNCHANGED listVars
    BY DEF GetHead, Read, GetNext, GetValue, Return
  <2>2. QED
    BY <1>0, <2>1, NothingWritten
<1>2. ASSUME NEW r \in Threads \ {t} PROVE Phase(r)' = Phase(r) /\ Asked(r)' = Asked(r)
  <2>1. pc'[r] = pc[r] /\ key'[r] = key[r]
    BY <1>0 DEF GetHead, Read, GetNext, GetValue, Return, Goto, Inv, TypeOK
  <2>2. QED
    BY <2>1 DEF Phase
<1>3. ASSUME NEW k \in Types, GetHead(t, k) PROVE Reads' /\ Map!Begin(t, k)
  <2>1. Reads'
    BY <1>0, <1>3, ReadsBegun
  <2>2. Phase(t) = "idle" /\ Phase(t)' = "reading" /\ Asked(t)' = k
    BY <1>0, <1>3 DEF GetHead, Goto, Phase, Inv, TypeOK
  <2>3. P[t] = "idle" /\ P' = [P EXCEPT ![t] = "reading"] /\ A' = [A EXCEPT ![t] = k]
    BY <1>2, <2>2
  <2>4. seen' = [seen EXCEPT ![t] = {content[k]}] /\ UNCHANGED <<content, answer>>
    BY <1>3 DEF GetHead
  <2>5. QED
    BY <2>1, <2>3, <2>4 DEF Map!Begin
<1>4. ASSUME GetNext(t) PROVE Reads' /\ UNCHANGED Map!absVars
  <2>1. Reads'
    BY <1>0, <1>4, ReadsNext
  <2>2. UNCHANGED <<pc, key, content, seen, answer>>
    BY <1>4 DEF GetNext
  <2>3. P' = P /\ A' = A
    BY <2>2 DEF Phase
  <2>4. QED
    BY <2>1, <2>2, <2>3 DEF Map!absVars
<1>5. ASSUME GetValue(t) PROVE Reads' /\ Map!Answer(t)
  <2>1. Reads'
    BY <1>0, <1>5, ReadsOver
  <2>2. Phase(t) = "reading" /\ Phase(t)' = "answered" /\ Asked(t)' = Null
    BY <1>0, <1>5 DEF GetValue, Goto, Phase, Inv, TypeOK
  <2>3. P[t] = "reading" /\ P' = [P EXCEPT ![t] = "answered"] /\ A' = [A EXCEPT ![t] = Null]
    BY <1>2, <2>2
  <2>4. seen' = [seen EXCEPT ![t] = {}] /\ UNCHANGED content
    BY <1>5 DEF GetValue
  <2>5. \E v \in seen[t] : answer' = [answer EXCEPT ![t] = v]
    BY <1>0, <1>5, AnswerSeen
  <2>6. QED
    BY <2>1, <2>3, <2>4, <2>5 DEF Map!Answer
<1>6. ASSUME Return(t) PROVE Reads' /\ Map!End(t)
  <2>1. Reads'
    BY <1>0, <1>6, ReadsOver
  <2>2. Phase(t) = "answered" /\ Phase(t)' = "idle" /\ Asked(t)' = Asked(t)
    BY <1>0, <1>6 DEF Return, Goto, Phase, Inv, TypeOK
  <2>3. P[t] = "answered" /\ P' = [P EXCEPT ![t] = "idle"] /\ A' = A
    BY <1>2, <2>2
  <2>4. answer' = [answer EXCEPT ![t] = Null] /\ UNCHANGED <<content, seen>>
    BY <1>6 DEF Return
  <2>5. QED
    BY <2>1, <2>3, <2>4 DEF Map!End
<1> HIDE DEF Asked, P, A
<1>7. QED
  BY <1>1, <1>3, <1>4, <1>5, <1>6 DEF Read, RInv, Map!ANext

LEMMA RInvInit == Init => RInv /\ Map!AInit
<1> SUFFICES ASSUME Init PROVE RInv /\ Map!AInit
  OBVIOUS
<1>1. Inv /\ Reads
  BY InvInit DEF Init, Reads
<1>2. Content = [k \in Types |-> Null]
  <2>1. Chain = {} /\ attributes \notin Values
    BY AttributeAssumption DEF Init, Chain
  <2>2. QED
    BY <2>1 DEF Content
<1>3. Map!AInit
  BY DEF Init, Phase, Map!AInit
<1>4. QED
  BY <1>1, <1>2, <1>3 DEF RInv, Init

LEMMA RefinesNext == RInv /\ Inv' /\ [Next]_vars => RInv' /\ [Map!ANext]_(Map!absVars)
<1> SUFFICES ASSUME RInv, Inv', [Next]_vars PROVE RInv' /\ [Map!ANext]_(Map!absVars)
  OBVIOUS
<1>1. ASSUME NEW t \in Threads,
             \/ \E k \in Types : (\E v \in Values : SetAttr(t, k, v)) \/ DelAttr(t, k)
             \/ ChainAfterProxy(t) \/ Collapse(t) \/ Unwind(t)
      PROVE  RInv' /\ [Map!ANext]_(Map!absVars)
  BY <1>1, RefinesWrite
<1>2. ASSUME NEW t \in Threads, (\E k \in Types : GetHead(t, k)) \/ Read(t) \/ Return(t)
      PROVE  RInv' /\ [Map!ANext]_(Map!absVars)
  BY <1>2, RefinesRead
<1>3. CASE UNCHANGED vars
  <2>1. UNCHANGED <<listVars, pc, key, cursor, answer, content, seen>> /\ Content' = Content
    BY <1>3, NothingWritten DEF vars
  <2>2. Reads'
    BY <2>1 DEF RInv, Reads, Guided, NoLink, listVars
  <2>3. UNCHANGED Map!absVars
    BY <2>1 DEF Map!absVars, Phase
  <2>4. QED
    BY <2>1, <2>2, <2>3 DEF RInv
<1>4. QED
  BY <1>1, <1>2, <1>3 DEF Next

\* Lock-free reads and two-step writes under the monitor implement a map: whatever the
\* interleaving, an answer is a value its attribute had between the beginning and the end
\* of the read, also when the walk stands on links that were removed meanwhile.
THEOREM Refinement == Spec => ImplementsMap
<1>1. Init => RInv /\ Map!AInit
  BY RInvInit
<1>2. RInv /\ Inv' /\ [Next]_vars => RInv' /\ [Map!ANext]_(Map!absVars)
  BY RefinesNext
<1>3. QED
  BY <1>1, <1>2, InvAlways, PTL DEF Spec, ImplementsMap, Map!ASpec
==============================================================================
