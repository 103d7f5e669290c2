----------------------------- MODULE JyAttribute -----------------------------
(***************************************************************************)
(* The attributes of one object: core/JyAttribute.java and the volatile    *)
(* field PyObject.attributes.  The field holds null, a Java proxy as it    *)
(* is, or the head of a list of links sorted by type, a Java proxy being   *)
(* the first.                                                              *)
(*                                                                         *)
(* Writers hold the monitor of the object.  Readers hold nothing, so each  *)
(* volatile read of a reader is a step, and so is each volatile write of a *)
(* writer they can observe: the walk of a writer, which nothing disturbs,  *)
(* and what it writes to a link nobody has seen yet are one step with the  *)
(* write that publishes them.  delAttr on null returns at once.            *)
(***************************************************************************)
EXTENDS Integers

CONSTANTS Threads,   \* they all write
          Readers,   \* those that read as well
          NoThread,  \* the owner of a free monitor
          Types,     \* attribute types: bytes
          Values,    \* values of attributes, Java proxies among them
          Null,
          MaxLinks   \* bound: the links that are ever created

JAVA_PROXY_ATTR == -128
Links == 1 .. MaxLinks

ASSUME AttributeAssumption ==
    /\ NoThread \notin Threads /\ Readers \subseteq Threads
    /\ Types \subseteq -128 .. 127 /\ JAVA_PROXY_ATTR \in Types
    /\ MaxLinks \in Nat
    /\ Null \notin Values /\ Null \notin Links
    /\ Values \cap Links = {}

VARIABLES attributes,         \* the field of the object
          made,               \* the links created so far are 1 .. made
          type, next, value,  \* their fields attr_type, next and value
          monitor,            \* the thread inside synchronized (ob)
          pc,                 \* where each thread is
          key, arg,           \* the parameters of its call
          cursor,             \* getAttr's oatt and att
          answer,             \* what getAttr is about to return
          content,            \* history: the attributes as a map
          seen                \* history: what the attribute was during the read

listVars == <<attributes, made, type, next, value>>
vars == <<listVars, monitor, pc, key, arg, cursor, answer, content, seen>>

Exceptions == {"ClassCastException", "NullPointerException"}

TypeOK ==
    /\ attributes \in Links \cup Values \cup {Null}
    /\ made \in 0 .. MaxLinks
    /\ type \in [Links -> Types]
    /\ next \in [Links -> Links \cup {Null}]
    /\ value \in [Links -> Values \cup {Null}]
    /\ monitor \in Threads \cup {NoThread}
    /\ pc \in [Threads -> {"idle", "g_walk", "g_return", "s_chain", "d_collapse"}
                            \cup Exceptions]
    /\ key \in [Threads -> Types]
    /\ arg \in [Threads -> Values \cup {Null}]
    /\ cursor \in [Threads -> Links \cup Values \cup {Null}]
    /\ answer \in [Threads -> Values \cup {Null}]
    /\ content \in [Types -> Values \cup {Null}]
    /\ seen \in [Threads -> SUBSET (Values \cup {Null})]

Init ==
    /\ attributes = Null /\ made = 0
    /\ type = [l \in Links |-> JAVA_PROXY_ATTR]
    /\ next = [l \in Links |-> Null]
    /\ value = [l \in Links |-> Null]
    /\ monitor = NoThread
    /\ pc = [t \in Threads |-> "idle"]
    /\ key = [t \in Threads |-> JAVA_PROXY_ATTR]
    /\ arg = [t \in Threads |-> Null]
    /\ cursor = [t \in Threads |-> Null]
    /\ answer = [t \in Threads |-> Null]
    /\ content = [k \in Types |-> Null]
    /\ seen = [t \in Threads |-> {}]

\* The links of the list: the head, if it is a link, and what next leads to from it.
Chain ==
    {l \in 1 .. made : \A L \in SUBSET (1 .. made) :
        /\ attributes \in 1 .. made => attributes \in L
        /\ \A m \in L : next[m] \in 1 .. made => next[m] \in L
        => l \in L}

\* What the attributes of the object are, as a map.
Content ==
    LET links == Chain
    IN  [k \in Types |->
            IF \E l \in links : type[l] = k
            THEN value[CHOOSE l \in links : type[l] = k]
            ELSE IF k = JAVA_PROXY_ATTR /\ attributes \in Values THEN attributes ELSE Null]

\* Every write is observed by the reads that are under way.
Observed ==
    /\ content' = Content'
    /\ seen' = [t \in Threads |-> IF pc[t] = "g_walk" THEN seen[t] \cup {content'[key[t]]}
                                                      ELSE seen[t]]

Goto(t, l) == pc' = [pc EXCEPT ![t] = l]

reader == <<cursor, answer>>

\* t enters synchronized (ob) and leaves it in the same step.
Inside(t) ==
    /\ pc[t] = "idle" /\ monitor = NoThread
    /\ Observed
    /\ UNCHANGED <<monitor, pc, key, arg, reader>>

\* t enters synchronized (ob), and stays at l.
Stay(t, l) ==
    /\ pc[t] = "idle" /\ monitor = NoThread
    /\ monitor' = t
    /\ Goto(t, l)
    /\ Observed
    /\ UNCHANGED reader

\* t leaves synchronized (ob).
Leave(t) ==
    /\ monitor' = NoThread
    /\ Goto(t, "idle")
    /\ key' = [key EXCEPT ![t] = JAVA_PROXY_ATTR] /\ arg' = [arg EXCEPT ![t] = Null]
    /\ Observed
    /\ UNCHANGED reader

\* A new AttributeLink or TransientAttributeLink.
NewLink(k, v) ==
    /\ made < MaxLinks
    /\ made' = made + 1
    /\ type' = [type EXCEPT ![made + 1] = k]
    /\ value' = [value EXCEPT ![made + 1] = v]
------------------------------------------------------------------------------
\* setAttr with a value; without one it is delAttr

\* attributes is null or a proxy, and a proxy is set.
SetProxy(t, k, v) ==
    /\ attributes \notin Links /\ k = JAVA_PROXY_ATTR
    /\ attributes' = v
    /\ UNCHANGED <<made, type, next, value>>
    /\ Inside(t)

SetFirst(t, k, v) ==
    /\ attributes = Null /\ k # JAVA_PROXY_ATTR
    /\ NewLink(k, v)
    /\ attributes' = made + 1
    /\ UNCHANGED next
    /\ Inside(t)

\* The proxy moves to a link of its own; the new attribute is not chained yet.  The
\* bound has to leave room for both links.
WrapProxy(t, k, v) ==
    /\ made + 1 < MaxLinks
    /\ attributes \in Values /\ k # JAVA_PROXY_ATTR
    /\ NewLink(JAVA_PROXY_ATTR, attributes)
    /\ attributes' = made + 1
    /\ UNCHANGED next
    /\ key' = [key EXCEPT ![t] = k] /\ arg' = [arg EXCEPT ![t] = v]
    /\ Stay(t, "s_chain")

ChainAfterProxy(t) ==
    /\ pc[t] = "s_chain"
    /\ NewLink(key[t], arg[t])
    /\ next' = [next EXCEPT ![attributes] = made + 1]
    /\ UNCHANGED attributes
    /\ Leave(t)

SetHead(t, k, v) ==
    /\ attributes \in Links /\ type[attributes] > k
    /\ NewLink(k, v)
    /\ next' = [next EXCEPT ![made + 1] = attributes]
    /\ attributes' = made + 1
    /\ Inside(t)

\* Mutant of LastUpTo: the walk stops before a link of the very type.
LastBelow(att, k) ==
    /\ att \in Chain /\ type[att] <= k
    /\ next[att] # Null => type[next[att]] >= k

\* The link the walk of setAttr ends at.
LastUpTo(att, k) ==
    /\ att \in Chain /\ type[att] <= k
    /\ next[att] # Null => type[next[att]] > k

SetValue(t, k, v) ==
    /\ \E att \in Links : /\ LastUpTo(att, k) /\ type[att] = k
                          /\ value' = [value EXCEPT ![att] = v]
    /\ UNCHANGED <<attributes, made, type, next>>
    /\ Inside(t)

InsertAfter(t, k, v) ==
    /\ NewLink(k, v)
    /\ \E att \in Links : /\ LastUpTo(att, k) /\ type[att] # k
                          /\ next' = [next EXCEPT ![made + 1] = next[att], ![att] = made + 1]
    /\ UNCHANGED attributes
    /\ Inside(t)

SetAttr(t, k, v) == \/ SetProxy(t, k, v) \/ SetFirst(t, k, v) \/ WrapProxy(t, k, v)
                    \/ SetHead(t, k, v)  \/ SetValue(t, k, v) \/ InsertAfter(t, k, v)
------------------------------------------------------------------------------
\* delAttr

\* attributes is a proxy, which is not a JyAttribute: the cast fails, or, when the
\* proxy was what to delete, the field is cleared and its null is dereferenced.
DelBare(t, k) ==
    /\ attributes \in Values
    /\ attributes' = IF k = JAVA_PROXY_ATTR THEN Null ELSE attributes
    /\ UNCHANGED <<made, type, next, value, key, arg>>
    /\ Stay(t, IF k = JAVA_PROXY_ATTR THEN "NullPointerException" ELSE "ClassCastException")

DelHead(t, k) ==
    /\ attributes \in Links /\ type[attributes] = k
    /\ attributes' = next[attributes]
    /\ UNCHANGED <<made, type, next, value, key, arg>>
    /\ Stay(t, "d_collapse")

\* att is the link before the one to delete.
Precedes(att, k) == att \in Chain /\ next[att] # Null /\ type[next[att]] = k

\* Mutant of DelInside: the removed link is cut off from the list.
DelInsideAndCut(t, k) ==
    /\ attributes \in Links /\ type[attributes] # k
    /\ \/ \E att \in Links :
             /\ Precedes(att, k)
             /\ next' = [next EXCEPT ![att] = next[next[att]], ![next[att]] = Null]
       \/ (\A att \in Links : ~Precedes(att, k)) /\ UNCHANGED next
    /\ UNCHANGED <<attributes, made, type, value, key, arg>>
    /\ Stay(t, "d_collapse")

DelInside(t, k) ==
    /\ attributes \in Links /\ type[attributes] # k
    /\ \/ \E att \in Links : Precedes(att, k) /\ next' = [next EXCEPT ![att] = next[next[att]]]
       \/ (\A att \in Links : ~Precedes(att, k)) /\ UNCHANGED next
    /\ UNCHANGED <<attributes, made, type, value, key, arg>>
    /\ Stay(t, "d_collapse")

\* A proxy that is left alone needs no link.
Collapse(t) ==
    /\ pc[t] = "d_collapse"
    /\ attributes' = IF attributes \in Links /\ next[attributes] = Null
                          /\ type[attributes] = JAVA_PROXY_ATTR
                     THEN value[attributes] ELSE attributes
    /\ UNCHANGED <<made, type, next, value>>
    /\ Leave(t)

\* The exception leaves synchronized (ob); the caller deals with it.
Unwind(t) ==
    /\ pc[t] \in Exceptions
    /\ UNCHANGED listVars
    /\ Leave(t)

DelAttr(t, k) == DelBare(t, k) \/ DelHead(t, k) \/ DelInside(t, k)
------------------------------------------------------------------------------
\* getAttr, and hasAttr, which compares its answer with null

GetHead(t, k) ==
    /\ t \in Readers /\ pc[t] = "idle"
    /\ Goto(t, "g_walk")
    /\ key' = [key EXCEPT ![t] = k]
    /\ cursor' = [cursor EXCEPT ![t] = attributes]
    /\ seen' = [seen EXCEPT ![t] = {content[k]}]
    /\ UNCHANGED <<listVars, monitor, arg, answer, content>>

Short(t) == cursor[t] \in Links /\ type[cursor[t]] < key[t]

\* Mutant of GetNext: the walk goes on from the head.
GetNextOfHead(t) ==
    /\ pc[t] = "g_walk" /\ Short(t)
    /\ cursor' = [cursor EXCEPT ![t] = IF attributes \in Links THEN next[attributes] ELSE Null]
    /\ UNCHANGED <<listVars, monitor, pc, key, arg, answer, content, seen>>

GetNext(t) ==
    /\ pc[t] = "g_walk" /\ Short(t)
    /\ cursor' = [cursor EXCEPT ![t] = next[cursor[t]]]
    /\ UNCHANGED <<listVars, monitor, pc, key, arg, answer, content, seen>>

GetValue(t) ==
    /\ pc[t] = "g_walk" /\ ~Short(t)
    /\ Goto(t, "g_return")
    /\ answer' = [answer EXCEPT ![t] =
         IF cursor[t] \in Links
         THEN IF type[cursor[t]] = key[t] THEN value[cursor[t]] ELSE Null
         ELSE IF key[t] = JAVA_PROXY_ATTR THEN cursor[t] ELSE Null]
    /\ key' = [key EXCEPT ![t] = JAVA_PROXY_ATTR]
    /\ cursor' = [cursor EXCEPT ![t] = Null]
    /\ seen' = [seen EXCEPT ![t] = {}]
    /\ UNCHANGED <<listVars, monitor, arg, content>>

Return(t) ==
    /\ pc[t] = "g_return"
    /\ Goto(t, "idle")
    /\ answer' = [answer EXCEPT ![t] = Null]
    /\ UNCHANGED <<listVars, monitor, key, arg, cursor, content, seen>>
------------------------------------------------------------------------------
Read(t) == GetNext(t) \/ GetValue(t)

Next == \E t \in Threads :
          \/ \E k \in Types : \/ \E v \in Values : SetAttr(t, k, v)
                              \/ DelAttr(t, k)
                              \/ GetHead(t, k)
          \/ ChainAfterProxy(t) \/ Collapse(t) \/ Unwind(t)
          \/ Read(t) \/ Return(t)

Spec == Init /\ [][Next]_vars

\* A thread inside getAttr is scheduled; nothing is assumed of writers.
FairSpec == Spec /\ \A t \in Threads : WF_vars(Read(t))
------------------------------------------------------------------------------
\* Every link, also one a reader holds after it was removed, leads to a link of a
\* higher type that exists: a walk of getAttr (JyAttribute.java:230) that meets any
\* sequence of inserts and deletes goes forward and ends.
Sorted ==
    \A l \in 1 .. made : next[l] # Null =>
        next[l] \in 1 .. made /\ type[l] < type[next[l]]

\* Between two writes a proxy has a link only if other attributes follow
\* ("javaProxy always on top so there is no speed-regression", JyAttribute.java:22-23).
NoLoneProxy ==
    monitor = NoThread /\ attributes \in Links /\ type[attributes] = JAVA_PROXY_ATTR
        => next[attributes] # Null

WellFormed == Sorted /\ NoLoneProxy

\* "It is unspecified whether this method returns according to the old state or the
\* new state ... a concurrent write access never exposes an invalid intermediate
\* state" (JyAttribute.java:197-202): lock-free reads and two-step writes implement a
\* map whose reads are answered with a value of their own interval.
Phase(t) == CASE pc[t] = "g_walk" -> "reading"
              [] pc[t] = "g_return" -> "answered"
              [] OTHER -> "idle"

Map == INSTANCE AbstractAttributes
         WITH phase <- [t \in Threads |-> Phase(t)],
              asked <- [t \in Threads |-> IF Phase(t) = "reading" THEN key[t] ELSE Null]

ImplementsMap == Map!ASpec

\* ... and a read ends, however many writes it meets: each of its steps goes to a higher type.
ReadsEnd == Map!AFairness
==============================================================================
