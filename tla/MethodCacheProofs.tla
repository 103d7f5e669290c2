-------------------------- MODULE MethodCacheProofs --------------------------
(***************************************************************************)
(* The method cache is coherent and lookups that nothing disturbs are      *)
(* right, whatever the types, threads, names, values and size of the table *)
(* and whatever changes threads make, several of them at once included.    *)
(*                                                                         *)
(* A tag is good if it is the tag of a type that is not stale, or if a     *)
(* lookup that is not disturbed has read it.  Entries with good tags are   *)
(* right; a disturbed lookup has no good tag, so that what it caches does  *)
(* not matter; and the tag a type is given is one nobody has.              *)
(***************************************************************************)
EXTENDS MethodCache, SequenceTheorems, TLAPS

------------------------------------------------------------------------------
(* Type correctness, and what a thread has at hand at each point of a call. *)

ThreadTypes ==
    /\ pc \in [Threads -> {"idle", "announce"} \cup LookupLabels \cup RebindLabels]
    /\ calls \in [Threads -> Nat] /\ self \in [Threads -> Types \cup {None}]
    /\ disturbed \in [Threads -> BOOLEAN]

TypeTypes ==
    /\ dict \in [Types -> [Names -> Values \cup {None}]]
    /\ bases \in [Types -> Seq(Types)] /\ mro \in [Types -> Seq(Types)]
    /\ subclasses \in [Types -> Seq(Types)]
    /\ versionTag \in [Types -> Tags] /\ \A T \in Types : versionTag[T].type = T
    /\ monitor \in [Types -> Threads \cup {None}]
    /\ stale \subseteq Types /\ putBack \subseteq Types

LookupTypes ==
    /\ table \in [Slots -> Entries]
    /\ name \in [Threads -> Names \cup {None}] /\ tag \in [Threads -> Tags \cup {None}]
    /\ entry \in [Threads -> Entries] /\ order \in [Threads -> Seq(Types)]
    /\ pos \in [Threads -> Nat \ {0}] /\ answer \in [Threads -> Values \cup {None}]

RebindTypes ==
    /\ path \in [Threads -> Seq(Frames)]
    /\ newBases \in [Threads -> Seq(Types)] /\ savedBases \in [Threads -> Seq(Types)]
    /\ savedMro \in [Threads -> Seq(Types)]
    /\ savedSubMros \in [Threads -> Seq([type : Types, mro : Seq(Types)])]
    /\ edges \in [Threads -> Seq(Step)]

\* What a thread in a call has at hand: a lookup the tag it read of its type, a recursion
\* the type it was called with, outermost, and the types it has entered.
Lookup(t) == /\ self[t] \in Types /\ name[t] \in Names
             /\ tag[t] \in Tags /\ tag[t].type = self[t]
Recursion(t) == /\ path[t] # <<>>
                /\ \A i \in 1 .. Len(path[t]) : path[t][i].type = None <=> i = Len(path[t])

HasAtHand(t) ==
    /\ pc[t] \in LookupLabels => Lookup(t)
    /\ pc[t] \in RebindLabels \cup {"announce"} => self[t] \in Types
    /\ pc[t] \in Announcing => Recursion(t)
    /\ pc[t] = "b_subclasses" => path[t] # <<>>

AtHand == \A t \in Threads : HasAtHand(t)

Types0 == ThreadTypes /\ TypeTypes /\ LookupTypes /\ RebindTypes /\ AtHand

LEMMA TypesImplyTypeOK == Types0 => TypeOK
  BY DEF Types0, ThreadTypes, TypeTypes, LookupTypes, RebindTypes, TypeOK

LEMMA MroTyped ==
    ASSUME NEW T, NEW bs, NEW f PROVE computeMro(T, bs, f) \subseteq Seq(Types)
  BY DEF computeMro

LEMMA DetachedTyped ==
    ASSUME NEW s \in Seq(Types), NEW T PROVE Detached(s, T) \in Seq(Types)
<1> DEFINE first == {i \in DOMAIN s : s[i] = T /\ \A j \in 1 .. i - 1 : s[j] # T}
<1>1. CASE first = {}
  BY <1>1 DEF Detached
<1>2. CASE first # {}
  <2>0. (CHOOSE i \in first : TRUE) \in 1 .. Len(s)
    BY <1>2
  <2>1. PICK i \in 1 .. Len(s) : Detached(s, T) = RemoveAt(s, i)
    BY <1>2, <2>0 DEF Detached
  <2>2. SubSeq(s, 1, i - 1) \in Seq(Types) /\ SubSeq(s, i + 1, Len(s)) \in Seq(Types)
    BY <2>1, SubSeqProperties
  <2>3. QED
    BY <2>1, <2>2, ConcatProperties DEF RemoveAt
<1>3. QED
  BY <1>1, <1>2

LEMMA InitTypes == Init => Types0
<1> SUFFICES ASSUME Init PROVE Types0
  OBVIOUS
<1> USE MethodCacheAssumption DEF Init
<1>1. ThreadTypes
  BY DEF ThreadTypes
<1>2. TypeTypes
  BY DEF TypeTypes, Tags
<1>3. LookupTypes
  BY DEF LookupTypes, Entries, EMPTY
<1>4. RebindTypes
  BY DEF RebindTypes
<1>5. AtHand
  BY DEF AtHand, HasAtHand, LookupLabels, RebindLabels, Announcing
<1>6. QED
  BY <1>1, <1>2, <1>3, <1>4, <1>5 DEF Types0

LEMMA RebindFacts ==
    \A r \in Rebinds : r.type \in Types /\ r.bases \in Seq(Types)
  BY MethodCacheAssumption

LEMMA ThreadTypesKept ==
    ASSUME Types0, NEW t \in Threads, Call(t) \/ Continue(t) PROVE ThreadTypes'
<1> USE DEF Types0, ThreadTypes, LookupLabels, RebindLabels, Announcing, history
<1>1. CASE CallLookup(t)
  BY <1>1, MethodCacheAssumption DEF CallLookup, Begin, Goto
<1>2. CASE ReadEntry(t)
  BY <1>2, MethodCacheAssumption DEF ReadEntry, Goto
<1>3. CASE GetValue(t)
  BY <1>3, MethodCacheAssumption DEF GetValue, Goto
<1>4. CASE ReadMro(t)
  BY <1>4, MethodCacheAssumption DEF ReadMro, Goto
<1>5. CASE ReadDict(t)
  BY <1>5, MethodCacheAssumption DEF ReadDict, Goto
<1>6. CASE EndWalk(t)
  BY <1>6, MethodCacheAssumption DEF EndWalk, Goto
<1>7. CASE Store(t)
  BY <1>7, MethodCacheAssumption DEF Store, Goto
<1>8. CASE ReturnAnswer(t)
  BY <1>8, MethodCacheAssumption DEF ReturnAnswer, Goto
<1>9. CASE SetAttr(t)
  BY <1>9, MethodCacheAssumption DEF SetAttr, WriteDict, Begin, Goto, Change
<1>10. CASE DelAttr(t)
  BY <1>10, MethodCacheAssumption DEF DelAttr, WriteDict, Begin, Goto, Change
<1>11. CASE Invalidate(t)
  BY <1>11, MethodCacheAssumption DEF Invalidate, Goto
<1>12. CASE LeaveType(t)
  BY <1>12, MethodCacheAssumption DEF LeaveType, Goto
<1>13. CASE EndInvalidate(t)
  BY <1>13, MethodCacheAssumption DEF EndInvalidate, Goto
<1>14. CASE CallSetBases(t)
  <2>1. PICK r \in Rebinds : self' = [self EXCEPT ![t] = r.type]
    BY <1>14 DEF CallSetBases
  <2>2. QED
    BY <1>14, <2>1, RebindFacts DEF CallSetBases, Begin, Goto
<1>15. CASE RejectCycle(t)
  BY <1>15, MethodCacheAssumption DEF RejectCycle, Begin, Goto
<1>16. CASE AssignBases(t)
  BY <1>16, MethodCacheAssumption DEF AssignBases, Goto
<1>17. CASE MroInternal(t)
  BY <1>17, MethodCacheAssumption DEF MroInternal, NewMro, Change, Goto
<1>18. CASE MroSubclass(t)
  BY <1>18, MethodCacheAssumption DEF MroSubclass, NewMro, Change, Goto
<1>19. CASE LeaveSubclasses(t)
  BY <1>19, MethodCacheAssumption DEF LeaveSubclasses, Goto
<1>20. CASE MoveEdge(t)
  BY <1>20, MethodCacheAssumption DEF MoveEdge, Goto
<1>21. CASE EndEdges(t)
  BY <1>21, MethodCacheAssumption DEF EndEdges, Goto
<1>22. CASE RestoreSubclass(t)
  BY <1>22, MethodCacheAssumption DEF RestoreSubclass, PutBack, NewMro, Change, Goto
<1>23. CASE RestoreBases(t)
  BY <1>23, MethodCacheAssumption DEF RestoreBases, PutBack, NewMro, Change, Goto
<1>24. QED
  BY <1>1, <1>2, <1>3, <1>4, <1>5, <1>6, <1>7, <1>8, <1>9, <1>10, <1>11, <1>12, <1>13, <1>14, <1>15, <1>16, <1>17, <1>18, <1>19, <1>20, <1>21, <1>22, <1>23 DEF Call, Continue

\* The innermost type a recursion has entered, and where it can go from there.
LEMMA FrameFacts ==
    ASSUME Types0, NEW t \in Threads, path[t] # <<>>
    PROVE  /\ Head(path[t]) \in Frames /\ Tail(path[t]) \in Seq(Frames)
           /\ Head(path[t]).left # <<>> =>
                 /\ Head(Head(path[t]).left) \in Types
                 /\ \A T \in Types : Entered(t, T) \in Seq(Frames)
<1>1. path[t] \in Seq(Frames)
  BY DEF Types0, RebindTypes
<1>2. Head(path[t]) \in Frames /\ Tail(path[t]) \in Seq(Frames)
  BY <1>1, HeadTailProperties
<1>3. ASSUME Head(path[t]).left # <<>>, NEW T \in Types
      PROVE  Head(Head(path[t]).left) \in Types /\ Entered(t, T) \in Seq(Frames)
  <2>1. Head(path[t]).left \in Seq(Types) /\ Head(path[t]).type \in Types \cup {None}
    BY <1>2 DEF Frames
  <2>2. Head(Head(path[t]).left) \in Types /\ Tail(Head(path[t]).left) \in Seq(Types)
    BY <1>3, <2>1, HeadTailProperties
  <2>3. [Head(path[t]) EXCEPT !.left = Tail(@)] \in Frames
    BY <1>2, <2>2 DEF Frames
  <2>4. [type |-> T, left |-> subclasses[T]] \in Frames
    BY DEF Types0, TypeTypes, Frames
  <2>5. <<[type |-> T, left |-> subclasses[T]], [Head(path[t]) EXCEPT !.left = Tail(@)]>>
            \in Seq(Frames)
    BY <2>3, <2>4
  <2>6. QED
    BY <1>2, <2>2, <2>5, ConcatProperties DEF Entered
<1>4. ASSUME Head(path[t]).left # <<>> PROVE Head(Head(path[t]).left) \in Types
  <2>1. Head(path[t]).left \in Seq(Types)
    BY <1>2 DEF Frames
  <2>2. QED
    BY <1>4, <2>1, HeadTailProperties
<1>5. QED
  BY <1>2, <1>3, <1>4

LEMMA InvalidateFacts ==
    ASSUME Types0, NEW t \in Threads, Invalidate(t)
    PROVE  \E S \in Types, hash \in [Names -> Slots] :
              /\ monitor' = [monitor EXCEPT ![S] = t]
              /\ versionTag' = [versionTag EXCEPT
                                   ![S] = [type |-> S, id |-> versionTag[S].id + 1,
                                           slot |-> hash]]
              /\ path' = [path EXCEPT ![t] = Entered(t, S)]
              /\ stale' = stale \ {S} /\ putBack' = putBack \ {S}
<1> DEFINE S == Head(Head(path[t]).left)
<1>1. path[t] # <<>> /\ Head(path[t]).left # <<>>
  BY DEF Invalidate, Types0, AtHand, HasAtHand, Recursion
<1>2. S \in Types
  BY <1>1, FrameFacts
<1>3. PICK hash \in [Names -> Slots] :
          versionTag' = [versionTag EXCEPT ![S] = [type |-> S, id |-> @.id + 1, slot |-> hash]]
  BY DEF Invalidate
<1>4. versionTag' = [versionTag EXCEPT ![S] = [type |-> S, id |-> versionTag[S].id + 1,
                                               slot |-> hash]]
  BY <1>2, <1>3 DEF Types0, TypeTypes
<1>5. /\ monitor' = [monitor EXCEPT ![S] = t] /\ path' = [path EXCEPT ![t] = Entered(t, S)]
      /\ stale' = stale \ {S} /\ putBack' = putBack \ {S}
  BY DEF Invalidate
<1>6. QED
  BY <1>2, <1>4, <1>5

\* The types of MROs that are computed or put back, and of what a change leaves.
LEMMA NewMroTypes ==
    ASSUME Types0, NEW S \in Types, NEW m \in Seq(Types), NewMro(S, m)
    PROVE  mro' \in [Types -> Seq(Types)] /\ stale' \subseteq Types
  BY DEF NewMro, Change, Types0, TypeTypes

LEMMA MroSubclassFacts ==
    ASSUME Types0, NEW t \in Threads, MroSubclass(t)
    PROVE  \E S \in Types :
              /\ savedSubMros' = [savedSubMros EXCEPT
                                     ![t] = Append(@, [type |-> S, mro |-> mro[S]])]
              /\ \/ /\ \E m \in Seq(Types) : NewMro(S, m)
                    /\ path' = [path EXCEPT ![t] = Entered(t, S)] /\ UNCHANGED pc
                 \/ /\ path' = [path EXCEPT ![t] = <<>>] /\ Goto(t, "b_restore")
                    /\ UNCHANGED <<mro, stale, disturbed>>
<1> DEFINE S == Head(Head(path[t]).left)
<1>1. path[t] # <<>> /\ Head(path[t]).left # <<>>
  BY DEF MroSubclass, Types0, AtHand, HasAtHand
<1>2. S \in Types
  BY <1>1, FrameFacts
<1>3. \A m \in computeMro(S, bases[S], mro) : m \in Seq(Types)
  BY MroTyped
<1>4. QED
  BY <1>2, <1>3 DEF MroSubclass

LEMMA TypeTypesKept ==
    ASSUME Types0, NEW t \in Threads, Call(t) \/ Continue(t) PROVE TypeTypes'
<1> USE DEF Types0, TypeTypes, hierarchy, history
<1>1. CASE SetAttr(t)
  <2>1. PICK T \in Types, n \in Names, v \in Values \cup {None} : WriteDict(t, T, n, v)
    BY <1>1, MethodCacheAssumption DEF SetAttr
  <2>2. dict' \in [Types -> [Names -> Values \cup {None}]]
    BY <2>1 DEF WriteDict
  <2>3. stale' \subseteq Types
    BY <2>1 DEF WriteDict, Change
  <2>4. QED
    BY <2>1, <2>2, <2>3 DEF WriteDict
<1>2. CASE DelAttr(t)
  <2>1. PICK T \in Types, n \in Names, v \in Values \cup {None} : WriteDict(t, T, n, v)
    BY <1>2, MethodCacheAssumption DEF DelAttr
  <2>2. dict' \in [Types -> [Names -> Values \cup {None}]]
    BY <2>1 DEF WriteDict
  <2>3. stale' \subseteq Types
    BY <2>1 DEF WriteDict, Change
  <2>4. QED
    BY <2>1, <2>2, <2>3 DEF WriteDict
<1>3. CASE Invalidate(t)
  <2>1. PICK S \in Types, hash \in [Names -> Slots] :
            /\ monitor' = [monitor EXCEPT ![S] = t]
            /\ versionTag' = [versionTag EXCEPT
                                 ![S] = [type |-> S, id |-> versionTag[S].id + 1, slot |-> hash]]
            /\ stale' = stale \ {S} /\ putBack' = putBack \ {S}
    BY <1>3, InvalidateFacts
  <2>2. versionTag[S] \in Tags
    OBVIOUS
  <2>3. [type |-> S, id |-> versionTag[S].id + 1, slot |-> hash] \in Tags
    BY <2>2 DEF Tags
  <2>4. versionTag' \in [Types -> Tags] /\ \A T \in Types : versionTag'[T].type = T
    BY <2>1, <2>3
  <2>5. UNCHANGED <<dict, bases, mro, subclasses>>
    BY <1>3 DEF Invalidate
  <2>6. QED
    BY <2>1, <2>4, <2>5
<1>4. CASE LeaveType(t)
  BY <1>4, MethodCacheAssumption DEF LeaveType, Goto
<1>5. CASE AssignBases(t)
  <2>1. self[t] \in Types
    BY <1>5 DEF AssignBases, AtHand, HasAtHand, RebindLabels
  <2>2. bases' \in [Types -> Seq(Types)]
    BY <1>5, <2>1 DEF AssignBases, RebindTypes
  <2>3. QED
    BY <1>5, <2>2 DEF AssignBases
<1>6. CASE MroInternal(t)
  <2>1. self[t] \in Types
    BY <1>6 DEF MroInternal, AtHand, HasAtHand, RebindLabels
  <2>2. mro' \in [Types -> Seq(Types)] /\ stale' \subseteq Types
    BY <1>6, <2>1, MroTyped, NewMroTypes DEF MroInternal
  <2>3. QED
    BY <1>6, <2>2 DEF MroInternal
<1>7. CASE MroSubclass(t)
  <2>1. mro' \in [Types -> Seq(Types)] /\ stale' \subseteq Types
    BY <1>7, MroSubclassFacts, NewMroTypes
  <2>2. QED
    BY <1>7, <2>1 DEF MroSubclass
<1>8. CASE MoveEdge(t)
  <2>1. self[t] \in Types
    BY <1>8 DEF MoveEdge, AtHand, HasAtHand, RebindLabels
  <2>2. edges[t] \in Seq(Step) /\ edges[t] # <<>>
    BY <1>8 DEF MoveEdge, RebindTypes
  <2>3. Head(edges[t]) \in Step
    BY <2>2, HeadTailProperties
  <2>4. PICK B \in Types : \/ subclasses' = [subclasses EXCEPT ![B] = Append(subclasses[B], self[t])]
                          \/ subclasses' = [subclasses EXCEPT ![B] = Detached(subclasses[B], self[t])]
    BY <1>8, <2>3 DEF MoveEdge, Step
  <2>5. Append(subclasses[B], self[t]) \in Seq(Types)
        /\ Detached(subclasses[B], self[t]) \in Seq(Types)
    BY <2>1, <2>4, DetachedTyped
  <2>6. subclasses' \in [Types -> Seq(Types)]
    BY <2>4, <2>5
  <2>7. QED
    BY <1>8, <2>6 DEF MoveEdge
<1>9. CASE RestoreSubclass(t)
  <2>1. savedSubMros[t] \in Seq([type : Types, mro : Seq(Types)]) /\ savedSubMros[t] # <<>>
    BY <1>9 DEF RestoreSubclass, RebindTypes
  <2>2. Head(savedSubMros[t]) \in [type : Types, mro : Seq(Types)]
    BY <2>1, HeadTailProperties
  <2>3. PICK S \in Types, m \in Seq(Types) : PutBack(S, m)
    BY <1>9, <2>2 DEF RestoreSubclass
  <2>4. mro' \in [Types -> Seq(Types)] /\ stale' \subseteq Types /\ putBack' \subseteq Types
    BY <2>3, NewMroTypes DEF PutBack
  <2>5. QED
    BY <1>9, <2>4 DEF RestoreSubclass
<1>10. CASE RestoreBases(t)
  <2>1. self[t] \in Types
    BY <1>10 DEF RestoreBases, AtHand, HasAtHand, RebindLabels
  <2>2. PutBack(self[t], savedMro[t]) /\ savedMro[t] \in Seq(Types)
        /\ savedBases[t] \in Seq(Types)
    BY <1>10 DEF RestoreBases, RebindTypes
  <2>3. mro' \in [Types -> Seq(Types)] /\ stale' \subseteq Types /\ putBack' \subseteq Types
    BY <2>1, <2>2, NewMroTypes DEF PutBack
  <2>4. bases' \in [Types -> Seq(Types)]
    BY <1>10, <2>1, <2>2 DEF RestoreBases
  <2>5. QED
    BY <1>10, <2>3, <2>4 DEF RestoreBases
<1>11. CASE CallLookup(t) \/ ReadEntry(t) \/ GetValue(t) \/ ReadMro(t) \/ ReadDict(t) \/ EndWalk(t) \/ Store(t) \/ ReturnAnswer(t) \/ EndInvalidate(t) \/ CallSetBases(t) \/ RejectCycle(t) \/ LeaveSubclasses(t) \/ EndEdges(t)
  BY <1>11 DEF CallLookup, Begin, Goto, ReadEntry, GetValue, ReadMro, ReadDict, EndWalk, Store, ReturnAnswer, EndInvalidate, CallSetBases, RejectCycle, LeaveSubclasses, EndEdges
<1>12. QED
  BY <1>1, <1>2, <1>3, <1>4, <1>5, <1>6, <1>7, <1>8, <1>9, <1>10, <1>11 DEF Call, Continue

LEMMA LookupTypesKept ==
    ASSUME Types0, NEW t \in Threads, Call(t) \/ Continue(t) PROVE LookupTypes'
<1> USE DEF Types0, LookupTypes, lookupVars
<1>1. CASE CallLookup(t)
  <2>1. PICK T \in Types, n \in Names : name' = [name EXCEPT ![t] = n]
                                      /\ tag' = [tag EXCEPT ![t] = versionTag[T]]
    BY <1>1, MethodCacheAssumption DEF CallLookup
  <2>2. QED
    BY <1>1, <2>1 DEF CallLookup, TypeTypes
<1>2. CASE ReadEntry(t)
  <2>1. Lookup(t)
    BY <1>2 DEF ReadEntry, AtHand, HasAtHand, LookupLabels
  <2>2. Index(t) \in Slots
    BY <2>1 DEF Lookup, Index, Tags
  <2>3. QED
    BY <1>2, <2>2 DEF ReadEntry
<1>3. CASE GetValue(t)
  <2>1. entry[t].value \in Values \cup {None}
    BY DEF Entries
  <2>2. QED
    BY <1>3, <2>1 DEF GetValue
<1>4. CASE ReadMro(t)
  <2>1. Lookup(t)
    BY <1>4 DEF ReadMro, AtHand, HasAtHand, LookupLabels
  <2>2. QED
    BY <1>4, <2>1 DEF ReadMro, Lookup, TypeTypes
<1>5. CASE ReadDict(t)
  <2>1. Lookup(t)
    BY <1>5 DEF ReadDict, AtHand, HasAtHand, LookupLabels
  <2>2. pos[t] \in 1 .. Len(order[t]) /\ order[t][pos[t]] \in Types
    BY <1>5 DEF ReadDict
  <2>3. dict[order[t][pos[t]]][name[t]] \in Values \cup {None}
    BY <2>1, <2>2 DEF Lookup, TypeTypes
  <2>4. pos' \in [Threads -> Nat \ {0}] /\ answer' \in [Threads -> Values \cup {None}]
    <3>1. CASE dict[order[t][pos[t]]][name[t]] = None
      BY <1>5, <3>1 DEF ReadDict
    <3>2. CASE dict[order[t][pos[t]]][name[t]] # None
      BY <1>5, <2>3, <3>2 DEF ReadDict
    <3>3. QED
      BY <3>1, <3>2
  <2>5. QED
    BY <1>5, <2>4 DEF ReadDict
<1>6. CASE Store(t)
  <2>1. Lookup(t)
    BY <1>6 DEF Store, AtHand, HasAtHand, LookupLabels
  <2>2. Index(t) \in Slots
    BY <2>1 DEF Lookup, Index, Tags
  <2>3. [version |-> tag[t], name |-> name[t], value |-> answer[t]] \in Entries
    BY <2>1 DEF Lookup, Entries
  <2>4. QED
    BY <1>6, <2>2, <2>3 DEF Store
<1>7. CASE ReturnAnswer(t)
  <2>1. EMPTY \in Entries
    BY DEF EMPTY, Entries
  <2>2. QED
    BY <1>7, <2>1 DEF ReturnAnswer
<1>8. CASE EndWalk(t) \/ SetAttr(t) \/ DelAttr(t) \/ Invalidate(t) \/ LeaveType(t) \/ EndInvalidate(t) \/ CallSetBases(t) \/ RejectCycle(t) \/ AssignBases(t) \/ MroInternal(t) \/ MroSubclass(t) \/ LeaveSubclasses(t) \/ MoveEdge(t) \/ EndEdges(t) \/ RestoreSubclass(t) \/ RestoreBases(t)
  BY <1>8 DEF EndWalk, Goto, SetAttr, WriteDict, Begin, Change, DelAttr, Invalidate, LeaveType, EndInvalidate, CallSetBases, RejectCycle, AssignBases, MroInternal, NewMro, MroSubclass, LeaveSubclasses, MoveEdge, EndEdges, RestoreSubclass, PutBack, RestoreBases
<1>9. QED
  BY <1>1, <1>2, <1>3, <1>4, <1>5, <1>6, <1>7, <1>8 DEF Call, Continue

LEMMA CallingTyped == \A T \in Types : Calling(T) \in Seq(Frames)
  BY DEF Calling, Frames

LEMMA RebindTypesKept ==
    ASSUME Types0, NEW t \in Threads, Call(t) \/ Continue(t) PROVE RebindTypes'
<1> USE DEF Types0, RebindTypes, rebindVars
<1>1. CASE SetAttr(t)
  <2>1. PICK T \in Types, n \in Names, v \in Values \cup {None} : WriteDict(t, T, n, v)
    BY <1>1, MethodCacheAssumption DEF SetAttr
  <2>2. QED
    BY <2>1, CallingTyped DEF WriteDict
<1>2. CASE DelAttr(t)
  <2>1. PICK T \in Types, n \in Names, v \in Values \cup {None} : WriteDict(t, T, n, v)
    BY <1>2, MethodCacheAssumption DEF DelAttr
  <2>2. QED
    BY <2>1, CallingTyped DEF WriteDict
<1>3. CASE Invalidate(t)
  <2>1. path[t] # <<>> /\ Head(path[t]).left # <<>>
    BY <1>3 DEF Invalidate, AtHand, HasAtHand, Recursion
  <2>2. PICK S \in Types : path' = [path EXCEPT ![t] = Entered(t, S)]
    BY <1>3, InvalidateFacts
  <2>3. path' \in [Threads -> Seq(Frames)]
    BY <2>1, <2>2, FrameFacts
  <2>4. QED
    BY <1>3, <2>3 DEF Invalidate
<1>4. CASE LeaveType(t)
  <2>1. path[t] # <<>>
    BY <1>4 DEF LeaveType, AtHand, HasAtHand, Recursion
  <2>2. path' \in [Threads -> Seq(Frames)]
    BY <1>4, <2>1, FrameFacts DEF LeaveType
  <2>3. QED
    BY <1>4, <2>2 DEF LeaveType
<1>5. CASE EndInvalidate(t)
  <2>1. pc[t] = "b_announce" => self[t] \in Types
    BY DEF AtHand, HasAtHand, RebindLabels
  <2>2. path' \in [Threads -> Seq(Frames)]
    <3>1. CASE pc[t] = "b_announce"
      BY <1>5, <2>1, <3>1, CallingTyped DEF EndInvalidate
    <3>2. CASE pc[t] # "b_announce"
      <4>1. path' = [path EXCEPT ![t] = <<>>]
        BY <1>5, <3>2 DEF EndInvalidate
      <4>2. <<>> \in Seq(Frames)
        OBVIOUS
      <4>3. QED
        BY <4>1, <4>2
    <3>3. QED
      BY <3>1, <3>2
  <2>3. QED
    BY <1>5, <2>2 DEF EndInvalidate
<1>6. CASE CallSetBases(t)
  <2>1. PICK r \in Rebinds : newBases' = [newBases EXCEPT ![t] = r.bases]
    BY <1>6 DEF CallSetBases
  <2>2. QED
    BY <1>6, <2>1, RebindFacts DEF CallSetBases
<1>7. CASE AssignBases(t)
  <2>1. self[t] \in Types
    BY <1>7 DEF AssignBases, AtHand, HasAtHand, RebindLabels
  <2>2. QED
    BY <1>7, <2>1 DEF AssignBases, TypeTypes
<1>8. CASE MroInternal(t)
  <2>1. self[t] \in Types
    BY <1>8 DEF MroInternal, AtHand, HasAtHand, RebindLabels
  <2>2. <<[type |-> self[t], left |-> subclasses[self[t]]]>> \in Seq(Frames)
    BY <2>1 DEF TypeTypes, Frames
  <2>3. QED
    BY <1>8, <2>2 DEF MroInternal
<1>9. CASE MroSubclass(t)
  <2>1. path[t] # <<>> /\ Head(path[t]).left # <<>>
    BY <1>9 DEF MroSubclass, AtHand, HasAtHand
  <2>2. PICK S \in Types :
            /\ savedSubMros' = [savedSubMros EXCEPT
                                   ![t] = Append(savedSubMros[t], [type |-> S, mro |-> mro[S]])]
            /\ path' \in {[path EXCEPT ![t] = Entered(t, S)], [path EXCEPT ![t] = <<>>]}
    BY <1>9, MroSubclassFacts
  <2>3. [type |-> S, mro |-> mro[S]] \in [type : Types, mro : Seq(Types)]
    BY DEF TypeTypes
  <2>4. Append(savedSubMros[t], [type |-> S, mro |-> mro[S]])
            \in Seq([type : Types, mro : Seq(Types)])
    BY <2>3, AppendProperties
  <2>5. path' \in [Threads -> Seq(Frames)]
    <3>1. Entered(t, S) \in Seq(Frames)
      BY <2>1, FrameFacts
    <3>2. <<>> \in Seq(Frames)
      OBVIOUS
    <3>3. QED
      BY <2>2, <3>1, <3>2
  <2>6. QED
    BY <1>9, <2>2, <2>4, <2>5 DEF MroSubclass
<1>10. CASE LeaveSubclasses(t)
  <2>1. path[t] # <<>>
    BY <1>10 DEF LeaveSubclasses, AtHand, HasAtHand
  <2>2. path' \in [Threads -> Seq(Frames)]
    BY <1>10, <2>1, FrameFacts DEF LeaveSubclasses
  <2> DEFINE each(do, bs) == [i \in DOMAIN bs |-> [do |-> do, base |-> bs[i]]]
  <2>3. ASSUME NEW do \in {"attach", "detach"}, NEW bs \in Seq(Types)
        PROVE  each(do, bs) \in Seq(Step)
    <3>1. each(do, bs) \in [1 .. Len(bs) -> Step]
      BY DEF Step
    <3>2. QED
      BY <3>1
  <2>4. each("detach", savedBases[t]) \o each("attach", newBases[t]) \in Seq(Step)
    <3>1. each("detach", savedBases[t]) \in Seq(Step) /\ each("attach", newBases[t]) \in Seq(Step)
      BY <2>3
    <3> HIDE DEF each
    <3>2. QED
      BY <3>1, ConcatProperties
  <2>5. edges' \in [Threads -> Seq(Step)]
    BY <1>10, <2>4 DEF LeaveSubclasses
  <2>6. QED
    BY <1>10, <2>2, <2>5 DEF LeaveSubclasses
<1>11. CASE MoveEdge(t)
  <2>1. Tail(edges[t]) \in Seq(Step)
    BY <1>11, HeadTailProperties DEF MoveEdge
  <2>2. QED
    BY <1>11, <2>1 DEF MoveEdge
<1>12. CASE EndEdges(t)
  <2>1. self[t] \in Types
    BY <1>12 DEF EndEdges, AtHand, HasAtHand, RebindLabels
  <2>2. QED
    BY <1>12, <2>1, CallingTyped DEF EndEdges
<1>13. CASE RestoreSubclass(t)
  <2>1. Tail(savedSubMros[t]) \in Seq([type : Types, mro : Seq(Types)])
    BY <1>13, HeadTailProperties DEF RestoreSubclass
  <2>2. QED
    BY <1>13, <2>1 DEF RestoreSubclass
<1>14. CASE CallLookup(t) \/ ReadEntry(t) \/ GetValue(t) \/ ReadMro(t) \/ ReadDict(t) \/ EndWalk(t) \/ Store(t) \/ ReturnAnswer(t) \/ RejectCycle(t) \/ RestoreBases(t)
  BY <1>14 DEF CallLookup, Begin, Goto, ReadEntry, GetValue, ReadMro, ReadDict, EndWalk, Store, ReturnAnswer, RejectCycle, RestoreBases, PutBack, NewMro, Change
<1>15. QED
  BY <1>1, <1>2, <1>3, <1>4, <1>5, <1>6, <1>7, <1>8, <1>9, <1>10, <1>11, <1>12, <1>13, <1>14 DEF Call, Continue

\* A step of one thread leaves the others where they are.
SameAtHand(u) ==
    /\ pc'[u] = pc[u] /\ self'[u] = self[u] /\ path'[u] = path[u]
    /\ name'[u] = name[u] /\ tag'[u] = tag[u] /\ entry'[u] = entry[u]
    /\ order'[u] = order[u] /\ pos'[u] = pos[u] /\ answer'[u] = answer[u]

LEMMA OthersKept ==
    ASSUME Types0, NEW t \in Threads, Call(t) \/ Continue(t), NEW u \in Threads, u # t
    PROVE  SameAtHand(u)
<1> USE DEF SameAtHand, Types0, ThreadTypes, LookupTypes, RebindTypes, lookupVars
<1>1. CASE CallLookup(t)
  BY <1>1 DEF CallLookup, Begin, Goto
<1>2. CASE ReadEntry(t)
  BY <1>2 DEF ReadEntry, Goto
<1>3. CASE GetValue(t)
  BY <1>3 DEF GetValue, Goto
<1>4. CASE ReadMro(t)
  BY <1>4 DEF ReadMro, Goto
<1>5. CASE ReadDict(t)
  BY <1>5 DEF ReadDict, Goto
<1>6. CASE EndWalk(t)
  BY <1>6 DEF EndWalk, Goto
<1>7. CASE Store(t)
  BY <1>7 DEF Store, Goto
<1>8. CASE ReturnAnswer(t)
  BY <1>8 DEF ReturnAnswer, Goto
<1>9. CASE SetAttr(t)
  BY <1>9 DEF SetAttr, WriteDict, Begin, Goto, Change
<1>10. CASE DelAttr(t)
  BY <1>10 DEF DelAttr, WriteDict, Begin, Goto, Change
<1>11. CASE Invalidate(t)
  BY <1>11 DEF Invalidate, Goto
<1>12. CASE LeaveType(t)
  BY <1>12 DEF LeaveType, Goto
<1>13. CASE EndInvalidate(t)
  BY <1>13 DEF EndInvalidate, Goto
<1>14. CASE CallSetBases(t)
  BY <1>14 DEF CallSetBases, Begin, Goto
<1>15. CASE RejectCycle(t)
  BY <1>15 DEF RejectCycle, Begin, Goto
<1>16. CASE AssignBases(t)
  BY <1>16 DEF AssignBases, Goto
<1>17. CASE MroInternal(t)
  BY <1>17 DEF MroInternal, NewMro, Change, Goto
<1>18. CASE MroSubclass(t)
  BY <1>18 DEF MroSubclass, NewMro, Change, Goto
<1>19. CASE LeaveSubclasses(t)
  BY <1>19 DEF LeaveSubclasses, Goto
<1>20. CASE MoveEdge(t)
  BY <1>20 DEF MoveEdge, Goto
<1>21. CASE EndEdges(t)
  BY <1>21 DEF EndEdges, Goto
<1>22. CASE RestoreSubclass(t)
  BY <1>22 DEF RestoreSubclass, PutBack, NewMro, Change, Goto
<1>23. CASE RestoreBases(t)
  BY <1>23 DEF RestoreBases, PutBack, NewMro, Change, Goto
<1>24. QED
  BY <1>1, <1>2, <1>3, <1>4, <1>5, <1>6, <1>7, <1>8, <1>9, <1>10, <1>11, <1>12, <1>13, <1>14, <1>15, <1>16, <1>17, <1>18, <1>19, <1>20, <1>21, <1>22, <1>23 DEF Call, Continue

\* Recursions begin with the call, enter a subclass and leave it.
LEMMA RecursionFacts ==
    ASSUME Types0, NEW t \in Threads
    PROVE  /\ \A T \in Types : path'[t] = Calling(T) => Recursion(t)'
           /\ \A T \in Types : Recursion(t) /\ path'[t] = Entered(t, T) => Recursion(t)'
           /\ Recursion(t) /\ Head(path[t]).type # None /\ path'[t] = Tail(path[t])
                 => Recursion(t)'
<1>0. path[t] \in Seq(Frames)
  BY DEF Types0, RebindTypes
<1>1. ASSUME NEW T \in Types, path'[t] = Calling(T) PROVE Recursion(t)'
  BY <1>1 DEF Calling, Recursion
<1>2. ASSUME NEW T \in Types, Recursion(t), path'[t] = Entered(t, T) PROVE Recursion(t)'
  <2> DEFINE new == [type |-> T, left |-> subclasses[T]]
             top == [Head(path[t]) EXCEPT !.left = Tail(@)]
  <2>1. path[t] # <<>> /\ Len(path[t]) \in Nat \ {0} /\ Head(path[t]) = path[t][1]
    BY <1>0, <1>2 DEF Recursion
  <2>2. path[t][1] \in Frames
    BY <1>0, <2>1
  <2>3. top.type = path[t][1].type
    BY <2>1, <2>2 DEF Frames
  <2>4. /\ Len(path'[t]) = Len(path[t]) + 1
        /\ path'[t][1] = new /\ path'[t][2] = top
        /\ \A i \in 3 .. Len(path[t]) + 1 : path'[t][i] = path[t][i - 1]
    <3> HIDE DEF new, top
    <3>1. path'[t] = <<new, top>> \o Tail(path[t])
      BY <1>2 DEF Entered, new, top
    <3>2. Tail(path[t]) \in Seq(Frames) /\ Len(Tail(path[t])) = Len(path[t]) - 1
          /\ \A i \in 1 .. Len(path[t]) - 1 : Tail(path[t])[i] = path[t][i + 1]
      BY <1>0, <2>1
    <3>3. QED
      BY <2>1, <3>1, <3>2
  <2>5. path'[t][1].type # None
    BY <2>4, MethodCacheAssumption
  <2> HIDE DEF new, top
  <2>6. ASSUME NEW i \in 1 .. Len(path'[t])
        PROVE  path'[t][i].type = None <=> i = Len(path'[t])
    <3>1. CASE i = 1
      BY <2>1, <2>4, <2>5, <3>1
    <3>2. CASE i = 2
      BY <1>2, <2>1, <2>3, <2>4, <3>2 DEF Recursion
    <3>3. CASE i > 2
      <4>1. i \in 3 .. Len(path[t]) + 1 /\ i - 1 \in 1 .. Len(path[t])
        BY <2>1, <2>4, <3>3
      <4>2. path[t][i - 1].type = None <=> i - 1 = Len(path[t])
        BY <1>2, <4>1 DEF Recursion
      <4>3. QED
        BY <2>1, <2>4, <4>1, <4>2
    <3>4. QED
      BY <3>1, <3>2, <3>3, <2>1, <2>4
  <2>7. path'[t] # <<>>
    BY <2>1, <2>4
  <2>8. QED
    BY <2>6, <2>7 DEF Recursion
<1>3. ASSUME Recursion(t), Head(path[t]).type # None, path'[t] = Tail(path[t])
      PROVE  Recursion(t)'
  <2>1. Len(path[t]) > 1 /\ Len(path[t]) \in Nat
    BY <1>0, <1>3 DEF Recursion
  <2>2. Len(path'[t]) = Len(path[t]) - 1
        /\ \A i \in 1 .. Len(path[t]) - 1 : path'[t][i] = path[t][i + 1]
    BY <1>0, <1>3, <2>1
  <2>3. ASSUME NEW i \in 1 .. Len(path'[t])
        PROVE  path'[t][i].type = None <=> i = Len(path'[t])
    <3>1. i + 1 \in 1 .. Len(path[t]) /\ path'[t][i] = path[t][i + 1]
      BY <2>1, <2>2
    <3>2. path[t][i + 1].type = None <=> i + 1 = Len(path[t])
      BY <1>3, <3>1 DEF Recursion
    <3>3. QED
      BY <2>1, <2>2, <3>1, <3>2
  <2>4. path'[t] # <<>>
    BY <2>1, <2>2
  <2>5. QED
    BY <2>3, <2>4 DEF Recursion
<1>4. QED
  BY <1>1, <1>2, <1>3

LEMMA HasAtHandKept ==
    ASSUME Types0, NEW t \in Threads, Call(t) \/ Continue(t) PROVE HasAtHand(t)'
<1> USE DEF Types0, ThreadTypes, LookupTypes, RebindTypes, HasAtHand, LookupLabels, RebindLabels, Announcing
<1>1. CASE CallLookup(t)
  <2>1. PICK T \in Types, n \in Names : /\ self' = [self EXCEPT ![t] = T]
                                      /\ name' = [name EXCEPT ![t] = n]
                                      /\ tag' = [tag EXCEPT ![t] = versionTag[T]]
    BY <1>1, MethodCacheAssumption DEF CallLookup
  <2>2. Lookup(t)'
    BY <2>1 DEF Lookup, TypeTypes
  <2>3. pc'[t] = "l_entry"
    BY <1>1 DEF CallLookup, Begin, Goto
  <2>4. QED
    BY <2>2, <2>3
<1>2. CASE ReadEntry(t)
  <2>1. Lookup(t) /\ self'[t] = self[t] /\ name'[t] = name[t] /\ tag'[t] = tag[t]
    BY <1>2 DEF ReadEntry, AtHand
  <2>2. pc'[t] \in LookupLabels
    BY <1>2 DEF ReadEntry, Goto
  <2>3. QED
    BY <2>1, <2>2 DEF Lookup
<1>3. CASE GetValue(t)
  <2>1. Lookup(t) /\ self'[t] = self[t] /\ name'[t] = name[t] /\ tag'[t] = tag[t]
    BY <1>3 DEF GetValue, AtHand
  <2>2. pc'[t] \in LookupLabels
    BY <1>3 DEF GetValue, Goto
  <2>3. QED
    BY <2>1, <2>2 DEF Lookup
<1>4. CASE ReadMro(t)
  <2>1. Lookup(t) /\ self'[t] = self[t] /\ name'[t] = name[t] /\ tag'[t] = tag[t]
    BY <1>4 DEF ReadMro, AtHand
  <2>2. pc'[t] \in LookupLabels
    BY <1>4 DEF ReadMro, Goto
  <2>3. QED
    BY <2>1, <2>2 DEF Lookup
<1>5. CASE ReadDict(t)
  <2>1. Lookup(t) /\ self'[t] = self[t] /\ name'[t] = name[t] /\ tag'[t] = tag[t]
    BY <1>5 DEF ReadDict, AtHand
  <2>2. pc'[t] \in LookupLabels
    BY <1>5 DEF ReadDict, Goto
  <2>3. QED
    BY <2>1, <2>2 DEF Lookup
<1>6. CASE EndWalk(t)
  <2>1. Lookup(t) /\ self'[t] = self[t] /\ name'[t] = name[t] /\ tag'[t] = tag[t]
    BY <1>6 DEF EndWalk, AtHand, lookupVars
  <2>2. pc'[t] \in LookupLabels
    BY <1>6 DEF EndWalk, Goto
  <2>3. QED
    BY <2>1, <2>2 DEF Lookup
<1>7. CASE Store(t)
  <2>1. Lookup(t) /\ self'[t] = self[t] /\ name'[t] = name[t] /\ tag'[t] = tag[t]
    BY <1>7 DEF Store, AtHand, lookupVars
  <2>2. pc'[t] \in LookupLabels
    BY <1>7 DEF Store, Goto
  <2>3. QED
    BY <2>1, <2>2 DEF Lookup
<1>8. CASE ReturnAnswer(t)
  <2>1. pc'[t] = "idle"
    BY <1>8 DEF ReturnAnswer, Goto
  <2>2. QED
    BY <2>1
<1>9. CASE SetAttr(t)
  <2>1. PICK T \in Types, n \in Names, v \in Values \cup {None} : WriteDict(t, T, n, v)
    BY <1>9, MethodCacheAssumption DEF SetAttr
  <2>2. pc'[t] = "announce" /\ self'[t] = T /\ path'[t] = Calling(T)
    BY <2>1 DEF WriteDict, Begin, Goto
  <2>3. QED
    BY <2>2, RecursionFacts
<1>10. CASE DelAttr(t)
  <2>1. PICK T \in Types, n \in Names, v \in Values \cup {None} : WriteDict(t, T, n, v)
    BY <1>10, MethodCacheAssumption DEF DelAttr
  <2>2. pc'[t] = "announce" /\ self'[t] = T /\ path'[t] = Calling(T)
    BY <2>1 DEF WriteDict, Begin, Goto
  <2>3. QED
    BY <2>2, RecursionFacts
<1>11. CASE Invalidate(t)
  <2>1. PICK S \in Types : path' = [path EXCEPT ![t] = Entered(t, S)]
    BY <1>11, InvalidateFacts
  <2>2. pc[t] \in Announcing /\ pc'[t] = pc[t] /\ self'[t] = self[t]
    BY <1>11 DEF Invalidate
  <2>3. Recursion(t) /\ self[t] \in Types
    BY <2>2 DEF AtHand
  <2>4. Recursion(t)'
    BY <2>1, <2>3, RecursionFacts
  <2>5. QED
    BY <2>2, <2>3, <2>4
<1>12. CASE LeaveType(t)
  <2>1. path'[t] = Tail(path[t]) /\ Head(path[t]).type # None
    BY <1>12 DEF LeaveType
  <2>2. pc[t] \in Announcing /\ pc'[t] = pc[t] /\ self'[t] = self[t]
    BY <1>12 DEF LeaveType
  <2>3. Recursion(t) /\ self[t] \in Types
    BY <2>2 DEF AtHand
  <2>4. Recursion(t)'
    BY <2>1, <2>3, RecursionFacts
  <2>5. QED
    BY <2>2, <2>3, <2>4
<1>13. CASE EndInvalidate(t)
  <2>1. CASE pc[t] = "b_announce"
    <3>1. self[t] \in Types /\ self'[t] = self[t]
      BY <1>13, <2>1 DEF EndInvalidate, AtHand
    <3>2. pc'[t] = "announce" /\ path'[t] = Calling(self[t])
      BY <1>13, <2>1 DEF EndInvalidate, Goto
    <3>3. QED
      BY <3>1, <3>2, RecursionFacts
  <2>2. CASE pc[t] # "b_announce"
    <3>1. pc'[t] = "idle"
      BY <1>13, <2>2 DEF EndInvalidate, Goto
    <3>2. QED
      BY <3>1
  <2>3. QED
    BY <2>1, <2>2
<1>14. CASE CallSetBases(t)
  <2>1. PICK r \in Rebinds : self' = [self EXCEPT ![t] = r.type]
    BY <1>14 DEF CallSetBases
  <2>2. pc'[t] = "b_assign" /\ self'[t] \in Types
    BY <1>14, <2>1, RebindFacts DEF CallSetBases, Begin, Goto
  <2>3. QED
    BY <2>2
<1>15. CASE RejectCycle(t)
  <2>1. pc'[t] = "idle"
    BY <1>15 DEF RejectCycle, Begin, Goto
  <2>2. QED
    BY <2>1
<1>16. CASE AssignBases(t)
  <2>1. self[t] \in Types /\ self'[t] = self[t]
    BY <1>16 DEF AssignBases, AtHand
  <2>2. pc'[t] = "b_mro"
    BY <1>16 DEF AssignBases, Goto
  <2>3. QED
    BY <2>1, <2>2
<1>17. CASE MroInternal(t)
  <2>1. self[t] \in Types /\ self'[t] = self[t]
    BY <1>17 DEF MroInternal, AtHand
  <2>2. \/ pc'[t] = "b_restore"
        \/ pc'[t] = "b_subclasses" /\ path'[t] # <<>>
    <3>1. \/ path' = [path EXCEPT ![t] = <<[type |-> self[t], left |-> subclasses[self[t]]]>>]
             /\ Goto(t, "b_subclasses")
          \/ Goto(t, "b_restore")
      BY <1>17 DEF MroInternal
    <3>2. <<[type |-> self[t], left |-> subclasses[self[t]]]>> # <<>>
      OBVIOUS
    <3>3. QED
      BY <3>1, <3>2 DEF Goto
  <2>3. QED
    BY <2>1, <2>2
<1>18. CASE MroSubclass(t)
  <2>1. self[t] \in Types /\ self'[t] = self[t]
    BY <1>18 DEF MroSubclass, AtHand
  <2>2. ASSUME NEW S \in Types PROVE Entered(t, S) # <<>>
    <3>1. Tail(path[t]) \in Seq(Frames)
      BY <1>18, FrameFacts DEF MroSubclass, AtHand
    <3>2. QED
      BY <3>1 DEF Entered
  <2>3. \/ pc'[t] = "b_restore"
        \/ pc'[t] = "b_subclasses" /\ path'[t] # <<>>
    <3>1. pc[t] = "b_subclasses"
      BY <1>18 DEF MroSubclass
    <3>2. QED
      <4>1. PICK S \in Types :
                \/ path' = [path EXCEPT ![t] = Entered(t, S)] /\ UNCHANGED pc
                \/ Goto(t, "b_restore")
        BY <1>18, MroSubclassFacts
      <4>2. CASE path' = [path EXCEPT ![t] = Entered(t, S)] /\ UNCHANGED pc
        BY <2>2, <3>1, <4>1, <4>2
      <4>3. CASE Goto(t, "b_restore")
        BY <4>3 DEF Goto
      <4>4. QED
        BY <4>1, <4>2, <4>3
  <2>4. QED
    BY <2>1, <2>3
<1>19. CASE LeaveSubclasses(t)
  <2>1. self[t] \in Types /\ self'[t] = self[t]
    BY <1>19 DEF LeaveSubclasses, AtHand
  <2>2. pc[t] = "b_subclasses" /\ path'[t] = Tail(path[t])
    BY <1>19 DEF LeaveSubclasses
  <2>3. \/ pc'[t] = "b_edges"
        \/ pc'[t] = "b_subclasses" /\ path'[t] # <<>>
    BY <1>19, <2>2 DEF LeaveSubclasses, Goto
  <2>4. QED
    BY <2>1, <2>3
<1>20. CASE MoveEdge(t)
  <2>1. self[t] \in Types /\ self'[t] = self[t]
    BY <1>20 DEF MoveEdge, AtHand
  <2>2. pc'[t] = "b_edges"
    BY <1>20 DEF MoveEdge
  <2>3. QED
    BY <2>1, <2>2
<1>21. CASE EndEdges(t)
  <2>1. self[t] \in Types /\ self'[t] = self[t]
    BY <1>21 DEF EndEdges, AtHand
  <2>2. pc'[t] = "b_announce" /\ path'[t] = Calling(self[t])
    BY <1>21 DEF EndEdges, Goto
  <2>3. QED
    BY <2>1, <2>2, RecursionFacts
<1>22. CASE RestoreSubclass(t)
  <2>1. self[t] \in Types /\ self'[t] = self[t]
    BY <1>22 DEF RestoreSubclass, AtHand
  <2>2. pc'[t] = "b_restore"
    BY <1>22 DEF RestoreSubclass
  <2>3. QED
    BY <2>1, <2>2
<1>23. CASE RestoreBases(t)
  <2>1. pc'[t] = "idle"
    BY <1>23 DEF RestoreBases, Goto
  <2>2. QED
    BY <2>1
<1>24. QED
  BY <1>1, <1>2, <1>3, <1>4, <1>5, <1>6, <1>7, <1>8, <1>9, <1>10, <1>11, <1>12, <1>13, <1>14, <1>15, <1>16, <1>17, <1>18, <1>19, <1>20, <1>21, <1>22, <1>23 DEF Call, Continue

LEMMA AtHandKept ==
    ASSUME Types0, NEW t \in Threads, Call(t) \/ Continue(t) PROVE AtHand'
<1>1. ASSUME NEW u \in Threads, u # t PROVE HasAtHand(u)'
  <2>1. HasAtHand(u) /\ SameAtHand(u)
    BY <1>1, OthersKept DEF Types0, AtHand
  <2>2. Lookup(u) => Lookup(u)'
    BY <2>1 DEF SameAtHand, Lookup
  <2>3. Recursion(u) => Recursion(u)'
    BY <2>1 DEF SameAtHand, Recursion
  <2>4. QED
    BY <2>1, <2>2, <2>3 DEF SameAtHand, HasAtHand
<1>2. HasAtHand(t)'
  BY HasAtHandKept
<1>3. QED
  BY <1>1, <1>2 DEF AtHand

\* The collector only takes values out of entries.
LEMMA CollectTypes ==
    ASSUME Types0, NEW v \in Values, Collect(v) PROVE Types0'
<1> USE DEF Types0
<1> DEFINE clear(e) == IF e.value = v THEN [e EXCEPT !.value = None] ELSE e
<1>1. \A e \in Entries : clear(e) \in Entries
  BY DEF Entries
<1>2. /\ table' = [s \in Slots |-> clear(table[s])]
      /\ entry' = [t \in Threads |-> clear(entry[t])]
  BY DEF Collect
<1>3. LookupTypes'
  <2>1. table' \in [Slots -> Entries] /\ entry' \in [Threads -> Entries]
    BY <1>1, <1>2 DEF LookupTypes
  <2>2. QED
    BY <2>1 DEF LookupTypes, Collect
<1>4. ThreadTypes' /\ TypeTypes' /\ RebindTypes'
  BY DEF Collect, ThreadTypes, TypeTypes, RebindTypes, hierarchy, rebindVars, history
<1>5. AtHand'
  BY DEF Collect, AtHand, HasAtHand, Lookup, Recursion
<1>6. QED
  BY <1>3, <1>4, <1>5

LEMMA StutterTypes == ASSUME Types0, UNCHANGED vars PROVE Types0'
  BY DEF Types0, ThreadTypes, TypeTypes, LookupTypes, RebindTypes, AtHand, HasAtHand, Lookup,
         Recursion, vars, hierarchy, lookupVars, rebindVars, history

LEMMA TypesStep == Types0 /\ [Next]_vars => Types0'
<1> SUFFICES ASSUME Types0, [Next]_vars PROVE Types0'
  OBVIOUS
<1>1. ASSUME NEW t \in Threads, Call(t) \/ Continue(t) PROVE Types0'
  BY <1>1, ThreadTypesKept, TypeTypesKept, LookupTypesKept, RebindTypesKept, AtHandKept
     DEF Types0
<1>2. ASSUME NEW v \in Values, Collect(v) PROVE Types0'
  BY <1>2, CollectTypes
<1>3. CASE UNCHANGED vars
  BY <1>3, StutterTypes
<1>4. QED
  BY <1>1, <1>2, <1>3 DEF Next

\* Type correctness: values, MROs, tags and entries are what their names say, a lookup has
\* read a tag of its own type, and a recursion knows the way back to its call.
THEOREM TypesInvariant == Spec => []TypeOK
<1>1. Init => Types0
  BY InitTypes
<1>2. Types0 => TypeOK
  BY TypesImplyTypeOK
<1>3. QED
  BY <1>1, <1>2, TypesStep, PTL DEF Spec

------------------------------------------------------------------------------
(* Coherence. *)

Undisturbed(t) == pc[t] \in LookupLabels /\ ~disturbed[t]

Good(version) ==
    \/ \E T \in Types \ stale : version = versionTag[T]
    \/ \E t \in Threads : Undisturbed(t) /\ version = tag[t]

Old(version) == version.id <= versionTag[version.type].id

TagsOld ==
    /\ \A s \in Slots :
           table[s].version # None => Old(table[s].version) /\ table[s].name \in Names
    /\ \A t \in Threads : pc[t] \in LookupLabels => Old(tag[t])

TagsAgree ==
    /\ \A t \in Threads : Undisturbed(t) => self[t] \notin stale
    /\ \A t \in Threads : pc[t] \in LookupLabels /\ Good(tag[t]) => ~disturbed[t]

EntriesRight ==
    \A s \in Slots : Good(table[s].version) =>
        table[s].value = Answer(table[s].version.type, table[s].name)

\* What a lookup that nothing has disturbed knows.
LookupRight(t) ==
    /\ pc[t] = "l_get" => entry[t].value = Answer(self[t], name[t])
    /\ pc[t] = "l_walk" => /\ order[t] = mro[self[t]] /\ pos[t] \in 1 .. Len(order[t]) + 1
                           /\ \A j \in 1 .. pos[t] - 1 : dict[order[t][j]][name[t]] = None
    /\ pc[t] \in {"l_store", "l_return"} => answer[t] = Answer(self[t], name[t])

LookupsRight == \A t \in Threads : Undisturbed(t) => LookupRight(t)

NoAnswerYet == \A t \in Threads : pc[t] \notin {"l_store", "l_return"} => answer[t] = None

Coherent == TagsOld /\ TagsAgree /\ EntriesRight /\ LookupsRight /\ NoAnswerYet

Inv == Types0 /\ Coherent

LEMMA CoherentImplies == Inv => CacheCoherent /\ QuietAnswer
<1> SUFFICES ASSUME Inv PROVE CacheCoherent /\ QuietAnswer
  OBVIOUS
<1>1. CacheCoherent
  BY DEF Inv, Types0, TypeTypes, Coherent, EntriesRight, Good, CacheCoherent
<1>2. QuietAnswer
  BY DEF Inv, Coherent, LookupsRight, LookupRight, Undisturbed, LookupLabels, QuietAnswer
<1>3. QED
  BY <1>1, <1>2

LEMMA InitCoherent == Init => Inv
<1> SUFFICES ASSUME Init PROVE Inv
  OBVIOUS
<1>1. \A t \in Threads : pc[t] = "idle" /\ answer[t] = None
  BY DEF Init
<1>2. \A s \in Slots : table[s].version = None
  BY DEF Init, EMPTY
<1>3. Types0
  BY InitTypes
<1>4. TagsOld /\ TagsAgree /\ LookupsRight /\ NoAnswerYet
  BY <1>1, <1>2 DEF TagsOld, TagsAgree, LookupsRight, NoAnswerYet, Undisturbed, LookupLabels
<1>5. ~Good(None)
  BY <1>1, <1>3, MethodCacheAssumption
     DEF Good, Types0, TypeTypes, Undisturbed, LookupLabels
<1>6. QED
  BY <1>2, <1>3, <1>4, <1>5 DEF Inv, Coherent, EntriesRight

\* A walk depends on the dicts of the types along the MRO only, finds the first value, and
\* finds nothing only if none of them has one.
LEMMA WalkSame ==
    ASSUME NEW m \in Seq(Types), NEW d, NEW e, NEW n, \A i \in DOMAIN m : d[m[i]] = e[m[i]]
    PROVE  lookup_where_mro(d, m, n) = lookup_where_mro(e, m, n)
<1> DEFINE first(x) == {i \in DOMAIN m : /\ x[m[i]][n] # None
                                         /\ \A j \in 1 .. i - 1 : x[m[j]][n] = None}
<1>1. DOMAIN m = 1 .. Len(m) /\ Len(m) \in Nat
  OBVIOUS
<1>2. first(d) = first(e)
  BY <1>1
<1>3. CASE first(d) = {}
  BY <1>2, <1>3 DEF lookup_where_mro
<1>4. CASE first(d) # {}
  <2>1. (CHOOSE i \in first(d) : TRUE) \in DOMAIN m
    BY <1>4
  <2>2. (CHOOSE i \in first(d) : TRUE) = (CHOOSE i \in first(e) : TRUE)
    BY <1>2
  <2>3. QED
    BY <1>2, <1>4, <2>1, <2>2 DEF lookup_where_mro
<1>5. QED
  BY <1>3, <1>4

LEMMA WalkFound ==
    ASSUME NEW m \in Seq(Types), NEW d, NEW n, NEW p \in 1 .. Len(m), d[m[p]][n] # None,
           \A j \in 1 .. p - 1 : d[m[j]][n] = None
    PROVE  lookup_where_mro(d, m, n) = d[m[p]][n]
<1> DEFINE first == {i \in DOMAIN m : /\ d[m[i]][n] # None
                                      /\ \A j \in 1 .. i - 1 : d[m[j]][n] = None}
<1>1. DOMAIN m = 1 .. Len(m) /\ Len(m) \in Nat
  OBVIOUS
<1>2. \A i \in first : i = p
  BY <1>1
<1>3. p \in first
  BY <1>1
<1>4. (CHOOSE i \in first : TRUE) = p
  <2> HIDE DEF first
  <2> QED
    BY <1>2, <1>3
<1>5. QED
  BY <1>3, <1>4 DEF lookup_where_mro

LEMMA WalkInVain ==
    ASSUME NEW m \in Seq(Types), NEW d, NEW n, \A i \in 1 .. Len(m) : d[m[i]][n] = None
    PROVE  lookup_where_mro(d, m, n) = None
<1>1. DOMAIN m = 1 .. Len(m)
  OBVIOUS
<1>2. QED
  BY <1>1 DEF lookup_where_mro

LEMMA FoundSomewhere ==
    ASSUME NEW m \in Seq(Types), NEW d, NEW n, lookup_where_mro(d, m, n) # None
    PROVE  \E i \in DOMAIN m : lookup_where_mro(d, m, n) = d[m[i]][n]
<1> DEFINE first == {i \in DOMAIN m : /\ d[m[i]][n] # None
                                      /\ \A j \in 1 .. i - 1 : d[m[j]][n] = None}
<1>1. first # {}
  BY DEF lookup_where_mro
<1>2. (CHOOSE i \in first : TRUE) \in first
  BY <1>1
<1>3. QED
  BY <1>1, <1>2 DEF lookup_where_mro

(* Changes of types. *)

\* Lookups on the types outside S find what they found before.
Outside(S) ==
    \A T \in Types \ S :
        mro'[T] = mro[T] /\ \A i \in DOMAIN mro[T] : dict'[mro[T][i]] = dict[mro[T][i]]

LEMMA OutsideSame ==
    ASSUME Types0, NEW S, Outside(S), NEW T \in Types \ S
    PROVE  mro'[T] = mro[T] /\ \A n : Answer(T, n)' = Answer(T, n)
<1>1. mro[T] \in Seq(Types) /\ mro'[T] = mro[T]
      /\ \A i \in DOMAIN mro[T] : dict'[mro[T][i]] = dict[mro[T][i]]
  BY DEF Outside, Types0, TypeTypes
<1>2. ASSUME NEW n PROVE lookup_where_mro(dict', mro[T], n) = lookup_where_mro(dict, mro[T], n)
  BY <1>1, WalkSame
<1>3. QED
  BY <1>1, <1>2 DEF Answer

\* A thread that changes types leaves lookups and the table alone.
LookupsKept ==
    /\ table' = table /\ name' = name /\ tag' = tag /\ entry' = entry
    /\ order' = order /\ pos' = pos /\ answer' = answer
    /\ \A u \in Threads : /\ pc'[u] \in LookupLabels <=> pc[u] \in LookupLabels
                          /\ pc[u] \in LookupLabels => pc'[u] = pc[u] /\ self'[u] = self[u]

Changes(S) ==
    /\ versionTag' = versionTag /\ stale' = stale \cup S /\ Outside(S)
    /\ \A u \in Threads : disturbed'[u] <=> disturbed[u] \/ self[u] \in S

ChangesTypes(t) ==
    \/ SetAttr(t) \/ DelAttr(t) \/ LeaveType(t) \/ EndInvalidate(t)
    \/ CallSetBases(t) \/ RejectCycle(t) \/ AssignBases(t) \/ MroInternal(t)
    \/ MroSubclass(t) \/ LeaveSubclasses(t) \/ MoveEdge(t) \/ EndEdges(t)
    \/ RestoreSubclass(t) \/ RestoreBases(t)

LEMMA OtherLabels ==
    ASSUME Types0, NEW t \in Threads, ChangesTypes(t) \/ Invalidate(t)
    PROVE  LookupsKept
<1> USE DEF LookupsKept, Types0, ThreadTypes, LookupLabels, RebindLabels, Announcing, lookupVars
<1>1. CASE SetAttr(t)
  BY <1>1 DEF SetAttr, WriteDict, Begin, Goto
<1>2. CASE DelAttr(t)
  BY <1>2 DEF DelAttr, WriteDict, Begin, Goto
<1>3. CASE LeaveType(t)
  BY <1>3 DEF LeaveType
<1>4. CASE EndInvalidate(t)
  BY <1>4 DEF EndInvalidate, Goto
<1>5. CASE CallSetBases(t)
  BY <1>5 DEF CallSetBases, Begin, Goto
<1>6. CASE RejectCycle(t)
  BY <1>6 DEF RejectCycle, Begin, Goto
<1>7. CASE AssignBases(t)
  BY <1>7 DEF AssignBases, Goto
<1>8. CASE MroInternal(t)
  BY <1>8 DEF MroInternal, Goto
<1>9. CASE MroSubclass(t)
  BY <1>9 DEF MroSubclass, Goto
<1>10. CASE LeaveSubclasses(t)
  BY <1>10 DEF LeaveSubclasses, Goto
<1>11. CASE MoveEdge(t)
  BY <1>11 DEF MoveEdge
<1>12. CASE EndEdges(t)
  BY <1>12 DEF EndEdges, Goto
<1>13. CASE RestoreSubclass(t)
  BY <1>13 DEF RestoreSubclass
<1>14. CASE RestoreBases(t)
  BY <1>14 DEF RestoreBases, Goto
<1>15. CASE Invalidate(t)
  BY <1>15 DEF Invalidate
<1>16. QED
  BY <1>1, <1>2, <1>3, <1>4, <1>5, <1>6, <1>7, <1>8, <1>9, <1>10, <1>11, <1>12, <1>13, <1>14, <1>15 DEF ChangesTypes

LEMMA WriteDictFacts ==
    ASSUME Types0, NEW t \in Threads, NEW T \in Types, NEW n \in Names, NEW v,
           WriteDict(t, T, n, v)
    PROVE  \E S \in SUBSET Types : Changes(S)
<1> DEFINE S == {U \in Types : T \in ToSet(mro[U])}
<1>1. /\ versionTag' = versionTag /\ stale' = stale \cup S /\ mro' = mro
      /\ \A u \in Threads : disturbed'[u] <=> disturbed[u] \/ self[u] \in S
  BY DEF WriteDict, Change, hierarchy, Types0, ThreadTypes
<1>2. \A U \in Types \ {T} : dict'[U] = dict[U]
  BY DEF WriteDict, Types0, TypeTypes
<1>3. ASSUME NEW U \in Types \ S, NEW i \in DOMAIN mro[U]
      PROVE  mro[U][i] \in Types \ {T}
  BY <1>3 DEF ToSet, Types0, TypeTypes
<1>4. Outside(S)
  BY <1>1, <1>2, <1>3 DEF Outside
<1>5. S \in SUBSET Types
  OBVIOUS
<1> HIDE DEF S
<1>6. QED
  BY <1>1, <1>4, <1>5 DEF Changes

LEMMA NewMroFacts ==
    ASSUME Types0, NEW T \in Types, NEW m, NewMro(T, m), UNCHANGED <<dict, versionTag>>
    PROVE  \E S \in SUBSET Types : Changes(S)
<1> DEFINE S == IF m = mro[T] THEN {} ELSE {T}
<1>1. /\ stale' = stale \cup S
      /\ \A u \in Threads : disturbed'[u] <=> disturbed[u] \/ self[u] \in S
  BY DEF NewMro, Change, Types0, ThreadTypes
<1>2. \A U \in Types \ S : mro'[U] = mro[U]
  BY DEF NewMro, Types0, TypeTypes
<1>3. S \in SUBSET Types
  OBVIOUS
<1> HIDE DEF S
<1>4. Outside(S)
  BY <1>2 DEF Outside
<1>5. QED
  BY <1>1, <1>3, <1>4 DEF Changes

LEMMA NoChangeFacts ==
    ASSUME Types0, UNCHANGED <<dict, mro, versionTag, stale, disturbed>>
    PROVE  \E S \in SUBSET Types : Changes(S)
<1>1. Changes({})
  BY DEF Changes, Outside, Types0, ThreadTypes
<1>2. QED
  BY <1>1

LEMMA ChangeFacts ==
    ASSUME Types0, NEW t \in Threads, ChangesTypes(t)
    PROVE  \E S \in SUBSET Types : Changes(S)
<1> USE DEF hierarchy, history
<1>1. CASE SetAttr(t) \/ DelAttr(t)
  <2>1. PICK T \in Types, n \in Names, v \in Values \cup {None} : WriteDict(t, T, n, v)
    BY <1>1 DEF SetAttr, DelAttr
  <2>2. QED
    BY <2>1, WriteDictFacts
<1>2. CASE MroInternal(t)
  <2>1. self[t] \in Types /\ UNCHANGED <<dict, versionTag>>
    BY <1>2 DEF MroInternal, Types0, AtHand, HasAtHand, RebindLabels
  <2>2. (\E m : NewMro(self[t], m)) \/ UNCHANGED <<mro, stale, disturbed>>
    BY <1>2 DEF MroInternal
  <2>3. QED
    BY <2>1, <2>2, NewMroFacts, NoChangeFacts
<1>3. CASE MroSubclass(t)
  <2>1. UNCHANGED <<dict, versionTag>>
    BY <1>3 DEF MroSubclass
  <2>2. (\E S \in Types, m \in Seq(Types) : NewMro(S, m)) \/ UNCHANGED <<mro, stale, disturbed>>
    BY <1>3, MroSubclassFacts
  <2>3. QED
    BY <2>1, <2>2, NewMroFacts, NoChangeFacts
<1>4. CASE RestoreSubclass(t)
  <2>1. savedSubMros[t] \in Seq([type : Types, mro : Seq(Types)]) /\ savedSubMros[t] # <<>>
    BY <1>4 DEF RestoreSubclass, Types0, RebindTypes
  <2>2. Head(savedSubMros[t]) \in [type : Types, mro : Seq(Types)]
    BY <2>1, HeadTailProperties
  <2>3. \E S \in Types : \E m : NewMro(S, m)
    BY <1>4, <2>2 DEF RestoreSubclass, PutBack
  <2>4. QED
    BY <1>4, <2>3, NewMroFacts DEF RestoreSubclass
<1>5. CASE RestoreBases(t)
  <2>1. self[t] \in Types /\ NewMro(self[t], savedMro[t])
    BY <1>5 DEF RestoreBases, PutBack, Types0, AtHand, HasAtHand, RebindLabels
  <2>2. QED
    BY <1>5, <2>1, NewMroFacts DEF RestoreBases
<1>6. CASE LeaveType(t) \/ EndInvalidate(t) \/ CallSetBases(t) \/ RejectCycle(t)
           \/ AssignBases(t) \/ LeaveSubclasses(t) \/ MoveEdge(t) \/ EndEdges(t)
  <2>1. UNCHANGED <<dict, mro, versionTag, stale, disturbed>>
    BY <1>6 DEF LeaveType, EndInvalidate, CallSetBases, RejectCycle, AssignBases,
                LeaveSubclasses, MoveEdge, EndEdges
  <2>2. QED
    BY <2>1, NoChangeFacts
<1>7. QED
  BY <1>1, <1>2, <1>3, <1>4, <1>5, <1>6 DEF ChangesTypes

\* A change makes no tag good, and only of other types do tags stay good.
LEMMA ChangeCoherent ==
    ASSUME Inv, NEW S \in SUBSET Types, LookupsKept, Changes(S)
    PROVE  Coherent'
<1> USE DEF Inv, Coherent
<1>0. \A u \in Threads : pc[u] \in LookupLabels => Lookup(u)
  BY DEF Types0, AtHand, HasAtHand
<1>1. \A u \in Threads : Undisturbed(u)' => Undisturbed(u) /\ self[u] \notin S
                                              /\ self'[u] = self[u] /\ pc'[u] = pc[u]
  BY DEF Undisturbed, LookupsKept, Changes
<1>2. ASSUME NEW v, Good(v)' PROVE Good(v) /\ v.type \in Types \ S
  <2>1. CASE \E T \in Types \ stale' : v = versionTag'[T]
    BY <2>1 DEF Changes, Good, Types0, TypeTypes
  <2>2. CASE \E u \in Threads : Undisturbed(u)' /\ v = tag'[u]
    BY <1>0, <1>1, <2>2 DEF LookupsKept, Good, Lookup, Undisturbed
  <2>3. QED
    BY <1>2, <2>1, <2>2 DEF Good
<1>3. TagsOld'
  <2>1. \A s \in Slots : table'[s].version # None =>
                            Old(table[s].version)' /\ table'[s].name \in Names
    BY DEF TagsOld, Old, LookupsKept, Changes
  <2>2. \A u \in Threads : pc'[u] \in LookupLabels => Old(tag[u])'
    BY DEF TagsOld, Old, LookupsKept, Changes
  <2>3. QED
    BY <2>1, <2>2 DEF TagsOld, LookupsKept
<1>4. TagsAgree'
  <2>1. ASSUME NEW u \in Threads, Undisturbed(u)' PROVE self'[u] \notin stale'
    BY <1>1, <2>1 DEF TagsAgree, Changes
  <2>2. ASSUME NEW u \in Threads, pc'[u] \in LookupLabels, Good(tag[u])'
        PROVE  ~disturbed'[u]
    <3>1. Good(tag[u]) /\ tag[u].type \in Types \ S
      BY <1>2, <2>2 DEF LookupsKept
    <3>2. pc[u] \in LookupLabels /\ self[u] \notin S
      BY <1>0, <2>2, <3>1 DEF LookupsKept, Lookup
    <3>3. QED
      BY <3>1, <3>2 DEF TagsAgree, Changes
  <2>3. QED
    BY <2>1, <2>2 DEF TagsAgree, LookupsKept
<1>5. EntriesRight'
  <2>1. ASSUME NEW s \in Slots, Good(table[s].version)'
        PROVE  table'[s].value = Answer(table[s].version.type, table[s].name)'
    <3>1. Good(table[s].version) /\ table[s].version.type \in Types \ S /\ table' = table
      BY <1>2, <2>1 DEF LookupsKept
    <3>2. \A n : Answer(table[s].version.type, n)' = Answer(table[s].version.type, n)
      BY <3>1, OutsideSame DEF Changes, Answer
    <3>3. QED
      BY <3>1, <3>2 DEF EntriesRight, Answer
  <2>2. QED
    BY <2>1 DEF EntriesRight
<1>6. LookupsRight'
  <2> SUFFICES ASSUME NEW u \in Threads, Undisturbed(u)' PROVE LookupRight(u)'
    BY DEF LookupsRight
  <2>1. /\ Undisturbed(u) /\ self'[u] = self[u] /\ pc'[u] = pc[u]
        /\ self[u] \in Types \ S /\ LookupRight(u)
    BY <1>0, <1>1 DEF LookupsRight, Lookup, Undisturbed
  <2>2. /\ mro'[self[u]] = mro[self[u]]
        /\ \A n : Answer(self[u], n)' = Answer(self[u], n)
        /\ \A i \in DOMAIN mro[self[u]] : dict'[mro[self[u]][i]] = dict[mro[self[u]][i]]
    BY <2>1, OutsideSame DEF Changes, Outside
  <2>3. mro[self[u]] \in Seq(Types)
    BY <2>1 DEF Types0, TypeTypes
  <2>4. CASE pc[u] = "l_walk"
    <3>1. order'[u] = mro'[self'[u]] /\ pos'[u] \in 1 .. Len(order'[u]) + 1
      BY <2>1, <2>2, <2>4 DEF LookupRight, LookupsKept
    <3>2. \A j \in 1 .. pos[u] - 1 : j \in DOMAIN mro[self[u]]
      BY <2>1, <2>3, <2>4 DEF LookupRight
    <3>3. \A j \in 1 .. pos'[u] - 1 : dict'[order'[u][j]][name'[u]] = None
      BY <2>1, <2>2, <2>4, <3>2 DEF LookupRight, LookupsKept
    <3>4. QED
      BY <2>1, <2>4, <3>1, <3>3 DEF LookupRight
  <2>5. CASE pc[u] # "l_walk"
    BY <2>1, <2>2, <2>5 DEF LookupRight, LookupsKept, Answer
  <2>6. QED
    BY <2>4, <2>5
<1>7. NoAnswerYet'
  BY DEF NoAnswerYet, LookupsKept, LookupLabels
<1>8. QED
  BY <1>3, <1>4, <1>5, <1>6, <1>7

\* The tag of a type that is entered is new to the table and to all lookups.
LEMMA InvalidateCoherent ==
    ASSUME Inv, NEW t \in Threads, Invalidate(t) PROVE Coherent'
<1> USE DEF Inv, Coherent
<1>1. PICK S \in Types, hash \in [Names -> Slots] :
          /\ versionTag' = [versionTag EXCEPT
                               ![S] = [type |-> S, id |-> versionTag[S].id + 1, slot |-> hash]]
          /\ stale' = stale \ {S}
  BY InvalidateFacts
<1>2. LookupsKept /\ dict' = dict /\ mro' = mro /\ disturbed' = disturbed
  BY OtherLabels DEF Invalidate, hierarchy
<1>3. \A T \in Types : versionTag[T] \in Tags /\ versionTag[T].type = T
                       /\ versionTag[T].id \in Nat
  BY DEF Types0, TypeTypes, Tags
<1>4. /\ versionTag'[S].type = S /\ versionTag'[S].id = versionTag[S].id + 1
      /\ \A T \in Types \ {S} : versionTag'[T] = versionTag[T]
  BY <1>1, <1>3 DEF Types0, TypeTypes
<1>5. \A v \in Tags : Old(v) => Old(v)' /\ v # versionTag'[S]
  <2> SUFFICES ASSUME NEW v \in Tags, Old(v) PROVE Old(v)' /\ v # versionTag'[S]
    OBVIOUS
  <2>1. v.type \in Types /\ v.id \in Nat /\ v.id <= versionTag[v.type].id
    BY DEF Old, Tags
  <2>2. CASE v.type = S
    BY <1>3, <1>4, <2>1, <2>2 DEF Old
  <2>3. CASE v.type # S
    BY <1>4, <2>1, <2>3 DEF Old
  <2>4. QED
    BY <2>2, <2>3
<1>6. \A u \in Threads : pc'[u] \in LookupLabels =>
          /\ pc[u] \in LookupLabels /\ pc'[u] = pc[u] /\ self'[u] = self[u]
          /\ disturbed'[u] = disturbed[u]
  BY <1>2 DEF LookupsKept
<1>7. ASSUME NEW v, Good(v)' PROVE Good(v) \/ v = versionTag'[S]
  <2>1. CASE \E T \in Types \ stale' : v = versionTag'[T]
    <3>1. PICK T \in Types \ stale' : v = versionTag'[T]
      BY <2>1
    <3>2. T = S \/ T \notin stale
      BY <1>1
    <3>3. QED
      BY <1>4, <3>1, <3>2 DEF Good
  <2>2. CASE \E u \in Threads : Undisturbed(u)' /\ v = tag'[u]
    BY <1>2, <1>6, <2>2 DEF Good, LookupsKept, Undisturbed
  <2>3. QED
    BY <1>7, <2>1, <2>2 DEF Good
<1>8. \A u \in Threads : pc[u] \in LookupLabels => Lookup(u) /\ tag[u] # versionTag'[S]
  BY <1>5 DEF Types0, AtHand, HasAtHand, Lookup, TagsOld
<1>9. \A s \in Slots : table[s].version \in Tags \cup {None}
  BY DEF Types0, LookupTypes, Entries
<1>10. TagsOld'
  <2>1. \A s \in Slots : table'[s].version # None =>
                            Old(table[s].version)' /\ table'[s].name \in Names
    BY <1>2, <1>5, <1>9 DEF TagsOld, LookupsKept, Old
  <2>2. \A u \in Threads : pc'[u] \in LookupLabels => Old(tag[u])'
    BY <1>2, <1>5, <1>8 DEF TagsOld, LookupsKept, Old, Lookup
  <2>3. QED
    BY <2>1, <2>2 DEF TagsOld
<1>11. TagsAgree'
  <2>1. ASSUME NEW u \in Threads, Undisturbed(u)' PROVE self'[u] \notin stale'
    <3>1. Undisturbed(u) /\ pc[u] \in LookupLabels
      BY <1>6, <2>1 DEF Undisturbed
    <3>2. self'[u] = self[u] /\ self[u] \notin stale
      BY <1>6, <2>1, <3>1 DEF TagsAgree, Undisturbed
    <3>3. QED
      BY <1>1, <3>2
  <2>2. ASSUME NEW u \in Threads, pc'[u] \in LookupLabels, Good(tag[u])'
        PROVE  ~disturbed'[u]
    <3>1. pc[u] \in LookupLabels /\ tag'[u] = tag[u]
      BY <1>2, <2>2 DEF LookupsKept
    <3>2. Good(tag[u])
      BY <1>7, <1>8, <2>2, <3>1
    <3>3. QED
      BY <1>2, <3>1, <3>2 DEF TagsAgree
  <2>3. QED
    BY <2>1, <2>2 DEF TagsAgree
<1>12. EntriesRight'
  <2>1. ASSUME NEW s \in Slots, Good(table[s].version)'
        PROVE  table'[s].value = Answer(table[s].version.type, table[s].name)'
    <3>1. table' = table
      BY <1>2 DEF LookupsKept
    <3>2. versionTag'[S] # None
      <4>1. versionTag'[S] \in Tags
        BY <1>1, <1>3, <1>4 DEF Tags
      <4>2. QED
        BY <4>1, MethodCacheAssumption
    <3>3. table[s].version # versionTag'[S]
      BY <1>5, <1>9, <3>2 DEF TagsOld
    <3>4. Good(table[s].version)
      BY <1>7, <2>1, <3>1, <3>3
    <3>5. QED
      BY <1>2, <3>1, <3>4 DEF EntriesRight, Answer
  <2>2. QED
    BY <2>1 DEF EntriesRight
<1>13. LookupsRight'
  BY <1>2, <1>6 DEF LookupsRight, LookupRight, LookupsKept, Undisturbed, Answer
<1>14. NoAnswerYet'
  BY <1>2 DEF NoAnswerYet, LookupsKept, LookupLabels
<1>15. QED
  BY <1>10, <1>11, <1>12, <1>13, <1>14

(* Lookups. *)

\* A lookup changes no type; the others are where they were.
LookupStep(t) ==
    /\ dict' = dict /\ mro' = mro /\ versionTag' = versionTag /\ stale' = stale
    /\ \A u \in Threads \ {t} : SameAtHand(u) /\ disturbed'[u] = disturbed[u]

\* Within a lookup its type, name and tag stay, and so do the good tags.
LookupGoesOn(t) ==
    /\ pc[t] \in LookupLabels /\ pc'[t] \in LookupLabels
    /\ self'[t] = self[t] /\ name'[t] = name[t] /\ tag'[t] = tag[t]
    /\ disturbed'[t] = disturbed[t]

LEMMA OthersRight ==
    ASSUME Inv, NEW t \in Threads, LookupStep(t), NEW u \in Threads \ {t}
    PROVE  /\ Undisturbed(u)' => LookupRight(u)'
           /\ pc'[u] \notin {"l_store", "l_return"} => answer'[u] = None
<1> USE DEF LookupStep, SameAtHand
<1>1. Undisturbed(u)' <=> Undisturbed(u)
  BY DEF Undisturbed
<1>2. LookupRight(u) => LookupRight(u)'
  BY DEF LookupRight, Answer
<1>3. QED
  BY <1>1, <1>2 DEF Inv, Coherent, LookupsRight, NoAnswerYet

LEMMA GoesOnFacts ==
    ASSUME Inv, NEW t \in Threads, LookupStep(t), LookupGoesOn(t)
    PROVE  /\ TagsAgree'
           /\ \A v : Good(v)' <=> Good(v)
           /\ \A u \in Threads : pc'[u] \in LookupLabels => Old(tag[u])'
<1> USE DEF LookupStep, LookupGoesOn, SameAtHand, Inv, Coherent
<1>1. \A u \in Threads : /\ pc'[u] \in LookupLabels <=> pc[u] \in LookupLabels
                         /\ self'[u] = self[u] /\ tag'[u] = tag[u]
                         /\ disturbed'[u] = disturbed[u]
  OBVIOUS
<1>2. \A v : Good(v)' <=> Good(v)
  BY <1>1 DEF Good, Undisturbed
<1>3. TagsAgree'
  BY <1>1, <1>2 DEF TagsAgree, Undisturbed
<1>4. QED
  BY <1>1, <1>2, <1>3 DEF TagsOld, Old

LEMMA TableSame ==
    ASSUME Inv, NEW t \in Threads, LookupStep(t), table' = table,
           \A v : Good(v)' => Good(v)
    PROVE  /\ EntriesRight'
           /\ \A s \in Slots :
                 table'[s].version # None => Old(table[s].version)' /\ table'[s].name \in Names
  BY DEF Inv, Coherent, EntriesRight, TagsOld, LookupStep, Old, Answer

\* It suffices to look at the thread itself.
LEMMA GoesOnCoherent ==
    ASSUME Inv, NEW t \in Threads, LookupStep(t), LookupGoesOn(t), table' = table,
           Undisturbed(t) => LookupRight(t)',
           pc'[t] \notin {"l_store", "l_return"} => answer'[t] = None
    PROVE  Coherent'
<1>1. TagsAgree' /\ EntriesRight'
  BY GoesOnFacts, TableSame
<1>2. TagsOld'
  BY GoesOnFacts, TableSame DEF TagsOld
<1>3. Undisturbed(t)' => Undisturbed(t)
  BY DEF Undisturbed, LookupGoesOn
<1>4. LookupsRight'
  BY <1>3, OthersRight DEF LookupsRight
<1>5. NoAnswerYet'
  BY OthersRight DEF NoAnswerYet
<1>6. QED
  BY <1>1, <1>2, <1>4, <1>5 DEF Coherent

LEMMA AnswerFacts ==
    ASSUME Types0, NEW T \in Types, NEW n \in Names, Answer(T, n) # None
    PROVE  \E U \in Types : dict[U][n] = Answer(T, n)
<1>1. mro[T] \in Seq(Types)
  BY DEF Types0, TypeTypes
<1>2. PICK i \in DOMAIN mro[T] : Answer(T, n) = dict[mro[T][i]][n]
  BY <1>1, FoundSomewhere DEF Answer
<1>3. mro[T][i] \in Types
  BY <1>1
<1>4. QED
  BY <1>2, <1>3

\* What the collector takes is in no dict, so that it was right in no entry.
LEMMA CollectCoherent ==
    ASSUME Inv, NEW v \in Values, Collect(v) PROVE Coherent'
<1> USE DEF Inv, Coherent, hierarchy, history
<1>1. /\ \A s \in Slots : /\ table'[s].version = table[s].version
                          /\ table'[s].name = table[s].name
                          /\ table[s].value # v => table'[s] = table[s]
      /\ \A t \in Threads : entry[t].value # v => entry'[t] = entry[t]
  BY DEF Collect, Types0, LookupTypes, Entries
<1>2. /\ dict' = dict /\ mro' = mro /\ versionTag' = versionTag /\ stale' = stale
      /\ pc' = pc /\ self' = self /\ name' = name /\ tag' = tag /\ order' = order
      /\ pos' = pos /\ answer' = answer /\ disturbed' = disturbed
  BY DEF Collect
<1>3. \A T \in Types, n \in Names : Answer(T, n) # v
  BY AnswerFacts, MethodCacheAssumption DEF Collect
<1>4. \A x : Good(x)' => Good(x)
  BY <1>2 DEF Good, Undisturbed
<1>5. TagsOld' /\ TagsAgree' /\ NoAnswerYet'
  <2>1. TagsOld' /\ NoAnswerYet'
    <3>1. TagsOld'
      BY <1>1, <1>2 DEF TagsOld, Old
    <3>2. NoAnswerYet'
      BY <1>2 DEF NoAnswerYet
    <3>3. QED
      BY <3>1, <3>2
  <2>2. TagsAgree'
    BY <1>2, <1>4 DEF TagsAgree, Undisturbed
  <2>3. QED
    BY <2>1, <2>2
<1>6. EntriesRight'
  <2>1. ASSUME NEW s \in Slots, Good(table[s].version)'
        PROVE  table'[s].value = Answer(table[s].version.type, table[s].name)'
    <3>1. Good(table[s].version)
      BY <1>1, <1>4, <2>1
    <3>2. table[s].version \in Tags
      BY <3>1 DEF Good, Undisturbed, Types0, TypeTypes, AtHand, HasAtHand, Lookup
    <3>3. table[s].version.type \in Types /\ table[s].name \in Names
      BY <3>2, MethodCacheAssumption DEF TagsOld, Tags
    <3>4. table'[s] = table[s]
      BY <1>1, <1>3, <3>1, <3>3 DEF EntriesRight
    <3>5. QED
      BY <1>2, <3>1, <3>4 DEF EntriesRight, Answer
  <2>2. QED
    BY <2>1 DEF EntriesRight
<1>7. LookupsRight'
  <2> SUFFICES ASSUME NEW t \in Threads, Undisturbed(t)' PROVE LookupRight(t)'
    BY DEF LookupsRight
  <2>1. Undisturbed(t) /\ LookupRight(t) /\ self[t] \in Types /\ name[t] \in Names
    BY <1>2 DEF Undisturbed, LookupsRight, Types0, AtHand, HasAtHand, Lookup
  <2>2. pc[t] = "l_get" => entry'[t] = entry[t]
    BY <1>1, <1>3, <2>1 DEF LookupRight
  <2>3. QED
    BY <1>2, <2>1, <2>2 DEF LookupRight, Answer
<1>8. QED
  BY <1>5, <1>6, <1>7

\* A type that is stale has no good tag.
LEMMA StaleTag ==
    ASSUME Inv, NEW T \in stale PROVE ~Good(versionTag[T])
<1> SUFFICES ASSUME Good(versionTag[T]) PROVE FALSE
  OBVIOUS
<1> USE DEF Inv, Coherent, Types0, TypeTypes
<1>1. T \in Types /\ versionTag[T].type = T
  OBVIOUS
<1>2. \A u \in Threads : Undisturbed(u) => self[u] # T /\ tag[u].type = self[u]
  BY DEF TagsAgree, Undisturbed, AtHand, HasAtHand, Lookup
<1>3. QED
  BY <1>1, <1>2 DEF Good

LEMMA LookupSteps ==
    ASSUME Inv, NEW t \in Threads,
           \/ CallLookup(t) \/ ReadEntry(t) \/ GetValue(t) \/ ReadMro(t) \/ ReadDict(t)
           \/ EndWalk(t) \/ Store(t) \/ ReturnAnswer(t)
    PROVE  LookupStep(t)
<1> USE DEF Inv, LookupStep, Types0, ThreadTypes, hierarchy, history
<1>1. \A u \in Threads \ {t} : SameAtHand(u)
  BY OthersKept DEF Call, Continue
<1>2. CASE CallLookup(t)
  BY <1>1, <1>2 DEF CallLookup
<1>3. CASE ReadEntry(t)
  BY <1>1, <1>3 DEF ReadEntry
<1>4. CASE GetValue(t)
  BY <1>1, <1>4 DEF GetValue
<1>5. CASE ReadMro(t)
  BY <1>1, <1>5 DEF ReadMro
<1>6. CASE ReadDict(t)
  BY <1>1, <1>6 DEF ReadDict
<1>7. CASE EndWalk(t)
  BY <1>1, <1>7 DEF EndWalk
<1>8. CASE Store(t)
  BY <1>1, <1>8 DEF Store
<1>9. CASE ReturnAnswer(t)
  BY <1>1, <1>9 DEF ReturnAnswer
<1>10. QED
  BY <1>2, <1>3, <1>4, <1>5, <1>6, <1>7, <1>8, <1>9

LEMMA LookupCoherent ==
    ASSUME Inv, NEW t \in Threads,
           \/ CallLookup(t) \/ ReadEntry(t) \/ GetValue(t) \/ ReadMro(t) \/ ReadDict(t)
           \/ EndWalk(t) \/ Store(t) \/ ReturnAnswer(t)
    PROVE  Coherent'
<1> USE DEF Inv, Coherent, history
<1>1. /\ pc \in [Threads -> {"idle", "announce"} \cup LookupLabels \cup RebindLabels]
      /\ self \in [Threads -> Types \cup {None}] /\ disturbed \in [Threads -> BOOLEAN]
      /\ name \in [Threads -> Names \cup {None}] /\ tag \in [Threads -> Tags \cup {None}]
      /\ entry \in [Threads -> Entries] /\ order \in [Threads -> Seq(Types)]
      /\ pos \in [Threads -> Nat \ {0}] /\ answer \in [Threads -> Values \cup {None}]
      /\ mro \in [Types -> Seq(Types)]
  BY DEF Types0, ThreadTypes, TypeTypes, LookupTypes
<1>2. pc[t] \in LookupLabels => Lookup(t)
  BY DEF Types0, AtHand, HasAtHand
<1>3. Undisturbed(t) => LookupRight(t)
  BY DEF LookupsRight
<1>4. pc[t] \notin {"l_store", "l_return"} => answer[t] = None
  BY DEF NoAnswerYet
<1>5. LookupStep(t)
  BY LookupSteps
<1>6. CASE CallLookup(t)
  <2>1. PICK T \in Types, n \in Names :
            /\ self' = [self EXCEPT ![t] = T] /\ name' = [name EXCEPT ![t] = n]
            /\ tag' = [tag EXCEPT ![t] = versionTag[T]]
            /\ disturbed' = [disturbed EXCEPT ![t] = T \in stale]
    BY <1>6, MethodCacheAssumption DEF CallLookup
  <2>2. /\ pc[t] = "idle" /\ pc'[t] = "l_entry" /\ table' = table /\ answer' = answer
        /\ self'[t] = T /\ tag'[t] = versionTag[T] /\ (disturbed'[t] <=> T \in stale)
    BY <1>1, <1>6, <2>1 DEF CallLookup, Begin, Goto
  <2>3. \A u \in Threads \ {t} : /\ pc'[u] = pc[u] /\ self'[u] = self[u] /\ tag'[u] = tag[u]
                                 /\ disturbed'[u] = disturbed[u]
    BY <1>5 DEF LookupStep, SameAtHand
  <2>4. \A v : Good(v)' => Good(v)
    BY <1>5, <2>2, <2>3 DEF Good, Undisturbed, LookupStep
  <2>5. TagsAgree'
    <3>1. \A u \in Threads : Undisturbed(u)' => self'[u] \notin stale'
      BY <1>5, <2>2, <2>3 DEF TagsAgree, Undisturbed, LookupStep
    <3>2. ASSUME Good(tag[t])' PROVE ~disturbed'[t]
      BY <2>2, <2>4, <3>2, StaleTag
    <3>3. ASSUME NEW u \in Threads \ {t}, pc'[u] \in LookupLabels, Good(tag[u])'
          PROVE  ~disturbed'[u]
      BY <2>3, <2>4, <3>3 DEF TagsAgree
    <3>4. QED
      BY <3>1, <3>2, <3>3 DEF TagsAgree
  <2>6. EntriesRight'
    BY <1>5, <2>2, <2>4, TableSame
  <2>7. TagsOld'
    <3>1. \A s \in Slots : table'[s].version # None =>
                              Old(table[s].version)' /\ table'[s].name \in Names
      BY <1>5, <2>2, <2>4, TableSame
    <3>2. Old(tag[t])'
      BY <1>5, <2>2 DEF Old, LookupStep, Types0, TypeTypes, Tags
    <3>3. \A u \in Threads \ {t} : pc'[u] \in LookupLabels => Old(tag[u])'
      BY <1>5, <2>3 DEF TagsOld, Old, LookupStep
    <3>4. QED
      BY <3>1, <3>2, <3>3 DEF TagsOld
  <2>8. LookupRight(t)' /\ answer'[t] = None
    BY <1>4, <2>2 DEF LookupRight
  <2>9. LookupsRight' /\ NoAnswerYet'
    BY <1>5, <2>8, OthersRight DEF LookupsRight, NoAnswerYet
  <2>10. QED
    BY <2>5, <2>6, <2>7, <2>9
<1>7. CASE ReadEntry(t)
  <2>1. LookupGoesOn(t) /\ table' = table /\ answer' = answer /\ pc[t] = "l_entry"
    BY <1>1, <1>7 DEF ReadEntry, LookupGoesOn, LookupLabels, Goto
  <2>2. Index(t) \in Slots /\ self[t] \in Types /\ tag[t].type = self[t] /\ tag[t] \in Tags
    BY <1>2, <2>1 DEF Index, Lookup, Tags, LookupLabels
  <2>3. entry'[t] = table[Index(t)]
        /\ (pc'[t] = "l_get" => entry'[t].version = tag[t] /\ entry'[t].name = name[t])
        /\ pc'[t] \in {"l_get", "l_mro"}
    BY <1>1, <1>7 DEF ReadEntry, Goto
  <2>4. ASSUME Undisturbed(t), pc'[t] = "l_get"
        PROVE  entry'[t].value = Answer(self[t], name[t])
    <3>1. Good(table[Index(t)].version)
      BY <2>3, <2>4 DEF Good
    <3>2. QED
      BY <2>2, <2>3, <2>4, <3>1 DEF EntriesRight
  <2>5. Undisturbed(t) => LookupRight(t)'
    BY <1>5, <2>1, <2>3, <2>4 DEF LookupRight, LookupGoesOn, LookupStep, Answer
  <2>6. QED
    BY <1>4, <1>5, <2>1, <2>5, GoesOnCoherent DEF LookupLabels
<1>8. CASE GetValue(t)
  <2>1. LookupGoesOn(t) /\ table' = table /\ pc[t] = "l_get" /\ pc'[t] = "l_return"
        /\ answer'[t] = entry[t].value
    BY <1>1, <1>8 DEF GetValue, LookupGoesOn, LookupLabels, Goto
  <2>2. Undisturbed(t) => LookupRight(t)'
    BY <1>3, <1>5, <2>1 DEF LookupRight, LookupGoesOn, LookupStep, Answer
  <2>3. QED
    BY <1>5, <2>1, <2>2, GoesOnCoherent
<1>9. CASE ReadMro(t)
  <2>1. LookupGoesOn(t) /\ table' = table /\ answer' = answer
        /\ pc[t] = "l_mro" /\ pc'[t] = "l_walk"
        /\ order'[t] = mro[self[t]] /\ pos'[t] = 1
    BY <1>1, <1>9 DEF ReadMro, LookupGoesOn, LookupLabels, Goto
  <2>2. self[t] \in Types
    BY <1>2, <2>1 DEF Lookup, LookupLabels
  <2>3. pos'[t] \in 1 .. Len(order'[t]) + 1
    BY <1>1, <2>1, <2>2
  <2>4. LookupRight(t)'
    BY <1>5, <2>1, <2>3 DEF LookupRight, LookupGoesOn, LookupStep
  <2>5. QED
    BY <1>4, <1>5, <2>1, <2>4, GoesOnCoherent
<1>10. CASE ReadDict(t)
  <2>1. LookupGoesOn(t) /\ table' = table /\ order' = order /\ pc[t] = "l_walk"
        /\ pos[t] <= Len(order[t])
    BY <1>1, <1>10 DEF ReadDict, LookupGoesOn, LookupLabels, Goto
  <2>2. self[t] \in Types /\ pos[t] \in 1 .. Len(order[t])
    BY <1>1, <1>2, <2>1 DEF Lookup, LookupLabels
  <2>3. CASE dict[order[t][pos[t]]][name[t]] = None
    <3>1. pc'[t] = "l_walk" /\ pos'[t] = pos[t] + 1 /\ answer'[t] = answer[t]
      BY <1>1, <1>10, <2>1, <2>3 DEF ReadDict
    <3>2. ASSUME Undisturbed(t) PROVE LookupRight(t)'
      <4>1. order[t] = mro[self[t]] /\ \A j \in 1 .. pos[t] - 1 : dict[order[t][j]][name[t]] = None
        BY <1>3, <2>1, <3>2 DEF LookupRight
      <4>2. \A j \in 1 .. pos'[t] - 1 : dict[order[t][j]][name[t]] = None
        BY <2>2, <2>3, <3>1, <4>1
      <4>3. pos'[t] \in 1 .. Len(order[t]) + 1
        BY <1>1, <2>2, <3>1
      <4>4. QED
        BY <1>5, <2>1, <3>1, <4>1, <4>2, <4>3 DEF LookupRight, LookupStep, LookupGoesOn
    <3>3. QED
      BY <1>4, <1>5, <2>1, <3>1, <3>2, GoesOnCoherent
  <2>4. CASE dict[order[t][pos[t]]][name[t]] # None
    <3>1. pc'[t] = "l_store" /\ answer'[t] = dict[order[t][pos[t]]][name[t]]
      BY <1>1, <1>10, <2>1, <2>4 DEF ReadDict, Goto
    <3>2. ASSUME Undisturbed(t) PROVE LookupRight(t)'
      <4>1. order[t] = mro[self[t]] /\ \A j \in 1 .. pos[t] - 1 : dict[order[t][j]][name[t]] = None
        BY <1>3, <2>1, <3>2 DEF LookupRight
      <4>2. mro[self[t]] \in Seq(Types)
        BY <1>1, <2>2
      <4>3. lookup_where_mro(dict, mro[self[t]], name[t]) = dict[mro[self[t]][pos[t]]][name[t]]
        <5>1. pos[t] \in 1 .. Len(mro[self[t]]) /\ dict[mro[self[t]][pos[t]]][name[t]] # None
              /\ \A j \in 1 .. pos[t] - 1 : dict[mro[self[t]][j]][name[t]] = None
          BY <2>2, <2>4, <4>1
        <5> DEFINE m == mro[self[t]]
                   n == name[t]
                   p == pos[t]
        <5>2. /\ m \in Seq(Types) /\ p \in 1 .. Len(m) /\ dict[m[p]][n] # None
              /\ \A j \in 1 .. p - 1 : dict[m[j]][n] = None
          BY <4>2, <5>1
        <5> HIDE DEF m, n, p
        <5>3. lookup_where_mro(dict, m, n) = dict[m[p]][n]
          BY ONLY <5>2, WalkFound
        <5>4. QED
          BY <5>3 DEF m, n, p
      <4>4. Answer(self[t], name[t]) = dict[order[t][pos[t]]][name[t]]
        BY <4>1, <4>3 DEF Answer
      <4>5. QED
        BY <1>5, <2>1, <3>1, <4>4 DEF LookupRight, LookupStep, LookupGoesOn, Answer
    <3>3. QED
      BY <1>5, <2>1, <3>1, <3>2, GoesOnCoherent
  <2>5. QED
    BY <2>3, <2>4
<1>11. CASE EndWalk(t)
  <2>1. LookupGoesOn(t) /\ table' = table /\ pc[t] = "l_walk" /\ pc'[t] = "l_store"
        /\ pos[t] > Len(order[t]) /\ answer'[t] = answer[t]
    BY <1>1, <1>11 DEF EndWalk, LookupGoesOn, LookupLabels, Goto, lookupVars
  <2>2. ASSUME Undisturbed(t) PROVE LookupRight(t)'
    <3>1. /\ order[t] = mro[self[t]] /\ pos[t] \in 1 .. Len(order[t]) + 1
          /\ \A j \in 1 .. pos[t] - 1 : dict[order[t][j]][name[t]] = None
      BY <1>3, <2>1, <2>2 DEF LookupRight
    <3>2. mro[self[t]] \in Seq(Types)
      BY <1>1, <1>2, <2>1 DEF Lookup, LookupLabels
    <3>3. \A j \in 1 .. Len(mro[self[t]]) : dict[mro[self[t]][j]][name[t]] = None
      BY <2>1, <3>1, <3>2
    <3>4. Answer(self[t], name[t]) = None
      BY <3>2, <3>3, WalkInVain DEF Answer
    <3>5. QED
      BY <1>4, <1>5, <2>1, <3>4 DEF LookupRight, LookupStep, LookupGoesOn, Answer
  <2>3. QED
    BY <1>5, <2>1, <2>2, GoesOnCoherent
<1>12. CASE Store(t)
  <2>1. /\ LookupGoesOn(t) /\ pc[t] = "l_store" /\ pc'[t] = "l_return" /\ answer' = answer
        /\ \/ table' = table
           \/ table' = [table EXCEPT ![Index(t)] = [version |-> tag[t], name |-> name[t],
                                                    value |-> answer[t]]]
    BY <1>1, <1>12 DEF Store, LookupGoesOn, LookupLabels, Goto, lookupVars
  <2>2. Undisturbed(t) => LookupRight(t)'
    BY <1>3, <1>5, <2>1 DEF LookupRight, LookupGoesOn, LookupStep, Answer
  <2>3. Lookup(t) /\ Old(tag[t])
    BY <1>2, <2>1 DEF LookupLabels, TagsOld
  <2>4. ASSUME Good(tag[t])
        PROVE  answer[t] = Answer(tag[t].type, name[t])
    BY <1>3, <2>1, <2>3, <2>4 DEF TagsAgree, Undisturbed, LookupRight, LookupLabels, Lookup
  <2>5. \A s \in Slots : \/ table'[s] = table[s]
                         \/ table'[s] = [version |-> tag[t], name |-> name[t],
                                         value |-> answer[t]]
    BY <2>1 DEF Types0, LookupTypes
  <2>6. EntriesRight'
    <3>1. ASSUME NEW s \in Slots, Good(table[s].version)'
          PROVE  table'[s].value = Answer(table[s].version.type, table[s].name)'
      <4>1. Good(table'[s].version)
        BY <1>5, <2>1, <3>1, GoesOnFacts DEF Good
      <4>2. table'[s].value = Answer(table'[s].version.type, table'[s].name)
        BY <2>4, <2>5, <4>1 DEF EntriesRight
      <4>3. QED
        BY <1>5, <4>2 DEF LookupStep, Answer
    <3>2. QED
      BY <3>1 DEF EntriesRight
  <2>7. TagsOld'
    <3>1. \A s \in Slots : table'[s].version # None =>
                              Old(table'[s].version) /\ table'[s].name \in Names
      BY <2>3, <2>5 DEF TagsOld, Lookup
    <3>2. \A v : Old(v)' <=> Old(v)
      BY <1>5 DEF Old, LookupStep
    <3>3. QED
      BY <1>5, <2>1, <3>1, <3>2, GoesOnFacts DEF TagsOld, Old
  <2>8. LookupsRight' /\ NoAnswerYet'
    BY <1>5, <2>1, <2>2, OthersRight DEF LookupsRight, NoAnswerYet, Undisturbed, LookupGoesOn
  <2>9. QED
    BY <1>5, <2>1, <2>6, <2>7, <2>8, GoesOnFacts
<1>13. CASE ReturnAnswer(t)
  <2>1. pc'[t] = "idle" /\ answer'[t] = None /\ table' = table
    BY <1>1, <1>13 DEF ReturnAnswer, Goto
  <2>2. \A u \in Threads \ {t} : /\ pc'[u] = pc[u] /\ self'[u] = self[u] /\ tag'[u] = tag[u]
                                 /\ disturbed'[u] = disturbed[u]
    BY <1>5 DEF LookupStep, SameAtHand
  <2>3. pc'[t] \notin LookupLabels
    BY <2>1 DEF LookupLabels
  <2>4. \A v : Good(v)' => Good(v)
    BY <1>5, <2>2, <2>3 DEF Good, Undisturbed, LookupStep
  <2>5. TagsAgree'
    BY <1>5, <2>2, <2>3, <2>4 DEF TagsAgree, Undisturbed, LookupStep
  <2>6. EntriesRight'
    BY <1>5, <2>1, <2>4, TableSame
  <2>7. TagsOld'
    <3>1. \A s \in Slots : table'[s].version # None =>
                              Old(table[s].version)' /\ table'[s].name \in Names
      BY <1>5, <2>1, <2>4, TableSame
    <3>2. \A u \in Threads : pc'[u] \in LookupLabels => Old(tag[u])'
      BY <1>5, <2>2, <2>3 DEF TagsOld, Old, LookupStep
    <3>3. QED
      BY <3>1, <3>2 DEF TagsOld
  <2>8. LookupsRight' /\ NoAnswerYet'
    BY <1>5, <2>1, <2>3, OthersRight DEF LookupsRight, NoAnswerYet, Undisturbed
  <2>9. QED
    BY <2>5, <2>6, <2>7, <2>8
<1>14. QED
  BY <1>6, <1>7, <1>8, <1>9, <1>10, <1>11, <1>12, <1>13

LEMMA StutterCoherent == Inv /\ UNCHANGED vars => Coherent'
<1> SUFFICES ASSUME Inv, UNCHANGED vars PROVE Coherent'
  OBVIOUS
<1> USE DEF Inv, Coherent, vars, hierarchy, lookupVars, history
<1>1. TagsOld' /\ TagsAgree' /\ NoAnswerYet'
  BY DEF TagsOld, TagsAgree, NoAnswerYet, Good, Undisturbed, Old
<1>2. EntriesRight'
  BY DEF EntriesRight, Good, Undisturbed, Answer
<1>3. LookupsRight'
  BY DEF LookupsRight, LookupRight, Undisturbed, Answer
<1>4. QED
  BY <1>1, <1>2, <1>3

THEOREM CoherentInvariant == Spec => []Inv
<1>1. Init => Inv
  BY InitCoherent
<1>2. Inv /\ [Next]_vars => Inv'
  <2> SUFFICES ASSUME Inv, [Next]_vars PROVE Coherent' /\ Types0'
    BY DEF Inv
  <2>1. Types0'
    BY TypesStep DEF Inv
  <2>2. ASSUME NEW t \in Threads, Call(t) \/ Continue(t) PROVE Coherent'
    <3>1. CASE ChangesTypes(t)
      BY <3>1, OtherLabels, ChangeFacts, ChangeCoherent DEF Inv
    <3>2. CASE Invalidate(t)
      BY <3>2, InvalidateCoherent
    <3>3. CASE ~ChangesTypes(t) /\ ~Invalidate(t)
      BY <2>2, <3>3, LookupCoherent DEF ChangesTypes, Call, Continue
    <3>4. QED
      BY <3>1, <3>2, <3>3
  <2>3. ASSUME NEW v \in Values, Collect(v) PROVE Coherent'
    BY <2>3, CollectCoherent
  <2>4. CASE UNCHANGED vars
    BY <2>1, <2>4, StutterCoherent
  <2>5. QED
    BY <2>1, <2>2, <2>3, <2>4 DEF Next
<1>3. QED
  BY <1>1, <1>2, PTL DEF Spec

\* The cache is coherent: whatever lookups and changes interleave, an entry under the tag
\* a type has now is what a walk along its MRO finds, or a change is still to be announced.
THEOREM CacheCoherentHolds == Spec => []CacheCoherent
<1>1. Inv => CacheCoherent
  BY CoherentImplies
<1>2. QED
  BY <1>1, CoherentInvariant, PTL

\* A lookup during which nothing changes on the types it depends on returns the value the
\* type has, whether it comes from the cache or from a walk.
THEOREM QuietAnswerHolds == Spec => []QuietAnswer
<1>1. Inv => QuietAnswer
  BY CoherentImplies
<1>2. QED
  BY <1>1, CoherentInvariant, PTL
==============================================================================
