------------------------------ MODULE MethodCache ------------------------------
(***************************************************************************)
(* Attribute lookup on Python types, core/PyType.java: the global method   *)
(* cache, and the changes of types it must follow.                         *)
(*                                                                         *)
(* A lookup takes no lock.  It reads the version tag of the type and the   *)
(* cache entry for that tag and name; if the entry is of another tag or    *)
(* name it walks the MRO, dict by dict, and caches what it has found under *)
(* the tag it read first.  Whoever sets or deletes an attribute, or        *)
(* assigns __bases__, gives a new tag to the type and then to all its      *)
(* subclasses, holding the monitors of the types on the way down.          *)
(* Assigning __bases__ recomputes the MROs of the type and its subclasses, *)
(* and puts them back if one of them cannot be computed.                   *)
(*                                                                         *)
(* Types do not come or go and have no metaclass but type; the names are   *)
(* ordinary and of at most 100 characters, as all that are cached.         *)
(***************************************************************************)
EXTENDS MethodResolution

CONSTANTS Hierarchy,         \* the types and their bases in the order of creation
          Builtin,           \* types that cannot be changed
          Names, Values,
          Slots,             \* indexes of the cache
          Lookers, Setters, Rebinders,   \* threads that look up, set and delete, rebind
          Looked,            \* types that are looked up on
          Rebinds,           \* the assignments of __bases__ to consider
          InitialDict,       \* the attributes the types are created with
          MaxCalls,          \* bound: calls made by each thread
          None               \* no value, no version, no type, no owner

Threads == Lookers \cup Setters \cup Rebinders

\* The types are created one after the other, each after its bases, to which it is
\* attached: the MROs after the creation of the first k types, and their subclasses.
MroOf[k \in 0 .. Len(Hierarchy)] ==
    IF k = 0 THEN [T \in Types |-> <<>>]
    ELSE [MroOf[k - 1] EXCEPT ![Hierarchy[k].type] =
             CHOOSE m \in computeMro(Hierarchy[k].type, Hierarchy[k].bases, MroOf[k - 1]) : TRUE]
SubclassesOf[k \in 0 .. Len(Hierarchy)] ==
    IF k = 0 THEN [T \in Types |-> <<>>]
    ELSE [T \in Types |-> IF T \in ToSet(Hierarchy[k].bases)
                          THEN Append(SubclassesOf[k - 1][T], Hierarchy[k].type)
                          ELSE SubclassesOf[k - 1][T]]
InitialMro == MroOf[Len(Hierarchy)]
InitialSubclasses == SubclassesOf[Len(Hierarchy)]
InitialBases == [T \in Types |->
    (CHOOSE c \in ToSet(Hierarchy) : c.type = T).bases]

\* Every type is created once; its creation fails if its MRO cannot be computed.
ASSUME HierarchyAssumption ==
    /\ \A T \in Types : \E k \in DOMAIN Hierarchy : Hierarchy[k].type = T
    /\ \A j, k \in DOMAIN Hierarchy : Hierarchy[j].type = Hierarchy[k].type => j = k
    /\ \A k \in DOMAIN Hierarchy :
          /\ \A b \in ToSet(Hierarchy[k].bases) : \E j \in 1 .. k - 1 : Hierarchy[j].type = b
          /\ computeMro(Hierarchy[k].type, Hierarchy[k].bases, MroOf[k - 1]) # {}

\* A tag of a type tells apart all the tags it has had.
Tags == [type : Types, id : Nat, slot : [Names -> Slots]]

ASSUME MethodCacheAssumption ==
    /\ IsFiniteSet(Types) /\ Builtin \subseteq Types /\ Looked \subseteq Types
    /\ Hierarchy \in Seq([type : Types, bases : Seq(Types)])
    /\ InitialBases \in [Types -> Seq(Types)] /\ InitialMro \in [Types -> Seq(Types)]
    /\ InitialSubclasses \in [Types -> Seq(Types)]
    /\ Rebinds \subseteq [type : Types \ Builtin, bases : Seq(Types) \ {<<>>}]
    /\ InitialDict \in [Types -> [Names -> Values \cup {None}]]
    /\ MaxCalls \in [Threads -> Nat] /\ Slots # {}
    /\ None \notin Types \cup Values \cup Threads \cup Names /\ None \notin Tags

VARIABLES
    dict,        \* the attributes of each type, None for one that it does not have
    bases, mro,
    subclasses,  \* the subclasses of each type, in the order they were attached
    versionTag,  \* identity and hash of an Object; the hash gives each name a slot
    monitor,     \* owner of the monitor of each type
    table,       \* MethodCache.table
    pc, calls,   \* where each thread is, and how many calls it has begun
    self,        \* the type it looks up in or changes
    name, tag, entry, order, pos, answer,   \* a lookup: its local variables
    path,        \* the types a recursion down the subclasses has entered, innermost
                 \* first, with the subclasses left to visit of each
    newBases, savedBases, savedMro,
    savedSubMros,   \* an assignment of __bases__: its local variables
    edges,       \* what it has still to detach and attach
    stale,       \* history: types whose tag is older than the last change of what
                 \* a lookup on them finds
    disturbed,   \* history: has this lookup met a type that was stale
    putBack      \* history: stale types whose MRO a failed assignment has put back

lookupVars == <<name, tag, entry, order, pos, answer>>
hierarchy == <<bases, mro, subclasses>>
rebindVars == <<newBases, savedBases, savedMro, savedSubMros, edges>>
history == <<stale, disturbed, putBack>>
vars == <<dict, hierarchy, versionTag, monitor, table, pc, calls, self, lookupVars,
          path, rebindVars, history>>

LookupLabels == {"l_entry", "l_get", "l_mro", "l_walk", "l_store", "l_return"}
Announcing == {"announce", "b_announce"}
RebindLabels == {"b_assign", "b_mro", "b_subclasses", "b_edges", "b_announce", "b_restore"}

Entries == [version : Tags \cup {None}, name : Names \cup {None},
            value : Values \cup {None}]
EMPTY == [version |-> None, name |-> None, value |-> None]
Frames == [type : Types \cup {None}, left : Seq(Types)]
Step == [do : {"detach", "attach"}, base : Types]

\* What a walk along the MRO m finds under n in the dicts d, if nothing changes meanwhile.
lookup_where_mro(d, m, n) ==
    LET first == {i \in DOMAIN m : /\ d[m[i]][n] # None
                                   /\ \A j \in 1 .. i - 1 : d[m[j]][n] = None}
    IN IF first = {} THEN None ELSE d[m[CHOOSE i \in first : TRUE]][n]

Answer(T, n) == lookup_where_mro(dict, mro[T], n)

\* A recursion that is about to enter T, and one that has entered it.
Calling(T) == << [type |-> None, left |-> <<T>>] >>
Entered(t, T) == <<[type |-> T, left |-> subclasses[T]],
                   [Head(path[t]) EXCEPT !.left = Tail(@)]>> \o Tail(path[t])

\* The lookups on the types of S may find something else from now on.
Change(S) ==
    /\ stale' = stale \cup S
    /\ disturbed' = [u \in Threads |-> disturbed[u] \/ self[u] \in S]

NewMro(S, m) ==
    /\ mro' = [mro EXCEPT ![S] = m]
    /\ Change(IF m = mro[S] THEN {} ELSE {S})

Goto(t, label) == pc' = [pc EXCEPT ![t] = label]

Begin(t, S, label) ==
    /\ t \in S /\ pc[t] = "idle" /\ calls[t] < MaxCalls[t]
    /\ calls' = [calls EXCEPT ![t] = @ + 1]
    /\ Goto(t, label)

Init ==
    /\ dict = InitialDict
    /\ bases = InitialBases /\ mro = InitialMro /\ subclasses = InitialSubclasses
    /\ \E hash \in [Types -> [Names -> Slots]] :
           versionTag = [T \in Types |-> [type |-> T, id |-> 0, slot |-> hash[T]]]
    /\ monitor = [T \in Types |-> None]
    /\ table = [s \in Slots |-> EMPTY]
    /\ pc = [t \in Threads |-> "idle"] /\ calls = [t \in Threads |-> 0]
    /\ self = [t \in Threads |-> None]
    /\ name = [t \in Threads |-> None] /\ tag = [t \in Threads |-> None]
    /\ entry = [t \in Threads |-> EMPTY]
    /\ order = [t \in Threads |-> <<>>] /\ pos = [t \in Threads |-> 1]
    /\ answer = [t \in Threads |-> None]
    /\ path = [t \in Threads |-> <<>>]
    /\ newBases = [t \in Threads |-> <<>>] /\ savedBases = [t \in Threads |-> <<>>]
    /\ savedMro = [t \in Threads |-> <<>>] /\ savedSubMros = [t \in Threads |-> <<>>]
    /\ edges = [t \in Threads |-> <<>>]
    /\ stale = {} /\ disturbed = [t \in Threads |-> FALSE] /\ putBack = {}

(* Lookups. *)

CallLookup(t) ==
    /\ Begin(t, Lookers, "l_entry")
    /\ \E T \in Looked, n \in Names :
           /\ self' = [self EXCEPT ![t] = T]
           /\ name' = [name EXCEPT ![t] = n]
           /\ tag' = [tag EXCEPT ![t] = versionTag[T]]
           /\ disturbed' = [disturbed EXCEPT ![t] = T \in stale]
    /\ UNCHANGED <<dict, hierarchy, versionTag, monitor, table, entry, order, pos, answer,
                   path, rebindVars, stale, putBack>>

Index(t) == tag[t].slot[name[t]]

\* Mutant of ReadEntry: isValid compares only the names.
ReadAnyVersion(t) ==
    /\ pc[t] = "l_entry"
    /\ LET e == table[Index(t)]
       IN /\ entry' = [entry EXCEPT ![t] = e]
          /\ Goto(t, IF e.name = name[t] THEN "l_get" ELSE "l_mro")
    /\ UNCHANGED <<dict, hierarchy, versionTag, monitor, table, calls, self, name, tag,
                   order, pos, answer, path, rebindVars, history>>

ReadEntry(t) ==
    /\ pc[t] = "l_entry"
    /\ LET e == table[Index(t)]
           isValid == e.version = tag[t] /\ e.name = name[t]
       IN /\ entry' = [entry EXCEPT ![t] = e]
          /\ Goto(t, IF isValid THEN "l_get" ELSE "l_mro")
    /\ UNCHANGED <<dict, hierarchy, versionTag, monitor, table, calls, self, name, tag,
                   order, pos, answer, path, rebindVars, history>>

\* The entry's weak reference may be cleared since the entry was found valid.
GetValue(t) ==
    /\ pc[t] = "l_get" /\ Goto(t, "l_return")
    /\ answer' = [answer EXCEPT ![t] = entry[t].value]
    /\ UNCHANGED <<dict, hierarchy, versionTag, monitor, table, calls, self, name, tag,
                   entry, order, pos, path, rebindVars, history>>

ReadMro(t) ==
    /\ pc[t] = "l_mro" /\ Goto(t, "l_walk")
    /\ order' = [order EXCEPT ![t] = mro[self[t]]]
    /\ pos' = [pos EXCEPT ![t] = 1]
    /\ UNCHANGED <<dict, hierarchy, versionTag, monitor, table, calls, self, name, tag,
                   entry, answer, path, rebindVars, history>>

ReadDict(t) ==
    /\ pc[t] = "l_walk" /\ pos[t] <= Len(order[t])
    /\ LET value == dict[order[t][pos[t]]][name[t]]
       IN IF value = None
          THEN pos' = [pos EXCEPT ![t] = @ + 1] /\ UNCHANGED <<pc, answer>>
          ELSE /\ answer' = [answer EXCEPT ![t] = value] /\ UNCHANGED pos
               /\ Goto(t, "l_store")
    /\ UNCHANGED <<dict, hierarchy, versionTag, monitor, table, calls, self, name, tag,
                   entry, order, path, rebindVars, history>>

EndWalk(t) ==
    /\ pc[t] = "l_walk" /\ pos[t] > Len(order[t]) /\ Goto(t, "l_store")
    /\ UNCHANGED <<dict, hierarchy, versionTag, monitor, table, calls, self, lookupVars,
                   path, rebindVars, history>>

\* Mutant of Store: the entry is made with the tag of the moment.
StoreFresh(t) ==
    /\ pc[t] = "l_store" /\ Goto(t, "l_return")
    /\ table' = IF table[Index(t)] = entry[t]
                THEN [table EXCEPT ![Index(t)] = [version |-> versionTag[self[t]],
                                                  name |-> name[t], value |-> answer[t]]]
                ELSE table
    /\ UNCHANGED <<dict, hierarchy, versionTag, monitor, calls, self, lookupVars,
                   path, rebindVars, history>>

\* compareAndSet: entries with the same contents are not told apart.
Store(t) ==
    /\ pc[t] = "l_store" /\ Goto(t, "l_return")
    /\ table' = IF table[Index(t)] = entry[t]
                THEN [table EXCEPT ![Index(t)] = [version |-> tag[t], name |-> name[t],
                                                  value |-> answer[t]]]
                ELSE table
    /\ UNCHANGED <<dict, hierarchy, versionTag, monitor, calls, self, lookupVars,
                   path, rebindVars, history>>

ReturnAnswer(t) ==
    /\ pc[t] = "l_return" /\ Goto(t, "idle")
    /\ self' = [self EXCEPT ![t] = None] /\ name' = [name EXCEPT ![t] = None]
    /\ tag' = [tag EXCEPT ![t] = None] /\ entry' = [entry EXCEPT ![t] = EMPTY]
    /\ order' = [order EXCEPT ![t] = <<>>] /\ pos' = [pos EXCEPT ![t] = 1]
    /\ answer' = [answer EXCEPT ![t] = None]
    /\ UNCHANGED <<dict, hierarchy, versionTag, monitor, table, calls, path, rebindVars,
                   history>>

\* The collector clears the entries of a value that nothing else refers to.
Collect(v) ==
    /\ \A T \in Types, n \in Names : dict[T][n] # v
    /\ \A t \in Threads : answer[t] # v
    /\ LET clear(e) == IF e.value = v THEN [e EXCEPT !.value = None] ELSE e
       IN /\ table' = [s \in Slots |-> clear(table[s])]
          /\ entry' = [t \in Threads |-> clear(entry[t])]
    /\ UNCHANGED <<dict, hierarchy, versionTag, monitor, pc, calls, self, name, tag, order,
                   pos, answer, path, rebindVars, history>>

(* Changes of attributes. *)

\* type___setattr__ and type___delattr__ write the dict and then call postSetattr or
\* postDelattr, which do no more than invalidate the cache for an ordinary name.
WriteDict(t, T, n, value) ==
    /\ Begin(t, Setters, "announce")
    /\ dict' = [dict EXCEPT ![T][n] = value]
    /\ self' = [self EXCEPT ![t] = T]
    /\ path' = [path EXCEPT ![t] = Calling(T)]
    /\ Change({S \in Types : T \in ToSet(mro[S])})
    /\ UNCHANGED <<hierarchy, versionTag, monitor, table, lookupVars, rebindVars, putBack>>

SetAttr(t) ==
    \E T \in Types \ Builtin, n \in Names, v \in Values : WriteDict(t, T, n, v)

DelAttr(t) ==
    \E T \in Types \ Builtin, n \in Names : dict[T][n] # None /\ WriteDict(t, T, n, None)

\* Mutant of Invalidate: onType returns true, which stops the traversal at the type itself.
InvalidateFirst(t) ==
    /\ pc[t] \in Announcing /\ Head(path[t]).left # <<>>
    /\ LET S == Head(Head(path[t]).left)
       IN /\ monitor[S] = None /\ monitor' = [monitor EXCEPT ![S] = t]
          /\ \E hash \in [Names -> Slots] :
                 versionTag' = [versionTag EXCEPT
                                   ![S] = [type |-> S, id |-> @.id + 1, slot |-> hash]]
          /\ path' = [path EXCEPT ![t] = <<[type |-> S, left |-> <<>>],
                                           [Head(@) EXCEPT !.left = <<>>]>> \o Tail(@)]
          /\ stale' = stale \ {S} /\ putBack' = putBack \ {S}
    /\ UNCHANGED <<dict, hierarchy, table, pc, calls, self, lookupVars, rebindVars, disturbed>>

\* invalidateMethodCache: traverse_hierarchy enters a type, which is synchronized, and
\* gives it a new tag before it goes to its subclasses.
Invalidate(t) ==
    /\ pc[t] \in Announcing /\ Head(path[t]).left # <<>>
    /\ LET S == Head(Head(path[t]).left)
       IN /\ monitor[S] = None
          /\ monitor' = [monitor EXCEPT ![S] = t]
          /\ \E hash \in [Names -> Slots] :
                 versionTag' = [versionTag EXCEPT
                                   ![S] = [type |-> S, id |-> @.id + 1, slot |-> hash]]
          /\ path' = [path EXCEPT ![t] = Entered(t, S)]
          /\ stale' = stale \ {S} /\ putBack' = putBack \ {S}
    /\ UNCHANGED <<dict, hierarchy, table, pc, calls, self, lookupVars, rebindVars, disturbed>>

\* Mutant of LeaveType: the monitor is kept.
LeaveLocked(t) ==
    /\ pc[t] \in Announcing /\ Head(path[t]).left = <<>> /\ Head(path[t]).type # None
    /\ path' = [path EXCEPT ![t] = Tail(@)]
    /\ UNCHANGED <<dict, hierarchy, versionTag, monitor, table, pc, calls, self, lookupVars,
                   rebindVars, history>>

LeaveType(t) ==
    /\ pc[t] \in Announcing /\ Head(path[t]).left = <<>> /\ Head(path[t]).type # None
    /\ monitor' = [monitor EXCEPT ![Head(path[t]).type] = None]
    /\ path' = [path EXCEPT ![t] = Tail(@)]
    /\ UNCHANGED <<dict, hierarchy, versionTag, table, pc, calls, self, lookupVars,
                   rebindVars, history>>

\* setBases returns to type___setattr__, which invalidates once more, for __bases__.
EndInvalidate(t) ==
    /\ pc[t] \in Announcing /\ Head(path[t]).left = <<>> /\ Head(path[t]).type = None
    /\ IF pc[t] = "b_announce"
       THEN /\ Goto(t, "announce") /\ path' = [path EXCEPT ![t] = Calling(self[t])]
            /\ UNCHANGED self
       ELSE /\ Goto(t, "idle") /\ path' = [path EXCEPT ![t] = <<>>]
            /\ self' = [self EXCEPT ![t] = None]
    /\ UNCHANGED <<dict, hierarchy, versionTag, monitor, table, calls, lookupVars,
                   rebindVars, history>>

(* Changes of bases. *)

Cyclic(T, bs) == \E i \in DOMAIN bs : T \in ToSet(mro[bs[i]])

CallSetBases(t) ==
    \E r \in Rebinds :
        /\ ~Cyclic(r.type, r.bases)
        /\ Begin(t, Rebinders, "b_assign")
        /\ self' = [self EXCEPT ![t] = r.type]
        /\ newBases' = [newBases EXCEPT ![t] = r.bases]
        /\ UNCHANGED <<dict, hierarchy, versionTag, monitor, table, lookupVars, path,
                       savedBases, savedMro, savedSubMros, edges, history>>

RejectCycle(t) ==
    /\ \E r \in Rebinds : Cyclic(r.type, r.bases)
    /\ Begin(t, Rebinders, "idle")
    /\ UNCHANGED <<dict, hierarchy, versionTag, monitor, table, self, lookupVars, path,
                   rebindVars, history>>

AssignBases(t) ==
    /\ pc[t] = "b_assign" /\ Goto(t, "b_mro")
    /\ savedBases' = [savedBases EXCEPT ![t] = bases[self[t]]]
    /\ savedMro' = [savedMro EXCEPT ![t] = mro[self[t]]]
    /\ savedSubMros' = [savedSubMros EXCEPT ![t] = <<>>]
    /\ bases' = [bases EXCEPT ![self[t]] = newBases[t]]
    /\ UNCHANGED <<dict, mro, subclasses, versionTag, monitor, table, calls, self, lookupVars,
                   path, newBases, edges, history>>

MroInternal(t) ==
    /\ pc[t] = "b_mro"
    /\ \/ \E m \in computeMro(self[t], bases[self[t]], mro) :
              /\ NewMro(self[t], m)
              /\ path' = [path EXCEPT ![t] = <<[type |-> self[t],
                                                left |-> subclasses[self[t]]]>>]
              /\ Goto(t, "b_subclasses")
       \/ /\ computeMro(self[t], bases[self[t]], mro) = {}
          /\ Goto(t, "b_restore")
          /\ UNCHANGED <<mro, path, stale, disturbed>>
    /\ UNCHANGED <<dict, bases, subclasses, versionTag, monitor, table, calls, self,
                   lookupVars, rebindVars, putBack>>

\* Mutant of MroSubclass: the old MRO is collected, and stays.
MroSubclassKept(t) ==
    /\ pc[t] = "b_subclasses" /\ Head(path[t]).left # <<>>
    /\ LET S == Head(Head(path[t]).left)
       IN /\ savedSubMros' = [savedSubMros EXCEPT ![t] = Append(@, [type |-> S, mro |-> mro[S]])]
          /\ path' = [path EXCEPT ![t] = Entered(t, S)]
    /\ UNCHANGED <<dict, bases, mro, subclasses, versionTag, monitor, table, pc, calls, self,
                   lookupVars, newBases, savedBases, savedMro, edges, history>>

\* mro_subclasses, which takes no monitor: the old MRO of the next subclass is collected,
\* then its new one is computed.
MroSubclass(t) ==
    /\ pc[t] = "b_subclasses" /\ Head(path[t]).left # <<>>
    /\ LET S == Head(Head(path[t]).left)
       IN /\ savedSubMros' = [savedSubMros EXCEPT ![t] = Append(@, [type |-> S, mro |-> mro[S]])]
          /\ \/ \E m \in computeMro(S, bases[S], mro) :
                    /\ NewMro(S, m)
                    /\ path' = [path EXCEPT ![t] = Entered(t, S)]
                    /\ UNCHANGED pc
             \/ /\ computeMro(S, bases[S], mro) = {}
                /\ Goto(t, "b_restore") /\ path' = [path EXCEPT ![t] = <<>>]
                /\ UNCHANGED <<mro, stale, disturbed>>
    /\ UNCHANGED <<dict, bases, subclasses, versionTag, monitor, table, calls, self,
                   lookupVars, newBases, savedBases, savedMro, edges, putBack>>

LeaveSubclasses(t) ==
    /\ pc[t] = "b_subclasses" /\ Head(path[t]).left = <<>>
    /\ path' = [path EXCEPT ![t] = Tail(@)]
    /\ IF Tail(path[t]) # <<>> THEN UNCHANGED <<pc, edges>>
       ELSE LET each(do, bs) == [i \in DOMAIN bs |-> [do |-> do, base |-> bs[i]]]
            IN /\ edges' = [edges EXCEPT ![t] = each("detach", savedBases[t])
                                                \o each("attach", newBases[t])]
               /\ Goto(t, "b_edges")
    /\ UNCHANGED <<dict, hierarchy, versionTag, monitor, table, calls, self, lookupVars,
                   newBases, savedBases, savedMro, savedSubMros, history>>

\* The first reference to the subclass T is removed from those of a base.
Detached(s, T) ==
    LET first == {i \in DOMAIN s : s[i] = T /\ \A j \in 1 .. i - 1 : s[j] # T}
    IN IF first = {} THEN s ELSE RemoveAt(s, CHOOSE i \in first : TRUE)

\* detachSubclass and attachSubclass are synchronized on the base.
MoveEdge(t) ==
    /\ pc[t] = "b_edges" /\ edges[t] # <<>>
    /\ LET e == Head(edges[t])
       IN /\ monitor[e.base] = None
          /\ subclasses' = [subclasses EXCEPT ![e.base] =
                               IF e.do = "attach" THEN Append(@, self[t])
                                                  ELSE Detached(@, self[t])]
    /\ edges' = [edges EXCEPT ![t] = Tail(@)]
    /\ UNCHANGED <<dict, bases, mro, versionTag, monitor, table, pc, calls, self, lookupVars,
                   path, newBases, savedBases, savedMro, savedSubMros, history>>

EndEdges(t) ==
    /\ pc[t] = "b_edges" /\ edges[t] = <<>> /\ Goto(t, "b_announce")
    /\ path' = [path EXCEPT ![t] = Calling(self[t])]
    /\ UNCHANGED <<dict, hierarchy, versionTag, monitor, table, calls, self, lookupVars,
                   rebindVars, history>>

\* The rollback: nothing is invalidated, whatever was cached in the meantime.
PutBack(S, m) == NewMro(S, m) /\ putBack' = putBack \cup (stale' \cap {S})

RestoreSubclass(t) ==
    /\ pc[t] = "b_restore" /\ savedSubMros[t] # <<>>
    /\ PutBack(Head(savedSubMros[t]).type, Head(savedSubMros[t]).mro)
    /\ savedSubMros' = [savedSubMros EXCEPT ![t] = Tail(@)]
    /\ UNCHANGED <<dict, bases, subclasses, versionTag, monitor, table, pc, calls, self,
                   lookupVars, path, newBases, savedBases, savedMro, edges>>

RestoreBases(t) ==
    /\ pc[t] = "b_restore" /\ savedSubMros[t] = <<>> /\ Goto(t, "idle")
    /\ PutBack(self[t], savedMro[t])
    /\ bases' = [bases EXCEPT ![self[t]] = savedBases[t]]
    /\ self' = [self EXCEPT ![t] = None]
    /\ UNCHANGED <<dict, subclasses, versionTag, monitor, table, calls, lookupVars, path,
                   rebindVars>>

(* The specification. *)

\* What a thread does once it has begun a call.
Continue(t) ==
    \/ ReadEntry(t) \/ GetValue(t) \/ ReadMro(t) \/ ReadDict(t) \/ EndWalk(t) \/ Store(t)
    \/ ReturnAnswer(t)
    \/ Invalidate(t) \/ LeaveType(t) \/ EndInvalidate(t)
    \/ AssignBases(t) \/ MroInternal(t) \/ MroSubclass(t) \/ LeaveSubclasses(t)
    \/ MoveEdge(t) \/ EndEdges(t) \/ RestoreSubclass(t) \/ RestoreBases(t)

Call(t) == CallLookup(t) \/ SetAttr(t) \/ DelAttr(t) \/ CallSetBases(t) \/ RejectCycle(t)

Next ==
    \/ \E t \in Threads : Call(t) \/ Continue(t)
    \/ \E v \in Values : Collect(v)

Spec == Init /\ [][Next]_vars

\* Threads that have begun a change go on with it; monitors are held for finitely many
\* steps.  Nobody waits for a lookup.
FairSpec == Spec /\ \A t \in Setters \cup Rebinders : WF_vars(Continue(t))

(* Properties. *)

TypeOK ==
    /\ dict \in [Types -> [Names -> Values \cup {None}]]
    /\ bases \in [Types -> Seq(Types)] /\ mro \in [Types -> Seq(Types)]
    /\ subclasses \in [Types -> Seq(Types)]
    /\ versionTag \in [Types -> Tags] /\ \A T \in Types : versionTag[T].type = T
    /\ monitor \in [Types -> Threads \cup {None}]
    /\ table \in [Slots -> Entries]
    /\ pc \in [Threads -> {"idle", "announce"} \cup LookupLabels \cup RebindLabels]
    /\ calls \in [Threads -> Nat] /\ self \in [Threads -> Types \cup {None}]
    /\ name \in [Threads -> Names \cup {None}] /\ tag \in [Threads -> Tags \cup {None}]
    /\ entry \in [Threads -> Entries] /\ order \in [Threads -> Seq(Types)]
    /\ pos \in [Threads -> Nat \ {0}] /\ answer \in [Threads -> Values \cup {None}]
    /\ path \in [Threads -> Seq(Frames)]
    /\ newBases \in [Threads -> Seq(Types)] /\ savedBases \in [Threads -> Seq(Types)]
    /\ savedMro \in [Threads -> Seq(Types)]
    /\ savedSubMros \in [Threads -> Seq([type : Types, mro : Seq(Types)])]
    /\ edges \in [Threads -> Seq(Step)]
    /\ stale \subseteq Types /\ disturbed \in [Threads -> BOOLEAN] /\ putBack \subseteq Types

\* An entry of the cache under the current tag of a type is what a walk of its MRO would
\* find, unless a change of what lookups on it find has not been announced to it yet.
CacheCoherent ==
    \A s \in Slots, T \in Types \ stale :
        table[s].version = versionTag[T] => table[s].value = Answer(T, table[s].name)

\* A lookup gives the answer of the moment it returns, if what it can find has not changed
\* since it began and no change from before was still to be announced then.
QuietAnswer ==
    \A t \in Threads :
        pc[t] = "l_return" /\ ~disturbed[t] => answer[t] = Answer(self[t], name[t])

\* No thread is changing a type.
Settled == \A t \in Threads : pc[t] \in {"idle"} \cup LookupLabels

\* When no change is under way every type has a tag made after the last change of what
\* lookups on it find: traverse_hierarchy has come to all of them, whatever was attached
\* or detached meanwhile, and only a failed assignment of __bases__ may be unannounced.
AllAnnounced == Settled => stale \subseteq putBack

\* The members of a list have this order in another, where they all are.
Keeps(longer, list) ==
    \A i, j \in DOMAIN list : i < j =>
        \E k, l \in DOMAIN longer : k < l /\ longer[k] = list[i] /\ longer[l] = list[j]

\* When no change is under way a type's MRO has the type first and its ancestors, each
\* once, the bases and the MRO of each base in their order; and exactly its bases have it
\* among their subclasses, once.
HierarchyConsistent ==
    Settled => \A T \in Types :
        /\ mro[T][1] = T /\ IsInjective(mro[T])
        /\ ToSet(mro[T]) = {T} \cup UNION {ToSet(mro[b]) : b \in ToSet(bases[T])}
        /\ Keeps(mro[T], bases[T]) /\ \A b \in ToSet(bases[T]) : Keeps(mro[T], mro[b])
        /\ \A S \in Types : Cardinality({i \in DOMAIN subclasses[S] : subclasses[S][i] = T})
                               = IF S \in ToSet(bases[T]) THEN 1 ELSE 0

\* Whatever assignments of __bases__ have succeeded or failed, a type has the MRO its bases
\* give it: one that fails leaves the MROs of all types as they were.
MroRestored == Settled => \A T \in Types : computeMro(T, bases[T], mro) = {mro[T]}

\* A change of a type ends: the monitors that threads take going down the subclasses, and
\* to attach and detach, do not leave them waiting for each other.
ChangesEnd ==
    \A t \in Threads : pc[t] \in Announcing \cup RebindLabels ~> pc[t] = "idle"
==============================================================================
