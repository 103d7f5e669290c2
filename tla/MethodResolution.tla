--------------------------- MODULE MethodResolution ---------------------------
(***************************************************************************)
(* The method resolution order (MRO) of a Python type: PyType.computeMro,  *)
(* which merges the MROs of the bases and the list of the bases.           *)
(*                                                                         *)
(* Left out: old-style classes among the bases, the proxies slipped into   *)
(* the MRO of subclasses of Java classes, and metaclasses that redefine    *)
(* mro().                                                                  *)
(***************************************************************************)
EXTENDS SequencesExt

CONSTANT Types

\* A MROMergeState is what is left to be merged of its list.
pastnextContains(list, candidate) == list # <<>> /\ candidate \in ToSet(Tail(list))

noteMerged(list, candidate) ==
    IF list # <<>> /\ Head(list) = candidate THEN Tail(list) ELSE list

\* The lists whose candidate the scan does not pass over.
Mergeable(toMerge) ==
    {i \in DOMAIN toMerge :
        /\ toMerge[i] # <<>>
        /\ \A j \in DOMAIN toMerge : ~pastnextContains(toMerge[j], Head(toMerge[i]))}

\* One scan: the candidate of the first such list is merged; an impasse leads nowhere.
Scan(state) ==
    LET found == Mergeable(state.toMerge)
        first == {i \in found : \A j \in found : i <= j}
    IN {[toMerge |-> [j \in DOMAIN state.toMerge |->
                         noteMerged(state.toMerge[j], candidate)],
         mro |-> Append(state.mro, candidate)] :
           candidate \in {Head(state.toMerge[i]) : i \in first}}

\* The MRO of a type with the bases bs, given the MROs of these: one sequence of types,
\* or none, where the code raises TypeError.  Each scan takes a type from every list, so
\* that there are at most as many as there are types.
computeMro(type, bs, mro) ==
    LET lists == Append([i \in DOMAIN bs |-> mro[bs[i]]], bs)
        after[k \in 0 .. Cardinality(Types)] ==
            IF k = 0 THEN {[toMerge |-> lists, mro |-> <<type>>]}
            ELSE UNION {Scan(state) : state \in after[k - 1]}
        complete == {state \in UNION {after[k] : k \in 0 .. Cardinality(Types)} :
                        \A i \in DOMAIN lists : state.toMerge[i] = <<>>}
    IN IF IsInjective(bs) THEN {state.mro : state \in complete} \cap Seq(Types) ELSE {}
==============================================================================
