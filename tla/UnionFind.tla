------------------------------ MODULE UnionFind ------------------------------
(***************************************************************************)
(* The disjoint sets of src/evaluation/golden/builder.py (groups of a split *)
(* component) and of src/artifacts/visual/pipeline.py (near duplicates):    *)
(* two roots are joined under the smaller one.  Path compression changes    *)
(* no root and is left out.  The elements are numbers.                     *)
(***************************************************************************)
EXTENDS Integers, FiniteSets, FiniteSetsExt, Functions

\* find: follow the parents to an element that is its own.
Roots(parent) ==
    LET root[x \in DOMAIN parent] == IF parent[x] = x THEN x ELSE root[parent[x]]
    IN  root

\* union: the larger root gets the smaller one as its parent.
Join(edge, parent) ==
    LET x == Roots(parent)[edge[1]]
        y == Roots(parent)[edge[2]]
    IN  IF x < y THEN [parent EXCEPT ![y] = x] ELSE [parent EXCEPT ![x] = y]

Components(elements, edges) ==
    LET known == {e \in edges : e[1] \in elements /\ e[2] \in elements}
        root == Roots(FoldSet(Join, [e \in elements |-> e], known))
    IN  {{e \in elements : root[e] = r} : r \in Range(root)}
=============================================================================
