-------------------------- MODULE InputValidation --------------------------
(***************************************************************************)
(* validate_input_structure (_validation.py): the depth and the number of  *)
(* the values in the "input" and "config" of a request, counted in one     *)
(* walk that stops at the first limit it exceeds, and what it has to agree *)
(* with.  A JSON value is a scalar or a container, of whose keys and kind  *)
(* nothing depends.                                                        *)
(***************************************************************************)
EXTENDS Integers, Sequences, SequencesExt

CONSTANTS
    MaxDepth,       \* max_input_depth
    MaxNodes,       \* max_input_nodes
    MaxHeight,      \* bounds of the values enumerated
    MaxItems

ASSUME LimitsAssumption ==
    /\ MaxDepth \in Nat \ {0} /\ MaxNodes \in Nat
    /\ MaxHeight \in Nat \ {0} /\ MaxItems \in Nat

Scalar == [container |-> FALSE, items |-> <<>>]
Container(items) == [container |-> TRUE, items |-> items]

\* The values of a height of at most h, with at most MaxItems items in a container.
ValuesUpTo[h \in 1 .. MaxHeight] ==
    {Scalar} \union IF h = 1 THEN {Container(<<>>)}
                    ELSE {Container(s) : s \in BoundedSeq(ValuesUpTo[h - 1], MaxItems)}

Values == ValuesUpTo[MaxHeight]

\* Faulty: a container at the last level is refused.
TooDeepOffByOne(depth) == depth >= MaxDepth

TooDeep(depth) == depth > MaxDepth

TooMany(nodes) == nodes > MaxNodes

\* _count_depth_and_nodes, of a value met at this depth after so many others.
Walk[value \in Values, depth \in Nat, nodes \in Nat] ==
    IF TooDeep(depth) THEN [nodes |-> nodes, error |-> "depth"]
    ELSE IF TooMany(nodes) THEN [nodes |-> nodes, error |-> "nodes"]
    ELSE LET Visit(walk, item) ==
               IF walk.error # "none" THEN walk
               ELSE IF TooMany(walk.nodes + 1)
               THEN [nodes |-> walk.nodes + 1, error |-> "nodes"]
               ELSE Walk[item, depth + 1, walk.nodes + 1]
         IN  FoldLeft(Visit, [nodes |-> nodes, error |-> "none"], value.items)

\* validate_input_structure
ErrorOf(value) == IF value.container THEN Walk[value, 1, 0].error ELSE "none"

-----------------------------------------------------------------------------
\* The reference.

\* The levels of a value; a scalar is a level of its own.
Height[value \in Values] ==
    1 + FoldLeft(LAMBDA h, item : IF Height[item] > h THEN Height[item] ELSE h, 0, value.items)

\* The values inside a value.
Size[value \in Values] ==
    FoldLeft(LAMBDA n, item : n + 1 + Size[item], 0, value.items)

Within(value) == ~value.container \/ (Height[value] <= MaxDepth /\ Size[value] <= MaxNodes)

=============================================================================
