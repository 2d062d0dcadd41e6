------------------------------- MODULE Idtree -------------------------------
(***************************************************************************)
(* The id tree, posix/idtree.c: a red-black tree of the ids in use, whose  *)
(* nodes cache the largest run of free ids in either subtree, so that a    *)
(* free id is found on one way down.  The caches are recomputed wherever   *)
(* the tree changes shape, and carried up to the root each time.           *)
(***************************************************************************)
EXTENDS Integers, FiniteSetsExt

CONSTANTS MaxId,      \* (unsigned)-1
          MaxHeld     \* bound: ids in use at a time

VARIABLES tree, held
vars == <<tree, held>>

Top(t, x) == IF t.n[x].lgap > t.n[x].rgap THEN t.n[x].lgap ELSE t.n[x].rgap
\* The ancestor of x on whose side s it lies, or the root when there is none.
RECURSIVE Turn(_, _, _)
Turn(t, x, s) ==
    LET p == t.n[x].up
    IN  IF p = -1 THEN x ELSE IF t.n[p][s] = x THEN p ELSE Turn(t, p, s)

LeftGap(t, x) ==
    LET p == Turn(t, x, "r")
    IN  IF t.n[x].l # -1 THEN Top(t, t.n[x].l)
        ELSE IF x <= p THEN x ELSE x - p - 1
RightGap(t, x) ==
    LET p == Turn(t, x, "l")
    IN  IF t.n[x].r # -1 THEN Top(t, t.n[x].r)
        ELSE IF x >= p THEN MaxId - x - 1 ELSE p - x - 1

RECURSIVE CarryUp(_, _)
CarryUp(t, x) ==
    LET p == t.n[x].up
    IN  IF p = -1 THEN t
        ELSE CarryUp(IF t.n[p].l = x THEN [t EXCEPT !.n[p].lgap = Top(t, x)]
                                     ELSE [t EXCEPT !.n[p].rgap = Top(t, x)], p)
\* Mutant: the gaps are not carried up to the root
idtree_augment_NodeOnly(t, x) ==
    [t EXCEPT !.n[x].lgap = LeftGap(t, x), !.n[x].rgap = RightGap(t, x)]

idtree_augment(t, x) ==
    CarryUp([t EXCEPT !.n[x].lgap = LeftGap(t, x), !.n[x].rgap = RightGap(t, x)], x)

INSTANCE RbTree WITH Augment <- idtree_augment

Keys(t) == DOMAIN t.n

\* idtree_gapcmp(), with the id sought (0) never above a node's.
idtree_gapcmp(t) ==
    [x \in Keys(t) |->
        LET s == IF t.n[x].lgap > 0 THEN "l" ELSE IF t.n[x].rgap > 0 THEN "r" ELSE "none"
        IN  IF s = "none" THEN 0
            ELSE IF t.n[x][s] = NIL THEN 0 ELSE IF s = "l" THEN 1 ELSE -1]

FreeId(t) ==
    IF t.root = NIL THEN 0
    ELSE LET f == Find(t, t.root, idtree_gapcmp(t))
         IN  IF t.n[f].lgap > 0 THEN f - 1 ELSE f + 1
Fresh == [up |-> NIL, l |-> NIL, r |-> NIL, red |-> TRUE, lgap |-> 0, rgap |-> 0]

(***************************************************************************)
(* held[i] counts the callers that were given i and have not removed it.   *)
(***************************************************************************)
Ids == 0 .. MaxId
Init ==
    /\ tree = [root |-> NIL, n |-> <<>>]
    /\ held = [i \in Ids |-> 0]

idtree_alloc ==
    /\ FoldSet(LAMBDA i, acc : held[i] + acc, 0, Ids) < MaxHeld
    /\ LET id == FreeId(tree)
       IN  /\ tree' = lib_rbInsert(tree, id, Fresh)
           /\ held' = [held EXCEPT ![id] = @ + 1]
idtree_remove ==
    \E id \in Keys(tree) :
        /\ tree' = lib_rbRemove(tree, id)
        /\ held' = [held EXCEPT ![id] = @ - 1]

Next == idtree_alloc \/ idtree_remove
Spec == Init /\ [][Next]_vars

(***************************************************************************)
(* Properties.                                                             *)
(***************************************************************************)
RECURSIVE Below(_, _)
Below(t, x) == IF x = NIL THEN {} ELSE {x} \cup Below(t, t.n[x].l) \cup Below(t, t.n[x].r)
RECURSIVE Blacks(_, _)     \* black nodes on every way down from x, or -1
Blacks(t, x) ==
    IF x = NIL THEN 1
    ELSE LET a == Blacks(t, t.n[x].l)
         IN  IF a = -1 \/ a # Blacks(t, t.n[x].r) THEN -1
             ELSE IF t.n[x].red THEN a ELSE a + 1

Linked ==
    /\ tree.root # NIL => Up(tree, tree.root) = NIL
    /\ Below(tree, tree.root) = Keys(tree)
    /\ \A x \in Keys(tree) : \A s \in Side :
          LET k == tree.n[x][s] IN k # NIL => Up(tree, k) = x
Ordered ==
    \A x \in Keys(tree) :
        LET after == {k \in Keys(tree) : k > x}
        IN  Neighbour(tree, x, "r") = IF after = {} THEN NIL ELSE Min(after)
Balanced ==
    /\ ~ Red(tree, tree.root) /\ Blacks(tree, tree.root) # -1
    /\ \A x \in Keys(tree) : Red(tree, x) => ~ Red(tree, Up(tree, x))

\* The free ids just below the id x in use.
RunBelow(x) == LET before == {k \in Keys(tree) : k < x}
               IN  IF before = {} THEN x ELSE x - Max(before) - 1
RunAbove(x) == LET after == {k \in Keys(tree) : k > x}
               IN  IF after = {} THEN MaxId - x - 1 ELSE Min(after) - x - 1
GapsExact ==
    \A x \in Keys(tree) :
        /\ tree.n[x].lgap = Max({RunBelow(k) : k \in {x} \cup Below(tree, tree.n[x].l)})
        /\ tree.n[x].rgap = Max({RunAbove(k) : k \in {x} \cup Below(tree, tree.n[x].r)})

\* After every insertion and removal, whatever rotations they took, the tree is
\* a red-black search tree whose cached gaps are the true ones, and every id in
\* it was handed out exactly once: what idtree_alloc() needs in order to find a
\* free id where the gaps say there is one.
IdsExact ==
    /\ Linked /\ Ordered /\ Balanced /\ GapsExact
    /\ \A i \in Ids : held[i] = IF i \in Keys(tree) THEN 1 ELSE 0
=============================================================================
