------------------------------- MODULE RbTree -------------------------------
(***************************************************************************)
(* The red-black tree, sys/rb.c, as operators on a tree value.  A tree is  *)
(* [root, n]; a node x is its key, and n[x] its links "up", "l" and "r",   *)
(* its colour and what the user's augment callback keeps in it.  The code  *)
(* writes every case twice, for left and right; here s is the side.        *)
(***************************************************************************)
EXTENDS Integers

CONSTANT Augment(_, _)     \* the user's callback: the tree after augment(node)

NIL   == -1
Side  == {"l", "r"}
Other(s)      == IF s = "l" THEN "r" ELSE "l"
Red(t, x)     == x # NIL /\ t.n[x].red
Up(t, x)      == t.n[x].up
SideOf(t, x)  == IF t.n[Up(t, x)].l = x THEN "l" ELSE "r"
rb_augment(t, x)     == IF x = NIL THEN t ELSE Augment(t, x)
SetUp(t, x, p)       == IF x = NIL THEN t ELSE [t EXCEPT !.n[x].up = p]
Paint(t, x, red)     == IF x = NIL THEN t ELSE [t EXCEPT !.n[x].red = red]
\* v takes u's place below u's parent p.
Hang(t, p, u, v) ==
    IF p = NIL THEN [t EXCEPT !.root = v] ELSE [t EXCEPT !.n[p][SideOf(t, u)] = v]

\* rb_rotateLeft() for s = "l", rb_rotateRight() for s = "r".
Rotate(t, x, s) ==
    LET o  == Other(s)
        y  == t.n[x][o]
        t1 == SetUp([t EXCEPT !.n[x][o] = t.n[y][s]], t.n[y][s], x)
        t2 == Hang([t1 EXCEPT !.n[y].up = Up(t, x)], Up(t, x), x, y)
        t3 == [t2 EXCEPT !.n[y][s] = x, !.n[x].up = y]
    IN  rb_augment(rb_augment(t3, t3.n[y].l), t3.n[y].r)

RECURSIVE InsertFix(_, _)
InsertFix(t, z) ==
    IF ~ Red(t, Up(t, z)) THEN t
    ELSE LET p == Up(t, z)
             g == Up(t, p)
             s == SideOf(t, p)
             u == t.n[g][Other(s)]
         IN  IF Red(t, u)
             THEN InsertFix(Paint(Paint(Paint(t, p, FALSE), u, FALSE), g, TRUE), g)
             ELSE IF z = t.n[p][Other(s)] THEN InsertFix(Rotate(t, p, s), p)
             ELSE InsertFix(Rotate(Paint(Paint(t, p, FALSE), g, TRUE), g, Other(s)), z)
lib_rbInsertBalance(t, z) == LET f == InsertFix(t, z) IN Paint(f, f.root, FALSE)

\* x, whose parent is p, lacks a black node; x may be NIL.
RECURSIVE RemoveFix(_, _, _)
RemoveFix(t, p, x) ==
    IF x = t.root \/ Red(t, x) THEN Paint(t, x, FALSE)
    ELSE LET s  == IF t.n[p].l = x THEN "l" ELSE "r"
             o  == Other(s)
             w0 == t.n[p][o]
             t1 == IF Red(t, w0) THEN Rotate(Paint(Paint(t, w0, FALSE), p, TRUE), p, s) ELSE t
             w  == t1.n[p][o]
             near == t1.n[w][s]
             far  == t1.n[w][o]
         IN  IF w = NIL THEN RemoveFix(t1, Up(t1, p), p)
             ELSE IF ~ Red(t1, near) /\ ~ Red(t1, far)
             THEN RemoveFix(Paint(t1, w, TRUE), Up(t1, p), p)
             ELSE IF ~ Red(t1, far)
             THEN RemoveFix(Rotate(Paint(Paint(t1, near, FALSE), w, TRUE), w, o), p, x)
             ELSE LET t2 == Paint(Paint(Paint(t1, w, Red(t1, p)), p, FALSE), far, FALSE)
                      t3 == Rotate(t2, p, s)
                  IN  Paint(t3, t3.root, FALSE)
lib_rbRemoveBalance(t, p, x) == IF t.root = NIL THEN t ELSE RemoveFix(t, p, x)

rb_transplant(t, u, v) ==
    LET p == Up(t, u)
        h == Hang(t, p, u, v)
    IN  rb_augment(SetUp(IF p = NIL THEN h ELSE rb_augment(h, p), v, p), v)

RECURSIVE Extreme(_, _, _)     \* lib_rbMinimum() for "l", lib_rbMaximum() for "r"
Extreme(t, x, s) == IF x = NIL \/ t.n[x][s] = NIL THEN x ELSE Extreme(t, t.n[x][s], s)

RECURSIVE Climb(_, _, _)
Climb(t, x, s) == IF Up(t, x) = NIL THEN NIL
                  ELSE IF x = t.n[Up(t, x)][s] THEN Climb(t, Up(t, x), s) ELSE Up(t, x)
\* lib_rbNext() for "r", lib_rbPrev() for "l".
Neighbour(t, x, s) == IF t.n[x][s] # NIL THEN Extreme(t, t.n[x][s], Other(s)) ELSE Climb(t, x, s)

\* lib_rbFindEx(): cmp[x] is the sign of compare(x, what is sought).
RECURSIVE Find(_, _, _)
Find(t, x, cmp) == IF x = NIL \/ cmp[x] = 0 THEN x
                   ELSE Find(t, IF cmp[x] > 0 THEN t.n[x].l ELSE t.n[x].r, cmp)

RECURSIVE Place(_, _, _)       \* the node a new z becomes a child of, or z's equal
Place(t, x, z) == IF x = z THEN x
                  ELSE LET k == t.n[x][IF x > z THEN "l" ELSE "r"]
                       IN  IF k = NIL THEN x ELSE Place(t, k, z)

lib_rbInsert(t, z, fresh) ==
    LET p  == IF t.root = NIL THEN NIL ELSE Place(t, t.root, z)
        t1 == [t EXCEPT !.n = [x \in DOMAIN @ \cup {z} |-> IF x = z THEN [fresh EXCEPT !.up = p] ELSE @[x]]]
        t2 == IF p = NIL THEN [t1 EXCEPT !.root = z]
              ELSE [t1 EXCEPT !.n[p][IF p > z THEN "l" ELSE "r"] = z]
    IN  IF p = z THEN t ELSE lib_rbInsertBalance(rb_augment(t2, z), z)

lib_rbRemove(t, z) ==
    LET l  == t.n[z].l
        r  == t.n[z].r
        y  == IF l = NIL \/ r = NIL THEN z ELSE Extreme(t, r, "l")
        x  == IF l = NIL THEN r ELSE IF r = NIL THEN l ELSE t.n[y].r
        p  == IF y = z THEN Up(t, z) ELSE IF Up(t, y) = z THEN y ELSE Up(t, y)
        \* two children: the successor y leaves its place and takes z's
        t1 == IF Up(t, y) = z THEN t
              ELSE LET a == [rb_transplant(t, y, x) EXCEPT !.n[y].r = t.n[z].r]
                   IN  SetUp(a, a.n[y].r, y)
        t2 == [rb_transplant(t1, z, y) EXCEPT !.n[y].l = l, !.n[l].up = y, !.n[y].red = t.n[z].red]
        t3 == rb_augment(t2, Extreme(t2, l, "r"))
        t4 == rb_augment(t3, Extreme(t3, t3.n[y].r, "l"))
        t5 == IF y = z THEN rb_transplant(t, z, x) ELSE t4
        t6 == IF Red(t, y) THEN t5 ELSE lib_rbRemoveBalance(t5, p, x)
    IN  [t6 EXCEPT !.n = [k \in DOMAIN @ \ {z} |-> @[k]]]
=============================================================================
