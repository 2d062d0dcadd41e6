-------------------------------- MODULE Path --------------------------------
(***************************************************************************)
(* Path names, unistd/dir.c: resolve_path() with its walk over '.', '..'   *)
(* and symbolic links, and the current directory that chdir() keeps as     *)
(* text, next to the variable PWD.                                         *)
(*                                                                         *)
(* A path is a sequence of names; slashes that follow each other or end a  *)
(* path mean nothing here, as in the code, and lengths are counted in      *)
(* names.  The servers that know the files are a tree that stays the same. *)
(***************************************************************************)
EXTENDS Naturals, Sequences, SequencesExt

CONSTANTS
    Trees,          \* from canonical paths to DIR, FILE, or what a link says
    DIR, FILE,
    Paths,          \* paths the callers ask for: [abs |-> ..., names |-> ...]
    PathMax,        \* names that fit in a buffer of PATH_MAX bytes
    SymloopMax,     \* SYMLOOP_MAX
    None            \* dir_common.cwd when it is NULL

VARIABLES
    tree,
    cwd,        \* dir_common.cwd
    pwd,        \* the variable PWD
    stale,      \* history: the last setenv("PWD") failed
    at          \* history: the directory the last chdir() that succeeded went to

vars == <<tree, cwd, pwd, stale, at>>

Root == <<>>

\* Errors, which are no paths: no name is like these
ENAMETOOLONG == <<"ENAMETOOLONG">>
ENOENT == <<"ENOENT">>
ELOOP == <<"ELOOP">>
Errors == {ENAMETOOLONG, ENOENT, ELOOP}

IsLink(e) == e \notin {DIR, FILE}

-----------------------------------------------------------------------------
(* _resolve_abspath() *)

\* Mutant: the name of a relative link stays in front of what it says
Base_KeepsLink(result, node, link) == IF link.abs THEN Root ELSE node

\* Where what a link says is looked for
Base(result, node, link) == IF link.abs THEN Root ELSE result

\* `rest` is to be followed from `result`; the flags are resolve_last_symlink and
\* allow_missing_leaf.  The value is a canonical path or an error.
RECURSIVE Walk(_, _, _, _, _, _)
Walk(files, rest, result, links, last, missing) ==
    IF rest = <<>> THEN result
    ELSE
    LET name == Head(rest)
        tail == Tail(rest)
        leaf == tail = <<>>
        node == Append(result, name)
    IN  CASE name = "." -> Walk(files, tail, result, links, last, missing)
          [] name = ".." -> Walk(files, tail, IF result = Root THEN Root ELSE Front(result),
                                 links, last, missing)
          [] name \notin {".", ".."} ->
               IF Len(node) > PathMax THEN ENAMETOOLONG
               ELSE IF leaf /\ ~ last THEN node
               ELSE IF node \notin DOMAIN files THEN
                        IF leaf /\ missing THEN node ELSE ENOENT
               ELSE IF ~ IsLink(files[node]) THEN
                        Walk(files, tail, node, links, last, missing)
               ELSE IF links = SymloopMax THEN ELOOP
               ELSE IF Len(files[node].names) + Len(tail) > PathMax THEN ENAMETOOLONG
               ELSE Walk(files, files[node].names \o tail,
                         Base(result, node, files[node]), links + 1, last, missing)

\* getcwd_len()
Getcwd == IF cwd = None THEN pwd ELSE cwd

Resolve(p, last, missing) ==
    LET whole == IF p.abs THEN p.names ELSE Getcwd \o p.names
    IN  IF Len(whole) > PathMax THEN ENAMETOOLONG
        ELSE Walk(tree, whole, Root, 0, last, missing)

Dir(r) == r = Root \/ (r \notin Errors /\ r \in DOMAIN tree /\ tree[r] = DIR)

-----------------------------------------------------------------------------
\* PWD, if there is one, names the directory the process is started in
Init ==
    /\ tree \in Trees
    /\ cwd = None
    /\ pwd \in {Root} \cup {d \in DOMAIN tree : tree[d] = DIR}
    /\ stale = FALSE
    /\ at = pwd

\* The variable is set before the text is
Chdir(p) ==
    LET r == Resolve(p, TRUE, FALSE)
    IN  /\ Dir(r)
        /\ cwd' = r
        /\ at' = r
        /\ \/ pwd' = r /\ stale' = FALSE
           \/ pwd' = pwd /\ stale' = TRUE
        /\ UNCHANGED tree

\* realloc() fails: the text is lost and will be read from PWD
ChdirFails(p) ==
    /\ Dir(Resolve(p, TRUE, FALSE))
    /\ cwd' = None
    /\ UNCHANGED <<tree, pwd, stale, at>>

Next == \E p \in Paths : Chdir(p) \/ ChdirFails(p)

Spec == Init /\ [][Next]_vars

-----------------------------------------------------------------------------
Gave(r) == r \notin {ENAMETOOLONG, ELOOP}

Then(p, q) == [abs |-> p.abs, names |-> p.names \o q.names]
Absolute(r) == [abs |-> TRUE, names |-> r]

\* A resolved path exists, holds no link, and resolves to itself; with the last
\* link kept or the last name missing that is true of the directory it is in.  To
\* follow p/q is to follow p and then q from there, so chdir(p) and then q names
\* what p/q did: '..' after a link leaves the directory the link leads to.  And a
\* chdir() that fails leaves the current directory, unless PWD was out of date.
PathsCanonical ==
    /\ cwd # None \/ ~ stale => Getcwd = at
    /\ \A p \in Paths :
          LET r == Resolve(p, TRUE, FALSE)
          IN  /\ r \notin Errors =>
                    /\ r = Root \/ (r \in DOMAIN tree /\ ~ IsLink(tree[r]))
                    /\ Resolve(Absolute(r), TRUE, FALSE) = r
              /\ \A last, missing \in BOOLEAN :
                    LET s == Resolve(p, last, missing)
                    IN  s \notin Errors /\ s # Root =>
                           Resolve(Absolute(Front(s)), TRUE, FALSE) = Front(s)
              /\ \A q \in {x \in Paths : ~ x.abs} :
                    LET whole == Resolve(Then(p, q), TRUE, FALSE)
                        parts == IF r \in Errors THEN r
                                 ELSE Resolve(Then(Absolute(r), q), TRUE, FALSE)
                    IN  Gave(whole) /\ Gave(parts) => whole = parts
=============================================================================
