---------------------------- MODULE PthreadKeys -----------------------------
(***************************************************************************)
(* Thread-specific data of pthread/pthread.c: every thread's list of       *)
(* nodes, read by its owner without a lock; tombstones left by             *)
(* pthread_key_delete(); destructors run by the thread itself or, for it,  *)
(* by a canceller that lets go of the lock around each of them.            *)
(*                                                                         *)
(* A section under pthread_key_lock is one action.  The life of a thread   *)
(* is the outline of module PthreadThreads.  A key is an address that      *)
(* malloc() may hand out again after it was freed: `gen` tells the keys at *)
(* one address apart.  Every key has a destructor.                         *)
(*                                                                         *)
(* Nodes are numbered as they are linked, always at the head: a list is a  *)
(* set of nodes, walked from the newest to the oldest.                     *)
(***************************************************************************)
EXTENDS Naturals, FiniteSets

CONSTANTS
    Threads,
    Mortal,         \* threads that exit or are cancelled
    Keys,           \* addresses of keys
    NoKey,          \* NULL: the key field of a tombstone
    Iterations,     \* PTHREAD_DESTRUCTOR_ITERATIONS
    MaxGen,         \* bound: keys created at one address
    MaxNodes,       \* bound: nodes allocated in all
    MaxSets,        \* bound: non-NULL values set in all
    Cancellation    \* whether pthread_cancel() is called

ASSUME KeysAssumption ==
    /\ Mortal \subseteq Threads /\ NoKey \notin Keys
    /\ Iterations \in Nat \ {0}
    /\ MaxGen \in Nat /\ MaxNodes \in Nat /\ MaxSets \in Nat
    /\ Cancellation \in BOOLEAN

Nodes == 1 .. MaxNodes
None == 0       \* no node; a NULL value
Some == 1       \* a value that is not NULL

VARIABLES
    alive,      \* key addresses malloc() has handed out
    gen,        \* the number of keys created at each address so far
    valid,      \* keys callers may use: created, not deleted
    node,       \* the fields of each node
    used,       \* nodes allocated so far
    freed,      \* nodes freed
    list,       \* the nodes of each thread's ctx->key_data_list
    exiting,    \* threads whose destructors are claimed
    kernel,     \* running, dying (SIGCANCEL pending), ghost or reclaimed
    listed,     \* threads on pthread_list
    detached,
    pc,
    key,        \* the key each thread's call is about
    value,      \* the value it sets
    obj,        \* the thread whose destructors it runs
    cursor,     \* key_data: the node it runs the destructor of
    pass,       \* i
    again,      \* all_null == 0
    sets,       \* values set so far
    lost        \* history: values dropped although a pass was left to destroy them

keyVars == <<alive, gen, valid>>
nodeVars == <<node, used, freed, list, sets>>
lifeVars == <<kernel, listed, detached>>
walkVars == <<exiting, obj, cursor, pass, again, lost>>
vars == <<alive, gen, valid, node, used, freed, list, exiting, kernel, listed, detached, pc,
          key, value, obj, cursor, pass, again, sets, lost>>

Places == {"out", "insert", "free", "claim", "scan", "destructor", "kill", "finish"}

TypeOK ==
    /\ alive \subseteq Keys /\ valid \subseteq Keys /\ gen \in [Keys -> 0 .. MaxGen]
    /\ node \in [Nodes -> [key : Keys \cup {NoKey}, gen : 0 .. MaxGen, value : {None, Some}]]
    /\ used \in 0 .. MaxNodes /\ freed \subseteq Nodes
    /\ list \in [Threads -> SUBSET Nodes]
    /\ exiting \subseteq Threads /\ listed \subseteq Threads /\ detached \subseteq Threads
    /\ kernel \in [Threads -> {"running", "dying", "ghost", "reclaimed"}]
    /\ pc \in [Threads -> Places]
    /\ key \in [Threads -> Keys \cup {NoKey}] /\ value \in [Threads -> {None, Some}]
    /\ obj \in [Threads -> Threads] /\ cursor \in [Threads -> Nodes \cup {None}]
    /\ pass \in [Threads -> 0 .. Iterations - 1] /\ again \in [Threads -> BOOLEAN]
    /\ sets \in 0 .. MaxSets /\ lost \in BOOLEAN

-----------------------------------------------------------------------------
Init ==
    /\ alive = {} /\ valid = {} /\ gen = [k \in Keys |-> 0]
    /\ node = [n \in Nodes |-> [key |-> NoKey, gen |-> 0, value |-> None]]
    /\ used = 0 /\ freed = {}
    /\ list = [t \in Threads |-> {}]
    /\ exiting = {} /\ listed = Threads
    /\ detached \in SUBSET Mortal
    /\ kernel = [t \in Threads |-> "running"]
    /\ pc = [t \in Threads |-> "out"]
    /\ key = [t \in Threads |-> NoKey]
    /\ value = [t \in Threads |-> None]
    /\ obj = [t \in Threads |-> t]
    /\ cursor = [t \in Threads |-> None]
    /\ pass = [t \in Threads |-> 0] /\ again = [t \in Threads |-> FALSE]
    /\ sets = 0 /\ lost = FALSE

\* A cancelled thread runs on until its SIGCANCEL lands
Runs(t) == kernel[t] \in {"running", "dying"}

At(t, place) == Runs(t) /\ pc[t] = place

GoTo(t, place) == pc' = [pc EXCEPT ![t] = place]

\* The call returns: its arguments are gone
Return(t) ==
    /\ GoTo(t, "out")
    /\ key' = [key EXCEPT ![t] = NoKey]
    /\ value' = [value EXCEPT ![t] = None]

\* pthread_key_lock: a cleanup holds it between two destructors, and every other
\* section under it is one action
LockFree == \A t \in Threads : pc[t] # "scan"

Named(n) == node[n].key # NoKey

First(nodes) == CHOOSE n \in nodes : \A m \in nodes : m <= n

\* pthread_keyFind(): the first node of a thread's list that matches a key
keyFind(t, k) ==
    LET matching == {n \in list[t] : node[n].key = k}
    IN  IF matching = {} THEN None ELSE First(matching)

\* Mutant: also while a cleanup walks the list
Kept_Named(t) == {n \in list[t] : Named(n)}

\* _pthread_keyUnlinkDead(): the owner reclaims its tombstones
Kept(t) == IF t \in exiting THEN list[t] ELSE {n \in list[t] : Named(n)}

-----------------------------------------------------------------------------
(* pthread_setspecific() *)

\* The thread has a node for the key: it stores the value, no lock taken
Store(t, k, v) ==
    /\ keyFind(t, k) # None
    /\ node' = [node EXCEPT ![keyFind(t, k)].value = v]

\* Mutant: the list is not searched again
Links_NoSecondLook(t, k, fresh) == fresh

Links(t, k, fresh) == keyFind(t, k) = None /\ fresh

\* Under the lock: store, or link a fresh node unless malloc() failed, and
\* unlink the tombstones
Link(t, k, v, fresh) ==
    LET n == used + 1
    IN  /\ LockFree
        /\ Links(t, k, fresh) => used < MaxNodes
        /\ IF Links(t, k, fresh)
             THEN /\ node' = [node EXCEPT ![n] = [key |-> k, gen |-> gen[k], value |-> v]]
                  /\ used' = n
                  /\ list' = [list EXCEPT ![t] = Kept(t) \cup {n}]
             ELSE /\ Store(t, k, v) \/ (keyFind(t, k) = None /\ UNCHANGED node)
                  /\ list' = [list EXCEPT ![t] = Kept(t)]
                  /\ UNCHANGED used
        /\ freed' = freed \cup (list[t] \ Kept(t))

Value == {None} \cup (IF sets < MaxSets THEN {Some} ELSE {})

SetKnown(t) ==
    /\ At(t, "out")
    /\ \E k \in valid, v \in Value : Store(t, k, v) /\ sets' = sets + v
    /\ UNCHANGED <<keyVars, used, freed, list, lifeVars, walkVars, pc, key, value>>

\* No node yet: one is allocated with the lock released
SetFresh(t) ==
    /\ At(t, "out")
    /\ \E k \in valid, v \in Value \ {None} :
          /\ keyFind(t, k) = None
          /\ key' = [key EXCEPT ![t] = k]
          /\ value' = [value EXCEPT ![t] = v]
          /\ sets' = sets + 1
    /\ GoTo(t, "insert")
    /\ UNCHANGED <<keyVars, node, used, freed, list, lifeVars, walkVars>>

\* pthread_setspecific() called by malloc(), or by a destructor: the thread's
\* own list changes inside its other call
SetNested(t) ==
    /\ At(t, "insert") \/ At(t, "destructor")
    /\ \E k \in valid, v \in Value \ {None} :
          \/ Store(t, k, v) /\ UNCHANGED <<used, freed, list>>
          \/ keyFind(t, k) = None /\ Link(t, k, v, TRUE)
    /\ sets' = sets + 1
    /\ UNCHANGED <<keyVars, lifeVars, walkVars, pc, key, value>>

\* The search is made again: the allocation may have added the entry.  A key
\* whose first entry cannot be made is freed by pthread_key_create().
Insert(t) ==
    LET k == key[t]
    IN  /\ At(t, "insert")
        /\ \E fresh \in BOOLEAN :
              /\ Link(t, k, value[t], fresh)
              /\ IF k \in valid \/ fresh \/ keyFind(t, k) # None
                   THEN valid' = valid \cup {k} /\ UNCHANGED alive
                   ELSE alive' = alive \ {k} /\ UNCHANGED valid
        /\ Return(t)
        /\ UNCHANGED <<gen, lifeVars, walkVars, sets>>

-----------------------------------------------------------------------------
KeyCreate(t) ==
    /\ At(t, "out")
    /\ \E k \in Keys \ alive :
          /\ gen[k] < MaxGen
          /\ alive' = alive \cup {k}
          /\ gen' = [gen EXCEPT ![k] = @ + 1]
          /\ key' = [key EXCEPT ![t] = k]
    /\ GoTo(t, "insert")
    /\ UNCHANGED <<valid, nodeVars, lifeVars, walkVars, value>>

\* Mutant: only the caller's own list is looked at
KeyDelete_OwnList(t) ==
    /\ At(t, "out") /\ LockFree
    /\ \E k \in valid :
          /\ \A u \in Threads : At(u, "insert") => key[u] # k
          /\ valid' = valid \ {k}
          /\ key' = [key EXCEPT ![t] = k]
          /\ node' = [n \in Nodes |-> IF n = keyFind(t, k)
                        THEN [node[n] EXCEPT !.key = NoKey] ELSE node[n]]
    /\ GoTo(t, "free")
    /\ UNCHANGED <<alive, gen, used, freed, list, sets, lifeVars, walkVars, value>>

\* Every listed thread that had set the key is left a tombstone; no caller is
\* using the key
KeyDelete(t) ==
    /\ At(t, "out") /\ LockFree
    /\ \E k \in valid :
          /\ \A u \in Threads : At(u, "insert") => key[u] # k
          /\ valid' = valid \ {k}
          /\ key' = [key EXCEPT ![t] = k]
          /\ node' = [n \in Nodes |->
                        IF \E u \in listed : n = keyFind(u, k)
                        THEN [node[n] EXCEPT !.key = NoKey] ELSE node[n]]
    /\ GoTo(t, "free")
    /\ UNCHANGED <<alive, gen, used, freed, list, sets, lifeVars, walkVars, value>>

KeyFree(t) ==
    /\ At(t, "free")
    /\ alive' = alive \ {key[t]}
    /\ Return(t)
    /\ UNCHANGED <<gen, valid, nodeVars, lifeVars, walkVars>>

-----------------------------------------------------------------------------
(* pthread_key_cleanup() on behalf of thread x: by itself or a canceller   *)

After(t) == IF obj[t] = t THEN "finish" ELSE "kill"

CleanupCall(t, x) ==
    /\ obj' = [obj EXCEPT ![t] = x]
    /\ GoTo(t, "claim")
    /\ UNCHANGED <<keyVars, nodeVars, lifeVars, exiting, cursor, pass, again, lost, key, value>>

Exit(t) == t \in Mortal /\ At(t, "out") /\ CleanupCall(t, t)

Cancel(t) ==
    /\ Cancellation /\ At(t, "out")
    /\ \E x \in (Mortal \cap listed) \ {t} : CleanupCall(t, x)

\* Mutant: a claim made before is not noticed
Claim_Again(t) ==
    /\ At(t, "claim") /\ LockFree
    /\ exiting' = exiting \cup {obj[t]}
    /\ GoTo(t, "scan")
    /\ UNCHANGED <<keyVars, nodeVars, lifeVars, obj, cursor, pass, again, lost, key, value>>

\* The first caller claims the cleanup
Claim(t) ==
    /\ At(t, "claim") /\ LockFree
    /\ exiting' = exiting \cup {obj[t]}
    /\ GoTo(t, IF obj[t] \in exiting THEN After(t) ELSE "scan")
    /\ UNCHANGED <<keyVars, nodeVars, lifeVars, obj, cursor, pass, again, lost, key, value>>

\* The nodes after the cursor that have a value to destroy
Ahead(t) == {n \in list[obj[t]] : (cursor[t] = None \/ n < cursor[t])
                                   /\ Named(n) /\ node[n].value # None}

\* Mutant: a destructor that ran does not call for another pass
ScanFinds_OnePass(t) ==
    /\ At(t, "scan")
    /\ \E n \in Ahead(t) :
          /\ \A m \in Ahead(t) : m <= n
          /\ cursor' = [cursor EXCEPT ![t] = n]
          /\ node' = [node EXCEPT ![n].value = None]
    /\ GoTo(t, "destructor")
    /\ UNCHANGED <<keyVars, used, freed, list, sets, lifeVars, exiting, obj, pass, again, lost,
                   key, value>>

\* The value is cleared under the lock, then its destructor runs without it
ScanFinds(t) ==
    /\ At(t, "scan")
    /\ \E n \in Ahead(t) :
          /\ \A m \in Ahead(t) : m <= n
          /\ cursor' = [cursor EXCEPT ![t] = n]
          /\ node' = [node EXCEPT ![n].value = None]
    /\ again' = [again EXCEPT ![t] = TRUE]
    /\ GoTo(t, "destructor")
    /\ UNCHANGED <<keyVars, used, freed, list, sets, lifeVars, exiting, obj, pass, lost, key, value>>

DestructorReturns(t) ==
    /\ At(t, "destructor") /\ LockFree
    /\ GoTo(t, "scan")
    /\ UNCHANGED <<keyVars, nodeVars, lifeVars, walkVars, key, value>>

LastPass(t) == ~again[t] \/ pass[t] + 1 >= Iterations

\* The end of a pass: another one if a destructor ran, up to the limit.  In the
\* same section as the last pass the thread itself takes its list to free it.
ScanEnds(t) ==
    LET own == LastPass(t) /\ obj[t] = t
    IN  /\ At(t, "scan") /\ Ahead(t) = {}
        /\ pass' = [pass EXCEPT ![t] = IF LastPass(t) THEN 0 ELSE @ + 1]
        /\ cursor' = [cursor EXCEPT ![t] = None]
        /\ again' = [again EXCEPT ![t] = FALSE]
        /\ GoTo(t, IF LastPass(t) THEN After(t) ELSE "scan")
        /\ list' = IF own THEN [list EXCEPT ![t] = {}] ELSE list
        /\ freed' = IF own THEN freed \cup list[t] ELSE freed
        /\ lost' = (lost \/ (own /\ pass[t] + 1 < Iterations
                             /\ \E n \in list[t] : Named(n) /\ node[n].value # None))
        /\ UNCHANGED <<keyVars, node, used, sets, lifeVars, exiting, obj, key, value>>

-----------------------------------------------------------------------------
(* The outline of a thread's life, see module PthreadThreads *)

\* A detached thread retires: it is off the list
Finish(t) ==
    /\ At(t, "finish")
    /\ kernel' = [kernel EXCEPT ![t] = "ghost"]
    /\ listed' = listed \ (detached \cap {t})
    /\ UNCHANGED <<keyVars, nodeVars, walkVars, detached, pc, key, value>>

Kill(t) ==
    LET x == obj[t]
    IN  /\ At(t, "kill")
        /\ kernel' = IF x \in listed /\ kernel[x] = "running"
                       THEN [kernel EXCEPT ![x] = "dying"] ELSE kernel
        /\ listed' = listed \ (detached \cap {x})
        /\ GoTo(t, "out")
        /\ obj' = [obj EXCEPT ![t] = t]
        /\ UNCHANGED <<keyVars, nodeVars, exiting, cursor, pass, again, lost, detached, key, value>>

\* SIGCANCEL lands, outside the sections under pthread_key_lock
Die(t) ==
    /\ kernel[t] = "dying" /\ pc[t] # "scan"
    /\ kernel' = [kernel EXCEPT ![t] = "ghost"]
    /\ UNCHANGED <<keyVars, nodeVars, walkVars, listed, detached, pc, key, value>>

Join(t) ==
    /\ At(t, "out")
    /\ \E x \in (Mortal \cap listed) \ (detached \cup {t}) :
          kernel[x] = "ghost" /\ listed' = listed \ {x}
    /\ UNCHANGED <<keyVars, nodeVars, walkVars, kernel, detached, pc, key, value>>

\* The record goes, and the nodes with it, when nobody refers to it
Reclaim(x) ==
    /\ kernel[x] = "ghost" /\ x \notin listed
    /\ \A t \in Threads \ {x} : pc[t] \in {"claim", "scan", "destructor", "kill"} => obj[t] # x
    /\ kernel' = [kernel EXCEPT ![x] = "reclaimed"]
    /\ freed' = freed \cup list[x]
    /\ list' = [list EXCEPT ![x] = {}]
    /\ UNCHANGED <<keyVars, node, used, sets, walkVars, listed, detached, pc, key, value>>

-----------------------------------------------------------------------------
Setting(t) == SetKnown(t) \/ SetFresh(t) \/ SetNested(t) \/ Insert(t)
OnKeys(t) == KeyCreate(t) \/ KeyDelete(t) \/ KeyFree(t)
Cleaning(t) == Exit(t) \/ Cancel(t) \/ Claim(t) \/ ScanFinds(t) \/ DestructorReturns(t) \/ ScanEnds(t)
Living(t) == Finish(t) \/ Kill(t) \/ Die(t) \/ Join(t) \/ Reclaim(t)

Next == \E t \in Threads : Setting(t) \/ OnKeys(t) \/ Cleaning(t) \/ Living(t)

Spec == Init /\ [][Next]_vars

-----------------------------------------------------------------------------
(* Properties *)

Walks(t, x) == Runs(t) /\ pc[t] \in {"scan", "destructor"} /\ obj[t] = x

\* A thread has one node for a key, although the allocator may set the key
\* while the node is being allocated: a tombstone is left in all of them.
OneNodePerKey ==
    \A t \in Threads : \A m, n \in list[t] :
        node[m].key = node[n].key /\ Named(m) => m = n

\* What pthread_getspecific() finds without a lock is the caller's own value of
\* that very key: no node of a listed thread names a freed key, nor a key of an
\* earlier generation at the same address, and none has two nodes for one key.
NoStaleValue ==
    /\ OneNodePerKey
    /\ \A t \in listed : \A n \in list[t] :
          Named(n) => node[n].key \in alive /\ node[n].gen = gen[node[n].key]

\* No node is freed while its owner's list, or a cleanup that has let go of the
\* lock to run a destructor, still refers to it; none is in two places.  (The
\* types of the variables go with it.)
NodesOutliveWalks ==
    /\ TypeOK
    /\ \A t \in Threads : list[t] \cap freed = {}
    /\ \A t, x \in Threads :
          Walks(t, x) /\ cursor[t] # None => cursor[t] \in list[x]

\* One caller runs a thread's destructors
OneCleanup ==
    \A x \in Threads : \A t, u \in Threads : Walks(t, x) /\ Walks(u, x) => t = u

\* A thread that runs its own destructors leaves no value behind while a pass
\* is left, values its destructors set included.
NoValueLost == ~lost

\* The claim in pthread_key_cleanup() that the key cannot be freed under it:
\* pthread_key_delete() reaches every node a canceller's cleanup may look at.
KeyOutlivesCleanup ==
    \A t, x \in Threads : Walks(t, x) /\ t # x =>
        \A n \in list[x] : Named(n) => node[n].key \in alive
=============================================================================
