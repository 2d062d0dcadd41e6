------------------------------- MODULE Atexit -------------------------------
(***************************************************************************)
(* Exit handlers, stdlib/atexit.c and exit.c: a chain of nodes of          *)
(* AtexitMax slots, filled from the bottom.  A finalize walks it from the  *)
(* top and drops the lock around every handler, which may register and     *)
(* finalize in its turn, as may other threads; modCnt tells the walk that  *)
(* its cursor is no good.  What runs under the lock between two handlers   *)
(* is one action.  A handler is the number of its registration; the        *)
(* argument stored with it is left out.                                    *)
(***************************************************************************)
EXTENDS Naturals, Sequences, SequencesExt, FiniteSetsExt

CONSTANTS ExitThreads, Handle,
          Addr,        \* where nodes may be; 1 is the static node
          AtexitMax,   \* ATEXIT_MAX
          MaxReg,      \* bound: registrations
          MaxDepth     \* bound: finalize called from handlers of a finalize

ASSUME ExitAssumption ==
    AtexitMax \in Nat \ {0} /\ MaxReg \in Nat /\ MaxDepth \in Nat /\ 1 \in Addr

VARIABLES static,      \* the list has a static node: the exit list, not the quick one
          chain,       \* addresses of the nodes, bottom first
          slot, usedCnt, modCnt,
          handles,     \* the handle each handler was registered with
          frames,      \* per thread, the walks whose handler is running
          called,      \* how often each handler was called
          over         \* exit() is past its handlers
exitList == <<chain, slot, usedCnt, modCnt>>
exitVars == <<static, exitList, handles, frames, called, over>>

NULL == 0
Reg  == 1 .. Len(handles)
Matches(h, d) == h = NULL \/ handles[d] = h
Pending == {slot[chain[k]][i] : k \in DOMAIN chain, i \in 1 .. AtexitMax} \ {NULL}
Empty   == [i \in 1 .. AtexitMax |-> NULL]

ExitInit ==
    /\ static \in BOOLEAN
    /\ chain = IF static THEN <<1>> ELSE <<>>
    /\ slot = [a \in Addr |-> Empty]
    /\ usedCnt = 0 /\ modCnt = 0
    /\ handles = <<>> /\ called = [d \in 1 .. MaxReg |-> 0]
    /\ frames = [t \in ExitThreads |-> <<>>]
    /\ over = FALSE

Register(t, h) ==
    LET full == chain = <<>> \/ usedCnt >= AtexitMax
        at   == IF full THEN 1 ELSE usedCnt + 1
        new  == Len(handles) + 1
    IN  /\ ~ over /\ Len(handles) < MaxReg
        /\ \E a \in IF full THEN Addr \ (ToSet(chain) \cup {1}) ELSE {Last(chain)} :
              /\ chain' = IF full THEN Append(chain, a) ELSE chain
              /\ slot' = [slot EXCEPT ![a] = [(IF full THEN Empty ELSE @) EXCEPT ![at] = new]]
        /\ usedCnt' = at
        /\ modCnt' = modCnt + 1
        /\ handles' = Append(handles, h)
        /\ UNCHANGED <<static, frames, called, over>>

(***************************************************************************)
(* The walk: the places at or below slot i of the k-th node that hold a    *)
(* handler for h, the uppermost of which is taken.                         *)
(***************************************************************************)
Places(k, i, h) ==
    {p \in (1 .. k) \X (1 .. AtexitMax) :
        LET d == slot[chain[p[1]]][p[2]]
        IN  (p[1] < k \/ p[2] <= i) /\ d # NULL /\ Matches(h, d)}
Uppermost(P) == CHOOSE p \in P : \A q \in P : q[1] < p[1] \/ (q[1] = p[1] /\ q[2] <= p[2])

TakeHandler(t, below, f, p) ==
    LET a == chain[p[1]]
    IN  /\ slot' = [slot EXCEPT ![a][p[2]] = NULL]
        /\ called' = [called EXCEPT ![slot[a][p[2]]] = @ + 1]
        /\ frames' = [frames EXCEPT ![t] = Append(below,
                        [f EXCEPT !.node = a, !.i = p[2] - 1, !.runs = slot[a][p[2]]])]
        /\ UNCHANGED <<static, chain, usedCnt, modCnt, handles, over>>

\* Nodes left empty are released from the top; usedCnt goes to the top live slot.
Kept == Max({0} \cup {k \in DOMAIN chain : (static /\ k = 1) \/ slot[chain[k]] # Empty})
\* Mutant: the release of nodes does not count as a change of the list
ReleaseNodes_SameCount(t, below, f) ==
    /\ chain' = SubSeq(chain, 1, Kept)
    /\ usedCnt' = IF Kept = 0 THEN 0
                  ELSE Max({0} \cup {i \in 1 .. AtexitMax : slot[chain[Kept]][i] # NULL})
    /\ frames' = [frames EXCEPT ![t] = below]
    /\ over' = f.exit
    /\ UNCHANGED <<static, slot, modCnt, handles, called>>

ReleaseNodes(t, below, f) ==
    /\ chain' = SubSeq(chain, 1, Kept)
    /\ modCnt' = modCnt + Len(chain) - Kept
    /\ usedCnt' = IF Kept = 0 THEN 0
                  ELSE Max({0} \cup {i \in 1 .. AtexitMax : slot[chain[Kept]][i] # NULL})
    /\ frames' = [frames EXCEPT ![t] = below]
    /\ over' = f.exit
    /\ UNCHANGED <<static, slot, handles, called>>

Walk(t, below, f, k, i) ==
    LET P == Places(k, i, f.handle)
    IN  \/ P # {} /\ TakeHandler(t, below, f, Uppermost(P))
        \/ P = {} /\ ReleaseNodes(t, below, f)

\* __cxa_finalize(), quick_exit(), exit(): the last two for all handles.
Finalize(t, h, exit) ==
    /\ ~ over /\ Len(frames[t]) < MaxDepth /\ (exit => h = NULL)
    /\ Walk(t, frames[t],
            [handle |-> h, exit |-> exit, mod |-> modCnt, node |-> NULL, i |-> 0, runs |-> NULL],
            Len(chain), usedCnt)

\* The handler returns: on from the cursor, or from the top if the list changed.
Cursor(f) == IF f.node \in ToSet(chain) THEN CHOOSE k \in DOMAIN chain : chain[k] = f.node ELSE 0
HandlerReturns(t) ==
    /\ ~ over /\ frames[t] # <<>>
    /\ LET f == Last(frames[t])
       IN  IF modCnt # f.mod
           THEN Walk(t, Front(frames[t]), [f EXCEPT !.mod = modCnt], Len(chain), usedCnt)
           ELSE Walk(t, Front(frames[t]), f, Cursor(f), f.i)

ExitNext == \E t \in ExitThreads :
    \/ \E h \in Handle \cup {NULL} : Register(t, h)
    \/ \E h \in Handle \cup {NULL}, exit \in BOOLEAN : Finalize(t, h, exit)
    \/ HandlerReturns(t)
ExitSpec == ExitInit /\ [][ExitNext]_exitVars

(***************************************************************************)
(* Properties.                                                             *)
(***************************************************************************)
\* A walk that will not restart has its cursor in a node of the chain, and the
\* nodes below the top are taken as full, as they were when they were left.
WalksSound ==
    /\ \A t \in ExitThreads : \A n \in DOMAIN frames[t] :
          frames[t][n].mod = modCnt => frames[t][n].node \in ToSet(chain)
    /\ usedCnt <= AtexitMax /\ IsInjective(chain)
    /\ static => chain # <<>> /\ chain[1] = 1
    /\ chain # <<>> => \A i \in usedCnt + 1 .. AtexitMax : slot[Last(chain)][i] = NULL
EachOnce ==
    /\ \A d \in Reg : called[d] = IF d \in Pending THEN 0 ELSE 1
    /\ over => Pending = {}
LatestFirst ==
    \A t \in ExitThreads :
        frames'[t] # <<>> /\ frames'[t] # frames[t] =>
            LET f == Last(frames'[t])
            IN  called'[f.runs] > called[f.runs] =>
                  \A d \in Pending : Matches(f.handle, d) => d <= f.runs

\* Every handler is called once, those registered last first among those the
\* caller asked for, also when handlers register and finalize or other threads
\* do meanwhile; exit() leaves none uncalled; no walk follows a released node.
HandlersInOrder == [](WalksSound /\ EachOnce) /\ [][LatestFirst]_exitVars
=============================================================================
