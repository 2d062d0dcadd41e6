--------------------------- MODULE PthreadLazyInit --------------------------
(***************************************************************************)
(* The first use of a mutex, condition variable or read-write lock set up  *)
(* with a static initialiser: pthread_initialize_acquire_release(),        *)
(* pthread_mutex_lazy_init() and the matching destroys.  The threads that  *)
(* come first race to make the resource; the others poll.                  *)
(*                                                                         *)
(* As POSIX asks, an object is destroyed while nobody uses it, and may     *)
(* then be used again, which makes it anew.  Making it may fail.           *)
(***************************************************************************)
EXTENDS Naturals

CONSTANTS
    LazyThreads,
    LazyCalls       \* bound: uses by each thread

VARIABLES
    state,          \* the RESOURCE_* field of `initialized`
    resource,       \* what the object holds: 0, or the number of a resource
    live,           \* resources made and not destroyed
    made,           \* history: resources made so far
    lazyPc,
    lazyLeft

lazyVars == <<state, resource, live, made, lazyPc, lazyLeft>>

LazyGoTo(t, place) == lazyPc' = [lazyPc EXCEPT ![t] = place]

Destroying == {"destroy", "destroyClaim", "destroyResource"}

LazyInit ==
    /\ state = "uninitialized"
    /\ resource = 0 /\ live = {} /\ made = 0
    /\ lazyPc = [t \in LazyThreads |-> "out"]
    /\ lazyLeft = [t \in LazyThreads |-> LazyCalls]

-----------------------------------------------------------------------------
(* Lazy initialisation and a use of the resource *)

LazyCall(t) ==
    /\ lazyPc[t] = "out" /\ lazyLeft[t] > 0
    /\ \A u \in LazyThreads : lazyPc[u] \notin Destroying
    /\ lazyLeft' = [lazyLeft EXCEPT ![t] = @ - 1]
    /\ LazyGoTo(t, "load")
    /\ UNCHANGED <<state, resource, live, made>>

Load(t) ==
    /\ lazyPc[t] = "load"
    /\ LazyGoTo(t, CASE state = "initialized" -> "use"
                 [] state = "uninitialized" -> "claim"
                 [] OTHER -> "load")
    /\ UNCHANGED <<state, resource, live, made, lazyLeft>>

\* Mutant: the state is stored without being compared
Claim_Stores(t) ==
    /\ lazyPc[t] = "claim"
    /\ state' = "initializing" /\ LazyGoTo(t, "make")
    /\ UNCHANGED <<resource, live, made, lazyLeft>>

Claim(t) ==
    /\ lazyPc[t] = "claim"
    /\ IF state = "uninitialized"
         THEN state' = "initializing" /\ LazyGoTo(t, "make")
         ELSE UNCHANGED state /\ LazyGoTo(t, "load")
    /\ UNCHANGED <<resource, live, made, lazyLeft>>

\* initCb()
Make(t) ==
    /\ lazyPc[t] = "make"
    /\ made' = made + 1
    /\ resource' = made'
    /\ live' = live \cup {made'}
    /\ LazyGoTo(t, "publish")
    /\ UNCHANGED <<state, lazyLeft>>

MakeFails(t) ==
    /\ lazyPc[t] = "make"
    /\ LazyGoTo(t, "retract")
    /\ UNCHANGED <<state, resource, live, made, lazyLeft>>

Publish(t) ==
    /\ lazyPc[t] = "publish"
    /\ state' = "initialized"
    /\ LazyGoTo(t, "use")
    /\ UNCHANGED <<resource, live, made, lazyLeft>>

Retract(t) ==
    /\ lazyPc[t] = "retract"
    /\ state' = "uninitialized"
    /\ LazyGoTo(t, "out")
    /\ UNCHANGED <<resource, live, made, lazyLeft>>

Use(t) ==
    /\ lazyPc[t] = "use"
    /\ LazyGoTo(t, "out")
    /\ UNCHANGED <<state, resource, live, made, lazyLeft>>

-----------------------------------------------------------------------------
(* pthread_destroy_acquire_release(), pthread_mutex_destroy() *)

CallDestroy(t) ==
    /\ lazyPc[t] = "out" /\ lazyLeft[t] > 0
    /\ \A u \in LazyThreads : lazyPc[u] = "out"
    /\ lazyLeft' = [lazyLeft EXCEPT ![t] = @ - 1]
    /\ LazyGoTo(t, "destroy")
    /\ UNCHANGED <<state, resource, live, made>>

DestroyLoad(t) ==
    /\ lazyPc[t] = "destroy"
    /\ LazyGoTo(t, CASE state = "initialized" -> "destroyClaim"
                 [] state = "uninitialized" -> "out"
                 [] OTHER -> "destroy")
    /\ UNCHANGED <<state, resource, live, made, lazyLeft>>

DestroyClaim(t) ==
    /\ lazyPc[t] = "destroyClaim"
    /\ IF state = "initialized"
         THEN state' = "uninitialized" /\ LazyGoTo(t, "destroyResource")
         ELSE UNCHANGED state /\ LazyGoTo(t, "destroy")
    /\ UNCHANGED <<resource, live, made, lazyLeft>>

DestroyResource(t) ==
    /\ lazyPc[t] = "destroyResource"
    /\ live' = live \ {resource}
    /\ LazyGoTo(t, "out")
    /\ UNCHANGED <<state, resource, made, lazyLeft>>

-----------------------------------------------------------------------------
LazyStep(t) ==
    \/ Load(t) \/ Claim(t) \/ Make(t) \/ MakeFails(t) \/ Publish(t) \/ Retract(t)
    \/ Use(t)
    \/ DestroyLoad(t) \/ DestroyClaim(t) \/ DestroyResource(t)

LazyFinished ==
    /\ \A t \in LazyThreads : lazyPc[t] = "out" /\ lazyLeft[t] = 0
    /\ UNCHANGED lazyVars

LazyNext == (\E t \in LazyThreads : LazyCall(t) \/ CallDestroy(t) \/ LazyStep(t)) \/ LazyFinished

LazySpec == LazyInit /\ [][LazyNext]_lazyVars /\ \A t \in LazyThreads : WF_lazyVars(LazyStep(t))

-----------------------------------------------------------------------------
\* Whoever gets past the initialisation finds a resource that is whole and
\* exists, all find the same one, and none is lost or made twice.
LazyInitSound ==
    /\ (\E t \in LazyThreads : lazyPc[t] = "use") => state = "initialized"
    /\ state = "initialized" => live = {resource}
    /\ state = "uninitialized" =>
          live = {} \/ \E t \in LazyThreads : lazyPc[t] = "destroyResource"

\* No first user polls for ever, whatever fails: the calls, whose number is
\* bounded, all return.
LazyReturns == <>[](\A t \in LazyThreads : lazyPc[t] = "out")
=============================================================================
