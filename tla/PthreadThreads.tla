--------------------------- MODULE PthreadThreads ---------------------------
(***************************************************************************)
(* The life of a thread in pthread/pthread.c: its record, its stack, the   *)
(* list it is on, the references to it and who reclaims it when.           *)
(*                                                                         *)
(* A section under pthread_list_lock is one action, except that of         *)
(* pthread_create(), which starts the new thread while it holds the lock.  *)
(* The kernel ends a cancelled thread (SIGCANCEL) between two of its       *)
(* actions, and before it can complete another system call.                *)
(*                                                                         *)
(* Callers are legal: a thread is joined by one caller, not also detached, *)
(* and threads do not join in circles.  Handles may be stale in            *)
(* pthread_detach and pthread_cancel.                                      *)
(***************************************************************************)
EXTENDS Naturals, FiniteSets

CONSTANTS
    Threads,        \* the threads that may ever exist; each is its own record
    main,           \* the one that exists at the start
    NoThread,
    Budget,         \* bound: calls each thread makes before it returns
    MaxHandlers,    \* bound: cleanup handlers a thread has pushed at a time
    LateDetach      \* whether callers detach threads already finished or cancelled

ASSUME ThreadsAssumption ==
    /\ main \in Threads /\ NoThread \notin Threads
    /\ IsFiniteSet(Threads)
    /\ Budget \in [Threads -> Nat]
    /\ MaxHandlers \in Nat /\ LateDetach \in BOOLEAN

VARIABLES
    kernel,     \* the kernel's thread: none, running, ghost or joined
    pc,         \* what a running thread is doing
    obj,        \* the thread its call is about
    lock,       \* pthread_list_lock, while held across actions
    record,     \* pthread_ctx: none, used or freed
    refs,       \* ctx->refcount
    listed,     \* threads on pthread_list
    retired,    \* threads on pthread_common.retired
    grabbed,    \* the list each caller of _pthread_reapRetired() has taken
    stack,      \* none, mapped or unmapped
    detached,   \* ctx->is_detached
    enabled,    \* ctx->cancelstate
    async,      \* ctx->canceltype
    cancelled,  \* ctx->cancelled
    signalled,  \* SIGCANCEL sent and not yet delivered
    handlers,   \* length of ctx->cleanup_list
    joiner,     \* history: threads some caller has begun to join
    pushed,     \* history: handlers pushed
    ran,        \* history: handlers run or popped
    left        \* calls left of the budget

callerVars == <<obj, left, joiner>>
recordVars == <<record, refs, listed, retired>>
cancelVars == <<enabled, async, cancelled, signalled>>
handlerVars == <<handlers, pushed, ran>>
vars == <<kernel, pc, obj, lock, record, refs, listed, retired, grabbed, stack, detached,
          enabled, async, cancelled, signalled, handlers, joiner, pushed, ran, left>>

Places == {"none", "out",
           "reapCreate", "reapJoin",            \* in _pthread_reapRetired()
           "create", "created",                 \* pthread_create()
           "join", "joining", "unlist", "unmap",\* pthread_join()
           "handler", "keys", "kill",           \* pthread_cancel() of another
           "cleanup", "ownHandler", "ownKeys", "finish", "end", \* pthread_do_exit()
           "push", "pop"}

TypeOK ==
    /\ kernel \in [Threads -> {"none", "running", "ghost", "joined"}]
    /\ pc \in [Threads -> Places]
    /\ obj \in [Threads -> Threads]
    /\ lock \in Threads \cup {NoThread}
    /\ record \in [Threads -> {"none", "used", "freed"}]
    /\ refs \in [Threads -> Nat]
    /\ listed \subseteq Threads /\ retired \subseteq Threads
    /\ grabbed \in [Threads -> SUBSET Threads]
    /\ stack \in [Threads -> {"none", "mapped", "unmapped"}]
    /\ detached \subseteq Threads /\ enabled \subseteq Threads /\ async \subseteq Threads
    /\ cancelled \subseteq Threads /\ signalled \subseteq Threads /\ joiner \subseteq Threads
    /\ handlers \in [Threads -> 0 .. MaxHandlers]
    /\ pushed \in [Threads -> Nat] /\ ran \in [Threads -> Nat]
    /\ left \in [Threads -> Nat]

-----------------------------------------------------------------------------
Init ==
    /\ kernel = [t \in Threads |-> IF t = main THEN "running" ELSE "none"]
    /\ pc = [t \in Threads |-> IF t = main THEN "out" ELSE "none"]
    /\ obj = [t \in Threads |-> t]
    /\ lock = NoThread
    /\ record = [t \in Threads |-> IF t = main THEN "used" ELSE "none"]
    /\ refs = [t \in Threads |-> IF t = main THEN 1 ELSE 0]
    /\ listed = {main} /\ retired = {}
    /\ grabbed = [t \in Threads |-> {}]
    /\ stack = [t \in Threads |-> "none"]
    /\ detached = {} /\ enabled = Threads /\ async = {} /\ cancelled = {} /\ signalled = {}
    /\ handlers = [t \in Threads |-> 0]
    /\ joiner = {}
    /\ pushed = [t \in Threads |-> 0] /\ ran = [t \in Threads |-> 0]
    /\ left = Budget

\* A thread the kernel still lets run; a system call does not return to a
\* thread with SIGCANCEL pending
Runs(t) == kernel[t] = "running" /\ t \notin signalled

At(t, place) == Runs(t) /\ pc[t] = place

GoTo(t, place) == pc' = [pc EXCEPT ![t] = place]

\* A section under pthread_list_lock that ends where it began
Locked == lock = NoThread /\ UNCHANGED lock

Call(t, x, place) ==
    /\ At(t, "out") /\ left[t] > 0
    /\ left' = [left EXCEPT ![t] = @ - 1]
    /\ obj' = [obj EXCEPT ![t] = x]
    /\ GoTo(t, place)

\* _pthread_ctx_put(): the last reference frees the record
Put(x) ==
    /\ refs' = [refs EXCEPT ![x] = @ - 1]
    /\ record' = [record EXCEPT ![x] = IF refs[x] = 1 THEN "freed" ELSE @]

\* _pthread_unlist(): the handlers still registered are dropped
Unlist(x) ==
    /\ listed' = listed \ {x}
    /\ handlers' = [handlers EXCEPT ![x] = 0]

\* _pthread_retire(): the list's reference passes to the parked record
Retire(x) == Unlist(x) /\ retired' = retired \cup {x}

-----------------------------------------------------------------------------
(* _pthread_reapRetired(), at the head of pthread_create and pthread_join  *)

CallCreate(t) ==
    /\ \E x \in Threads : record[x] = "none" /\ Call(t, x, "reapCreate")
    /\ Locked
    /\ grabbed' = [grabbed EXCEPT ![t] = retired]
    /\ retired' = {}
    /\ UNCHANGED <<kernel, record, refs, listed, stack, detached, joiner, cancelVars, handlerVars>>

JoinedNow(t) == \E u \in Threads : obj[u] = t /\ pc[u] \in {"reapJoin", "join", "joining"}

CallJoin(t) ==
    /\ ~JoinedNow(t)
    /\ \E x \in Threads \ (detached \cup joiner \cup {t, main}) :
          /\ x \in listed
          /\ Call(t, x, "reapJoin")
          /\ joiner' = joiner \cup {x}
    /\ Locked
    /\ grabbed' = [grabbed EXCEPT ![t] = retired]
    /\ retired' = {}
    /\ UNCHANGED <<kernel, record, refs, listed, stack, detached, cancelVars, handlerVars>>

\* threadJoin() waits until the thread is a ghost; then its stack goes and the
\* reference of the retired list is put
Reap(t) ==
    /\ At(t, "reapCreate") \/ At(t, "reapJoin")
    /\ Locked
    /\ \E x \in grabbed[t] :
          /\ kernel[x] = "ghost"
          /\ kernel' = [kernel EXCEPT ![x] = "joined"]
          /\ stack' = [stack EXCEPT ![x] = IF @ = "mapped" THEN "unmapped" ELSE @]
          /\ grabbed' = [grabbed EXCEPT ![t] = @ \ {x}]
          /\ Put(x)
    /\ UNCHANGED <<pc, callerVars, listed, retired, detached, cancelVars, handlerVars>>

Reaped(t) ==
    /\ grabbed[t] = {}
    /\ \/ At(t, "reapCreate") /\ GoTo(t, "create")
       \/ At(t, "reapJoin") /\ GoTo(t, "join")
    /\ UNCHANGED <<kernel, callerVars, lock, recordVars, grabbed, stack, detached, cancelVars,
                   handlerVars>>

-----------------------------------------------------------------------------
(* pthread_create() *)

\* The record and the stack are made, the lock is taken and held, and the new
\* thread starts; two creators do not get one record
BeginThread(t) ==
    LET x == obj[t]
    IN  /\ At(t, "create") /\ lock = NoThread /\ record[x] = "none"
        /\ lock' = t
        /\ record' = [record EXCEPT ![x] = "used"]
        /\ refs' = [refs EXCEPT ![x] = 1]
        /\ \E s \in {"mapped", "none"} : stack' = [stack EXCEPT ![x] = s]
        /\ detached' \in {detached, detached \cup {x}}
        /\ kernel' = [kernel EXCEPT ![x] = "running"]
        /\ pc' = [pc EXCEPT ![t] = "created", ![x] = "out"]
        /\ UNCHANGED <<callerVars, listed, retired, grabbed, cancelVars, handlerVars>>

\* Mutant: the error path returns with the lock held
BeginFails_Locked(t) ==
    /\ At(t, "create") /\ lock = NoThread
    /\ lock' = t
    /\ GoTo(t, "out")
    /\ UNCHANGED <<kernel, callerVars, recordVars, grabbed, stack, detached, cancelVars,
                   handlerVars>>

\* beginthreadex() fails, or there is no memory: nothing remains
BeginFails(t) ==
    /\ At(t, "create") /\ Locked
    /\ GoTo(t, "out")
    /\ UNCHANGED <<kernel, callerVars, recordVars, grabbed, stack, detached, cancelVars,
                   handlerVars>>

ListAdd(t) ==
    /\ At(t, "created") /\ lock = t
    /\ listed' = listed \cup {obj[t]}
    /\ lock' = NoThread
    /\ GoTo(t, "out")
    /\ UNCHANGED <<kernel, callerVars, record, refs, retired, grabbed, stack, detached,
                   cancelVars, handlerVars>>

-----------------------------------------------------------------------------
(* pthread_join() *)

\* The thread was detached after all: EINVAL; or its id is read
JoinCheck(t) ==
    /\ At(t, "join") /\ Locked
    /\ GoTo(t, IF obj[t] \in detached THEN "out" ELSE "joining")
    /\ UNCHANGED <<kernel, callerVars, recordVars, grabbed, stack, detached, cancelVars,
                   handlerVars>>

ThreadJoin(t) ==
    /\ At(t, "joining")
    /\ kernel[obj[t]] = "ghost"
    /\ kernel' = [kernel EXCEPT ![obj[t]] = "joined"]
    /\ GoTo(t, "unlist")
    /\ UNCHANGED <<callerVars, lock, recordVars, grabbed, stack, detached, cancelVars,
                   handlerVars>>

JoinUnlist(t) ==
    /\ At(t, "unlist") /\ Locked
    /\ Unlist(obj[t])
    /\ Put(obj[t])
    /\ GoTo(t, "unmap")
    /\ UNCHANGED <<kernel, callerVars, retired, grabbed, stack, detached, cancelVars, pushed, ran>>

\* With the stack address read before the record went
JoinUnmap(t) ==
    /\ At(t, "unmap")
    /\ stack' = [stack EXCEPT ![obj[t]] = IF @ = "mapped" THEN "unmapped" ELSE @]
    /\ GoTo(t, "out")
    /\ UNCHANGED <<kernel, callerVars, lock, recordVars, grabbed, detached, cancelVars,
                   handlerVars>>

-----------------------------------------------------------------------------
(* pthread_detach(): of a listed thread that is not detached, else an error *)

Detach(t) ==
    /\ \E x \in Threads \ (joiner \cup {main}) :
          /\ record[x] # "none"
          /\ LateDetach \/ (Runs(x) /\ pc[x] # "end")
          /\ Call(t, x, "out")
          /\ detached' = IF x \in listed THEN detached \cup {x} ELSE detached
    /\ Locked
    /\ UNCHANGED <<kernel, recordVars, grabbed, stack, joiner, cancelVars, handlerVars>>

-----------------------------------------------------------------------------
(* pthread_cancel() of another thread *)

\* Mutant: the handler stays on the list while it runs
Scan_KeepsHandler(t, x) ==
    GoTo(t, IF handlers[x] > 0 THEN "handler" ELSE "keys") /\ UNCHANGED handlers

\* With the lock held, on behalf of thread x: a handler to run, or none left.
\* _pthread_do_cleanup() takes one off the list, runs it unlocked, looks again.
Scan(t, x) ==
    IF handlers[x] > 0
      THEN GoTo(t, "handler") /\ handlers' = [handlers EXCEPT ![x] = @ - 1]
      ELSE GoTo(t, "keys") /\ UNCHANGED handlers

CancelStale(t) ==
    /\ \E x \in Threads \ (listed \cup {t}) : record[x] # "none" /\ Call(t, x, "out")
    /\ Locked
    /\ UNCHANGED <<kernel, recordVars, grabbed, stack, detached, joiner, cancelVars, handlerVars>>

\* Mutant: no reference is taken for the callbacks made unlocked
Cancel_NoReference(t) ==
    /\ Locked
    /\ \E x \in listed \ {t, main} :
          /\ cancelled' = cancelled \cup {x}
          /\ obj' = [obj EXCEPT ![t] = x]
          /\ IF x \in enabled THEN Scan(t, x) ELSE GoTo(t, "out") /\ UNCHANGED handlers
    /\ At(t, "out") /\ left[t] > 0
    /\ left' = [left EXCEPT ![t] = @ - 1]
    /\ UNCHANGED <<kernel, recordVars, grabbed, stack, detached, joiner, enabled, async,
                   signalled, pushed, ran>>

Cancel(t) ==
    /\ Locked
    /\ \E x \in listed \ {t, main} :
          /\ cancelled' = cancelled \cup {x}
          /\ obj' = [obj EXCEPT ![t] = x]
          /\ IF x \in enabled
               THEN refs' = [refs EXCEPT ![x] = @ + 1] /\ Scan(t, x)
               ELSE GoTo(t, "out") /\ UNCHANGED <<refs, handlers>>
    /\ At(t, "out") /\ left[t] > 0
    /\ left' = [left EXCEPT ![t] = @ - 1]
    /\ UNCHANGED <<kernel, record, listed, retired, grabbed, stack, detached, joiner, enabled,
                   async, signalled, pushed, ran>>

CancelHandler(t) ==
    /\ At(t, "handler") /\ Locked
    /\ ran' = [ran EXCEPT ![obj[t]] = @ + 1]
    /\ Scan(t, obj[t])
    /\ UNCHANGED <<kernel, callerVars, recordVars, grabbed, stack, detached, cancelVars, pushed>>

\* pthread_key_cleanup() runs destructors with no lock held
CancelKeys(t) ==
    /\ At(t, "keys")
    /\ GoTo(t, "kill")
    /\ UNCHANGED <<kernel, callerVars, lock, recordVars, grabbed, stack, detached, cancelVars,
                   handlerVars>>

\* Mutant: a thread no longer listed keeps the canceller's reference
CancelKill_NoPut(t) ==
    LET x == obj[t]
    IN  /\ At(t, "kill") /\ Locked
        /\ signalled' = IF x \in listed /\ kernel[x] = "running"
                          THEN signalled \cup {x} ELSE signalled
        /\ IF x \in listed \cap detached
             THEN Retire(x)
             ELSE UNCHANGED <<listed, retired, handlers>>
        /\ IF x \in listed THEN Put(x) ELSE UNCHANGED <<refs, record>>
        /\ GoTo(t, "out")
        /\ UNCHANGED <<kernel, callerVars, grabbed, stack, detached, enabled, async, cancelled,
                       pushed, ran>>

\* Mutant: a detached thread is signalled and not retired
CancelKill_NoRetire(t) ==
    LET x == obj[t]
    IN  /\ At(t, "kill") /\ Locked
        /\ signalled' = IF x \in listed /\ kernel[x] = "running"
                          THEN signalled \cup {x} ELSE signalled
        /\ Put(x)
        /\ GoTo(t, "out")
        /\ UNCHANGED <<kernel, callerVars, listed, retired, handlers, grabbed, stack, detached,
                       enabled, async, cancelled, pushed, ran>>

\* Looked up again: it may have finished and been reclaimed meanwhile.  The
\* signal is sent, and a detached thread retired, before the lock is released.
CancelKill(t) ==
    LET x == obj[t]
    IN  /\ At(t, "kill") /\ Locked
        /\ signalled' = IF x \in listed /\ kernel[x] = "running"
                          THEN signalled \cup {x} ELSE signalled
        /\ IF x \in listed \cap detached
             THEN Retire(x)
             ELSE UNCHANGED <<listed, retired, handlers>>
        /\ Put(x)
        /\ GoTo(t, "out")
        /\ UNCHANGED <<kernel, callerVars, grabbed, stack, detached, enabled, async, cancelled,
                       pushed, ran>>

\* SIGCANCEL lands
Die(x) ==
    /\ x \in signalled /\ kernel[x] = "running"
    /\ kernel' = [kernel EXCEPT ![x] = "ghost"]
    /\ signalled' = signalled \ {x}
    /\ UNCHANGED <<pc, callerVars, lock, recordVars, grabbed, stack, detached, enabled, async,
                   cancelled, handlerVars>>

-----------------------------------------------------------------------------
(* What a thread does to itself *)

\* A cancellation request is acted on: pthread_exit(PTHREAD_CANCELED)
Exits(t, now) == GoTo(t, IF now THEN "cleanup" ELSE "out")

CancelSelf(t) ==
    /\ t # main /\ At(t, "out") /\ left[t] > 0
    /\ Locked
    /\ left' = [left EXCEPT ![t] = @ - 1]
    /\ cancelled' = cancelled \cup {t}
    /\ Exits(t, t \in enabled)
    /\ UNCHANGED <<kernel, obj, joiner, recordVars, grabbed, stack, detached, enabled, async,
                   signalled, handlerVars>>

\* Enabling an asynchronous thread acts on a request made meanwhile
SetCancelState(t) ==
    /\ t # main /\ At(t, "out") /\ left[t] > 0
    /\ Locked
    /\ left' = [left EXCEPT ![t] = @ - 1]
    /\ enabled' \in {enabled \cup {t}, enabled \ {t}}
    /\ Exits(t, t \in async \cap enabled' \cap cancelled)
    /\ UNCHANGED <<kernel, obj, joiner, recordVars, grabbed, stack, detached, async, cancelled,
                   signalled, handlerVars>>

SetCancelType(t) ==
    /\ t # main /\ At(t, "out") /\ left[t] > 0
    /\ Locked
    /\ left' = [left EXCEPT ![t] = @ - 1]
    /\ async' \in {async \cup {t}, async \ {t}}
    /\ Exits(t, t \in async' \cap enabled \cap cancelled)
    /\ UNCHANGED <<kernel, obj, joiner, recordVars, grabbed, stack, detached, enabled, cancelled,
                   signalled, handlerVars>>

TestCancel(t) ==
    /\ t # main /\ At(t, "out") /\ t \in enabled \cap cancelled
    /\ Locked
    /\ Exits(t, TRUE)
    /\ UNCHANGED <<kernel, callerVars, recordVars, grabbed, stack, detached, cancelVars,
                   handlerVars>>

\* pthread_cleanup_push and _pop find the record, taking a reference, and lock
\* the list again to change it
FindSelf(t) ==
    /\ t # main /\ t \in listed /\ Locked
    /\ \/ handlers[t] < MaxHandlers /\ Call(t, t, "push")
       \/ Call(t, t, "pop")
    /\ refs' = [refs EXCEPT ![t] = @ + 1]
    /\ UNCHANGED <<kernel, record, listed, retired, grabbed, stack, detached, joiner, cancelVars,
                   handlerVars>>

CleanupPush(t) ==
    /\ At(t, "push") /\ Locked
    /\ handlers' = [handlers EXCEPT ![t] = @ + 1]
    /\ pushed' = [pushed EXCEPT ![t] = @ + 1]
    /\ Put(t)
    /\ GoTo(t, "out")
    /\ UNCHANGED <<kernel, callerVars, listed, retired, grabbed, stack, detached, cancelVars, ran>>

\* The list may be empty by now: a canceller has run the handlers
CleanupPop(t) ==
    /\ At(t, "pop") /\ Locked
    /\ IF handlers[t] = 0
         THEN UNCHANGED <<handlers, ran>>
         ELSE /\ handlers' = [handlers EXCEPT ![t] = @ - 1]
              /\ ran' = [ran EXCEPT ![t] = @ + 1]
    /\ Put(t)
    /\ GoTo(t, "out")
    /\ UNCHANGED <<kernel, callerVars, listed, retired, grabbed, stack, detached, cancelVars,
                   pushed>>

-----------------------------------------------------------------------------
(* pthread_do_exit() *)

\* pthread_exit() runs the handlers, returning from start_routine does not
Exit(t) ==
    /\ t # main /\ At(t, "out")
    /\ GoTo(t, "cleanup") \/ GoTo(t, "ownKeys")
    /\ UNCHANGED <<kernel, callerVars, lock, recordVars, grabbed, stack, detached, cancelVars,
                   handlerVars>>

ExitCleanup(t) ==
    /\ At(t, "cleanup") /\ Locked
    /\ IF handlers[t] > 0
         THEN GoTo(t, "ownHandler") /\ handlers' = [handlers EXCEPT ![t] = @ - 1]
         ELSE GoTo(t, "ownKeys") /\ UNCHANGED handlers
    /\ UNCHANGED <<kernel, callerVars, recordVars, grabbed, stack, detached, cancelVars, pushed,
                   ran>>

ExitHandler(t) ==
    /\ At(t, "ownHandler")
    /\ ran' = [ran EXCEPT ![t] = @ + 1]
    /\ GoTo(t, "cleanup")
    /\ UNCHANGED <<kernel, callerVars, lock, recordVars, grabbed, stack, detached, cancelVars,
                   handlers, pushed>>

ExitKeys(t) ==
    /\ At(t, "ownKeys")
    /\ GoTo(t, "finish")
    /\ UNCHANGED <<kernel, callerVars, lock, recordVars, grabbed, stack, detached, cancelVars,
                   handlerVars>>

\* A detached thread retires, unless a canceller has retired it
ExitFinish(t) ==
    /\ At(t, "finish") /\ Locked
    /\ IF t \in detached \cap listed
         THEN Retire(t)
         ELSE UNCHANGED <<listed, retired, handlers>>
    /\ GoTo(t, "end")
    /\ UNCHANGED <<kernel, callerVars, record, refs, grabbed, stack, detached, cancelVars,
                   pushed, ran>>

EndThread(t) ==
    /\ kernel[t] = "running" /\ pc[t] = "end"
    /\ kernel' = [kernel EXCEPT ![t] = "ghost"]
    /\ signalled' = signalled \ {t}
    /\ UNCHANGED <<pc, callerVars, lock, recordVars, grabbed, stack, detached, enabled, async,
                   cancelled, handlerVars>>

-----------------------------------------------------------------------------
Creating(t) == CallCreate(t) \/ Reap(t) \/ Reaped(t) \/ BeginThread(t) \/ BeginFails(t) \/ ListAdd(t)
Joining(t) == CallJoin(t) \/ JoinCheck(t) \/ ThreadJoin(t) \/ JoinUnlist(t) \/ JoinUnmap(t)
Canceling(t) == Cancel(t) \/ CancelStale(t) \/ CancelHandler(t) \/ CancelKeys(t) \/ CancelKill(t)
OwnState(t) == CancelSelf(t) \/ SetCancelState(t) \/ SetCancelType(t) \/ TestCancel(t)
Handling(t) == FindSelf(t) \/ CleanupPush(t) \/ CleanupPop(t)
Exiting(t) == Exit(t) \/ ExitCleanup(t) \/ ExitHandler(t) \/ ExitKeys(t) \/ ExitFinish(t)

Step(t) ==
    \/ Creating(t) \/ Joining(t) \/ Detach(t) \/ Canceling(t)
    \/ OwnState(t) \/ Handling(t) \/ Exiting(t)
    \/ Die(t) \/ EndThread(t)

\* Everybody but main is gone, and main has no call left to make
AllDone ==
    /\ pc[main] = "out" /\ left[main] = 0
    /\ \A t \in Threads \ {main} : kernel[t] # "running"

Finished == AllDone /\ UNCHANGED vars

Next == (\E t \in Threads : Step(t)) \/ Finished

\* Every thread is scheduled, and the kernel delivers its signals
Fairness == \A t \in Threads : WF_vars(Step(t))

Spec == Init /\ [][Next]_vars

FairSpec == Spec /\ Fairness

-----------------------------------------------------------------------------
(* Properties *)

\* The places that own the list's reference: the creator until it lists the
\* thread, the list, the retired list and whoever has taken it.
Owners(x) ==
    (IF x \in listed THEN 1 ELSE 0) + (IF x \in retired THEN 1 ELSE 0)
    + Cardinality({t \in Threads : x \in grabbed[t]})
    + Cardinality({t \in Threads : pc[t] = "created" /\ obj[t] = x})

\* Every reference has one holder and every holder one reference; the record is
\* freed with the last.
ReferencesExact ==
    \A x \in Threads :
        /\ refs[x] = Owners(x)
                     + Cardinality({t \in Threads : obj[t] = x
                                       /\ pc[t] \in {"handler", "keys", "kill", "push", "pop"}})
        /\ record[x] = "used" <=> refs[x] > 0
        /\ Owners(x) <= 1

\* A thread runs on its stack and reads its record without a lock until the
\* kernel has ended it, so neither may go earlier, whoever cancels, joins,
\* detaches or reclaims it; and nobody else uses a record after it was freed:
\* cancellers, joiners and reclaimers hold something that keeps it, across the
\* callbacks they make unlocked.
\* To that end every reference has one holder.
NoUseAfterFree ==
    /\ TypeOK /\ ReferencesExact
    /\ \A t \in Threads :
           /\ kernel[t] = "running" => record[t] = "used" /\ stack[t] # "unmapped"
           /\ pc[t] \in {"handler", "keys", "kill", "created", "join", "joining", "unlist"} =>
                 record[obj[t]] = "used"
           /\ \A x \in grabbed[t] : record[x] = "used"

\* No cleanup handler is run twice, by its thread and by a canceller
HandlersOnce == \A x \in Threads : ran[x] + handlers[x] <= pushed[x]

\* The claim of _pthread_retire(): a detached thread that has finished, by its
\* own exit or by pthread_cancel(), is retired, and so can be reclaimed.
DetachedIsRetired ==
    \A x \in detached : kernel[x] = "ghost" => x \notin listed

\* Everything ends: every join, every cancellation, every reclamation, and the
\* threads themselves.
EverythingEnds == <>AllDone
=============================================================================
