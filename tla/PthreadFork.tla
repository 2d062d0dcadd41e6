----------------------------- MODULE PthreadFork ----------------------------
(***************************************************************************)
(* fork(), unistd/sys.c: the handlers of pthread_atfork(), the records of  *)
(* the threads and the heap, pthread/pthread.c and stdlib/malloc_dl.c,     *)
(* while other threads change the list and the heap and are created and    *)
(* end.                                                                    *)
(*                                                                         *)
(* sys_fork() copies the memory.  Locks of the kernel are free in the      *)
(* child; the heap's lock is a word of memory and is copied as it is.  The *)
(* child has one thread, and nothing of its memory is the parent's.        *)
(***************************************************************************)
EXTENDS Naturals, Sequences, FiniteSets, SequencesExt

CONSTANTS Forker,       \* threads that call fork()
          Bystander,    \* threads that do not
          NoThread,
          Handler,      \* entries of pthread_atfork()
          Works         \* bound: updates of each other thread

ForkThreads == Forker \cup Bystander

ASSUME ForkAssumption == Forker \cap Bystander = {} /\ NoThread \notin ForkThreads

Locks  == {"atfork", "list", "heap"}

VARIABLES owner,        \* of each lock
          half,         \* threads in the middle of an update of the list or of the heap
          records,      \* threads whose record is on the list
          retired,      \* detached threads that ended and were not reclaimed
          handlers,     \* registered, in order
          forkPc, forkLeft,
          todo,         \* handlers still to be called by the thread
          masked,       \* threads that block signals
          forking,      \* pthread_common.forking
          forkSigmask,  \* pthread_common.forkSigmask: whether signals were blocked before
          ran,          \* history: handlers each thread called in this fork()
          child         \* each forker's child
forkVars == <<owner, half, records, retired, handlers, forkPc, forkLeft, todo, masked, forking,
              forkSigmask, ran, child>>

NoChild == [at |-> "none"]
NotRun  == [prepare |-> <<>>, parent |-> <<>>]

ForkInit ==
    /\ owner = [l \in Locks |-> NoThread]
    /\ half = {}
    \* fork() also by a thread without a record
    /\ records \in {ForkThreads, ForkThreads \ Forker}
    /\ retired = {}
    /\ handlers = <<>>
    /\ forkPc = [t \in ForkThreads |-> "out"]
    /\ forkLeft = [t \in ForkThreads |-> IF t \in Bystander THEN Works ELSE 1]
    /\ todo = [t \in ForkThreads |-> <<>>]
    /\ masked = {}
    /\ forking = NoThread
    /\ forkSigmask = FALSE
    /\ ran = [t \in ForkThreads |-> NotRun]
    /\ child = [t \in Forker |-> NoChild]

ForkGoto(t, at) == forkPc' = [forkPc EXCEPT ![t] = at]
ForkAt(t, at)   == forkPc[t] = at /\ UNCHANGED forkLeft
Lock(t, l)  == owner[l] = NoThread /\ owner' = [owner EXCEPT ![l] = t]
Unlock(l)   == owner' = [owner EXCEPT ![l] = NoThread]
ForkCall(t) ==
    /\ forkPc[t] = "out" /\ forkLeft[t] > 0
    /\ forkLeft' = [forkLeft EXCEPT ![t] = @ - 1]

-----------------------------------------------------------------------------
(* The other threads *)

BeginUpdate(t, l) ==
    /\ ForkCall(t) /\ Lock(t, l)
    /\ half' = half \cup {t}
    /\ ForkGoto(t, l)
    /\ UNCHANGED <<records, retired, handlers, todo, masked, forking, forkSigmask, ran, child>>

\* A detached thread that ends leaves the list and is retired
EndUpdate(t, l) ==
    /\ ForkAt(t, l) /\ Unlock(l)
    /\ half' = half \ {t}
    /\ \/ ForkGoto(t, "out") /\ UNCHANGED <<records, retired>>
       \/ /\ l = "list" /\ records' = records \ {t} /\ retired' = retired \cup {t}
          /\ ForkGoto(t, "ended")
    /\ UNCHANGED <<handlers, todo, masked, forking, forkSigmask, ran, child>>

PthreadAtfork(t) ==
    /\ ForkCall(t) /\ owner["atfork"] = NoThread
    /\ \E h \in Handler \ ToSet(handlers) : handlers' = Append(handlers, h)
    /\ UNCHANGED <<owner, half, records, retired, forkPc, todo, masked, forking, forkSigmask,
                   ran, child>>

-----------------------------------------------------------------------------
(* fork(): before the copy *)

Prepare(t) ==
    /\ ForkCall(t) /\ Lock(t, "atfork")
    /\ todo' = [todo EXCEPT ![t] = Reverse(handlers)]
    /\ ran' = [ran EXCEPT ![t] = NotRun]
    /\ ForkGoto(t, "prepare")
    /\ UNCHANGED <<half, records, retired, handlers, masked, forking, forkSigmask, child>>

\* A handler may allocate, and waits for the heap's lock
RunHandlers(t, phase, next) ==
    /\ ForkAt(t, phase)
    /\ IF todo[t] = <<>>
         THEN Unlock("atfork") /\ ForkGoto(t, next) /\ UNCHANGED <<todo, ran>>
         ELSE /\ owner["heap"] = NoThread
              /\ ran' = [ran EXCEPT ![t][phase] = Append(@, Head(todo[t]))]
              /\ todo' = [todo EXCEPT ![t] = Tail(@)]
              /\ UNCHANGED <<owner, forkPc>>
    /\ UNCHANGED <<half, records, retired, handlers, masked, forking, forkSigmask, child>>

BlockSignals(t) ==
    /\ ForkAt(t, "block")
    /\ masked' = masked \cup {t}
    /\ ForkGoto(t, "list")
    /\ UNCHANGED <<owner, half, records, retired, handlers, todo, forking, forkSigmask, ran, child>>

TakeList(t) ==
    /\ ForkAt(t, "list") /\ t \in Forker /\ Lock(t, "list")
    /\ forkSigmask' = FALSE
    /\ forking' = IF t \in records THEN t ELSE NoThread
    /\ ForkGoto(t, "heap")
    /\ UNCHANGED <<half, records, retired, handlers, todo, masked, ran, child>>

TakeHeap(t) ==
    /\ ForkAt(t, "heap") /\ t \in Forker /\ Lock(t, "heap")
    /\ ForkGoto(t, "fork")
    /\ UNCHANGED <<half, records, retired, handlers, todo, masked, forking, forkSigmask, ran, child>>

Copy(t) ==
    [at |-> "heap", heapLocked |-> owner["heap"] # NoThread, half |-> half # {},
     self |-> forking, records |-> records, retired |-> retired, freed |-> {},
     masked |-> t \in masked, mask |-> forkSigmask, handlers |-> handlers, ran |-> <<>>]

SysFork(t) ==
    /\ ForkAt(t, "fork")
    /\ child' \in {child, [child EXCEPT ![t] = Copy(t)]}
    /\ ForkGoto(t, "copied")
    /\ UNCHANGED <<owner, half, records, retired, handlers, todo, masked, forking, forkSigmask, ran>>

-----------------------------------------------------------------------------
(* fork(): in the parent, also when the copy failed *)

ReleaseHeap(t) ==
    /\ ForkAt(t, "copied")
    /\ IF owner["heap"] = t THEN Unlock("heap") ELSE UNCHANGED owner
    /\ ForkGoto(t, "relist")
    /\ UNCHANGED <<half, records, retired, handlers, todo, masked, forking, forkSigmask, ran, child>>

ReleaseList(t) ==
    /\ ForkAt(t, "relist")
    /\ forking' = NoThread
    /\ Unlock("list")
    /\ ForkGoto(t, IF forkSigmask THEN "handlers" ELSE "unmask")
    /\ UNCHANGED <<half, records, retired, handlers, todo, masked, forkSigmask, ran, child>>

UnblockSignals(t) ==
    /\ ForkAt(t, "unmask")
    /\ masked' = masked \ {t}
    /\ ForkGoto(t, "handlers")
    /\ UNCHANGED <<owner, half, records, retired, handlers, todo, forking, forkSigmask, ran, child>>

ParentHandlers(t) ==
    /\ ForkAt(t, "handlers") /\ Lock(t, "atfork")
    /\ todo' = [todo EXCEPT ![t] = handlers]
    /\ ForkGoto(t, "parent")
    /\ UNCHANGED <<half, records, retired, handlers, masked, forking, forkSigmask, ran, child>>

-----------------------------------------------------------------------------
(* fork(): in the child *)

ChildMoves(t, c) ==
    /\ child' = [child EXCEPT ![t] = c]
    /\ UNCHANGED <<owner, half, records, retired, handlers, forkPc, forkLeft, todo, masked, forking,
                   forkSigmask, ran>>

ChildHeap(t) ==
    /\ child[t].at = "heap"
    /\ ChildMoves(t, [child[t] EXCEPT !.at = "records", !.heapLocked = FALSE])

\* Mutant: the record of the thread itself is freed with the others
ChildRecords_All(t) ==
    /\ child[t].at = "records" /\ ~ child[t].heapLocked
    /\ ChildMoves(t, [child[t] EXCEPT
           !.at = "handlers", !.freed = child[t].records \cup child[t].retired,
           !.records = {t}, !.retired = {}, !.masked = child[t].mask])

\* The records of threads the child does not have are freed, which takes the
\* heap's lock; the thread's own is kept, or it gets one as a main thread does.
ChildRecords(t) ==
    /\ child[t].at = "records" /\ ~ child[t].heapLocked
    /\ ChildMoves(t, [child[t] EXCEPT
           !.at = "handlers",
           !.freed = (child[t].records \ {child[t].self}) \cup child[t].retired,
           !.records = {t}, !.retired = {}, !.masked = child[t].mask])

ChildHandlers(t) ==
    /\ child[t].at = "handlers"
    /\ ChildMoves(t, [child[t] EXCEPT !.at = "done", !.ran = child[t].handlers])

-----------------------------------------------------------------------------
Forking(t) ==
    \/ Prepare(t) \/ RunHandlers(t, "prepare", "block")
    \/ BlockSignals(t) \/ TakeList(t) \/ TakeHeap(t) \/ SysFork(t)
    \/ ReleaseHeap(t) \/ ReleaseList(t) \/ UnblockSignals(t)
    \/ ParentHandlers(t) \/ RunHandlers(t, "parent", "out")
    \/ ChildHeap(t) \/ ChildRecords(t) \/ ChildHandlers(t)

Working(t) ==
    \/ \E l \in {"list", "heap"} : BeginUpdate(t, l) \/ EndUpdate(t, l)
    \/ PthreadAtfork(t)

ForkNext == (\E t \in Forker : Forking(t)) \/ \E t \in Bystander : Working(t)

ForkSpec == ForkInit /\ [][ForkNext]_forkVars

-----------------------------------------------------------------------------
(* Properties *)

ForkWaits(t) ==
    \/ t \in Forker /\ forkPc[t] \in {"list", "heap"} /\ owner[forkPc[t]] # NoThread
    \/ forkPc[t] = "handlers" /\ owner["atfork"] # NoThread
    \/ forkPc[t] \in {"prepare", "parent"} /\ todo[t] # <<>> /\ owner["heap"] # NoThread

\* The child finds the list and the heap between two updates and the heap's lock
\* free when it needs it, its own record and no other, and every other one freed,
\* never its own; what was prepared is undone in the opposite order in both
\* processes; a signal handler never interrupts the thread that holds the list's
\* lock to fork, nor runs in the child before the thread has its record; and the
\* threads never all wait for each other.
ForkSound ==
    /\ \A t \in Forker : child[t].at # "none" =>
          LET c == child[t]
          IN  /\ ~ c.half
              /\ c.at = "records" => ~ c.heapLocked
              /\ c.at \in {"handlers", "done"} =>
                    /\ c.records = {t} /\ c.retired = {}
                    /\ t \notin c.freed
                    /\ ~ c.masked /\ ~ c.heapLocked
              /\ c.masked \/ c.at \in {"handlers", "done"}
              /\ c.at = "done" => IsPrefix(Reverse(ran[t].prepare), c.ran)
    /\ \A t \in Forker : owner["list"] = t => t \in masked
    /\ \A t \in Forker : forkPc[t] = "out" =>
          /\ t \notin masked /\ t \notin {owner[l] : l \in Locks}
          /\ IsPrefix(Reverse(ran[t].prepare), ran[t].parent)
    /\ (\E t \in ForkThreads : forkPc[t] \notin {"out", "ended"}) =>
          \E t \in ForkThreads : forkPc[t] \notin {"out", "ended"} /\ ~ ForkWaits(t)
=============================================================================
