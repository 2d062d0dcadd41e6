---------------------------- MODULE PthreadRwlock ---------------------------
(***************************************************************************)
(* The read-write lock of pthread/pthread.c: three counters under a kernel *)
(* mutex and two kernel condition variables, with preference to writers.   *)
(*                                                                         *)
(* A section under the mutex is one action; condClockWait() ends one and   *)
(* begins another.  The kernel's condition variables put a thread to sleep *)
(* as they release the mutex, and wake sleepers in no particular order.    *)
(* Callers unlock what they hold.  A call with a deadline is a try, and    *)
(* after it, unless the deadline is past, a wait by a Timed thread.        *)
(***************************************************************************)
EXTENDS Naturals, FiniteSets

CONSTANTS
    RwThreads,
    Readers,        \* those that ask for reading
    Writers,        \* those that ask for writing; one thread may do both
    Timed,          \* those whose waits have a deadline
    Endless,        \* those that never stop calling
    Calls           \* bound: calls each of the others makes

ASSUME RwlockAssumption ==
    /\ Readers \subseteq RwThreads /\ Writers \subseteq RwThreads /\ Timed \subseteq RwThreads
    /\ Endless \subseteq RwThreads
    /\ IsFiniteSet(RwThreads)
    /\ Calls \in [RwThreads -> Nat]

VARIABLES
    readActive, writeActive, writeWaiting,  \* the counters of the lock
    rwPc,
    failed,     \* threads whose condClockWait() returned an error
    rwLeft        \* calls left to those that stop

rwVars == <<readActive, writeActive, writeWaiting, rwPc, failed, rwLeft>>

RwPlaces ==
    {"out", "reading", "writing",
     "onReadCond", "onWriteCond",   \* asleep in condClockWait()
     "readAgain", "writeAgain"}     \* about to run the loop's test again

RwTypeOK ==
    /\ readActive \in Nat /\ writeActive \in Nat /\ writeWaiting \in Nat
    /\ rwPc \in [RwThreads -> RwPlaces]
    /\ failed \subseteq RwThreads
    /\ rwLeft \in [RwThreads -> Nat]

RwAt(places) == {t \in RwThreads : rwPc[t] \in places}

\* The places of all threads after t has gone to one, and the woken have left theirs
RwMoved(t, place, woken, to) ==
    rwPc' = [u \in RwThreads |-> IF u = t THEN place ELSE IF u \in woken THEN to ELSE rwPc[u]]

RwGoTo(t, place) == rwPc' = [rwPc EXCEPT ![t] = place]

-----------------------------------------------------------------------------
RwInit ==
    /\ readActive = 0 /\ writeActive = 0 /\ writeWaiting = 0
    /\ rwPc = [t \in RwThreads |-> "out"]
    /\ failed = {}
    /\ rwLeft = Calls

RwCall(t) ==
    /\ rwPc[t] = "out"
    /\ IF t \in Endless
         THEN UNCHANGED rwLeft
         ELSE rwLeft[t] > 0 /\ rwLeft' = [rwLeft EXCEPT ![t] = @ - 1]

\* Mutant: readers do not stand aside for the writers that wait
CanRead_Barging == writeActive = 0

CanRead == writeActive = 0 /\ writeWaiting = 0

\* Mutant: a writer looks only for other writers
CanWrite_Readers == writeActive = 0

CanWrite == readActive = 0 /\ writeActive = 0

-----------------------------------------------------------------------------
(* pthread_rwlock_rdlock_ex() *)

Reads(t) ==
    /\ readActive' = readActive + 1
    /\ RwGoTo(t, "reading")
    /\ UNCHANGED <<writeActive, writeWaiting, failed>>

\* The lock is free for reading; a try asks no more
RdLock(t) == t \in Readers /\ RwCall(t) /\ CanRead /\ Reads(t)

TryRdBusy(t) ==
    /\ t \in Readers /\ RwCall(t) /\ ~CanRead
    /\ UNCHANGED <<readActive, writeActive, writeWaiting, rwPc, failed>>

RdWait(t) ==
    /\ t \in Readers /\ RwCall(t) /\ ~CanRead
    /\ RwGoTo(t, "onReadCond")
    /\ UNCHANGED <<readActive, writeActive, writeWaiting, failed>>

\* condClockWait() has returned: an error ends the call, else the loop goes on
RdAgain(t) ==
    /\ rwPc[t] = "readAgain"
    /\ \/ /\ t \in failed
          /\ failed' = failed \ {t}
          /\ RwGoTo(t, "out")
          /\ UNCHANGED <<readActive, writeActive, writeWaiting>>
       \/ t \notin failed /\ CanRead /\ Reads(t)
       \/ /\ t \notin failed /\ ~CanRead
          /\ RwGoTo(t, "onReadCond")
          /\ UNCHANGED <<readActive, writeActive, writeWaiting, failed>>
    /\ UNCHANGED rwLeft

-----------------------------------------------------------------------------
(* pthread_rwlock_wrlock_ex() *)

WrLock(t) ==
    /\ t \in Writers /\ RwCall(t) /\ CanWrite
    /\ writeActive' = writeActive + 1
    /\ RwGoTo(t, "writing")
    /\ UNCHANGED <<readActive, writeWaiting, failed>>

TryWrBusy(t) ==
    /\ t \in Writers /\ RwCall(t) /\ ~CanWrite
    /\ UNCHANGED <<readActive, writeActive, writeWaiting, rwPc, failed>>

\* The writer is counted: no new reader passes it
WrWait(t) ==
    /\ t \in Writers /\ RwCall(t) /\ ~CanWrite
    /\ writeWaiting' = writeWaiting + 1
    /\ RwGoTo(t, "onWriteCond")
    /\ UNCHANGED <<readActive, writeActive, failed>>

WrAgain(t) ==
    /\ rwPc[t] = "writeAgain" /\ t \notin failed
    /\ \/ /\ CanWrite
          /\ writeWaiting' = writeWaiting - 1
          /\ writeActive' = writeActive + 1
          /\ RwGoTo(t, "writing")
       \/ /\ ~CanWrite
          /\ RwGoTo(t, "onWriteCond")
          /\ UNCHANGED <<writeActive, writeWaiting>>
    /\ UNCHANGED <<readActive, failed, rwLeft>>

\* Mutant: the readers kept waiting are not woken
WrFails_Silently(t) ==
    /\ rwPc[t] = "writeAgain" /\ t \in failed
    /\ failed' = failed \ {t}
    /\ writeWaiting' = writeWaiting - 1
    /\ RwGoTo(t, "out")
    /\ UNCHANGED <<readActive, writeActive, rwLeft>>

\* The last waiting writer gives up: the readers it kept waiting are woken
WrFails(t) ==
    /\ rwPc[t] = "writeAgain" /\ t \in failed
    /\ failed' = failed \ {t}
    /\ writeWaiting' = writeWaiting - 1
    /\ RwMoved(t, "out",
             IF writeWaiting' = 0 /\ writeActive = 0 THEN RwAt({"onReadCond"}) ELSE {},
             "readAgain")
    /\ UNCHANGED <<readActive, writeActive, rwLeft>>

-----------------------------------------------------------------------------
(* condClockWait() of the kernel fails: a deadline, or a signal handler    *)

WaitFails(t) ==
    /\ rwPc[t] \in {"onReadCond", "onWriteCond"}
    /\ failed' = failed \cup {t}
    /\ RwGoTo(t, IF rwPc[t] = "onReadCond" THEN "readAgain" ELSE "writeAgain")
    /\ UNCHANGED <<readActive, writeActive, writeWaiting, rwLeft>>

-----------------------------------------------------------------------------
(* pthread_rwlock_unlock() *)

\* condSignal(): one sleeper if there is any
OneOf(S) == IF S = {} THEN {{}} ELSE {{t} : t \in S}

UnlockWrite(t) ==
    /\ rwPc[t] = "writing"
    /\ writeActive' = writeActive - 1
    /\ IF writeWaiting > 0
         THEN \E woken \in OneOf(RwAt({"onWriteCond"})) : RwMoved(t, "out", woken, "writeAgain")
         ELSE RwMoved(t, "out", RwAt({"onReadCond"}), "readAgain")
    /\ UNCHANGED <<readActive, writeWaiting, failed, rwLeft>>

UnlockRead(t) ==
    /\ rwPc[t] = "reading"
    /\ readActive' = readActive - 1
    /\ IF readActive = 1 /\ writeWaiting > 0
         THEN \E woken \in OneOf(RwAt({"onWriteCond"})) : RwMoved(t, "out", woken, "writeAgain")
         ELSE RwGoTo(t, "out")
    /\ UNCHANGED <<writeActive, writeWaiting, failed, rwLeft>>

-----------------------------------------------------------------------------
Reading(t) == RdLock(t) \/ TryRdBusy(t) \/ RdWait(t) \/ RdAgain(t)
Writing(t) == WrLock(t) \/ TryWrBusy(t) \/ WrWait(t) \/ WrAgain(t) \/ WrFails(t)
Unlocking(t) == UnlockRead(t) \/ UnlockWrite(t)

RwStep(t) == Reading(t) \/ Writing(t) \/ Unlocking(t)

RwChance(t) == t \in Timed /\ WaitFails(t)

RwNext == \E t \in RwThreads : RwStep(t) \/ RwChance(t)

\* Every runnable thread is scheduled; nobody is owed a deadline or a signal
RwFairness == \A t \in RwThreads : WF_rwVars(RwStep(t))

RwSpec == RwInit /\ [][RwNext]_rwVars

RwFairSpec == RwSpec /\ RwFairness

-----------------------------------------------------------------------------
(* Properties *)

\* The counters are the numbers of threads they stand for, on every way out of
\* a wait: a writer that gave up and stayed counted would shut out readers for
\* good.
RwCountsAgree ==
    /\ readActive = Cardinality(RwAt({"reading"}))
    /\ writeActive = Cardinality(RwAt({"writing"}))
    /\ writeWaiting = Cardinality(RwAt({"onWriteCond", "writeAgain"}))

\* A writer is alone
Exclusion ==
    \A w \in RwAt({"writing"}) : RwAt({"reading", "writing"}) = {w}

\* Nobody sleeps for nothing: a reader sleeps only while a writer is in or
\* waits, a writer only while the lock is taken or a writer is about to try.
NobodyForgotten ==
    /\ RwAt({"onReadCond"}) # {} => ~CanRead
    /\ RwAt({"onWriteCond"}) # {} => ~CanWrite \/ RwAt({"writeAgain"}) # {}

\* Every wait ends without help from deadlines or signals: a release wakes
\* somebody who can use the lock, and readers that come again and again do not
\* keep a writer out, for which a waiting writer is counted.
EveryWaitEnds ==
    \A t \in RwThreads :
        rwPc[t] \in {"onReadCond", "onWriteCond"} ~> rwPc[t] \in {"reading", "writing", "out"}
=============================================================================
