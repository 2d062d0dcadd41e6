------------------------------ MODULE Streams -------------------------------
(***************************************************************************)
(* The list of open streams, stdio/file.c: fopen() and its like, fclose(), *)
(* freopen(), fflush() of one stream and of all, and flockfile(), called   *)
(* by several threads, also with pointers to streams closed already.       *)
(*                                                                         *)
(* Only fflush(NULL) waits for a stream's lock while it holds the list's;  *)
(* every other section under the list's lock is one action, and so is a    *)
(* flush under the stream's.  A thread that holds a stream by flockfile()  *)
(* is taken not to open, close or flush all: it would wait for a walk that *)
(* waits for it.  What a stream holds is module Stream.                    *)
(***************************************************************************)
EXTENDS Naturals, Sequences, FiniteSets, SequencesExt

CONSTANTS StreamThreads, Nobody,
          Object,       \* where a FILE may be
          Std,          \* the FILEs of stdin, stdout and stderr
          Descriptor,   \* descriptors besides theirs
          StreamCalls   \* bound: calls of a thread

ASSUME StreamsAssumption ==
    Std \subseteq Object /\ IsFiniteSet(Std) /\ Nobody \notin StreamThreads

VARIABLES list, listLock,
          lock,         \* the owner of each FILE's lock
          mem,          \* none, alive or freed
          fd,           \* the descriptor of each FILE
          openFds,      \* the descriptors that are open
          streamTask, streamLeft,
          misused       \* history: freed memory or a closed descriptor was used
streamsVars == <<list, listLock, lock, mem, fd, openFds, streamTask, streamLeft, misused>>

NoFd == <<>>            \* -1
Idle == [op |-> "none", at |-> "out"]

StreamsInit ==
    /\ list = SetToSeq(Std)
    /\ listLock = Nobody
    /\ lock = [f \in Object |-> Nobody]
    /\ mem = [f \in Object |-> IF f \in Std THEN "alive" ELSE "none"]
    /\ fd = [f \in Object |-> IF f \in Std THEN <<f>> ELSE NoFd]
    /\ openFds = {<<f>> : f \in Std}
    /\ streamTask = [t \in StreamThreads |-> Idle]
    /\ streamLeft = [t \in StreamThreads |-> StreamCalls]
    /\ misused = FALSE

StreamCall(t) ==
    /\ streamTask[t] = Idle /\ streamLeft[t] > 0
    /\ streamLeft' = [streamLeft EXCEPT ![t] = @ - 1]
StreamGoto(t, op, at, f) == streamTask' = [streamTask EXCEPT ![t] = [op |-> op, at |-> at, f |-> f]]
Return(t) == streamTask' = [streamTask EXCEPT ![t] = Idle]
StreamAt(t, at) == streamTask[t].at = at /\ UNCHANGED streamLeft
Of(t) == streamTask[t].f
Used(f) == {t \in StreamThreads : streamTask[t] # Idle /\ streamTask[t].f = f}

\* The list without one of its streams
Place(f) == CHOOSE i \in DOMAIN list : list[i] = f
Off(f) == IF Contains(list, f) THEN RemoveAt(list, Place(f)) ELSE list

Reopening(f) == {t \in Used(f) : streamTask[t].op = "freopen"}

ListFree    == listLock = Nobody
LockFree(t, f) == lock[f] \in {Nobody, t}
Freed(f)    == mem[f] # "alive"
Wild(bad)   == misused' = (misused \/ bad)
\* An emptied FILE has no buffer, and a flush of it does nothing
Flushed(f)  == Wild(Freed(f) \/ fd[f] \notin openFds \cup {NoFd})

-----------------------------------------------------------------------------
(* fopen(), fdopen(), popen(), _file_openOps() *)

Fopen(t) ==
    /\ StreamCall(t)
    /\ \E d \in Descriptor, f \in Object \ Std :
          /\ <<d>> \notin openFds /\ Freed(f)
          /\ mem' = [mem EXCEPT ![f] = "alive"]
          /\ fd' = [fd EXCEPT ![f] = <<d>>]
          /\ openFds' = openFds \cup {<<d>>}
          /\ StreamGoto(t, "fopen", "add", f)
    /\ UNCHANGED <<list, listLock, lock, misused>>

AddToList(t) ==
    /\ StreamAt(t, "add") /\ ListFree
    /\ list' = Append(list, Of(t))
    /\ Return(t)
    /\ UNCHANGED <<listLock, lock, mem, fd, openFds, misused>>

-----------------------------------------------------------------------------
(* fclose() and pclose(), of any pointer fopen() ever returned *)

\* Mutant: whether the stream is on the list is not asked
Fclose_Twice(t) ==
    /\ StreamCall(t) /\ ListFree
    /\ \E f \in Object :
          /\ mem[f] # "none" /\ Reopening(f) = {}
          /\ list' = Off(f)
          /\ StreamGoto(t, "fclose", "flush", f)
    /\ UNCHANGED <<listLock, lock, mem, fd, openFds, misused>>

\* The stream is taken off the list first: who does not find it goes no further
Fclose(t) ==
    /\ StreamCall(t) /\ ListFree
    /\ \E f \in Object :
          /\ mem[f] # "none" /\ Reopening(f) = {}
          /\ list' = Off(f)
          /\ IF Contains(list, f) THEN StreamGoto(t, "fclose", "flush", f) ELSE UNCHANGED streamTask
    /\ UNCHANGED <<listLock, lock, mem, fd, openFds, misused>>

FlushLast(t) ==
    /\ StreamAt(t, "flush") /\ LockFree(t, Of(t))
    /\ Flushed(Of(t))
    /\ StreamGoto(t, "fclose", "close", Of(t))
    /\ UNCHANGED <<list, listLock, lock, mem, fd, openFds>>

CloseFd(t) ==
    /\ StreamAt(t, "close")
    /\ openFds' = openFds \ {fd[Of(t)]}
    /\ Wild(Freed(Of(t)) \/ fd[Of(t)] \notin openFds \cup {NoFd})
    /\ StreamGoto(t, streamTask[t].op, "release", Of(t))
    /\ UNCHANGED <<list, listLock, lock, mem, fd>>

\* file_release(): the standard streams are emptied, the others freed
Release(t) ==
    /\ StreamAt(t, "release")
    /\ IF Of(t) \in Std THEN UNCHANGED mem ELSE mem' = [mem EXCEPT ![Of(t)] = "freed"]
    /\ fd' = [fd EXCEPT ![Of(t)] = NoFd]
    /\ Wild(Freed(Of(t)))
    /\ Return(t)
    /\ UNCHANGED <<list, listLock, lock, openFds>>

-----------------------------------------------------------------------------
(* freopen(), of a stream nobody else uses at that time *)

Freopen(t) ==
    /\ StreamCall(t)
    /\ \E f \in ToSet(list) :
          /\ Used(f) = {} /\ LockFree(t, f) /\ Flushed(f)
          /\ StreamGoto(t, "freopen", "reopen", f)
    /\ UNCHANGED <<list, listLock, lock, mem, fd, openFds>>

Reopen(t) ==
    /\ StreamAt(t, "reopen")
    /\ LET closed == openFds \ {fd[Of(t)]}
       IN  \/ /\ \E d \in Descriptor :
                    /\ <<d>> \notin closed
                    /\ fd' = [fd EXCEPT ![Of(t)] = <<d>>]
                    /\ openFds' = closed \cup {<<d>>}
              /\ Return(t)
           \/ /\ fd' = [fd EXCEPT ![Of(t)] = NoFd]
              /\ openFds' = closed
              /\ StreamGoto(t, "freopen", "drop", Of(t))
    /\ Wild(fd[Of(t)] \notin openFds)
    /\ UNCHANGED <<list, listLock, lock, mem>>

\* file_free(): the file could not be opened, and the stream is gone
DropConnection(t) ==
    /\ StreamAt(t, "drop") /\ ListFree
    /\ list' = Off(Of(t))
    /\ IF Contains(list, Of(t)) THEN StreamGoto(t, "freopen", "release", Of(t)) ELSE Return(t)
    /\ UNCHANGED <<listLock, lock, mem, fd, openFds, misused>>

-----------------------------------------------------------------------------
(* fflush(NULL), fflush() of a standard stream by a pointer kept, flockfile() *)

FflushAll(t) ==
    /\ StreamCall(t) /\ ListFree
    /\ IF list = <<>> THEN UNCHANGED <<listLock, streamTask>>
       ELSE listLock' = t /\ StreamGoto(t, "fflush", "walk", Head(list))
    /\ UNCHANGED <<list, lock, mem, fd, openFds, misused>>

Visit(t) ==
    /\ StreamAt(t, "walk") /\ LockFree(t, Of(t))
    /\ Flushed(Of(t))
    /\ LET i == Place(Of(t))
       IN  IF i = Len(list) THEN listLock' = Nobody /\ Return(t)
           ELSE StreamGoto(t, "fflush", "walk", list[i + 1]) /\ UNCHANGED listLock
    /\ UNCHANGED <<list, lock, mem, fd, openFds>>

FflushStd(t) ==
    /\ StreamCall(t)
    /\ \E f \in Std : Used(f) = {} /\ LockFree(t, f) /\ Flushed(f)
    /\ UNCHANGED <<list, listLock, lock, mem, fd, openFds, streamTask>>

Flockfile(t) ==
    /\ StreamCall(t)
    /\ \E f \in ToSet(list) :
          /\ lock[f] = Nobody /\ {u \in Used(f) : streamTask[u].op # "fflush"} = {}
          /\ lock' = [lock EXCEPT ![f] = t]
          /\ StreamGoto(t, "hold", "hold", f)
    /\ UNCHANGED <<list, listLock, mem, fd, openFds, misused>>

Funlockfile(t) ==
    /\ StreamAt(t, "hold")
    /\ lock' = [lock EXCEPT ![Of(t)] = Nobody]
    /\ Wild(Freed(Of(t)))
    /\ Return(t)
    /\ UNCHANGED <<list, listLock, mem, fd, openFds>>

StreamsNext == \E t \in StreamThreads :
    \/ Fopen(t) \/ AddToList(t)
    \/ Fclose(t) \/ FlushLast(t) \/ CloseFd(t) \/ Release(t)
    \/ Freopen(t) \/ Reopen(t) \/ DropConnection(t)
    \/ FflushAll(t) \/ Visit(t) \/ FflushStd(t)
    \/ Flockfile(t) \/ Funlockfile(t)

StreamsSpec == StreamsInit /\ [][StreamsNext]_streamsVars

-----------------------------------------------------------------------------
(* Properties *)

Busy(at) == {streamTask[t].f : t \in {u \in StreamThreads : streamTask[u].at \in at}}
StreamWaits(t) ==
    \/ streamTask[t].at \in {"add", "drop"} /\ ~ ListFree
    \/ streamTask[t].at \in {"flush", "walk"} /\ ~ LockFree(t, Of(t))

\* A stream closed twice, by one thread or by two, is closed once: no freed FILE
\* and no closed descriptor is used, not by a walk either; the list holds the
\* FILEs that are alive but for those being opened or closed; the standard ones
\* stay; and the threads never all wait for each other.
StreamsIntact ==
    /\ ~ misused
    /\ IsInjective(list)
    /\ ToSet(list) \cap Busy({"add", "flush", "close", "release"}) = {}
    /\ {f \in Object : mem[f] = "alive"} \ Std
          = (ToSet(list) \cup Busy({"add", "flush", "close", "release"})) \ Std
    /\ \A f \in ToSet(list) : fd[f] \in openFds \/ f \in Busy({"drop"})
    /\ Std \subseteq {f \in Object : mem[f] = "alive"}
    /\ (\E t \in StreamThreads : streamTask[t] # Idle) =>
          \E t \in StreamThreads : streamTask[t] # Idle /\ ~ StreamWaits(t)
=============================================================================
