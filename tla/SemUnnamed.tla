----------------------------- MODULE SemUnnamed -----------------------------
(***************************************************************************)
(* Unnamed semaphores, pthread/sem_unnamed.c: a count that goes below zero *)
(* by the number of waiters, and tokens in a pipe, one written by each     *)
(* post that found a waiter counted.                                       *)
(*                                                                         *)
(* Each loop around a compare-and-swap is the one access that ends it.     *)
(* A poster is a thread or a signal handler that interrupted one.  The     *)
(* time is not modelled: a deadline may pass while a Timed thread waits.   *)
(***************************************************************************)
EXTENDS Integers, FiniteSets

CONSTANTS
    PipeTakers, PipePosters,
    PipeTimed,          \* takers whose calls have a deadline, valid or not
    PipeInterrupted,    \* takers that signal handlers may interrupt
    PipeInitials,       \* counts given to sem_init()
    SemValueMax,        \* SEM_VALUE_MAX
    Takes, Posts        \* bounds: calls of each taker and of each poster

ASSUME PipeAssumption ==
    /\ IsFiniteSet(PipeTakers) /\ IsFiniteSet(PipePosters) /\ PipeTakers \cap PipePosters = {}
    /\ PipeTimed \subseteq PipeTakers /\ PipeInterrupted \subseteq PipeTakers
    /\ SemValueMax \in Nat /\ PipeInitials \subseteq 0..SemValueMax
    /\ Takes \in Nat /\ Posts \in Nat

VARIABLES
    value,      \* the count, or minus the number of waiters still counted
    tokens,     \* bytes in the pipe
    pipePc,
    pipeLeft,   \* calls left
    given       \* history: units each taker was given

pipeVars == <<value, tokens, pipePc, pipeLeft, given>>

\* poll, read: in sem_token(); cancel: entering sem_cancel(); lastPoll, lastRead:
\* in sem_token() called by sem_cancel(), without limit
PipeWaits == {"poll", "read", "cancel", "lastPoll", "lastRead"}

PipeTypeOK ==
    /\ value \in -Cardinality(PipeTakers)..SemValueMax
    /\ tokens \in Nat
    /\ pipePc \in [PipeTakers \cup PipePosters -> PipeWaits \cup {"out", "write"}]
    /\ pipeLeft \in [PipeTakers \cup PipePosters -> Nat]
    /\ given \in [PipeTakers -> Nat]

PipeAt(places) == {t \in PipeTakers \cup PipePosters : pipePc[t] \in places}
PipeWaiting == PipeAt(PipeWaits)

PipeGoTo(t, place) == pipePc' = [pipePc EXCEPT ![t] = place]

-----------------------------------------------------------------------------
PipeInit ==
    /\ value \in PipeInitials
    /\ tokens = 0
    /\ pipePc = [t \in PipeTakers \cup PipePosters |-> "out"]
    /\ pipeLeft = [t \in PipeTakers \cup PipePosters |-> IF t \in PipeTakers THEN Takes ELSE Posts]
    /\ given = [t \in PipeTakers |-> 0]

PipeCall(t) ==
    /\ pipePc[t] = "out" /\ pipeLeft[t] > 0
    /\ pipeLeft' = [pipeLeft EXCEPT ![t] = @ - 1]

Given(t) == given' = [given EXCEPT ![t] = @ + 1]

-----------------------------------------------------------------------------
(* _sem_unnamedTake(), _sem_unnamedTryWait() *)

Take(t) ==
    /\ PipeCall(t)
    /\ value' = value - 1
    /\ IF value > 0
         THEN Given(t) /\ UNCHANGED pipePc
         ELSE /\ \E place \in {"poll"} \cup (IF t \in PipeTimed THEN {"cancel"} ELSE {}) :
                     PipeGoTo(t, place)
              /\ UNCHANGED given
    /\ UNCHANGED tokens

TryWait(t) ==
    /\ PipeCall(t)
    /\ IF value > 0
         THEN value' = value - 1 /\ Given(t)
         ELSE UNCHANGED <<value, given>>
    /\ UNCHANGED <<tokens, pipePc>>

-----------------------------------------------------------------------------
(* sem_token() *)

\* poll() reports the token and does not reserve it
Readable(t) ==
    /\ tokens > 0
    /\ \/ pipePc[t] = "poll" /\ PipeGoTo(t, "read")
       \/ pipePc[t] = "lastPoll" /\ PipeGoTo(t, "lastRead")
    /\ UNCHANGED <<value, tokens, pipeLeft, given>>

ReadToken(t) ==
    /\ pipePc[t] \in {"read", "lastRead"} /\ tokens > 0
    /\ tokens' = tokens - 1
    /\ Given(t)
    /\ PipeGoTo(t, "out")
    /\ UNCHANGED <<value, pipeLeft>>

\* Another waiter took it.  A timed wait asks whether time is left.
ReadNothing(t) ==
    /\ tokens = 0
    /\ \/ pipePc[t] = "read" /\ PipeGoTo(t, "poll")
       \/ pipePc[t] = "read" /\ t \in PipeTimed /\ PipeGoTo(t, "cancel")
       \/ pipePc[t] = "lastRead" /\ PipeGoTo(t, "lastPoll")
    /\ UNCHANGED <<value, tokens, pipeLeft, given>>

\* poll() fails: the deadline, or a signal handler
PollFails(t) ==
    /\ pipePc[t] = "poll"
    /\ PipeGoTo(t, "cancel")
    /\ UNCHANGED <<value, tokens, pipeLeft, given>>

-----------------------------------------------------------------------------
(* sem_cancel() *)

\* Mutant: off the count even if a post has counted this waiter
Cancel_Always(t) ==
    /\ pipePc[t] = "cancel"
    /\ value' = value + 1
    /\ PipeGoTo(t, "out")
    /\ UNCHANGED <<tokens, pipeLeft, given>>

Cancel(t) ==
    /\ pipePc[t] = "cancel"
    /\ IF value < 0
         THEN value' = value + 1 /\ PipeGoTo(t, "out")
         ELSE UNCHANGED value /\ PipeGoTo(t, "lastPoll")
    /\ UNCHANGED <<tokens, pipeLeft, given>>

-----------------------------------------------------------------------------
(* _sem_unnamedPost() *)

\* Mutant: a token is sent although nobody waits
Post_TokenAtZero(p) ==
    /\ PipeCall(p)
    /\ IF value = SemValueMax THEN UNCHANGED value ELSE value' = value + 1
    /\ IF value <= 0 THEN PipeGoTo(p, "write") ELSE UNCHANGED pipePc
    /\ UNCHANGED <<tokens, given>>

Post(p) ==
    /\ PipeCall(p)
    /\ IF value = SemValueMax THEN UNCHANGED value ELSE value' = value + 1
    /\ IF value < 0 THEN PipeGoTo(p, "write") ELSE UNCHANGED pipePc
    /\ UNCHANGED <<tokens, given>>

WriteToken(p) ==
    /\ pipePc[p] = "write"
    /\ tokens' = tokens + 1
    /\ PipeGoTo(p, "out")
    /\ UNCHANGED <<value, pipeLeft, given>>

-----------------------------------------------------------------------------
PipeTaking(t) == Take(t) \/ TryWait(t) \/ Readable(t) \/ ReadToken(t) \/ ReadNothing(t) \/ Cancel(t)
PipePosting(p) == Post(p) \/ WriteToken(p)

PipeChance(t) == t \in PipeTimed \cup PipeInterrupted /\ PollFails(t)

\* All calls were made, and whoever still waits waits for a post that never comes
PipeAtRest ==
    /\ \A t \in PipeTakers \cup PipePosters :
          (pipePc[t] = "out" /\ pipeLeft[t] = 0) \/ pipePc[t] \in {"poll", "lastPoll"}
    /\ tokens = 0

PipeFinished == PipeAtRest /\ UNCHANGED pipeVars

PipeNext ==
    \/ \E t \in PipeTakers : PipeTaking(t) \/ PipeChance(t)
    \/ \E p \in PipePosters : PipePosting(p)
    \/ PipeFinished

\* Every runnable thread is scheduled; nobody is owed a deadline or a signal
PipeFairness ==
    /\ \A t \in PipeTakers : WF_pipeVars(PipeTaking(t))
    /\ \A p \in PipePosters : WF_pipeVars(PipePosting(p))

PipeSpec == PipeInit /\ [][PipeNext]_pipeVars

PipeFairSpec == PipeSpec /\ PipeFairness

-----------------------------------------------------------------------------
(* Properties *)

\* Each waiter is either still counted below zero, or the post that took it off
\* has a token for it in the pipe or about to be written.  In particular nothing
\* is on its way when nobody waits, so that the pipe may be closed.
TokensMatch ==
    Cardinality(PipeWaiting) = tokens + Cardinality(PipeAt({"write"})) + (IF value < 0 THEN -value ELSE 0)

\* Units are neither lost nor made up by waiters that give up, and a unit does
\* not lie idle while somebody waits: the count and the tokens, which change
\* separately, are together a counting semaphore.
PipeSemaphore == INSTANCE AbstractSemaphore WITH
    Takers <- PipeTakers, Initials <- PipeInitials,
    count <- value + Cardinality(PipeWaiting), waiting <- PipeWaiting, units <- given

ImplementsUnnamedSemaphore == PipeSemaphore!Spec

\* A waiter whose time has passed, or that was interrupted, comes to an end: it
\* is off the count, or there is a token for it to take (sem_unnamed.c:15).
GivingUpEnds == \A t \in PipeTakers : pipePc[t] = "cancel" ~> pipePc[t] = "out"
=============================================================================
