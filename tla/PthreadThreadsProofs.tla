------------------------ MODULE PthreadThreadsProofs ------------------------
(***************************************************************************)
(* Theorems about PthreadThreads for any number of threads, calls and      *)
(* cleanup handlers: no record or stack is used after it was freed, every  *)
(* reference has one holder, no cleanup handler runs twice, and detached   *)
(* threads are retired unless they are detached too late.                  *)
(***************************************************************************)
EXTENDS PthreadThreads, FiniteSetTheorems, TLAPS

Reaping == {"reapCreate", "reapJoin"}
Joins == {"reapJoin", "join", "joining", "unlist"}
Holding == {"handler", "keys", "kill", "push", "pop"}

Creates(t, x) == pc[t] = "created" /\ obj[t] = x

\* The list's reference to a record has a place
Owned(x) ==
    \/ x \in listed \/ x \in retired
    \/ \E t \in Threads : x \in grabbed[t] \/ Creates(t, x)

\* And only one
Placed ==
    /\ listed \cap retired = {}
    /\ \A t \in Threads : grabbed[t] \cap (listed \cup retired) = {}
    /\ \A t, u \in Threads : t # u => grabbed[t] \cap grabbed[u] = {}
    /\ \A t \in Threads : \A x \in Threads : Creates(t, x) =>
          /\ x \notin listed \cup retired
          /\ \A u \in Threads : x \notin grabbed[u] /\ (Creates(u, x) => u = t)

\* The callers that hold a reference of their own across unlocked callbacks
Holders(x) == {t \in Threads : obj[t] = x /\ pc[t] \in Holding}

Counted ==
    \A x \in Threads :
        /\ refs[x] = (IF Owned(x) THEN 1 ELSE 0) + Cardinality(Holders(x))
        /\ record[x] = "used" <=> refs[x] > 0

\* A thread that was not created has no part in anything
Unborn ==
    \A x \in Threads : record[x] = "none" =>
        kernel[x] = "none" /\ pc[x] = "none" /\ x \notin joiner

\* What a caller is about, from its place
Roles ==
    /\ \A t \in Threads : pc[t] \in {"push", "pop"} => obj[t] = t
    /\ \A t \in Threads : pc[t] = "push" => handlers[t] < MaxHandlers
    /\ \A t \in Threads : pc[t] \notin Reaping => grabbed[t] = {}

\* A thread that is being joined is listed until its one joiner takes it off
JoinedOnce ==
    /\ detached \cap joiner = {}
    /\ \A t \in Threads : pc[t] \in Joins => obj[t] \in listed \cap joiner
    /\ \A t, u \in Threads : pc[t] \in Joins /\ pc[u] \in Joins /\ obj[t] = obj[u] => t = u
    /\ \A t \in Threads : pc[t] \in {"unlist", "unmap"} => kernel[obj[t]] = "joined"

\* Until the kernel is done with a thread its record is owned and its stack mapped
Kept ==
    \A x \in Threads :
        /\ kernel[x] \in {"running", "ghost"} => Owned(x)
        /\ kernel[x] # "joined" => stack[x] # "unmapped"

\* The handlers taken off a thread's list and not yet counted as run
InFlight(x) == {t \in Threads : \/ pc[t] = "handler" /\ obj[t] = x
                                \/ pc[t] = "ownHandler" /\ t = x}

HandlersCounted ==
    \A x \in Threads : ran[x] + handlers[x] + Cardinality(InFlight(x)) <= pushed[x]

IInv == /\ TypeOK /\ Placed /\ Counted /\ Unborn /\ Roles /\ JoinedOnce /\ Kept
        /\ HandlersCounted

-----------------------------------------------------------------------------
(* Counting, and what a move of one caller changes                         *)

LEMMA Counting ==
    ASSUME NEW S \in SUBSET Threads
    PROVE  /\ Cardinality(S) \in Nat
           /\ \A t \in Threads \ S : Cardinality(S \cup {t}) = Cardinality(S) + 1
           /\ \A t \in S : Cardinality(S \ {t}) = Cardinality(S) - 1 /\ Cardinality(S) > 0
<1>1. IsFiniteSet(S) /\ Cardinality(S) \in Nat
    BY ThreadsAssumption, FS_Subset, FS_CardinalityType
<1>2. \A t \in Threads \ S : Cardinality(S \cup {t}) = Cardinality(S) + 1
    BY <1>1, FS_AddElement
<1>3. ASSUME NEW t \in S
      PROVE  Cardinality(S \ {t}) = Cardinality(S) - 1 /\ Cardinality(S) > 0
    <2>1. Cardinality(S \ {t}) = Cardinality(S) - 1
        BY <1>1, FS_RemoveElement
    <2>2. IsFiniteSet(S \ {t})
        BY <1>1, FS_RemoveElement
    <2>3. Cardinality(S \ {t}) \in Nat
        BY <2>2, FS_CardinalityType
    <2>4. QED
        BY <1>1, <2>1, <2>3
<1>4. QED
    BY <1>1, <1>2, <1>3

\* A caller goes on to place q, about thread x
Moves(t, q, x) == pc' = [pc EXCEPT ![t] = q] /\ obj' = [obj EXCEPT ![t] = x]

LEMMA MoveEffect ==
    ASSUME IInv, NEW t \in Threads, NEW q \in Places, NEW x \in Threads, Moves(t, q, x)
    PROVE  /\ \A y \in Threads :
                 Holders(y)' = IF y = x /\ q \in Holding THEN Holders(y) \cup {t} ELSE Holders(y) \ {t}
           /\ \A y \in Threads :
                 InFlight(y)' = IF (q = "handler" /\ y = x) \/ (q = "ownHandler" /\ y = t)
                                THEN InFlight(y) \cup {t} ELSE InFlight(y) \ {t}
           /\ \A u, y \in Threads :
                 Creates(u, y)' <=> IF u = t THEN q = "created" /\ y = x ELSE Creates(u, y)
<1>1. pc \in [Threads -> Places] /\ obj \in [Threads -> Threads]
    BY DEF IInv, TypeOK
<1>2. /\ pc'[t] = q /\ obj'[t] = x
      /\ \A u \in Threads \ {t} : pc'[u] = pc[u] /\ obj'[u] = obj[u]
    BY <1>1 DEF Moves
<1>3. \A y \in Threads :
         Holders(y)' = IF y = x /\ q \in Holding THEN Holders(y) \cup {t} ELSE Holders(y) \ {t}
    BY <1>2 DEF Holders
<1>4. \A y \in Threads :
         InFlight(y)' = IF (q = "handler" /\ y = x) \/ (q = "ownHandler" /\ y = t)
                        THEN InFlight(y) \cup {t} ELSE InFlight(y) \ {t}
    BY <1>2 DEF InFlight
<1>5. \A u, y \in Threads :
         Creates(u, y)' <=> IF u = t THEN q = "created" /\ y = x ELSE Creates(u, y)
    BY <1>2 DEF Creates
<1>6. QED
    BY <1>3, <1>4, <1>5

\* The callers a thread is not: one that runs was born, and is what it is
LEMMA Running ==
    ASSUME IInv, NEW t \in Threads, kernel[t] = "running"
    PROVE  Owned(t) /\ refs[t] \in Nat \ {0} /\ record[t] = "used"
<1>1. Owned(t)
    BY DEF IInv, Kept
<1>2. Holders(t) \subseteq Threads
    BY DEF Holders
<1>3. Cardinality(Holders(t)) \in Nat
    BY <1>2, Counting
<1>4. refs[t] = 1 + Cardinality(Holders(t)) /\ (record[t] = "used" <=> refs[t] > 0)
    BY <1>1 DEF IInv, Counted
<1>5. QED
    BY <1>1, <1>3, <1>4

LEMMA Referred ==
    ASSUME IInv, NEW x \in Threads, Owned(x) \/ \E t \in Threads : t \in Holders(x)
    PROVE  refs[x] \in Nat \ {0} /\ record[x] = "used"
<1>1. Holders(x) \in SUBSET Threads
    BY DEF Holders
<1>2. Cardinality(Holders(x)) \in Nat /\ (Holders(x) # {} => Cardinality(Holders(x)) > 0)
    BY <1>1, Counting
<1>3. /\ refs[x] = (IF Owned(x) THEN 1 ELSE 0) + Cardinality(Holders(x))
      /\ record[x] = "used" <=> refs[x] > 0
    BY DEF IInv, Counted
<1>4. QED
    BY <1>2, <1>3

\* A record nobody has made: its thread owns and holds nothing
LEMMA Nobody ==
    ASSUME IInv, NEW x \in Threads, record[x] = "none"
    PROVE  ~Owned(x) /\ Holders(x) = {} /\ kernel[x] = "none" /\ pc[x] = "none" /\ x \notin joiner
BY Referred DEF IInv, Unborn, Holders

-----------------------------------------------------------------------------
(* Types                                                                   *)

LEMMA CallTyped ==
    ASSUME IInv, NEW t \in Threads, NEW x \in Threads, NEW q \in Places, Call(t, x, q)
    PROVE  /\ Moves(t, q, x) /\ At(t, "out")
           /\ pc' \in [Threads -> Places] /\ obj' \in [Threads -> Threads]
           /\ left' \in [Threads -> Nat]
<1>1. left \in [Threads -> Nat] /\ left[t] > 0 /\ left' = [left EXCEPT ![t] = @ - 1]
    BY DEF Call, IInv, TypeOK
<1>2. left[t] - 1 \in Nat
    BY <1>1
<1>3. left' \in [Threads -> Nat]
    BY <1>1, <1>2
<1>4. QED
    BY <1>3 DEF Call, GoTo, Moves, IInv, TypeOK

LEMMA PutTyped ==
    ASSUME IInv, NEW x \in Threads, refs[x] \in Nat \ {0}, Put(x)
    PROVE  refs' \in [Threads -> Nat] /\ record' \in [Threads -> {"none", "used", "freed"}]
<1>1. refs[x] - 1 \in Nat
    OBVIOUS
<1>2. refs' \in [Threads -> Nat]
    BY <1>1 DEF Put, IInv, TypeOK
<1>3. record' \in [Threads -> {"none", "used", "freed"}]
    BY DEF Put, IInv, TypeOK
<1>4. QED
    BY <1>2, <1>3

LEMMA UnlistTyped ==
    ASSUME IInv, NEW x \in Threads, Unlist(x)
    PROVE  listed' \subseteq Threads /\ handlers' \in [Threads -> 0 .. MaxHandlers]
<1>1. 0 \in 0..MaxHandlers
    BY ThreadsAssumption
<1>2. QED
    BY <1>1 DEF Unlist, IInv, TypeOK

LEMMA ScanTyped ==
    ASSUME IInv, NEW t \in Threads, NEW x \in Threads, Scan(t, x)
    PROVE  pc' \in [Threads -> Places] /\ handlers' \in [Threads -> 0 .. MaxHandlers]
<1>1. handlers[x] \in 0..MaxHandlers /\ handlers \in [Threads -> 0 .. MaxHandlers]
    BY DEF IInv, TypeOK
<1>2. handlers[x] > 0 => handlers[x] - 1 \in 0..MaxHandlers
    BY <1>1, ThreadsAssumption
<1>3. handlers' \in [Threads -> 0 .. MaxHandlers]
    BY <1>1, <1>2 DEF Scan
<1>4. QED
    BY <1>3 DEF Scan, GoTo, IInv, TypeOK, Places

LEMMA CreatingTyped ==
    ASSUME IInv, NEW t \in Threads, Creating(t)
    PROVE  TypeOK'
<1>1. CASE CallCreate(t)
    <2>1. PICK x \in Threads : Call(t, x, "reapCreate")
        BY <1>1 DEF CallCreate
    <2>2. /\ pc' \in [Threads -> Places] /\ obj' \in [Threads -> Threads]
          /\ left' \in [Threads -> Nat]
        BY <2>1, CallTyped DEF Places
    <2>3. QED
        BY <1>1, <2>2 DEF CallCreate, Locked, cancelVars, handlerVars, IInv, TypeOK
<1>2. CASE Reap(t)
    <2>1. PICK x \in grabbed[t] :
             /\ kernel' = [kernel EXCEPT ![x] = "joined"]
             /\ stack' = [stack EXCEPT ![x] = IF @ = "mapped" THEN "unmapped" ELSE @]
             /\ grabbed' = [grabbed EXCEPT ![t] = @ \ {x}]
             /\ Put(x)
        BY <1>2 DEF Reap
    <2>2. x \in Threads
        BY DEF IInv, TypeOK
    <2>3. Owned(x)
        BY DEF Owned
    <2>4. refs' \in [Threads -> Nat] /\ record' \in [Threads -> {"none", "used", "freed"}]
        BY <2>1, <2>2, <2>3, Referred, PutTyped
    <2>5. /\ kernel' \in [Threads -> {"none", "running", "ghost", "joined"}]
          /\ stack' \in [Threads -> {"none", "mapped", "unmapped"}]
          /\ grabbed' \in [Threads -> SUBSET Threads]
        BY <2>1, <2>2 DEF IInv, TypeOK
    <2>6. QED
        BY <1>2, <2>4, <2>5 DEF Reap, Locked, callerVars, cancelVars, handlerVars, IInv, TypeOK
<1>3. CASE Reaped(t)
    BY <1>3 DEF Reaped, GoTo, Places, callerVars, recordVars, cancelVars, handlerVars, IInv, TypeOK
<1>4. CASE BeginThread(t)
    <2>1. /\ kernel' \in [Threads -> {"none", "running", "ghost", "joined"}]
          /\ stack' \in [Threads -> {"none", "mapped", "unmapped"}]
          /\ detached' \subseteq Threads
        BY <1>4 DEF BeginThread, IInv, TypeOK
    <2>2. /\ record' \in [Threads -> {"none", "used", "freed"}] /\ refs' \in [Threads -> Nat]
          /\ pc' \in [Threads -> Places]
        BY <1>4 DEF BeginThread, Places, IInv, TypeOK
    <2>3. QED
        BY <1>4, <2>1, <2>2 DEF BeginThread, callerVars, cancelVars, handlerVars, IInv, TypeOK
<1>5. CASE BeginFails(t)
    BY <1>5 DEF BeginFails, Locked, GoTo, Places, callerVars, recordVars, cancelVars, handlerVars,
                IInv, TypeOK
<1>6. CASE ListAdd(t)
    BY <1>6 DEF ListAdd, GoTo, Places, callerVars, cancelVars, handlerVars, IInv, TypeOK
<1>7. QED
    BY <1>1, <1>2, <1>3, <1>4, <1>5, <1>6 DEF Creating

LEMMA JoiningTyped ==
    ASSUME IInv, NEW t \in Threads, Joining(t)
    PROVE  TypeOK'
<1>1. CASE CallJoin(t)
    <2>1. PICK x \in Threads : Call(t, x, "reapJoin") /\ joiner' = joiner \cup {x}
        BY <1>1 DEF CallJoin
    <2>2. /\ pc' \in [Threads -> Places] /\ obj' \in [Threads -> Threads]
          /\ left' \in [Threads -> Nat] /\ joiner' \subseteq Threads
        BY <2>1, CallTyped DEF Places, IInv, TypeOK
    <2>3. QED
        BY <1>1, <2>2 DEF CallJoin, Locked, cancelVars, handlerVars, IInv, TypeOK
<1>2. CASE JoinCheck(t)
    BY <1>2 DEF JoinCheck, Locked, GoTo, Places, callerVars, recordVars, cancelVars, handlerVars,
                IInv, TypeOK
<1>3. CASE ThreadJoin(t)
    BY <1>3 DEF ThreadJoin, GoTo, Places, callerVars, recordVars, cancelVars, handlerVars,
                IInv, TypeOK
<1>4. CASE JoinUnlist(t)
    <2>1. obj[t] \in Threads /\ Owned(obj[t])
        BY <1>4 DEF JoinUnlist, At, Joins, Owned, IInv, TypeOK, JoinedOnce
    <2>2. refs' \in [Threads -> Nat] /\ record' \in [Threads -> {"none", "used", "freed"}]
        BY <1>4, <2>1, Referred, PutTyped DEF JoinUnlist
    <2>3. listed' \subseteq Threads /\ handlers' \in [Threads -> 0 .. MaxHandlers]
        BY <1>4, <2>1, UnlistTyped DEF JoinUnlist
    <2>4. pc' \in [Threads -> Places]
        BY <1>4 DEF JoinUnlist, GoTo, Places, IInv, TypeOK
    <2>5. QED
        BY <1>4, <2>2, <2>3, <2>4 DEF JoinUnlist, Locked, callerVars, cancelVars, IInv, TypeOK
<1>5. CASE JoinUnmap(t)
    BY <1>5 DEF JoinUnmap, GoTo, Places, callerVars, recordVars, cancelVars, handlerVars,
                IInv, TypeOK
<1>6. QED
    BY <1>1, <1>2, <1>3, <1>4, <1>5 DEF Joining

LEMMA DetachTyped ==
    ASSUME IInv, NEW t \in Threads, Detach(t)
    PROVE  TypeOK'
<1>1. PICK x \in Threads :
         Call(t, x, "out") /\ detached' = IF x \in listed THEN detached \cup {x} ELSE detached
    BY DEF Detach
<1>2. /\ pc' \in [Threads -> Places] /\ obj' \in [Threads -> Threads]
      /\ left' \in [Threads -> Nat] /\ detached' \subseteq Threads
    BY <1>1, CallTyped DEF Places, IInv, TypeOK
<1>3. QED
    BY <1>2 DEF Detach, Locked, recordVars, cancelVars, handlerVars, IInv, TypeOK

LEMMA CancelingTyped ==
    ASSUME IInv, NEW t \in Threads, Canceling(t)
    PROVE  TypeOK'
<1>1. CASE CancelStale(t)
    <2>1. PICK x \in Threads : Call(t, x, "out")
        BY <1>1 DEF CancelStale
    <2>2. /\ pc' \in [Threads -> Places] /\ obj' \in [Threads -> Threads]
          /\ left' \in [Threads -> Nat]
        BY <2>1, CallTyped DEF Places
    <2>3. QED
        BY <1>1, <2>2 DEF CancelStale, Locked, recordVars, cancelVars, handlerVars, IInv, TypeOK
<1>2. CASE Cancel(t)
    <2>1. PICK x \in listed \ {t, main} :
             /\ cancelled' = cancelled \cup {x}
             /\ obj' = [obj EXCEPT ![t] = x]
             /\ IF x \in enabled
                  THEN refs' = [refs EXCEPT ![x] = @ + 1] /\ Scan(t, x)
                  ELSE GoTo(t, "out") /\ UNCHANGED <<refs, handlers>>
        BY <1>2 DEF Cancel
    <2>2. x \in Threads
        BY DEF IInv, TypeOK
    <2>3. pc' \in [Threads -> Places] /\ handlers' \in [Threads -> 0 .. MaxHandlers]
        BY <2>1, <2>2, ScanTyped DEF GoTo, Places, IInv, TypeOK
    <2>4. /\ cancelled' \subseteq Threads /\ obj' \in [Threads -> Threads]
          /\ refs' \in [Threads -> Nat]
        BY <2>1, <2>2 DEF IInv, TypeOK
    <2>5. left' \in [Threads -> Nat]
        <3>1. left \in [Threads -> Nat] /\ left[t] > 0 /\ left' = [left EXCEPT ![t] = @ - 1]
            BY <1>2 DEF Cancel, IInv, TypeOK
        <3>2. left[t] - 1 \in Nat
            BY <3>1
        <3>3. QED
            BY <3>1, <3>2
    <2>6. QED
        BY <1>2, <2>3, <2>4, <2>5 DEF Cancel, Locked, IInv, TypeOK
<1>3. CASE CancelHandler(t)
    <2>1. obj[t] \in Threads
        BY DEF IInv, TypeOK
    <2>2. pc' \in [Threads -> Places] /\ handlers' \in [Threads -> 0 .. MaxHandlers]
        BY <1>3, <2>1, ScanTyped DEF CancelHandler
    <2>3. ran' \in [Threads -> Nat]
        BY <1>3 DEF CancelHandler, IInv, TypeOK
    <2>4. QED
        BY <1>3, <2>2, <2>3 DEF CancelHandler, Locked, callerVars, recordVars, cancelVars, IInv, TypeOK
<1>4. CASE CancelKeys(t)
    BY <1>4 DEF CancelKeys, GoTo, Places, callerVars, recordVars, cancelVars, handlerVars,
                IInv, TypeOK
<1>5. CASE CancelKill(t)
    <2>1. obj[t] \in Threads /\ t \in Holders(obj[t])
        BY <1>5 DEF CancelKill, At, Holders, Holding, IInv, TypeOK
    <2>2. refs' \in [Threads -> Nat] /\ record' \in [Threads -> {"none", "used", "freed"}]
        BY <1>5, <2>1, Referred, PutTyped DEF CancelKill
    <2>3. /\ listed' \subseteq Threads /\ retired' \subseteq Threads
          /\ handlers' \in [Threads -> 0 .. MaxHandlers]
        BY <1>5, <2>1, UnlistTyped DEF CancelKill, Retire, IInv, TypeOK
    <2>4. pc' \in [Threads -> Places] /\ signalled' \subseteq Threads
        BY <1>5, <2>1 DEF CancelKill, GoTo, Places, IInv, TypeOK
    <2>5. QED
        BY <1>5, <2>2, <2>3, <2>4 DEF CancelKill, Locked, callerVars, IInv, TypeOK
<1>6. QED
    BY <1>1, <1>2, <1>3, <1>4, <1>5 DEF Canceling

LEMMA OwnStateTyped ==
    ASSUME IInv, NEW t \in Threads, OwnState(t)
    PROVE  TypeOK'
<1>1. pc' \in [Threads -> Places]
    BY DEF OwnState, CancelSelf, SetCancelState, SetCancelType, TestCancel, Exits, GoTo, Places,
           IInv, TypeOK
<1>2. left' \in [Threads -> Nat]
    <2>1. left \in [Threads -> Nat]
          /\ (left' = left \/ (left[t] > 0 /\ left' = [left EXCEPT ![t] = @ - 1]))
        BY DEF OwnState, CancelSelf, SetCancelState, SetCancelType, TestCancel, callerVars,
               IInv, TypeOK
    <2>2. left[t] > 0 => left[t] - 1 \in Nat
        BY <2>1
    <2>3. QED
        BY <2>1, <2>2
<1>3. enabled' \subseteq Threads /\ async' \subseteq Threads /\ cancelled' \subseteq Threads
    BY ZenonT(60) DEF OwnState, CancelSelf, SetCancelState, SetCancelType, TestCancel, cancelVars,
           IInv, TypeOK
<1>4. UNCHANGED <<kernel, obj, joiner, lock, recordVars, grabbed, stack, detached, signalled,
                  handlerVars>>
    BY DEF OwnState, CancelSelf, SetCancelState, SetCancelType, TestCancel, Locked, callerVars,
           cancelVars
<1>5. QED
    BY <1>1, <1>2, <1>3, <1>4 DEF recordVars, handlerVars, IInv, TypeOK

LEMMA HandlingTyped ==
    ASSUME IInv, NEW t \in Threads, Handling(t)
    PROVE  TypeOK'
<1>1. CASE FindSelf(t)
    <2>1. Call(t, t, "push") \/ Call(t, t, "pop")
        BY <1>1 DEF FindSelf
    <2>2. /\ pc' \in [Threads -> Places] /\ obj' \in [Threads -> Threads]
          /\ left' \in [Threads -> Nat]
        BY <2>1, CallTyped DEF Places
    <2>3. refs' \in [Threads -> Nat]
        BY <1>1 DEF FindSelf, IInv, TypeOK
    <2>4. QED
        BY <1>1, <2>2, <2>3 DEF FindSelf, Locked, cancelVars, handlerVars, IInv, TypeOK
<1>2. CASE CleanupPush(t) \/ CleanupPop(t)
    <2>1. kernel[t] = "running" /\ Put(t)
        BY <1>2 DEF CleanupPush, CleanupPop, At, Runs
    <2>2. refs' \in [Threads -> Nat] /\ record' \in [Threads -> {"none", "used", "freed"}]
        BY <2>1, Running, PutTyped
    <2>3. pc' \in [Threads -> Places]
        BY <1>2 DEF CleanupPush, CleanupPop, GoTo, Places, IInv, TypeOK
    <2>4. handlers' \in [Threads -> 0 .. MaxHandlers]
        <3>1. handlers[t] \in 0..MaxHandlers /\ handlers \in [Threads -> 0 .. MaxHandlers]
            BY DEF IInv, TypeOK
        <3>2. /\ handlers[t] < MaxHandlers => handlers[t] + 1 \in 0..MaxHandlers
              /\ handlers[t] # 0 => handlers[t] - 1 \in 0..MaxHandlers
            BY <3>1, ThreadsAssumption
        <3>3. CleanupPush(t) => handlers[t] < MaxHandlers
            BY DEF CleanupPush, At, IInv, Roles
        <3>4. QED
            BY <1>2, <3>1, <3>2, <3>3 DEF CleanupPush, CleanupPop
    <2>5. pushed' \in [Threads -> Nat] /\ ran' \in [Threads -> Nat]
        BY <1>2 DEF CleanupPush, CleanupPop, IInv, TypeOK
    <2>6. QED
        BY <1>2, <2>2, <2>3, <2>4, <2>5
           DEF CleanupPush, CleanupPop, Locked, callerVars, cancelVars, IInv, TypeOK
<1>3. QED
    BY <1>1, <1>2 DEF Handling

LEMMA ExitingTyped ==
    ASSUME IInv, NEW t \in Threads, Exiting(t) \/ Die(t) \/ EndThread(t)
    PROVE  TypeOK'
<1>1. CASE Exit(t) \/ ExitKeys(t)
    BY <1>1 DEF Exit, ExitKeys, GoTo, Places, callerVars, recordVars, cancelVars, handlerVars,
                IInv, TypeOK
<1>2. CASE ExitCleanup(t)
    <2>1. handlers[t] \in 0..MaxHandlers /\ handlers \in [Threads -> 0 .. MaxHandlers]
        BY DEF IInv, TypeOK
    <2>2. handlers[t] > 0 => handlers[t] - 1 \in 0..MaxHandlers
        BY <2>1, ThreadsAssumption
    <2>3. handlers' \in [Threads -> 0 .. MaxHandlers]
        BY <1>2, <2>1, <2>2 DEF ExitCleanup
    <2>4. pc' \in [Threads -> Places]
        BY <1>2 DEF ExitCleanup, GoTo, Places, IInv, TypeOK
    <2>5. QED
        BY <1>2, <2>3, <2>4 DEF ExitCleanup, Locked, callerVars, recordVars, cancelVars, IInv, TypeOK
<1>3. CASE ExitHandler(t)
    BY <1>3 DEF ExitHandler, GoTo, Places, callerVars, recordVars, cancelVars, IInv, TypeOK
<1>4. CASE ExitFinish(t)
    <2>1. /\ listed' \subseteq Threads /\ retired' \subseteq Threads
          /\ handlers' \in [Threads -> 0 .. MaxHandlers]
        BY <1>4, UnlistTyped DEF ExitFinish, Retire, IInv, TypeOK
    <2>2. pc' \in [Threads -> Places]
        BY <1>4 DEF ExitFinish, GoTo, Places, IInv, TypeOK
    <2>3. QED
        BY <1>4, <2>1, <2>2 DEF ExitFinish, Locked, callerVars, cancelVars, IInv, TypeOK
<1>5. CASE Die(t) \/ EndThread(t)
    BY <1>5 DEF Die, EndThread, callerVars, recordVars, handlerVars, IInv, TypeOK
<1>6. QED
    BY <1>1, <1>2, <1>3, <1>4, <1>5 DEF Exiting

LEMMA StepTyped ==
    ASSUME IInv, NEW t \in Threads, Step(t)
    PROVE  TypeOK'
BY CreatingTyped, JoiningTyped, DetachTyped, CancelingTyped, OwnStateTyped, HandlingTyped,
   ExitingTyped DEF Step

-----------------------------------------------------------------------------
(* Where the list's references are                                         *)

OwnedSame == \A x \in Threads : Owned(x)' <=> Owned(x)

LEMMA PlacesKept ==
    ASSUME IInv, UNCHANGED <<listed, retired, grabbed>>,
           \A u, x \in Threads : Creates(u, x)' <=> Creates(u, x)
    PROVE  Placed' /\ OwnedSame
<1>1. Placed'
    BY DEF IInv, Placed
<1>2. OwnedSame
    BY DEF OwnedSame, Owned
<1>3. QED
    BY <1>1, <1>2

\* Calls made from outside or inside, none of which creates
LEMMA CreatesKept ==
    ASSUME IInv, NEW t \in Threads, pc[t] # "created", NEW q \in Places \ {"created"},
           NEW x \in Threads, Moves(t, q, x)
    PROVE  \A u, y \in Threads : Creates(u, y)' <=> Creates(u, y)
BY MoveEffect DEF Creates

LEMMA GrabPlaced ==
    ASSUME IInv, NEW t \in Threads, CallCreate(t) \/ CallJoin(t)
    PROVE  Placed' /\ OwnedSame
<1>1. PICK x \in Threads, q \in Reaping : Call(t, x, q)
    BY DEF CallCreate, CallJoin, Reaping
<1>2. Moves(t, q, x) /\ At(t, "out") /\ q \in Places \ {"created"}
    BY <1>1, CallTyped DEF Reaping, Places
<1>3. \A u, y \in Threads : Creates(u, y)' <=> Creates(u, y)
    BY <1>2, CreatesKept DEF At
<1>4. /\ listed' = listed /\ retired' = {} /\ grabbed' = [grabbed EXCEPT ![t] = retired]
      /\ grabbed \in [Threads -> SUBSET Threads] /\ grabbed[t] = {}
    BY <1>2 DEF CallCreate, CallJoin, At, Reaping, IInv, TypeOK, Roles
<1>5. /\ grabbed'[t] = retired /\ \A u \in Threads \ {t} : grabbed'[u] = grabbed[u]
    BY <1>4
<1>6. Placed'
    BY <1>3, <1>4, <1>5 DEF IInv, Placed
<1>7. OwnedSame
    <2> SUFFICES ASSUME NEW y \in Threads
                 PROVE  Owned(y)' <=> Owned(y)
        BY DEF OwnedSame
    <2>1. (\E u \in Threads : y \in grabbed'[u]) <=> y \in retired \/ \E u \in Threads : y \in grabbed[u]
        BY <1>4, <1>5
    <2>2. (\E u \in Threads : Creates(u, y)') <=> \E u \in Threads : Creates(u, y)
        BY <1>3
    <2>3. QED
        BY <1>4, <2>1, <2>2 DEF Owned
<1>8. QED
    BY <1>6, <1>7

LEMMA ReapPlaced ==
    ASSUME IInv, NEW t \in Threads, NEW x \in grabbed[t],
           UNCHANGED <<listed, retired, pc, obj>>, grabbed' = [grabbed EXCEPT ![t] = @ \ {x}]
    PROVE  /\ Placed' /\ Owned(x) /\ ~Owned(x)'
           /\ \A y \in Threads \ {x} : Owned(y)' <=> Owned(y)
<1>1. /\ grabbed \in [Threads -> SUBSET Threads] /\ x \in Threads
    BY DEF IInv, TypeOK
<1>2. grabbed'[t] = grabbed[t] \ {x} /\ \A u \in Threads \ {t} : grabbed'[u] = grabbed[u]
    BY <1>1
<1>3. \A u, y \in Threads : Creates(u, y)' <=> Creates(u, y)
    BY DEF Creates
<1>4. Placed'
    BY <1>2, <1>3 DEF IInv, Placed
<1>5. x \notin listed \cup retired /\ \A u \in Threads \ {t} : x \notin grabbed[u]
    BY DEF IInv, Placed
<1>6. \A u \in Threads : ~Creates(u, x)
    BY <1>1 DEF IInv, Placed
<1>7. ~Owned(x)'
    BY <1>1, <1>2, <1>3, <1>5, <1>6 DEF Owned
<1>8. \A y \in Threads \ {x} : Owned(y)' <=> Owned(y)
    <2> SUFFICES ASSUME NEW y \in Threads \ {x}
                 PROVE  Owned(y)' <=> Owned(y)
        OBVIOUS
    <2>1. \A u \in Threads : y \in grabbed'[u] <=> y \in grabbed[u]
        BY <1>2
    <2>2. QED
        BY <1>3, <2>1 DEF Owned
<1>9. QED
    BY <1>4, <1>7, <1>8 DEF Owned

LEMMA BeginPlaced ==
    ASSUME IInv, NEW t \in Threads, BeginThread(t)
    PROVE  /\ Placed' /\ ~Owned(obj[t]) /\ Owned(obj[t])'
           /\ \A y \in Threads \ {obj[t]} : Owned(y)' <=> Owned(y)
<1> DEFINE x == obj[t]
<1>1. /\ x \in Threads /\ record[x] = "none" /\ UNCHANGED <<obj, listed, retired, grabbed>>
      /\ pc' = [pc EXCEPT ![t] = "created", ![x] = "out"] /\ pc \in [Threads -> Places]
      /\ kernel[t] = "running" /\ pc[t] = "create"
    BY DEF BeginThread, callerVars, At, Runs, IInv, TypeOK
<1>2. ~Owned(x) /\ kernel[x] = "none" /\ pc[x] = "none"
    BY <1>1, Nobody
<1>3. /\ t # x /\ pc'[t] = "created" /\ pc'[x] = "out"
      /\ \A u \in Threads \ {t, x} : pc'[u] = pc[u]
    BY <1>1, <1>2
<1>4. \A u, y \in Threads : Creates(u, y)' <=> (Creates(u, y) \/ (u = t /\ y = x))
    BY <1>1, <1>2, <1>3 DEF Creates
<1>5. x \notin listed \cup retired /\ \A u \in Threads : x \notin grabbed[u] /\ ~Creates(u, x)
    BY <1>1, <1>2 DEF Owned
<1>6. Placed'
    BY <1>1, <1>4, <1>5 DEF IInv, Placed
<1>7. Owned(x)'
    BY <1>1, <1>4 DEF Owned
<1>8. \A y \in Threads \ {x} : Owned(y)' <=> Owned(y)
    BY <1>1, <1>4 DEF Owned
<1>9. QED
    BY <1>2, <1>6, <1>7, <1>8

LEMMA ListAddPlaced ==
    ASSUME IInv, NEW t \in Threads, ListAdd(t)
    PROVE  Placed' /\ OwnedSame
<1> DEFINE x == obj[t]
<1>1. /\ x \in Threads /\ UNCHANGED <<obj, retired, grabbed>> /\ listed' = listed \cup {x}
      /\ Moves(t, "out", x) /\ pc[t] = "created"
    BY DEF ListAdd, callerVars, At, GoTo, Moves, IInv, TypeOK
<1>2. \A u, y \in Threads : Creates(u, y)' <=> (Creates(u, y) /\ u # t)
    BY <1>1, MoveEffect DEF Places
<1>3. Creates(t, x)
    BY <1>1 DEF Creates
<1>4. x \notin retired /\ \A u \in Threads : x \notin grabbed[u] /\ (Creates(u, x) => u = t)
    BY <1>1, <1>3 DEF IInv, Placed
<1>5. Placed'
    BY <1>1, <1>2, <1>4 DEF IInv, Placed
<1>6. \A y \in Threads : Creates(t, y) => y = x
    BY DEF Creates
<1>7. OwnedSame
    BY <1>1, <1>2, <1>3, <1>4, <1>6 DEF OwnedSame, Owned
<1>8. QED
    BY <1>5, <1>7

LEMMA UnlistPlaced ==
    ASSUME IInv, NEW t \in Threads, JoinUnlist(t)
    PROVE  /\ Placed' /\ Owned(obj[t]) /\ ~Owned(obj[t])'
           /\ \A y \in Threads \ {obj[t]} : Owned(y)' <=> Owned(y)
<1> DEFINE x == obj[t]
<1>1. /\ x \in Threads /\ UNCHANGED <<obj, retired, grabbed>> /\ listed' = listed \ {x}
      /\ Moves(t, "unmap", x) /\ pc[t] = "unlist"
    BY DEF JoinUnlist, Unlist, callerVars, At, GoTo, Moves, IInv, TypeOK
<1>2. \A u, y \in Threads : Creates(u, y)' <=> Creates(u, y)
    BY <1>1, CreatesKept DEF Places
<1>3. x \in listed
    BY <1>1 DEF Joins, IInv, JoinedOnce
<1>4. x \notin retired /\ \A u \in Threads : x \notin grabbed[u] /\ ~Creates(u, x)
    BY <1>1, <1>3 DEF IInv, Placed
<1>5. Placed'
    BY <1>1, <1>2 DEF IInv, Placed
<1>6. ~Owned(x)'
    BY <1>1, <1>2, <1>4 DEF Owned
<1>7. \A y \in Threads \ {x} : Owned(y)' <=> Owned(y)
    BY <1>1, <1>2 DEF Owned
<1>8. QED
    BY <1>3, <1>5, <1>6, <1>7 DEF Owned

LEMMA RetirePlaced ==
    ASSUME IInv, NEW t \in Threads, pc[t] # "created", NEW q \in Places \ {"created"},
           Moves(t, q, obj[t]), UNCHANGED grabbed, NEW x \in listed, Retire(x)
    PROVE  Placed' /\ OwnedSame
<1>1. obj[t] \in Threads /\ x \in Threads
    BY DEF IInv, TypeOK
<1>2. \A u, y \in Threads : Creates(u, y)' <=> Creates(u, y)
    BY <1>1, CreatesKept
<1>3. listed' = listed \ {x} /\ retired' = retired \cup {x}
    BY DEF Retire, Unlist
<1>4. \A u \in Threads : x \notin grabbed[u] /\ ~Creates(u, x)
    BY <1>1 DEF IInv, Placed
<1>5. Placed'
    BY <1>2, <1>3, <1>4 DEF IInv, Placed
<1>6. OwnedSame
    BY <1>2, <1>3 DEF OwnedSame, Owned
<1>7. QED
    BY <1>5, <1>6

LEMMA SameTask == ASSUME IInv, NEW t \in Threads, NEW q, GoTo(t, q), obj' = obj
                  PROVE  Moves(t, q, obj[t]) /\ obj[t] \in Threads
BY DEF GoTo, Moves, IInv, TypeOK

LEMMA PlacedStep ==
    ASSUME IInv, NEW t \in Threads, Step(t), ~Reap(t), ~BeginThread(t), ~JoinUnlist(t)
    PROVE  Placed' /\ OwnedSame
<1>1. CASE CallCreate(t) \/ CallJoin(t)
    BY <1>1, GrabPlaced
<1>2. CASE ListAdd(t)
    BY <1>2, ListAddPlaced
<1>3. CASE Reaped(t) \/ BeginFails(t)
    BY <1>3, SameTask, CreatesKept, PlacesKept
       DEF Reaped, BeginFails, At, Places, callerVars, recordVars
<1>4. CASE JoinCheck(t) \/ ThreadJoin(t) \/ JoinUnmap(t)
    BY <1>4, SameTask, CreatesKept, PlacesKept
       DEF JoinCheck, ThreadJoin, JoinUnmap, At, Places, callerVars, recordVars
<1>5. CASE Detach(t) \/ CancelStale(t)
    <2>1. PICK x \in Threads : Call(t, x, "out")
        BY <1>5 DEF Detach, CancelStale
    <2>2. Moves(t, "out", x) /\ pc[t] = "out"
        BY <2>1, CallTyped DEF Places, At
    <2>3. UNCHANGED <<listed, retired, grabbed>>
        BY <1>5 DEF Detach, CancelStale, recordVars
    <2>4. QED
        BY <2>2, <2>3, CreatesKept, PlacesKept DEF Places
<1>6. CASE Cancel(t)
    <2>1. /\ UNCHANGED <<listed, retired, grabbed>> /\ pc[t] = "out"
          /\ \E x \in Threads, q \in {"handler", "keys", "out"} : Moves(t, q, x)
        BY <1>6 DEF Cancel, Scan, GoTo, Moves, At, IInv, TypeOK
    <2>2. QED
        BY <2>1, CreatesKept, PlacesKept DEF Places
<1>7. CASE CancelHandler(t) \/ CancelKeys(t)
    BY <1>7, SameTask, CreatesKept, PlacesKept
       DEF CancelHandler, CancelKeys, Scan, At, Places, callerVars, recordVars
<1>8. CASE CancelKill(t)
    <2>1. Moves(t, "out", obj[t]) /\ pc[t] = "kill" /\ UNCHANGED grabbed /\ obj[t] \in Threads
        BY <1>8, SameTask DEF CancelKill, At, callerVars
    <2>2. CASE obj[t] \in listed \cap detached
        BY <1>8, <2>1, <2>2, RetirePlaced DEF CancelKill, Places
    <2>3. CASE obj[t] \notin listed \cap detached
        BY <1>8, <2>1, <2>3, CreatesKept, PlacesKept DEF CancelKill, Places
    <2>4. QED
        BY <2>2, <2>3
<1>9. CASE OwnState(t)
    <2>1. UNCHANGED <<obj, listed, retired, grabbed>> /\ pc[t] = "out"
          /\ (GoTo(t, "cleanup") \/ GoTo(t, "out"))
        BY <1>9 DEF OwnState, CancelSelf, SetCancelState, SetCancelType, TestCancel, Exits, At,
                    callerVars, recordVars
    <2>2. QED
        BY <2>1, SameTask, CreatesKept, PlacesKept DEF Places
<1>10. CASE FindSelf(t)
    <2>1. PICK q \in {"push", "pop"} : Call(t, t, q)
        BY <1>10 DEF FindSelf
    <2>2. Moves(t, q, t) /\ pc[t] = "out" /\ q \in Places \ {"created"}
        BY <2>1, CallTyped DEF Places, At
    <2>3. QED
        BY <1>10, <2>2, CreatesKept, PlacesKept DEF FindSelf
<1>11. CASE CleanupPush(t) \/ CleanupPop(t)
    BY <1>11, SameTask, CreatesKept, PlacesKept DEF CleanupPush, CleanupPop, At, Places, callerVars
<1>12. CASE Exit(t) \/ ExitCleanup(t) \/ ExitHandler(t) \/ ExitKeys(t)
    <2>1. /\ UNCHANGED <<obj, listed, retired, grabbed>> /\ pc[t] # "created"
          /\ \E q \in {"cleanup", "ownKeys", "ownHandler", "finish"} : GoTo(t, q)
        BY <1>12 DEF Exit, ExitCleanup, ExitHandler, ExitKeys, At, callerVars, recordVars
    <2>2. QED
        BY <2>1, SameTask, CreatesKept, PlacesKept DEF Places
<1>13. CASE ExitFinish(t)
    <2>1. Moves(t, "end", obj[t]) /\ pc[t] = "finish" /\ UNCHANGED grabbed /\ obj[t] \in Threads
        BY <1>13, SameTask DEF ExitFinish, At, callerVars
    <2>2. CASE t \in detached \cap listed
        BY <1>13, <2>1, <2>2, RetirePlaced DEF ExitFinish, Places
    <2>3. CASE t \notin detached \cap listed
        BY <1>13, <2>1, <2>3, CreatesKept, PlacesKept DEF ExitFinish, Places
    <2>4. QED
        BY <2>2, <2>3
<1>14. CASE Die(t) \/ EndThread(t)
    <2>1. UNCHANGED <<pc, obj, listed, retired, grabbed>>
        BY <1>14 DEF Die, EndThread, callerVars, recordVars
    <2>2. QED
        BY <2>1, PlacesKept DEF Creates
<1>15. QED
    BY <1>1, <1>2, <1>3, <1>4, <1>5, <1>6, <1>7, <1>8, <1>9, <1>10, <1>11, <1>12, <1>13, <1>14
       DEF Step, Creating, Joining, Canceling, Handling, Exiting

-----------------------------------------------------------------------------
(* The references                                                          *)

HoldersSame == \A x \in Threads : Holders(x)' = Holders(x)

\* The steps that begin or end to hold a reference across a callback
TakesOrPuts(t) == Cancel(t) \/ CancelKill(t) \/ FindSelf(t) \/ CleanupPush(t) \/ CleanupPop(t)

LEMMA HoldersKept ==
    ASSUME IInv, NEW t \in Threads, pc[t] \notin Holding, NEW q \in Places \ Holding,
           NEW x \in Threads, Moves(t, q, x)
    PROVE  HoldersSame
BY MoveEffect DEF HoldersSame, Holders

LEMMA HoldersStep ==
    ASSUME IInv, NEW t \in Threads, Step(t), ~TakesOrPuts(t), ~BeginThread(t)
    PROVE  HoldersSame
<1>1. CASE CallCreate(t) \/ CallJoin(t) \/ Detach(t) \/ CancelStale(t)
    <2>1. PICK x \in Threads, q \in {"reapCreate", "reapJoin", "out"} : Call(t, x, q)
        BY <1>1 DEF CallCreate, CallJoin, Detach, CancelStale
    <2>2. Moves(t, q, x) /\ pc[t] = "out"
        BY <2>1, CallTyped DEF Places, At
    <2>3. QED
        BY <2>2, HoldersKept DEF Places, Holding
<1>2. CASE Reaped(t) \/ BeginFails(t) \/ ListAdd(t)
    BY <1>2, SameTask, HoldersKept DEF Reaped, BeginFails, ListAdd, At, Places, Holding, callerVars
<1>3. CASE JoinCheck(t) \/ ThreadJoin(t) \/ JoinUnlist(t) \/ JoinUnmap(t)
    BY <1>3, SameTask, HoldersKept
       DEF JoinCheck, ThreadJoin, JoinUnlist, JoinUnmap, At, Places, Holding, callerVars
<1>4. CASE CancelHandler(t) \/ CancelKeys(t)
    <2>1. PICK q \in {"handler", "keys", "kill"} : Moves(t, q, obj[t])
        BY <1>4, SameTask DEF CancelHandler, CancelKeys, Scan, callerVars
    <2>2. pc[t] \in Holding /\ q \in Holding /\ q \in Places /\ obj[t] \in Threads
        BY <1>4 DEF CancelHandler, CancelKeys, At, Holding, Places, IInv, TypeOK
    <2>3. QED
        BY <2>1, <2>2, MoveEffect DEF HoldersSame, Holders
<1>5. CASE OwnState(t)
    <2>1. obj' = obj /\ pc[t] = "out" /\ (GoTo(t, "cleanup") \/ GoTo(t, "out"))
        BY <1>5 DEF OwnState, CancelSelf, SetCancelState, SetCancelType, TestCancel, Exits, At,
                    callerVars
    <2>2. QED
        BY <2>1, SameTask, HoldersKept DEF Places, Holding
<1>6. CASE Exiting(t)
    <2>1. /\ obj' = obj /\ pc[t] \notin Holding
          /\ \E q \in {"cleanup", "ownKeys", "ownHandler", "finish", "end"} : GoTo(t, q)
        BY <1>6 DEF Exiting, Exit, ExitCleanup, ExitHandler, ExitKeys, ExitFinish, At, callerVars, Holding
    <2>2. QED
        BY <2>1, SameTask, HoldersKept DEF Places, Holding
<1>7. CASE Reap(t) \/ Die(t) \/ EndThread(t)
    BY <1>7 DEF Reap, Die, EndThread, callerVars, HoldersSame, Holders
<1>8. QED
    BY <1>1, <1>2, <1>3, <1>4, <1>5, <1>6, <1>7
       DEF Step, Creating, Joining, Canceling, Handling, TakesOrPuts

LEMMA RefsKept ==
    ASSUME NEW t \in Threads, Step(t), ~TakesOrPuts(t), ~Reap(t), ~BeginThread(t), ~JoinUnlist(t)
    PROVE  UNCHANGED <<refs, record>>
<1>1. CASE Creating(t)
    BY <1>1 DEF Creating, CallCreate, Reaped, BeginFails, ListAdd, recordVars
<1>2. CASE Joining(t) \/ Detach(t)
    BY <1>2 DEF Joining, CallJoin, JoinCheck, ThreadJoin, JoinUnmap, Detach, recordVars
<1>3. CASE Canceling(t)
    BY <1>3 DEF Canceling, TakesOrPuts, CancelStale, CancelHandler, CancelKeys, recordVars
<1>4. CASE OwnState(t)
    BY <1>4 DEF OwnState, CancelSelf, SetCancelState, SetCancelType, TestCancel, recordVars
<1>5. CASE Exiting(t) \/ Die(t) \/ EndThread(t)
    BY <1>5 DEF Exiting, Exit, ExitCleanup, ExitHandler, ExitKeys, ExitFinish, Die, EndThread, recordVars
<1>6. QED
    BY <1>1, <1>2, <1>3, <1>4, <1>5 DEF Step, Handling, TakesOrPuts

\* The place of the list's reference is given up with it
LEMMA PutOwner ==
    ASSUME IInv, NEW x \in Threads, Put(x), Owned(x), ~Owned(x)',
           \A y \in Threads \ {x} : Owned(y)' <=> Owned(y), HoldersSame
    PROVE  Counted'
<1>1. refs[x] \in Nat \ {0} /\ record[x] = "used"
    BY Referred
<1>2. /\ refs' = [refs EXCEPT ![x] = @ - 1] /\ refs \in [Threads -> Nat]
      /\ record' = [record EXCEPT ![x] = IF refs[x] = 1 THEN "freed" ELSE @]
      /\ record \in [Threads -> {"none", "used", "freed"}]
    BY DEF Put, IInv, TypeOK
<1>3. refs[x] = 1 + Cardinality(Holders(x)) /\ Cardinality(Holders(x)) \in Nat
    BY Counting DEF IInv, Counted, Holders
<1>4. /\ refs'[x] = Cardinality(Holders(x)') /\ (record'[x] = "used" <=> refs'[x] > 0)
    BY <1>1, <1>2, <1>3 DEF HoldersSame
<1>5. \A y \in Threads \ {x} : refs'[y] = refs[y] /\ record'[y] = record[y]
    BY <1>2
<1>6. \A y \in Threads \ {x} :
         /\ refs'[y] = (IF Owned(y)' THEN 1 ELSE 0) + Cardinality(Holders(y)')
         /\ record'[y] = "used" <=> refs'[y] > 0
    BY <1>5 DEF HoldersSame, IInv, Counted
<1>7. refs'[x] = (IF Owned(x)' THEN 1 ELSE 0) + Cardinality(Holders(x)')
    BY <1>3, <1>4 DEF HoldersSame
<1>8. QED
    BY <1>4, <1>6, <1>7 DEF Counted

\* So is a reference held across callbacks
LEMMA PutHolder ==
    ASSUME IInv, NEW x \in Threads, NEW t \in Holders(x), Put(x), OwnedSame,
           Holders(x)' = Holders(x) \ {t},
           \A y \in Threads \ {x} : Holders(y)' = Holders(y)
    PROVE  Counted'
<1>1. refs[x] \in Nat \ {0} /\ record[x] = "used" /\ t \in Threads
    BY Referred DEF Holders
<1>2. /\ refs' = [refs EXCEPT ![x] = @ - 1] /\ refs \in [Threads -> Nat]
      /\ record' = [record EXCEPT ![x] = IF refs[x] = 1 THEN "freed" ELSE @]
      /\ record \in [Threads -> {"none", "used", "freed"}]
    BY DEF Put, IInv, TypeOK
<1>3. /\ refs[x] = (IF Owned(x) THEN 1 ELSE 0) + Cardinality(Holders(x))
      /\ Cardinality(Holders(x)) \in Nat /\ Cardinality(Holders(x)) > 0
      /\ Cardinality(Holders(x)') = Cardinality(Holders(x)) - 1
    BY Counting DEF IInv, Counted, Holders
<1>4. /\ refs'[x] = (IF Owned(x)' THEN 1 ELSE 0) + Cardinality(Holders(x)')
      /\ record'[x] = "used" <=> refs'[x] > 0
    BY <1>1, <1>2, <1>3 DEF OwnedSame
<1>5. \A y \in Threads \ {x} : refs'[y] = refs[y] /\ record'[y] = record[y]
    BY <1>2
<1>6. \A y \in Threads \ {x} :
         /\ refs'[y] = (IF Owned(y)' THEN 1 ELSE 0) + Cardinality(Holders(y)')
         /\ record'[y] = "used" <=> refs'[y] > 0
    BY <1>5 DEF OwnedSame, IInv, Counted
<1>7. QED
    BY <1>4, <1>6 DEF Counted

LEMMA TakeHolder ==
    ASSUME IInv, NEW x \in Threads, NEW t \in Threads \ Holders(x), Owned(x), OwnedSame,
           refs' = [refs EXCEPT ![x] = @ + 1], record' = record,
           Holders(x)' = Holders(x) \cup {t},
           \A y \in Threads \ {x} : Holders(y)' = Holders(y)
    PROVE  Counted'
<1>1. refs[x] \in Nat \ {0} /\ record[x] = "used"
    BY Referred
<1>2. refs'[x] = refs[x] + 1 /\ \A y \in Threads \ {x} : refs'[y] = refs[y]
    BY DEF IInv, TypeOK
<1>3. /\ refs[x] = (IF Owned(x) THEN 1 ELSE 0) + Cardinality(Holders(x))
      /\ Cardinality(Holders(x)) \in Nat
      /\ Cardinality(Holders(x)') = Cardinality(Holders(x)) + 1
    BY Counting DEF IInv, Counted, Holders
<1>4. /\ refs'[x] = (IF Owned(x)' THEN 1 ELSE 0) + Cardinality(Holders(x)')
      /\ record'[x] = "used" <=> refs'[x] > 0
    BY <1>1, <1>2, <1>3 DEF OwnedSame
<1>5. \A y \in Threads \ {x} :
         /\ refs'[y] = (IF Owned(y)' THEN 1 ELSE 0) + Cardinality(Holders(y)')
         /\ record'[y] = "used" <=> refs'[y] > 0
    BY <1>2 DEF OwnedSame, IInv, Counted
<1>6. QED
    BY <1>4, <1>5 DEF Counted

LEMMA BeginCounted ==
    ASSUME IInv, NEW t \in Threads, BeginThread(t)
    PROVE  Counted' /\ HoldersSame
<1> DEFINE x == obj[t]
<1>1. /\ x \in Threads /\ record[x] = "none" /\ obj' = obj
      /\ pc' = [pc EXCEPT ![t] = "created", ![x] = "out"] /\ pc \in [Threads -> Places]
      /\ record' = [record EXCEPT ![x] = "used"] /\ refs' = [refs EXCEPT ![x] = 1]
      /\ record \in [Threads -> {"none", "used", "freed"}] /\ refs \in [Threads -> Nat]
      /\ pc[t] = "create"
    BY DEF BeginThread, callerVars, At, IInv, TypeOK
<1>2. Holders(x) = {} /\ pc[x] = "none"
    BY <1>1, Nobody
<1>3. /\ pc'[t] \notin Holding /\ pc[t] \notin Holding /\ pc'[x] \notin Holding /\ pc[x] \notin Holding
      /\ \A u \in Threads \ {t, x} : pc'[u] = pc[u]
    BY <1>1, <1>2 DEF Holding
<1>4. \A y \in Threads : Holders(y)' = Holders(y)
    BY <1>1, <1>3 DEF Holders
<1>5. Owned(x)' /\ \A y \in Threads \ {x} : Owned(y)' <=> Owned(y)
    BY BeginPlaced
<1>6. Cardinality(Holders(x)') = 0
    BY <1>1, <1>2, <1>4, FS_EmptySet
<1>7. /\ refs'[x] = (IF Owned(x)' THEN 1 ELSE 0) + Cardinality(Holders(x)')
      /\ record'[x] = "used" <=> refs'[x] > 0
    BY <1>1, <1>5, <1>6
<1>8. \A y \in Threads \ {x} :
         /\ refs'[y] = (IF Owned(y)' THEN 1 ELSE 0) + Cardinality(Holders(y)')
         /\ record'[y] = "used" <=> refs'[y] > 0
    BY <1>1, <1>4, <1>5 DEF IInv, Counted
<1>9. QED
    BY <1>1, <1>4, <1>7, <1>8 DEF Counted, HoldersSame

LEMMA CountedStep ==
    ASSUME IInv, NEW t \in Threads, Step(t)
    PROVE  Placed' /\ Counted'
<1>1. CASE BeginThread(t)
    BY <1>1, BeginPlaced, BeginCounted
<1>2. CASE Reap(t)
    <2>1. PICK x \in grabbed[t] : grabbed' = [grabbed EXCEPT ![t] = @ \ {x}] /\ Put(x)
        BY <1>2 DEF Reap
    <2>2. UNCHANGED <<listed, retired, pc, obj>> /\ x \in Threads
        BY <1>2 DEF Reap, callerVars, IInv, TypeOK
    <2>3. /\ Placed' /\ Owned(x) /\ ~Owned(x)'
          /\ \A y \in Threads \ {x} : Owned(y)' <=> Owned(y)
        BY <2>1, <2>2, ReapPlaced
    <2>4. HoldersSame
        BY <2>2 DEF HoldersSame, Holders
    <2>5. QED
        BY <2>1, <2>2, <2>3, <2>4, PutOwner
<1>3. CASE JoinUnlist(t)
    <2>1. /\ Placed' /\ Owned(obj[t]) /\ ~Owned(obj[t])'
          /\ \A y \in Threads \ {obj[t]} : Owned(y)' <=> Owned(y)
        BY <1>3, UnlistPlaced
    <2>2. obj[t] \in Threads /\ Put(obj[t]) /\ GoTo(t, "unmap") /\ obj' = obj /\ pc[t] = "unlist"
        BY <1>3 DEF JoinUnlist, callerVars, At, IInv, TypeOK
    <2>3. HoldersSame
        BY <2>2, SameTask, HoldersKept DEF Places, Holding
    <2>4. QED
        BY <2>1, <2>2, <2>3, PutOwner
<1>4. CASE Cancel(t)
    <2>1. Placed' /\ OwnedSame
        BY <1>4, PlacedStep DEF Reap, BeginThread, JoinUnlist, Cancel, At
    <2>2. PICK x \in listed \ {t, main} :
             /\ obj' = [obj EXCEPT ![t] = x]
             /\ IF x \in enabled
                  THEN refs' = [refs EXCEPT ![x] = @ + 1] /\ Scan(t, x)
                  ELSE GoTo(t, "out") /\ UNCHANGED <<refs, handlers>>
        BY <1>4 DEF Cancel
    <2>3. x \in Threads /\ Owned(x) /\ pc[t] = "out" /\ record' = record
        BY <1>4 DEF Cancel, At, Owned, IInv, TypeOK
    <2>4. CASE x \in enabled
        <3>1. PICK q \in {"handler", "keys"} : Moves(t, q, x)
            BY <2>2, <2>4 DEF Scan, GoTo, Moves
        <3>2. \A y \in Threads :
                 /\ t \notin Holders(y)
                 /\ Holders(y)' = IF y = x THEN Holders(y) \cup {t} ELSE Holders(y) \ {t}
            BY <2>3, <3>1, MoveEffect DEF Places, Holding, Holders
        <3>3. \A y \in Threads \ {x} : Holders(y)' = Holders(y)
            BY <3>2
        <3>4. QED
            BY <2>1, <2>2, <2>3, <2>4, <3>2, <3>3, TakeHolder
    <2>5. CASE x \notin enabled
        <3>1. Moves(t, "out", x) /\ refs' = refs
            BY <2>2, <2>5 DEF GoTo, Moves
        <3>2. HoldersSame
            BY <2>3, <3>1, HoldersKept DEF Places, Holding
        <3>3. QED
            BY <2>1, <2>3, <3>1, <3>2 DEF IInv, Counted, OwnedSame, HoldersSame
    <2>6. QED
        BY <2>4, <2>5
<1>5. CASE FindSelf(t)
    <2>1. Placed' /\ OwnedSame
        BY <1>5, PlacedStep DEF Reap, BeginThread, JoinUnlist, FindSelf, Call, At
    <2>2. PICK q \in {"push", "pop"} : Call(t, t, q)
        BY <1>5 DEF FindSelf
    <2>3. Moves(t, q, t) /\ pc[t] = "out"
        BY <2>2, CallTyped DEF Places, At
    <2>4. \A y \in Threads :
             /\ t \notin Holders(y)
             /\ Holders(y)' = IF y = t THEN Holders(y) \cup {t} ELSE Holders(y) \ {t}
        BY <2>3, MoveEffect DEF Places, Holding, Holders
    <2>5. \A y \in Threads \ {t} : Holders(y)' = Holders(y)
        BY <2>4
    <2>6. Owned(t)
        BY <1>5 DEF FindSelf, Owned
    <2>7. QED
        BY <1>5, <2>1, <2>4, <2>5, <2>6, TakeHolder DEF FindSelf
<1>6. CASE CancelKill(t) \/ CleanupPush(t) \/ CleanupPop(t)
    <2> DEFINE x == obj[t]
    <2>1. Placed' /\ OwnedSame
        BY <1>6, PlacedStep DEF Reap, BeginThread, JoinUnlist, CancelKill, CleanupPush, CleanupPop, At
    <2>2. x \in Threads /\ Put(x) /\ Moves(t, "out", x) /\ t \in Holders(x)
        BY <1>6, SameTask
           DEF CancelKill, CleanupPush, CleanupPop, At, callerVars, Holders, Holding, IInv, Roles
    <2>3. \A y \in Threads : Holders(y)' = Holders(y) \ {t}
        BY <2>2, MoveEffect DEF Places, Holding
    <2>4. \A y \in Threads \ {x} : Holders(y)' = Holders(y)
        BY <2>3 DEF Holders
    <2>5. QED
        BY <2>1, <2>2, <2>3, <2>4, PutHolder
<1>7. CASE ~(Reap(t) \/ BeginThread(t) \/ JoinUnlist(t) \/ TakesOrPuts(t))
    <2>1. Placed' /\ OwnedSame /\ HoldersSame /\ UNCHANGED <<refs, record>>
        BY <1>7, PlacedStep, HoldersStep, RefsKept
    <2>2. QED
        BY <2>1 DEF IInv, Counted, OwnedSame, HoldersSame
<1>8. QED
    BY <1>1, <1>2, <1>3, <1>4, <1>5, <1>6, <1>7 DEF TakesOrPuts

-----------------------------------------------------------------------------
(* What a step leaves alone                                                *)

\* A thread that takes a step runs, and moves nobody else but one it creates
LEMMA OthersStay ==
    ASSUME IInv, NEW t \in Threads, Step(t)
    PROVE  /\ kernel[t] = "running"
           /\ \A u \in Threads \ {t} :
                 /\ obj'[u] = obj[u]
                 /\ pc'[u] = pc[u] \/ (BeginThread(t) /\ u = obj[t])
<1>1. pc \in [Threads -> Places] /\ obj \in [Threads -> Threads]
    BY DEF IInv, TypeOK
<1>2. ASSUME NEW q, NEW x, pc' = [pc EXCEPT ![t] = q], obj' = obj \/ obj' = [obj EXCEPT ![t] = x]
      PROVE  \A u \in Threads \ {t} : pc'[u] = pc[u] /\ obj'[u] = obj[u]
    BY <1>1, <1>2
<1>3. CASE CallCreate(t) \/ CallJoin(t) \/ Detach(t) \/ CancelStale(t) \/ FindSelf(t)
    <2>1. PICK x \in Threads, q \in Places : Call(t, x, q)
        BY <1>3 DEF CallCreate, CallJoin, Detach, CancelStale, FindSelf, Places
    <2>2. QED
        BY <1>2, <2>1, CallTyped DEF Moves, At, Runs
<1>4. CASE Reaped(t) \/ BeginFails(t) \/ ListAdd(t) \/ Reap(t)
    BY <1>1, <1>2, <1>4 DEF Reaped, BeginFails, ListAdd, Reap, GoTo, At, Runs, callerVars
<1>5. CASE BeginThread(t)
    BY <1>1, <1>5 DEF BeginThread, At, Runs, callerVars
<1>6. CASE JoinCheck(t) \/ ThreadJoin(t) \/ JoinUnlist(t) \/ JoinUnmap(t)
    BY <1>2, <1>6 DEF JoinCheck, ThreadJoin, JoinUnlist, JoinUnmap, GoTo, At, Runs, callerVars
<1>7. CASE Cancel(t)
    BY <1>2, <1>7 DEF Cancel, Scan, GoTo, At, Runs
<1>8. CASE CancelHandler(t) \/ CancelKeys(t) \/ CancelKill(t)
    BY <1>2, <1>8 DEF CancelHandler, CancelKeys, CancelKill, Scan, GoTo, At, Runs, callerVars
<1>9. CASE OwnState(t)
    BY <1>2, <1>9
       DEF OwnState, CancelSelf, SetCancelState, SetCancelType, TestCancel, Exits, GoTo, At, Runs,
           callerVars
<1>10. CASE CleanupPush(t) \/ CleanupPop(t)
    BY <1>2, <1>10 DEF CleanupPush, CleanupPop, GoTo, At, Runs, callerVars
<1>11. CASE Exiting(t)
    BY <1>2, <1>11
       DEF Exiting, Exit, ExitCleanup, ExitHandler, ExitKeys, ExitFinish, GoTo, At, Runs, callerVars
<1>12. CASE Die(t) \/ EndThread(t)
    BY <1>1, <1>12 DEF Die, EndThread, callerVars
<1>13. QED
    BY <1>3, <1>4, <1>5, <1>6, <1>7, <1>8, <1>9, <1>10, <1>11, <1>12
       DEF Step, Creating, Joining, Canceling, Handling

LEMMA KernelFrame ==
    ASSUME NEW t \in Threads, Step(t)
    PROVE  \/ Reap(t) \/ BeginThread(t) \/ ThreadJoin(t) \/ Die(t) \/ EndThread(t)
           \/ kernel' = kernel /\ (stack' = stack \/ JoinUnmap(t))
<1>1. CASE Creating(t)
    BY <1>1 DEF Creating, CallCreate, Reaped, BeginFails, ListAdd
<1>2. CASE Joining(t) \/ Detach(t)
    BY <1>2 DEF Joining, CallJoin, JoinCheck, JoinUnlist, JoinUnmap, Detach
<1>3. CASE Canceling(t)
    BY <1>3 DEF Canceling, Cancel, CancelStale, CancelHandler, CancelKeys, CancelKill
<1>4. CASE OwnState(t) \/ Handling(t)
    BY <1>4 DEF OwnState, CancelSelf, SetCancelState, SetCancelType, TestCancel, Handling, FindSelf,
                CleanupPush, CleanupPop
<1>5. CASE Exiting(t)
    BY <1>5 DEF Exiting, Exit, ExitCleanup, ExitHandler, ExitKeys, ExitFinish
<1>6. QED
    BY <1>1, <1>2, <1>3, <1>4, <1>5 DEF Step

LEMMA JoinFrame ==
    ASSUME NEW t \in Threads, Step(t)
    PROVE  /\ joiner' = joiner \/ CallJoin(t)
           /\ detached' = detached \/ Detach(t) \/ BeginThread(t)
           /\ grabbed' = grabbed \/ CallCreate(t) \/ CallJoin(t) \/ Reap(t)
           /\ listed \subseteq listed' \/ JoinUnlist(t)
              \/ \E x \in listed \cap detached : Retire(x)
<1>1. CASE Creating(t)
    BY <1>1 DEF Creating, CallCreate, Reap, Reaped, BeginThread, BeginFails, ListAdd, callerVars, recordVars
<1>2. CASE Joining(t) \/ Detach(t)
    BY <1>2 DEF Joining, CallJoin, JoinCheck, ThreadJoin, JoinUnmap, JoinUnlist, Detach, callerVars,
                recordVars
<1>3. CASE Cancel(t) \/ CancelStale(t) \/ CancelHandler(t) \/ CancelKeys(t)
    BY <1>3 DEF Cancel, CancelStale, CancelHandler, CancelKeys, callerVars, recordVars
<1>4. CASE CancelKill(t)
    BY <1>4 DEF CancelKill, callerVars
<1>5. CASE OwnState(t) \/ Handling(t)
    BY <1>5 DEF OwnState, CancelSelf, SetCancelState, SetCancelType, TestCancel, Handling, FindSelf,
                CleanupPush, CleanupPop, callerVars, recordVars
<1>6. CASE Exit(t) \/ ExitCleanup(t) \/ ExitHandler(t) \/ ExitKeys(t) \/ Die(t) \/ EndThread(t)
    BY <1>6 DEF Exit, ExitCleanup, ExitHandler, ExitKeys, Die, EndThread, callerVars, recordVars
<1>7. CASE ExitFinish(t)
    BY <1>7 DEF ExitFinish, callerVars
<1>8. QED
    BY <1>1, <1>2, <1>3, <1>4, <1>5, <1>6, <1>7 DEF Step, Canceling, Exiting

-----------------------------------------------------------------------------
(* Births and ends                                                         *)

LEMMA UnbornStep ==
    ASSUME IInv, NEW t \in Threads, Step(t)
    PROVE  Unborn'
<1> SUFFICES ASSUME NEW x \in Threads, record'[x] = "none"
             PROVE  kernel'[x] = "none" /\ pc'[x] = "none" /\ x \notin joiner'
    BY DEF Unborn
<1>1. /\ record \in [Threads -> {"none", "used", "freed"}]
      /\ kernel \in [Threads -> {"none", "running", "ghost", "joined"}]
    BY DEF IInv, TypeOK
<1>2. record[x] = "none" /\ ~(BeginThread(t) /\ x = obj[t])
    <2>1. ASSUME NEW y \in Threads, Put(y)
          PROVE  record[x] = "none"
        BY <1>1, <2>1 DEF Put
    <2>2. CASE BeginThread(t)
        <3>1. record' = [record EXCEPT ![obj[t]] = "used"]
            BY <2>2 DEF BeginThread
        <3>2. x # obj[t]
            BY <1>1, <3>1
        <3>3. QED
            BY <1>1, <3>1, <3>2
    <2>3. CASE ~BeginThread(t)
        <3>1. CASE record' = record
            BY <2>3, <3>1
        <3>2. CASE Reap(t)
            BY <2>1, <2>3, <3>2 DEF Reap, IInv, TypeOK
        <3>3. CASE JoinUnlist(t) \/ CancelKill(t) \/ CleanupPush(t) \/ CleanupPop(t)
            BY <2>1, <2>3, <3>3 DEF JoinUnlist, CancelKill, CleanupPush, CleanupPop, IInv, TypeOK
        <3>4. CASE Cancel(t) \/ FindSelf(t)
            BY <2>3, <3>4 DEF Cancel, FindSelf
        <3>5. QED
            BY <2>3, <3>1, <3>2, <3>3, <3>4, RefsKept DEF TakesOrPuts
    <2>4. QED
        BY <2>2, <2>3
<1>3. kernel[x] = "none" /\ pc[x] = "none" /\ x \notin joiner /\ ~Owned(x)
    BY <1>2, Nobody
<1>4. kernel[t] = "running" /\ x # t
    BY <1>3, OthersStay
<1>5. pc'[x] = "none"
    BY <1>2, <1>3, <1>4, OthersStay
<1>6. kernel'[x] = "none"
    <2>1. CASE BeginThread(t)
        BY <1>1, <1>2, <1>3, <2>1 DEF BeginThread
    <2>2. CASE Reap(t)
        BY <1>1, <1>3, <2>2 DEF Reap
    <2>3. CASE ThreadJoin(t)
        BY <1>1, <1>3, <2>3 DEF ThreadJoin
    <2>4. CASE Die(t) \/ EndThread(t)
        BY <1>1, <1>3, <1>4, <2>4 DEF Die, EndThread
    <2>5. QED
        BY <1>3, <2>1, <2>2, <2>3, <2>4, KernelFrame
<1>7. x \notin joiner'
    <2>1. CASE CallJoin(t)
        BY <1>3, <2>1 DEF CallJoin, Owned
    <2>2. QED
        BY <1>3, <2>1, JoinFrame
<1>8. QED
    BY <1>5, <1>6, <1>7

LEMMA KeptStep ==
    ASSUME IInv, NEW t \in Threads, Step(t)
    PROVE  Kept'
<1>1. /\ kernel \in [Threads -> {"none", "running", "ghost", "joined"}]
      /\ stack \in [Threads -> {"none", "mapped", "unmapped"}] /\ obj[t] \in Threads
    BY DEF IInv, TypeOK
<1>2. \A x \in Threads : /\ kernel[x] \in {"running", "ghost"} => Owned(x)
                         /\ kernel[x] # "joined" => stack[x] # "unmapped"
    BY DEF IInv, Kept
<1>3. CASE BeginThread(t)
    <2>1. Owned(obj[t])' /\ \A y \in Threads \ {obj[t]} : Owned(y)' <=> Owned(y)
        BY <1>3, BeginPlaced
    <2>2. /\ kernel' = [kernel EXCEPT ![obj[t]] = "running"] /\ obj' = obj
          /\ \E s \in {"mapped", "none"} : stack' = [stack EXCEPT ![obj[t]] = s]
        BY <1>3 DEF BeginThread, callerVars
    <2>3. QED
        BY <1>1, <1>2, <2>1, <2>2 DEF Kept
<1>4. CASE Reap(t)
    <2>1. PICK x \in grabbed[t] :
             /\ kernel' = [kernel EXCEPT ![x] = "joined"]
             /\ stack' = [stack EXCEPT ![x] = IF @ = "mapped" THEN "unmapped" ELSE @]
             /\ grabbed' = [grabbed EXCEPT ![t] = @ \ {x}]
        BY <1>4 DEF Reap
    <2>2. UNCHANGED <<listed, retired, pc, obj>> /\ x \in Threads
        BY <1>4 DEF Reap, callerVars, IInv, TypeOK
    <2>3. \A y \in Threads \ {x} : Owned(y)' <=> Owned(y)
        BY <2>1, <2>2, ReapPlaced
    <2>4. kernel'[x] = "joined" /\ \A y \in Threads \ {x} : kernel'[y] = kernel[y] /\ stack'[y] = stack[y]
        BY <1>1, <2>1, <2>2
    <2>5. QED
        BY <1>2, <2>3, <2>4 DEF Kept
<1>5. CASE JoinUnlist(t)
    <2>1. kernel[obj[t]] = "joined" /\ UNCHANGED <<kernel, stack>>
        BY <1>5 DEF JoinUnlist, At, IInv, JoinedOnce
    <2>2. \A y \in Threads \ {obj[t]} : Owned(y)' <=> Owned(y)
        BY <1>5, UnlistPlaced
    <2>3. QED
        BY <1>2, <2>1, <2>2 DEF Kept
<1>6. CASE ~(Reap(t) \/ BeginThread(t) \/ JoinUnlist(t))
    <2>1. \A x \in Threads : Owned(x)' <=> Owned(x)
        BY <1>6, PlacedStep DEF OwnedSame
    <2>2. CASE ThreadJoin(t)
        BY <1>1, <1>2, <2>1, <2>2 DEF ThreadJoin, Kept
    <2>3. CASE Die(t) \/ EndThread(t)
        BY <1>1, <1>2, <2>1, <2>3 DEF Die, EndThread, Kept
    <2>4. CASE JoinUnmap(t)
        <3>1. kernel[obj[t]] = "joined"
            BY <2>4 DEF JoinUnmap, At, IInv, JoinedOnce
        <3>2. QED
            BY <1>1, <1>2, <2>1, <2>4, <3>1 DEF JoinUnmap, Kept
    <2>5. CASE UNCHANGED <<kernel, stack>>
        BY <1>2, <2>1, <2>5 DEF Kept
    <2>6. QED
        BY <1>6, <2>2, <2>3, <2>4, <2>5, KernelFrame
<1>7. QED
    BY <1>3, <1>4, <1>5, <1>6

LEMMA JoinedOnceStep ==
    ASSUME IInv, NEW t \in Threads, Step(t)
    PROVE  JoinedOnce'
<1>1. /\ kernel \in [Threads -> {"none", "running", "ghost", "joined"}] /\ obj \in [Threads -> Threads]
      /\ pc \in [Threads -> Places] /\ JoinedOnce
      /\ listed \subseteq Threads
    BY DEF IInv, TypeOK
<1>2. (detached \cap joiner)' = {}
    <2>1. CASE CallJoin(t)
        BY <1>1, <2>1 DEF CallJoin, JoinedOnce
    <2>2. CASE Detach(t)
        BY <1>1, <2>2 DEF Detach, JoinedOnce
    <2>3. CASE BeginThread(t)
        <3>1. obj[t] \notin joiner
            BY <1>1, <2>3, Nobody DEF BeginThread
        <3>2. QED
            BY <1>1, <2>3, <3>1 DEF BeginThread, callerVars, JoinedOnce
    <2>4. QED
        BY <1>1, <2>1, <2>2, <2>3, JoinFrame DEF JoinedOnce
<1>3. \A x \in Threads : kernel[x] = "joined" => kernel'[x] = "joined"
    <2>1. CASE BeginThread(t)
        <3>1. kernel[obj[t]] = "none"
            BY <1>1, <2>1, Nobody DEF BeginThread
        <3>2. QED
            BY <1>1, <2>1, <3>1 DEF BeginThread
    <2>2. CASE Reap(t) \/ ThreadJoin(t)
        BY <1>1, <2>2 DEF Reap, ThreadJoin
    <2>3. CASE Die(t) \/ EndThread(t)
        BY <1>1, <2>3 DEF Die, EndThread
    <2>4. QED
        BY <2>1, <2>2, <2>3, KernelFrame
\* Where the callers in pthread_join() come from
<1>4. CASE CallJoin(t)
    <2>1. PICK x \in listed \ joiner : Call(t, x, "reapJoin") /\ joiner' = joiner \cup {x}
        BY <1>4 DEF CallJoin
    <2>2. Moves(t, "reapJoin", x) /\ x \in Threads /\ listed' = listed
        BY <1>1, <1>4, <2>1, CallTyped DEF CallJoin, Places
    <2>3. /\ pc'[t] = "reapJoin" /\ obj'[t] = x
          /\ \A u \in Threads \ {t} : pc'[u] = pc[u] /\ obj'[u] = obj[u]
        BY <1>1, <2>2 DEF Moves
    <2>4. \A u \in Threads \ {t} : pc'[u] \in Joins => obj'[u] \in listed \cap joiner /\ obj'[u] # x
        BY <1>1, <2>1, <2>3 DEF JoinedOnce
    <2>5. \A u \in Threads : pc'[u] \in Joins => obj'[u] \in listed' \cap joiner'
        BY <2>1, <2>2, <2>3, <2>4
    <2>6. \A u, w \in Threads : pc'[u] \in Joins /\ pc'[w] \in Joins /\ obj'[u] = obj'[w] => u = w
        BY <1>1, <2>3, <2>4 DEF JoinedOnce
    <2>7. \A u \in Threads : pc'[u] \in {"unlist", "unmap"} => kernel'[obj'[u]] = "joined"
        BY <1>1, <1>3, <2>3 DEF JoinedOnce
    <2>8. QED
        BY <1>2, <2>5, <2>6, <2>7 DEF JoinedOnce
<1>5. CASE ~CallJoin(t)
    <2>1. \A u \in Threads \ {t} : obj'[u] = obj[u] /\ (pc'[u] = pc[u] \/ pc'[u] = "out")
        <3>1. ASSUME BeginThread(t)
              PROVE  pc'[obj[t]] = "out"
            <4>1. pc' = [pc EXCEPT ![t] = "created", ![obj[t]] = "out"] /\ obj[t] \in Threads
                BY <1>1, <3>1 DEF BeginThread
            <4>2. QED
                BY <1>1, <4>1
        <3>2. QED
            BY <3>1, OthersStay
    <2>2. /\ pc'[t] \in Joins => pc[t] \in Joins /\ obj'[t] = obj[t]
          /\ pc'[t] = "unmap" => obj'[t] = obj[t] /\ (JoinUnlist(t) \/ pc[t] = "unmap")
          /\ pc'[t] = "unlist" => ThreadJoin(t) \/ pc[t] = "unlist"
        <3>1. CASE CallCreate(t) \/ Detach(t) \/ CancelStale(t) \/ FindSelf(t)
            <4>1. PICK x \in Threads, q \in Places \ (Joins \cup {"unmap", "unlist"}) : Call(t, x, q)
                BY <3>1 DEF CallCreate, Detach, CancelStale, FindSelf, Places, Joins
            <4>2. pc'[t] = q
                BY <1>1, <4>1 DEF Call, GoTo
            <4>3. QED
                BY <4>1, <4>2
        <3>2. CASE Reap(t) \/ Die(t) \/ EndThread(t)
            BY <3>2 DEF Reap, Die, EndThread, callerVars
        <3>3. CASE Reaped(t) \/ JoinCheck(t) \/ ThreadJoin(t) \/ JoinUnlist(t) \/ JoinUnmap(t)
            BY <1>1, <3>3 DEF Reaped, JoinCheck, ThreadJoin, JoinUnlist, JoinUnmap, At, GoTo, Joins,
                              callerVars
        <3>4. CASE BeginThread(t)
            <4>1. t # obj[t]
                BY <1>1, <3>4, Nobody DEF BeginThread, At, Runs
            <4>2. pc'[t] = "created"
                BY <1>1, <3>4, <4>1 DEF BeginThread
            <4>3. QED
                BY <4>2 DEF Joins
        <3>5. CASE BeginFails(t) \/ ListAdd(t) \/ CleanupPush(t) \/ CleanupPop(t)
            BY <1>1, <3>5 DEF BeginFails, ListAdd, CleanupPush, CleanupPop, GoTo, Joins
        <3>6. CASE Cancel(t) \/ CancelHandler(t) \/ CancelKeys(t) \/ CancelKill(t)
            <4>1. \E q \in {"handler", "keys", "kill", "out"} : pc' = [pc EXCEPT ![t] = q]
                BY <3>6 DEF Cancel, CancelHandler, CancelKeys, CancelKill, Scan, GoTo
            <4>2. QED
                BY <1>1, <4>1 DEF Joins
        <3>7. CASE OwnState(t) \/ Exiting(t)
            <4>1. \E q \in {"out", "cleanup", "ownKeys", "ownHandler", "finish", "end"} :
                     pc' = [pc EXCEPT ![t] = q]
                BY <3>7 DEF OwnState, CancelSelf, SetCancelState, SetCancelType, TestCancel, Exits,
                            Exiting, Exit, ExitCleanup, ExitHandler, ExitKeys, ExitFinish, GoTo
            <4>2. QED
                BY <1>1, <4>1 DEF Joins
        <3>8. QED
            BY <1>5, <3>1, <3>2, <3>3, <3>4, <3>5, <3>6, <3>7
               DEF Step, Creating, Joining, Canceling, Handling
    <2>3. joiner' = joiner
        BY <1>5, JoinFrame
    <2>4. \A u \in Threads : pc'[u] \in Joins => pc[u] \in Joins /\ obj'[u] = obj[u]
        BY <2>1, <2>2 DEF Joins
    <2>5. \A u \in Threads : pc'[u] \in Joins => obj[u] \in listed'
        <3>1. CASE listed \subseteq listed'
            BY <1>1, <2>4, <3>1 DEF JoinedOnce
        <3>2. CASE JoinUnlist(t)
            <4>1. /\ listed' = listed \ {obj[t]} /\ pc[t] = "unlist" /\ pc'[t] = "unmap"
                BY <1>1, <3>2 DEF JoinUnlist, Unlist, At, GoTo
            <4>2. QED
                BY <1>1, <2>4, <4>1 DEF JoinedOnce, Joins
        <3>3. ASSUME NEW x \in listed \cap detached, Retire(x)
              PROVE  \A u \in Threads : pc'[u] \in Joins => obj[u] \in listed'
            BY <1>1, <2>4, <3>3 DEF JoinedOnce, Retire, Unlist
        <3>4. QED
            BY <3>1, <3>2, <3>3, JoinFrame
    <2>6. \A u \in Threads : pc'[u] \in Joins => obj'[u] \in listed' \cap joiner'
        BY <1>1, <2>3, <2>4, <2>5 DEF JoinedOnce
    <2>7. \A u, w \in Threads : pc'[u] \in Joins /\ pc'[w] \in Joins /\ obj'[u] = obj'[w] => u = w
        BY <1>1, <2>4 DEF JoinedOnce
    <2>8. ASSUME NEW u \in Threads, pc'[u] \in {"unlist", "unmap"}
          PROVE  kernel'[obj'[u]] = "joined"
        <3>1. CASE u # t
            BY <1>1, <1>3, <2>1, <2>8, <3>1 DEF JoinedOnce
        <3>2. CASE u = t /\ ThreadJoin(t)
            BY <1>1, <3>2 DEF ThreadJoin, callerVars
        <3>3. CASE u = t /\ ~ThreadJoin(t)
            <4>1. pc[t] \in {"unlist", "unmap"} /\ obj'[t] = obj[t]
                BY <2>2, <2>8, <3>3 DEF JoinUnlist, At, Joins
            <4>2. QED
                BY <1>1, <1>3, <3>3, <4>1 DEF JoinedOnce
        <3>4. QED
            BY <3>1, <3>2, <3>3
    <2>9. QED
        BY <1>2, <2>6, <2>7, <2>8 DEF JoinedOnce
<1>6. QED
    BY <1>4, <1>5

-----------------------------------------------------------------------------
(* Cleanup handlers                                                        *)

\* The steps in which a handler is taken off a list, or has run
Hands(t) == Cancel(t) \/ CancelHandler(t) \/ ExitCleanup(t) \/ ExitHandler(t)

FlightSame == \A x \in Threads : InFlight(x)' = InFlight(x)

LEMMA FlightKept ==
    ASSUME IInv, NEW t \in Threads, pc[t] \notin {"handler", "ownHandler"},
           NEW q \in Places \ {"handler", "ownHandler"}, NEW x \in Threads, Moves(t, q, x)
    PROVE  FlightSame
BY MoveEffect DEF FlightSame, InFlight

LEMMA FlightStep ==
    ASSUME IInv, NEW t \in Threads, Step(t), ~Hands(t)
    PROVE  FlightSame
<1>1. CASE CallCreate(t) \/ CallJoin(t) \/ Detach(t) \/ CancelStale(t) \/ FindSelf(t)
    <2>1. PICK x \in Threads, q \in {"reapCreate", "reapJoin", "out", "push", "pop"} : Call(t, x, q)
        BY <1>1 DEF CallCreate, CallJoin, Detach, CancelStale, FindSelf
    <2>2. Moves(t, q, x) /\ pc[t] = "out"
        BY <2>1, CallTyped DEF Places, At
    <2>3. QED
        BY <2>2, FlightKept DEF Places
<1>2. CASE Reaped(t) \/ BeginFails(t) \/ ListAdd(t)
    BY <1>2, SameTask, FlightKept DEF Reaped, BeginFails, ListAdd, At, Places, callerVars
<1>3. CASE BeginThread(t)
    <2>1. /\ obj[t] \in Threads /\ record[obj[t]] = "none" /\ obj' = obj /\ pc[t] = "create"
          /\ pc' = [pc EXCEPT ![t] = "created", ![obj[t]] = "out"] /\ pc \in [Threads -> Places]
        BY <1>3 DEF BeginThread, callerVars, At, IInv, TypeOK
    <2>2. pc[obj[t]] = "none"
        BY <2>1, Nobody
    <2>3. \A u \in Threads : \/ pc'[u] = pc[u]
                             \/ {pc[u], pc'[u]} \cap {"handler", "ownHandler"} = {}
        BY <2>1, <2>2
    <2>4. QED
        BY <2>1, <2>3 DEF FlightSame, InFlight
<1>4. CASE JoinCheck(t) \/ ThreadJoin(t) \/ JoinUnlist(t) \/ JoinUnmap(t)
    BY <1>4, SameTask, FlightKept
       DEF JoinCheck, ThreadJoin, JoinUnlist, JoinUnmap, At, Places, callerVars
<1>5. CASE CancelKeys(t) \/ CancelKill(t) \/ CleanupPush(t) \/ CleanupPop(t)
    BY <1>5, SameTask, FlightKept
       DEF CancelKeys, CancelKill, CleanupPush, CleanupPop, At, Places, callerVars
<1>6. CASE OwnState(t)
    <2>1. obj' = obj /\ pc[t] = "out" /\ (GoTo(t, "cleanup") \/ GoTo(t, "out"))
        BY <1>6 DEF OwnState, CancelSelf, SetCancelState, SetCancelType, TestCancel, Exits, At,
                    callerVars
    <2>2. QED
        BY <2>1, SameTask, FlightKept DEF Places
<1>7. CASE Exit(t) \/ ExitKeys(t) \/ ExitFinish(t)
    <2>1. /\ obj' = obj /\ pc[t] \notin {"handler", "ownHandler"}
          /\ \E q \in {"cleanup", "ownKeys", "finish", "end"} : GoTo(t, q)
        BY <1>7 DEF Exit, ExitKeys, ExitFinish, At, callerVars
    <2>2. QED
        BY <2>1, SameTask, FlightKept DEF Places
<1>8. CASE Reap(t) \/ Die(t) \/ EndThread(t)
    BY <1>8 DEF Reap, Die, EndThread, callerVars, FlightSame, InFlight
<1>9. QED
    BY <1>1, <1>2, <1>3, <1>4, <1>5, <1>6, <1>7, <1>8
       DEF Step, Creating, Joining, Canceling, Handling, Exiting, Hands

LEMMA HandlerFrame ==
    ASSUME IInv, NEW t \in Threads, Step(t), ~Hands(t), ~CleanupPush(t), ~CleanupPop(t)
    PROVE  /\ UNCHANGED <<pushed, ran>>
           /\ handlers' = handlers \/ \E x \in Threads : handlers' = [handlers EXCEPT ![x] = 0]
<1>1. CASE Creating(t)
    BY <1>1 DEF Creating, CallCreate, Reap, Reaped, BeginThread, BeginFails, ListAdd, handlerVars
<1>2. CASE CallJoin(t) \/ JoinCheck(t) \/ ThreadJoin(t) \/ JoinUnmap(t) \/ Detach(t)
    BY <1>2 DEF CallJoin, JoinCheck, ThreadJoin, JoinUnmap, Detach, handlerVars
<1>3. CASE JoinUnlist(t) \/ CancelKill(t) \/ ExitFinish(t)
    <2>1. obj[t] \in Threads
        BY DEF IInv, TypeOK
    <2>2. QED
        BY <1>3, <2>1 DEF JoinUnlist, CancelKill, ExitFinish, Retire, Unlist
<1>4. CASE CancelStale(t) \/ CancelKeys(t) \/ OwnState(t) \/ FindSelf(t)
    BY <1>4 DEF CancelStale, CancelKeys, OwnState, CancelSelf, SetCancelState, SetCancelType,
                TestCancel, FindSelf, handlerVars
<1>5. CASE Exit(t) \/ ExitKeys(t) \/ Die(t) \/ EndThread(t)
    BY <1>5 DEF Exit, ExitKeys, Die, EndThread, handlerVars
<1>6. QED
    BY <1>1, <1>2, <1>3, <1>4, <1>5 DEF Step, Joining, Canceling, Handling, Exiting, Hands

\* No step gives a thread handlers but its own push
LEMMA HandlersFall ==
    ASSUME IInv, NEW t \in Threads, Step(t), NEW x \in Threads, ~(CleanupPush(t) /\ x = t)
    PROVE  handlers'[x] <= handlers[x]
<1>1. handlers \in [Threads -> 0 .. MaxHandlers] /\ MaxHandlers \in Nat /\ obj[t] \in Threads
    BY ThreadsAssumption DEF IInv, TypeOK
<1>2. handlers[x] \in Nat
    BY <1>1
<1>3. CASE CleanupPush(t)
    BY <1>1, <1>2, <1>3 DEF CleanupPush
<1>4. CASE CleanupPop(t)
    BY <1>1, <1>2, <1>4 DEF CleanupPop
<1>5. CASE Cancel(t)
    BY <1>1, <1>2, <1>5 DEF Cancel, Scan
<1>6. CASE CancelHandler(t)
    BY <1>1, <1>2, <1>6 DEF CancelHandler, Scan
<1>7. CASE ExitCleanup(t) \/ ExitHandler(t)
    BY <1>1, <1>2, <1>7 DEF ExitCleanup, ExitHandler
<1>8. CASE ~(Hands(t) \/ CleanupPush(t) \/ CleanupPop(t))
    BY <1>1, <1>2, <1>8, HandlerFrame
<1>9. QED
    BY <1>3, <1>4, <1>5, <1>6, <1>7, <1>8 DEF Hands

\* Who comes to be in a place that Roles speaks of
LEMMA RolesFrame ==
    ASSUME IInv, NEW t \in Threads, Step(t)
    PROVE  /\ pc'[t] \in {"push", "pop"} => FindSelf(t) \/ UNCHANGED <<pc, obj>>
           /\ pc'[t] = "push" => FindSelf(t) \/ (pc[t] = "push" /\ ~CleanupPush(t))
           /\ pc[t] \in Reaping => Reap(t) \/ Reaped(t) \/ Die(t)
<1>1. pc \in [Threads -> Places] /\ obj \in [Threads -> Threads]
    BY DEF IInv, TypeOK
<1>2. ASSUME NEW q, q \notin {"push", "pop"}, pc' = [pc EXCEPT ![t] = q]
      PROVE  pc'[t] \notin {"push", "pop"}
    BY <1>1, <1>2
<1>3. CASE CallCreate(t) \/ CallJoin(t) \/ Detach(t) \/ CancelStale(t)
    <2>1. \E q \in {"reapCreate", "reapJoin", "out"} : pc' = [pc EXCEPT ![t] = q]
        BY <1>3 DEF CallCreate, CallJoin, Detach, CancelStale, Call, GoTo
    <2>2. pc[t] = "out"
        BY <1>3 DEF CallCreate, CallJoin, Detach, CancelStale, Call, At
    <2>3. QED
        BY <1>2, <2>1, <2>2 DEF Reaping
<1>4. CASE Reaped(t)
    BY <1>2, <1>4 DEF Reaped, GoTo
<1>5. CASE BeginThread(t)
    <2>1. /\ record[obj[t]] = "none" /\ obj[t] \in Threads /\ pc[t] = "create"
          /\ pc' = [pc EXCEPT ![t] = "created", ![obj[t]] = "out"]
        BY <1>1, <1>5 DEF BeginThread, At
    <2>2. pc'[t] \notin {"push", "pop"}
        BY <1>1, <2>1
    <2>3. QED
        BY <2>1, <2>2 DEF Reaping
<1>6. CASE BeginFails(t) \/ ListAdd(t)
    BY <1>2, <1>6 DEF BeginFails, ListAdd, GoTo, At, Reaping
<1>7. CASE JoinCheck(t) \/ ThreadJoin(t) \/ JoinUnlist(t) \/ JoinUnmap(t)
    BY <1>2, <1>7 DEF JoinCheck, ThreadJoin, JoinUnlist, JoinUnmap, GoTo, At, Reaping
<1>8. CASE Cancel(t) \/ CancelHandler(t) \/ CancelKeys(t) \/ CancelKill(t)
    <2>1. \E q \in {"handler", "keys", "kill", "out"} : pc' = [pc EXCEPT ![t] = q]
        BY <1>8 DEF Cancel, CancelHandler, CancelKeys, CancelKill, Scan, GoTo
    <2>2. pc[t] \notin Reaping
        BY <1>8 DEF Cancel, CancelHandler, CancelKeys, CancelKill, At, Reaping
    <2>3. QED
        BY <1>2, <2>1, <2>2
<1>9. CASE CleanupPush(t) \/ CleanupPop(t)
    BY <1>2, <1>9 DEF CleanupPush, CleanupPop, GoTo, At, Reaping
<1>10. CASE OwnState(t) \/ Exiting(t)
    <2>1. \E q \in {"out", "cleanup", "ownKeys", "ownHandler", "finish", "end"} :
             pc' = [pc EXCEPT ![t] = q]
        BY <1>10 DEF OwnState, CancelSelf, SetCancelState, SetCancelType, TestCancel, Exits,
                     Exiting, Exit, ExitCleanup, ExitHandler, ExitKeys, ExitFinish, GoTo
    <2>2. pc[t] \notin Reaping
        BY <1>10 DEF OwnState, CancelSelf, SetCancelState, SetCancelType, TestCancel,
                     Exiting, Exit, ExitCleanup, ExitHandler, ExitKeys, ExitFinish, At, Reaping
    <2>3. QED
        BY <1>2, <2>1, <2>2
<1>11. CASE Reap(t) \/ Die(t)
    BY <1>1, <1>11 DEF Reap, Die, callerVars, At, Runs, GoTo, CleanupPush
<1>12. CASE EndThread(t)
    BY <1>12 DEF EndThread, callerVars, Reaping
<1>13. CASE FindSelf(t)
    BY <1>13 DEF FindSelf, Call, At, Reaping
<1>14. QED
    BY <1>3, <1>4, <1>5, <1>6, <1>7, <1>8, <1>9, <1>10, <1>11, <1>12, <1>13
       DEF Step, Creating, Joining, Canceling, Handling

LEMMA RolesStep ==
    ASSUME IInv, NEW t \in Threads, Step(t)
    PROVE  Roles'
<1>1. /\ pc \in [Threads -> Places] /\ obj \in [Threads -> Threads] /\ Roles
      /\ handlers \in [Threads -> 0 .. MaxHandlers] /\ MaxHandlers \in Nat
      /\ grabbed \in [Threads -> SUBSET Threads]
    BY ThreadsAssumption DEF IInv, TypeOK
<1>2. CASE BeginThread(t)
    <2>1. /\ pc' = [pc EXCEPT ![t] = "created", ![obj[t]] = "out"] /\ obj' = obj
          /\ UNCHANGED <<handlers, grabbed>> /\ record[obj[t]] = "none" /\ pc[t] = "create"
        BY <1>2 DEF BeginThread, callerVars, handlerVars, At
    <2>2. pc[obj[t]] = "none"
        BY <1>1, <2>1, Nobody
    <2>3. \A u \in Threads : pc'[u] = pc[u] \/ (pc'[u] \in {"created", "out"} /\ pc[u] \notin Reaping)
        BY <1>1, <2>1, <2>2 DEF Reaping
    <2>4. QED
        BY <1>1, <2>1, <2>3 DEF Roles
<1>3. CASE ~BeginThread(t)
    <2>1. \A u \in Threads \ {t} : obj'[u] = obj[u] /\ pc'[u] = pc[u]
        BY <1>3, OthersStay
    <2>2. FindSelf(t) => Call(t, t, "pop") \/ (Call(t, t, "push") /\ handlers[t] < MaxHandlers)
        BY DEF FindSelf
    <2>3. FindSelf(t) => obj'[t] = t /\ ~CleanupPush(t)
        BY <1>1, <2>2 DEF Call, CleanupPush, At
    <2>4. \A u \in Threads : pc'[u] \in {"push", "pop"} => obj'[u] = u
        BY <1>1, <2>1, <2>3, RolesFrame DEF Roles
    <2>5. ASSUME NEW u \in Threads, pc'[u] = "push"
          PROVE  handlers'[u] < MaxHandlers
        <3>1. handlers[u] < MaxHandlers /\ ~(CleanupPush(t) /\ u = t)
            <4>1. CASE u # t
                BY <1>1, <2>1, <2>5, <4>1 DEF Roles
            <4>2. CASE u = t /\ FindSelf(t)
                BY <1>1, <2>2, <2>3, <2>5, <4>2 DEF Call, GoTo
            <4>3. CASE u = t /\ ~FindSelf(t)
                BY <1>1, <2>5, <4>3, RolesFrame DEF Roles
            <4>4. QED
                BY <4>1, <4>2, <4>3
        <3>2. handlers'[u] <= handlers[u]
            BY <3>1, HandlersFall
        <3>3. handlers' \in [Threads -> 0 .. MaxHandlers]
            BY StepTyped DEF TypeOK
        <3>4. QED
            BY <1>1, <3>1, <3>2, <3>3
    <2>6. \A u \in Threads : pc'[u] \notin Reaping => grabbed'[u] = {}
        <3>1. CASE CallCreate(t) \/ CallJoin(t)
            <4>1. /\ \E q \in Reaping : pc' = [pc EXCEPT ![t] = q]
                  /\ grabbed' = [grabbed EXCEPT ![t] = retired]
                BY <3>1 DEF CallCreate, CallJoin, Call, GoTo, Reaping
            <4>2. QED
                BY <1>1, <4>1 DEF Roles
        <3>2. CASE Reap(t)
            BY <1>1, <3>2 DEF Reap, Roles
        <3>3. CASE grabbed' = grabbed /\ ~Reap(t)
            <4>1. pc[t] \in Reaping => grabbed[t] = {} \/ pc'[t] = pc[t]
                BY <3>3, RolesFrame DEF Reaped, Die
            <4>2. QED
                BY <1>1, <2>1, <3>3, <4>1 DEF Roles
        <3>4. QED
            BY <3>1, <3>2, <3>3, JoinFrame
    <2>7. QED
        BY <2>4, <2>5, <2>6 DEF Roles
<1>4. QED
    BY <1>2, <1>3

LEMMA HandlersStep ==
    ASSUME IInv, NEW t \in Threads, Step(t)
    PROVE  HandlersCounted'
<1>1. /\ handlers \in [Threads -> 0 .. MaxHandlers] /\ MaxHandlers \in Nat
      /\ ran \in [Threads -> Nat] /\ pushed \in [Threads -> Nat]
      /\ pc \in [Threads -> Places] /\ obj \in [Threads -> Threads]
    BY ThreadsAssumption DEF IInv, TypeOK
<1>2. \A x \in Threads : Cardinality(InFlight(x)) \in Nat /\ handlers[x] \in Nat
    BY <1>1, Counting DEF InFlight
<1>3. \A x \in Threads : ran[x] + handlers[x] + Cardinality(InFlight(x)) <= pushed[x]
    BY DEF IInv, HandlersCounted
<1>4. CASE Cancel(t)
    <2>1. PICK x \in listed \ {t, main} :
             /\ obj' = [obj EXCEPT ![t] = x]
             /\ IF x \in enabled THEN Scan(t, x) ELSE GoTo(t, "out") /\ handlers' = handlers
        BY <1>4 DEF Cancel
    <2>2. x \in Threads /\ pc[t] = "out" /\ UNCHANGED <<pushed, ran>>
        BY <1>4 DEF Cancel, At, IInv, TypeOK
    <2>3. \A y \in Threads : t \notin InFlight(y)
        BY <2>2 DEF InFlight
    <2>4. CASE x \in enabled /\ handlers[x] > 0
        <3>1. Moves(t, "handler", x) /\ handlers' = [handlers EXCEPT ![x] = @ - 1]
            BY <2>1, <2>4 DEF Scan, GoTo, Moves
        <3>2. \A y \in Threads : InFlight(y)' = IF y = x THEN InFlight(y) \cup {t} ELSE InFlight(y)
            <4>1. \A y \in Threads :
                     InFlight(y)' = IF y = x THEN InFlight(y) \cup {t} ELSE InFlight(y) \ {t}
                BY <2>2, <3>1, MoveEffect DEF Places
            <4>2. QED
                BY <2>3, <4>1
        <3>3. Cardinality(InFlight(x)') = Cardinality(InFlight(x)) + 1
            BY <2>2, <2>3, <3>2, Counting DEF InFlight
        <3>4. /\ ran'[x] + handlers'[x] + Cardinality(InFlight(x)') <= pushed'[x]
              /\ \A y \in Threads \ {x} : ran'[y] + handlers'[y] + Cardinality(InFlight(y)') <= pushed'[y]
            BY <1>1, <1>2, <1>3, <2>2, <3>1, <3>2, <3>3
        <3>5. QED
            BY <3>4 DEF HandlersCounted
    <2>5. CASE ~(x \in enabled /\ handlers[x] > 0)
        <3>1. /\ handlers' = handlers
              /\ \E q \in {"keys", "out"} : Moves(t, q, x)
            BY <2>1, <2>5 DEF Scan, GoTo, Moves
        <3>2. FlightSame
            BY <2>2, <3>1, FlightKept DEF Places
        <3>3. QED
            BY <1>3, <2>2, <3>1, <3>2 DEF FlightSame, HandlersCounted
    <2>6. QED
        BY <2>4, <2>5
<1>5. CASE CancelHandler(t)
    <2>1. PICK x \in Threads :
             /\ x = obj[t] /\ pc[t] = "handler" /\ Scan(t, x) /\ obj' = obj /\ pushed' = pushed
             /\ ran' = [ran EXCEPT ![x] = @ + 1]
        BY <1>1, <1>5 DEF CancelHandler, At, callerVars
    <2>2. t \in InFlight(x) /\ \A y \in Threads \ {x} : t \notin InFlight(y)
        BY <2>1 DEF InFlight
    <2>3. CASE handlers[x] > 0
        <3>1. Moves(t, "handler", x) /\ handlers' = [handlers EXCEPT ![x] = @ - 1]
            BY <2>1, <2>3, SameTask DEF Scan
        <3>2. \A y \in Threads : InFlight(y)' = InFlight(y)
            <4>1. \A y \in Threads :
                     InFlight(y)' = IF y = x THEN InFlight(y) \cup {t} ELSE InFlight(y) \ {t}
                BY <3>1, MoveEffect DEF Places
            <4>2. QED
                BY <2>2, <4>1
        <3>3. /\ ran'[x] + handlers'[x] + Cardinality(InFlight(x)') <= pushed'[x]
              /\ \A y \in Threads \ {x} : ran'[y] + handlers'[y] + Cardinality(InFlight(y)') <= pushed'[y]
            BY <1>1, <1>2, <1>3, <2>1, <3>1, <3>2
        <3>4. QED
            BY <3>3 DEF HandlersCounted
    <2>4. CASE ~(handlers[x] > 0)
        <3>1. Moves(t, "keys", x) /\ handlers' = handlers
            BY <2>1, <2>4, SameTask DEF Scan
        <3>2. \A y \in Threads : InFlight(y)' = IF y = x THEN InFlight(y) \ {t} ELSE InFlight(y)
            <4>1. \A y \in Threads : InFlight(y)' = InFlight(y) \ {t}
                BY <3>1, MoveEffect DEF Places
            <4>2. QED
                BY SMTT(30), <2>2, <4>1
        <3>3. Cardinality(InFlight(x)') = Cardinality(InFlight(x)) - 1
            BY <2>1, <2>2, <3>2, Counting DEF InFlight
        <3>4. /\ ran'[x] + handlers'[x] + Cardinality(InFlight(x)') <= pushed'[x]
              /\ \A y \in Threads \ {x} : ran'[y] + handlers'[y] + Cardinality(InFlight(y)') <= pushed'[y]
            BY <1>1, <1>2, <1>3, <2>1, <3>1, <3>2, <3>3
        <3>5. QED
            BY <3>4 DEF HandlersCounted
    <2>5. QED
        BY <2>3, <2>4
<1>6. CASE ExitCleanup(t)
    <2>1. UNCHANGED <<obj, pushed, ran>> /\ pc[t] = "cleanup" /\ obj[t] \in Threads
        BY <1>1, <1>6 DEF ExitCleanup, At, callerVars
    <2>2. \A y \in Threads : t \notin InFlight(y)
        BY <2>1 DEF InFlight
    <2>3. CASE handlers[t] > 0
        <3>1. Moves(t, "ownHandler", obj[t]) /\ handlers' = [handlers EXCEPT ![t] = @ - 1]
            BY <1>6, <2>1, <2>3, SameTask DEF ExitCleanup
        <3>2. \A y \in Threads : InFlight(y)' = IF y = t THEN InFlight(y) \cup {t} ELSE InFlight(y)
            BY SMTT(30), <2>1, <2>2, <3>1, MoveEffect DEF Places
        <3>3. Cardinality(InFlight(t)') = Cardinality(InFlight(t)) + 1
            BY <2>2, <3>2, Counting DEF InFlight
        <3>4. /\ ran'[t] + handlers'[t] + Cardinality(InFlight(t)') <= pushed'[t]
              /\ \A y \in Threads \ {t} : ran'[y] + handlers'[y] + Cardinality(InFlight(y)') <= pushed'[y]
            BY <1>1, <1>2, <1>3, <2>1, <3>1, <3>2, <3>3
        <3>5. QED
            BY <3>4 DEF HandlersCounted
    <2>4. CASE ~(handlers[t] > 0)
        <3>1. Moves(t, "ownKeys", obj[t]) /\ handlers' = handlers
            BY <1>6, <2>1, <2>4, SameTask DEF ExitCleanup
        <3>2. FlightSame
            BY <2>1, <3>1, FlightKept DEF Places
        <3>3. QED
            BY <1>3, <2>1, <3>1, <3>2 DEF FlightSame, HandlersCounted
    <2>5. QED
        BY <2>3, <2>4
<1>7. CASE ExitHandler(t)
    <2>1. /\ UNCHANGED <<handlers, pushed>> /\ pc[t] = "ownHandler" /\ obj[t] \in Threads
          /\ Moves(t, "cleanup", obj[t]) /\ ran' = [ran EXCEPT ![t] = @ + 1]
        BY <1>1, <1>7, SameTask DEF ExitHandler, At, callerVars
    <2>2. t \in InFlight(t) /\ \A y \in Threads \ {t} : t \notin InFlight(y)
        BY <2>1 DEF InFlight
    <2>3. \A y \in Threads : InFlight(y)' = IF y = t THEN InFlight(y) \ {t} ELSE InFlight(y)
        <3>1. \A y \in Threads : InFlight(y)' = InFlight(y) \ {t}
            BY <2>1, MoveEffect DEF Places
        <3>2. QED
            BY <2>2, <3>1
    <2>4. Cardinality(InFlight(t)') = Cardinality(InFlight(t)) - 1
        BY <2>2, <2>3, Counting DEF InFlight
    <2>5. /\ ran'[t] + handlers'[t] + Cardinality(InFlight(t)') <= pushed'[t]
          /\ \A y \in Threads \ {t} : ran'[y] + handlers'[y] + Cardinality(InFlight(y)') <= pushed'[y]
        BY <1>1, <1>2, <1>3, <2>1, <2>3, <2>4
    <2>6. QED
        BY <2>5 DEF HandlersCounted
<1>8. CASE CleanupPush(t) \/ CleanupPop(t)
    <2>1. FlightSame
        BY <1>8, FlightStep DEF Hands, Cancel, CancelHandler, ExitCleanup, ExitHandler, CleanupPush,
                                CleanupPop, At, Step, Handling
    <2>2. \A y \in Threads : ran'[y] + handlers'[y] + Cardinality(InFlight(y)) <= pushed'[y]
        BY <1>1, <1>2, <1>3, <1>8 DEF CleanupPush, CleanupPop
    <2>3. QED
        BY <2>1, <2>2 DEF FlightSame, HandlersCounted
<1>9. CASE ~(Hands(t) \/ CleanupPush(t) \/ CleanupPop(t))
    <2>1. FlightSame /\ UNCHANGED <<pushed, ran>>
        BY <1>9, FlightStep, HandlerFrame
    <2>2. \A y \in Threads : handlers'[y] <= handlers[y] /\ handlers'[y] \in Nat
        <3>1. handlers' \in [Threads -> 0 .. MaxHandlers]
            BY StepTyped DEF TypeOK
        <3>2. QED
            BY <1>1, <1>9, <3>1, HandlersFall
    <2>3. QED
        BY <1>1, <1>2, <1>3, <2>1, <2>2 DEF FlightSame, HandlersCounted
<1>10. QED
    BY <1>4, <1>5, <1>6, <1>7, <1>8, <1>9 DEF Hands

-----------------------------------------------------------------------------
(* The theorems                                                            *)

LEMMA InitRight == Init => IInv
<1> SUFFICES ASSUME Init PROVE IInv
    OBVIOUS
<1>1. TypeOK
    BY ThreadsAssumption DEF Init, TypeOK, Places
<1>2. \A t \in Threads : pc[t] \in {"out", "none"} /\ grabbed[t] = {}
    BY DEF Init
<1>3. Placed
    BY <1>2 DEF Init, Placed, Creates
<1>4. \A x \in Threads : Holders(x) = {} /\ InFlight(x) = {}
    BY <1>2 DEF Holders, Holding, InFlight
<1>5. \A x \in Threads : Cardinality(Holders(x)) = 0 /\ Cardinality(InFlight(x)) = 0
    BY <1>4, FS_EmptySet
<1>6. \A x \in Threads : Owned(x) <=> x = main
    BY <1>2 DEF Init, Owned, Creates
<1>7. Counted
    BY <1>5, <1>6 DEF Init, Counted
<1>8. Unborn /\ Kept
    BY <1>6 DEF Init, Unborn, Kept
<1>9. Roles /\ JoinedOnce
    BY <1>2 DEF Init, Roles, JoinedOnce, Joins, Reaping
<1>10. HandlersCounted
    BY <1>5 DEF Init, HandlersCounted
<1>11. QED
    BY <1>1, <1>3, <1>7, <1>8, <1>9, <1>10 DEF IInv

LEMMA NextRight == IInv /\ [Next]_vars => IInv'
<1> SUFFICES ASSUME IInv, [Next]_vars PROVE IInv'
    OBVIOUS
<1>1. CASE \E t \in Threads : Step(t)
    BY <1>1, StepTyped, CountedStep, UnbornStep, RolesStep, JoinedOnceStep, KeptStep, HandlersStep
       DEF IInv
<1>2. CASE UNCHANGED vars
    <2>1. TypeOK' /\ Unborn' /\ Roles' /\ JoinedOnce'
        BY <1>2 DEF vars, IInv, TypeOK, Unborn, Roles, JoinedOnce
    <2>2. \A x \in Threads : /\ Holders(x)' = Holders(x) /\ InFlight(x)' = InFlight(x)
                             /\ Owned(x)' <=> Owned(x)
                             /\ \A t \in Threads : Creates(t, x)' <=> Creates(t, x)
        BY <1>2 DEF vars, Holders, InFlight, Owned, Creates
    <2>3. Placed'
        BY <1>2, <2>2 DEF vars, IInv, Placed
    <2>4. Counted' /\ Kept' /\ HandlersCounted'
        BY <1>2, <2>2 DEF vars, IInv, Counted, Kept, HandlersCounted
    <2>5. QED
        BY <2>1, <2>3, <2>4 DEF IInv
<1>3. QED
    BY <1>1, <1>2 DEF Next, Finished

LEMMA Invariance == Spec => []IInv
BY InitRight, NextRight, PTL DEF Spec

\* The owners that the invariant tells apart are those the property counts
LEMMA OwnersCounted ==
    ASSUME IInv, NEW x \in Threads
    PROVE  Owners(x) = IF Owned(x) THEN 1 ELSE 0
<1> DEFINE G == {t \in Threads : x \in grabbed[t]}
           C == {t \in Threads : pc[t] = "created" /\ obj[t] = x}
<1>1. Owners(x) = (IF x \in listed THEN 1 ELSE 0) + (IF x \in retired THEN 1 ELSE 0)
                  + Cardinality(G) + Cardinality(C)
    BY DEF Owners
<1>2. Placed
    BY DEF IInv
<1>3. \A t \in G : G = {t} /\ C = {} /\ x \notin listed \cup retired
    BY <1>2 DEF Placed, Creates
<1>4. \A t \in C : C = {t} /\ G = {} /\ x \notin listed \cup retired
    BY <1>2 DEF Placed, Creates
<1>5. ~(x \in listed /\ x \in retired)
    BY <1>2 DEF Placed
<1>6. Owned(x) <=> x \in listed \/ x \in retired \/ G # {} \/ C # {}
    BY DEF Owned, Creates
<1>7. Cardinality({}) = 0 /\ \A t \in Threads : Cardinality({t}) = 1
    BY FS_EmptySet, FS_Singleton
<1>8. CASE G # {}
    <2>1. Cardinality(G) = 1 /\ Cardinality(C) = 0 /\ x \notin listed \cup retired
        BY <1>3, <1>7, <1>8
    <2>2. QED
        BY <1>1, <1>6, <1>8, <2>1
<1>9. CASE C # {}
    <2>1. Cardinality(C) = 1 /\ Cardinality(G) = 0 /\ x \notin listed \cup retired
        BY <1>4, <1>7, <1>9
    <2>2. QED
        BY <1>1, <1>6, <1>9, <2>1
<1>10. CASE G = {} /\ C = {}
    <2>1. Cardinality(G) = 0 /\ Cardinality(C) = 0
        BY <1>7, <1>10
    <2>2. QED
        BY <1>1, <1>5, <1>6, <1>10, <2>1
<1>11. QED
    BY <1>8, <1>9, <1>10

LEMMA InUse == IInv => NoUseAfterFree
<1> SUFFICES ASSUME IInv PROVE NoUseAfterFree
    OBVIOUS
<1>1. ReferencesExact
    <2>1. ASSUME NEW x \in Threads
          PROVE  /\ refs[x] = Owners(x)
                              + Cardinality({t \in Threads : obj[t] = x
                                               /\ pc[t] \in {"handler", "keys", "kill", "push", "pop"}})
                 /\ record[x] = "used" <=> refs[x] > 0
                 /\ Owners(x) <= 1
        <3>1. Holders(x) = {t \in Threads : obj[t] = x
                               /\ pc[t] \in {"handler", "keys", "kill", "push", "pop"}}
            BY DEF Holders, Holding
        <3>2. Owners(x) = IF Owned(x) THEN 1 ELSE 0
            BY OwnersCounted
        <3>3. /\ refs[x] = (IF Owned(x) THEN 1 ELSE 0) + Cardinality(Holders(x))
              /\ record[x] = "used" <=> refs[x] > 0
            BY DEF IInv, Counted
        <3>4. QED
            BY <3>1, <3>2, <3>3
    <2>2. QED
        BY <2>1 DEF ReferencesExact
<1>2. ASSUME NEW t \in Threads
      PROVE  /\ kernel[t] = "running" => record[t] = "used" /\ stack[t] # "unmapped"
             /\ pc[t] \in {"handler", "keys", "kill", "created", "join", "joining", "unlist"} =>
                   record[obj[t]] = "used"
             /\ \A x \in grabbed[t] : record[x] = "used"
    <2>1. obj[t] \in Threads /\ grabbed[t] \subseteq Threads
        BY DEF IInv, TypeOK
    <2>2. kernel[t] = "running" => record[t] = "used" /\ stack[t] # "unmapped"
        BY Running DEF IInv, Kept
    <2>3. pc[t] \in {"handler", "keys", "kill"} => t \in Holders(obj[t])
        BY DEF Holders, Holding
    <2>4. pc[t] \in {"created", "join", "joining", "unlist"} => Owned(obj[t])
        BY DEF Owned, Creates, IInv, JoinedOnce, Joins
    <2>5. \A x \in grabbed[t] : Owned(x)
        BY DEF Owned
    <2>6. QED
        BY <2>1, <2>2, <2>3, <2>4, <2>5, Referred
<1>3. QED
    BY <1>1, <1>2 DEF NoUseAfterFree, IInv

\* Whatever the number of threads and calls: a thread's record and stack outlive
\* its run in the kernel, nobody uses a record after _pthread_ctx_put() has freed
\* it, and the reference count of pthread_ctx is that of its holders.
THEOREM RecordsOutliveUse == Spec => []NoUseAfterFree
BY Invariance, InUse, PTL

\* Whatever the number of threads that cancel one, and it exiting meanwhile: no
\* cleanup handler of _pthread_do_cleanup() and pthread_cleanup_pop runs twice.
THEOREM HandlersRunOnce == Spec => []HandlersOnce
<1>1. IInv => HandlersOnce
    <2> SUFFICES ASSUME IInv, NEW x \in Threads
                 PROVE  ran[x] + handlers[x] <= pushed[x]
        BY DEF HandlersOnce
    <2>1. Cardinality(InFlight(x)) \in Nat
        BY Counting DEF InFlight
    <2>2. ran[x] \in Nat /\ handlers[x] \in 0 .. MaxHandlers /\ pushed[x] \in Nat
        BY DEF IInv, TypeOK
    <2>3. ran[x] + handlers[x] + Cardinality(InFlight(x)) <= pushed[x]
        BY DEF IInv, HandlersCounted
    <2>4. QED
        BY <2>1, <2>2, <2>3, ThreadsAssumption
<1>2. QED
    BY <1>1, Invariance, PTL

-----------------------------------------------------------------------------
(* Detached threads                                                        *)

\* The thread is at its end, or on its way to it whatever it does
Over(x) == x \in signalled \/ kernel[x] = "ghost" \/ pc[x] = "end"

\* A thread that is not yet listed is not over: it would need the list's lock
Retirement ==
    /\ \A x \in signalled : kernel[x] = "running"
    /\ \A t \in Threads : pc[t] = "created" => lock = t /\ ~Over(obj[t])
    /\ \A x \in detached : Over(x) => x \notin listed

LEMMA SignalFrame ==
    ASSUME NEW t \in Threads, Step(t)
    PROVE  signalled' \subseteq signalled \/ CancelKill(t)
<1>1. CASE Creating(t) \/ Joining(t) \/ Detach(t)
    BY <1>1 DEF Creating, CallCreate, Reap, Reaped, BeginThread, BeginFails, ListAdd, Joining,
                CallJoin, JoinCheck, ThreadJoin, JoinUnlist, JoinUnmap, Detach, cancelVars
<1>2. CASE OwnState(t) \/ Handling(t)
    BY <1>2 DEF OwnState, CancelSelf, SetCancelState, SetCancelType, TestCancel, Handling, FindSelf,
                CleanupPush, CleanupPop, cancelVars
<1>3. CASE Cancel(t) \/ CancelStale(t) \/ CancelHandler(t) \/ CancelKeys(t)
    BY <1>3 DEF Cancel, CancelStale, CancelHandler, CancelKeys, cancelVars
<1>4. CASE Exiting(t) \/ Die(t) \/ EndThread(t)
    BY <1>4 DEF Exiting, Exit, ExitCleanup, ExitHandler, ExitKeys, ExitFinish, Die, EndThread, cancelVars
<1>5. QED
    BY <1>1, <1>2, <1>3, <1>4 DEF Step, Canceling

LEMMA OverFrame ==
    ASSUME IInv, NEW t \in Threads, Step(t), ~BeginThread(t), NEW x \in Threads, Over(x)'
    PROVE  Over(x) \/ (ExitFinish(t) /\ x = t) \/ (CancelKill(t) /\ x = obj[t] /\ x \in listed)
<1>1. /\ kernel \in [Threads -> {"none", "running", "ghost", "joined"}] /\ obj[t] \in Threads
      /\ pc \in [Threads -> Places]
    BY DEF IInv, TypeOK
<1>2. x \in signalled' => x \in signalled \/ (CancelKill(t) /\ x = obj[t] /\ x \in listed)
    <2>1. CASE CancelKill(t)
        BY <1>1, <2>1 DEF CancelKill
    <2>2. QED
        BY <2>1, SignalFrame
<1>3. kernel'[x] = "ghost" => Over(x)
    <2>1. CASE Reap(t) \/ ThreadJoin(t)
        BY <1>1, <2>1 DEF Reap, ThreadJoin, Over
    <2>2. CASE Die(t) \/ EndThread(t)
        BY <1>1, <2>2 DEF Die, EndThread, Over
    <2>3. QED
        BY <2>1, <2>2, KernelFrame DEF Over
<1>4. pc'[x] = "end" => Over(x) \/ (ExitFinish(t) /\ x = t)
    <2>1. CASE x # t
        BY <2>1, OthersStay DEF Over
    <2>2. CASE x = t /\ (CallCreate(t) \/ CallJoin(t) \/ Detach(t) \/ CancelStale(t) \/ FindSelf(t))
        <3>1. \E q \in {"reapCreate", "reapJoin", "out", "push", "pop"} : GoTo(t, q)
            BY <2>2 DEF CallCreate, CallJoin, Detach, CancelStale, FindSelf, Call
        <3>2. QED
            BY <1>1, <2>2, <3>1 DEF GoTo
    <2>3. CASE x = t /\ (Reaped(t) \/ BeginFails(t) \/ ListAdd(t))
        BY <1>1, <2>3 DEF Reaped, BeginFails, ListAdd, GoTo
    <2>4. CASE x = t /\ (JoinCheck(t) \/ ThreadJoin(t) \/ JoinUnlist(t) \/ JoinUnmap(t))
        BY <1>1, <2>4 DEF JoinCheck, ThreadJoin, JoinUnlist, JoinUnmap, GoTo
    <2>5. CASE x = t /\ (Cancel(t) \/ CancelHandler(t) \/ CancelKeys(t) \/ CancelKill(t))
        BY <1>1, <2>5 DEF Cancel, CancelHandler, CancelKeys, CancelKill, Scan, GoTo
    <2>6. CASE x = t /\ (OwnState(t) \/ CleanupPush(t) \/ CleanupPop(t))
        BY <1>1, <2>6 DEF OwnState, CancelSelf, SetCancelState, SetCancelType, TestCancel, Exits,
                          CleanupPush, CleanupPop, GoTo
    <2>7. CASE x = t /\ (Exit(t) \/ ExitCleanup(t) \/ ExitHandler(t) \/ ExitKeys(t))
        BY <1>1, <2>7 DEF Exit, ExitCleanup, ExitHandler, ExitKeys, GoTo
    <2>8. CASE x = t /\ (Reap(t) \/ Die(t) \/ EndThread(t))
        BY <2>8 DEF Reap, Die, EndThread, Over
    <2>9. QED
        BY <2>1, <2>2, <2>3, <2>4, <2>5, <2>6, <2>7, <2>8
           DEF Step, Creating, Joining, Canceling, Handling, Exiting
<1>5. QED
    BY <1>2, <1>3, <1>4 DEF Over

LEMMA LockFrame ==
    ASSUME IInv, NEW t \in Threads, Step(t), ~BeginThread(t)
    PROVE  /\ lock' = lock \/ (ListAdd(t) /\ lock = t)
           /\ pc'[t] = "created" => UNCHANGED <<pc, obj>>
           /\ listed' \subseteq listed \cup (IF ListAdd(t) THEN {obj[t]} ELSE {})
<1>1. pc \in [Threads -> Places]
    BY DEF IInv, TypeOK
<1>2. CASE CallCreate(t) \/ CallJoin(t) \/ Detach(t) \/ CancelStale(t) \/ FindSelf(t)
    <2>1. lock' = lock /\ \E q \in {"reapCreate", "reapJoin", "out", "push", "pop"} : GoTo(t, q)
        BY <1>2 DEF CallCreate, CallJoin, Detach, CancelStale, FindSelf, Call, Locked
    <2>2. listed' = listed
        BY <1>2 DEF CallCreate, CallJoin, Detach, CancelStale, FindSelf, recordVars
    <2>3. QED
        BY <1>1, <2>1, <2>2 DEF GoTo
<1>3. CASE Reaped(t) \/ BeginFails(t) \/ ListAdd(t)
    BY <1>1, <1>3 DEF Reaped, BeginFails, ListAdd, GoTo, Locked, recordVars
<1>4. CASE JoinCheck(t) \/ ThreadJoin(t) \/ JoinUnlist(t) \/ JoinUnmap(t)
    BY <1>1, <1>4 DEF JoinCheck, ThreadJoin, JoinUnlist, JoinUnmap, Unlist, GoTo, Locked, recordVars
<1>5. CASE Cancel(t) \/ CancelHandler(t) \/ CancelKeys(t) \/ CancelKill(t)
    BY <1>1, <1>5 DEF Cancel, CancelHandler, CancelKeys, CancelKill, Scan, Retire, Unlist, GoTo, Locked,
                      recordVars
<1>6. CASE OwnState(t) \/ CleanupPush(t) \/ CleanupPop(t)
    BY <1>1, <1>6 DEF OwnState, CancelSelf, SetCancelState, SetCancelType, TestCancel, Exits,
                      CleanupPush, CleanupPop, GoTo, Locked, recordVars
<1>7. CASE Exiting(t)
    BY <1>1, <1>7 DEF Exiting, Exit, ExitCleanup, ExitHandler, ExitKeys, ExitFinish, Retire, Unlist, GoTo,
                      Locked, recordVars
<1>8. CASE Reap(t) \/ Die(t) \/ EndThread(t)
    BY <1>8 DEF Reap, Die, EndThread, callerVars, recordVars, Locked
<1>9. QED
    BY <1>2, <1>3, <1>4, <1>5, <1>6, <1>7, <1>8 DEF Step, Creating, Joining, Canceling, Handling

LEMMA RetirementStep ==
    ASSUME IInv, Retirement, ~LateDetach, NEW t \in Threads, Step(t)
    PROVE  Retirement'
<1>1. /\ kernel \in [Threads -> {"none", "running", "ghost", "joined"}] /\ obj[t] \in Threads
      /\ pc \in [Threads -> Places] /\ signalled \subseteq Threads /\ detached \subseteq Threads
      /\ obj \in [Threads -> Threads] /\ NoThread \notin Threads
    BY ThreadsAssumption DEF IInv, TypeOK
<1>2. CASE BeginThread(t)
    <2>1. PICK x \in Threads :
             /\ x = obj[t] /\ record[x] = "none" /\ lock = NoThread /\ lock' = t
             /\ UNCHANGED <<obj, listed, signalled>> /\ kernel' = [kernel EXCEPT ![x] = "running"]
             /\ detached' \in {detached, detached \cup {x}}
             /\ pc' = [pc EXCEPT ![t] = "created", ![x] = "out"]
        BY <1>1, <1>2 DEF BeginThread, callerVars, cancelVars
    <2>2. kernel[x] = "none" /\ x \notin signalled
        BY <2>1, Nobody DEF Retirement
    <2>3. ~Over(x)' /\ \A y \in Threads \ {x} : Over(y)' => Over(y)
        BY <1>1, <2>1, <2>2 DEF Over
    <2>4. \A u \in Threads : pc[u] # "created"
        BY <1>1, <2>1 DEF Retirement
    <2>5. \A u \in Threads : pc'[u] = "created" => u = t
        BY <1>1, <2>1, <2>4
    <2>6. QED
        BY <1>1, <2>1, <2>2, <2>3, <2>5 DEF Retirement
<1>3. CASE ~BeginThread(t)
    <2>1. \A x \in signalled' : kernel'[x] = "running"
        <3>1. CASE CancelKill(t)
            BY <1>1, <3>1 DEF CancelKill, Retirement
        <3>2. CASE Reap(t) \/ ThreadJoin(t)
            BY <1>1, <3>2 DEF Reap, ThreadJoin, cancelVars, Retirement
        <3>3. CASE Die(t) \/ EndThread(t)
            BY <1>1, <3>3 DEF Die, EndThread, Retirement
        <3>4. CASE ~CancelKill(t) /\ kernel' = kernel
            BY <3>4, SignalFrame DEF Retirement
        <3>5. QED
            BY <1>3, <3>1, <3>2, <3>3, <3>4, KernelFrame
    <2>2. ASSUME NEW u \in Threads, pc'[u] = "created"
          PROVE  lock' = u /\ ~Over(obj[u])'
        <3>1. pc[u] = "created" /\ obj'[u] = obj[u]
            BY <1>3, <2>2, OthersStay, LockFrame
        <3>2. PICK x \in Threads : x = obj[u] /\ lock = u /\ ~Over(x)
            BY <1>1, <3>1 DEF Retirement
        <3>3. ~(ListAdd(t) /\ lock = t)
            BY <1>1, <2>2, <3>2 DEF ListAdd, GoTo
        <3>4. ~ExitFinish(t) /\ ~CancelKill(t)
            BY <1>1, <3>2 DEF ExitFinish, CancelKill, Locked
        <3>5. ~Over(x)'
            BY <1>3, <3>2, <3>4, OverFrame
        <3>6. QED
            BY <1>3, <3>1, <3>2, <3>3, <3>5, LockFrame DEF Over
    <2>3. ASSUME NEW x \in detached', Over(x)'
          PROVE  x \notin listed'
        <3>1. x \in Threads
            BY StepTyped DEF TypeOK
        <3>2. CASE Detach(t)
            <4>1. PICK y \in Threads :
                     /\ Runs(y) /\ pc[y] # "end" /\ Call(t, y, "out")
                     /\ detached' = IF y \in listed THEN detached \cup {y} ELSE detached
                BY <3>2 DEF Detach
            <4>2. UNCHANGED <<kernel, signalled, listed>> /\ pc' = [pc EXCEPT ![t] = "out"]
                BY <3>2, <4>1 DEF Detach, recordVars, cancelVars, Call, GoTo
            <4>3. Over(x) /\ x # y
                BY <1>1, <2>3, <3>1, <4>1, <4>2 DEF Over, Runs
            <4>4. QED
                BY <4>1, <4>2, <4>3 DEF Retirement
        <3>3. CASE ExitFinish(t)
            <4>1. detached' = detached
                BY <3>3 DEF ExitFinish
            <4>2. CASE x = t
                BY <3>3, <4>1, <4>2 DEF ExitFinish, Retire, Unlist
            <4>3. CASE x # t
                <5>1. Over(x)
                    BY <1>3, <2>3, <3>1, <3>3, <4>3, OverFrame DEF CancelKill, ExitFinish, At
                <5>2. QED
                    BY <3>3, <4>1, <5>1 DEF ExitFinish, Retire, Unlist, Retirement
            <4>4. QED
                BY <4>2, <4>3
        <3>4. CASE CancelKill(t)
            <4>1. detached' = detached
                BY <3>4 DEF CancelKill
            <4>2. CASE x = obj[t]
                BY <3>4, <4>1, <4>2 DEF CancelKill, Retire, Unlist
            <4>3. CASE x # obj[t]
                <5>1. Over(x)
                    BY <1>3, <2>3, <3>1, <3>4, <4>3, OverFrame DEF CancelKill, ExitFinish, At
                <5>2. QED
                    BY <3>4, <4>1, <5>1 DEF CancelKill, Retire, Unlist, Retirement
            <4>4. QED
                BY <4>2, <4>3
        <3>5. CASE ~(Detach(t) \/ ExitFinish(t) \/ CancelKill(t))
            <4>1. Over(x) /\ x \in detached
                BY <1>3, <2>3, <3>1, <3>5, OverFrame, JoinFrame
            <4>2. ListAdd(t) => x # obj[t]
                BY <4>1 DEF ListAdd, At, Retirement
            <4>3. QED
                BY <1>3, <4>1, <4>2, LockFrame DEF Retirement
        <3>6. QED
            BY <3>2, <3>3, <3>4, <3>5
    <2>4. QED
        BY <2>1, <2>2, <2>3 DEF Retirement
<1>4. QED
    BY <1>2, <1>3

\* As long as callers do not detach threads that have finished or were
\* cancelled, a detached thread is off the list by the time the kernel has ended
\* it: _pthread_retire() is done by its own exit or by its canceller, before.
THEOREM DetachedAreRetired == ASSUME ~LateDetach PROVE Spec => []DetachedIsRetired
<1>1. Init => Retirement
    BY DEF Init, Retirement, Over
<1>2. IInv /\ Retirement /\ [Next]_vars => Retirement'
    <2>1. UNCHANGED vars /\ Retirement => Retirement'
        BY DEF vars, Retirement, Over
    <2>2. QED
        BY <2>1, RetirementStep DEF Next, Finished
<1>3. Retirement => DetachedIsRetired
    BY DEF Retirement, Over, DetachedIsRetired
<1>4. QED
    BY <1>1, <1>2, <1>3, Invariance, PTL DEF Spec
=============================================================================
