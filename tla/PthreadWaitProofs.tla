-------------------------- MODULE PthreadWaitProofs -------------------------
(***************************************************************************)
(* Theorems about what puts threads to sleep until something happened, for *)
(* any number of threads and calls: condition variables, barriers,         *)
(* sys/semaphore.c, unnamed semaphores, pthread_once(), lazy               *)
(* initialisation and read-write locks.                                    *)
(***************************************************************************)
EXTENDS PthreadCond, PthreadRwlock, Barrier, Semaphore, SemUnnamed, PthreadOnce,
        PthreadLazyInit, FiniteSetTheorems, SequenceTheorems, TLAPS

-----------------------------------------------------------------------------
(* Condition variables: the waiter count is exact, and, as long as the     *)
(* sequence does not come round, a broadcast reaches everybody who was     *)
(* waiting and no signal is lost.                                          *)

\* The callers signal less often than the sequence has values
NoWrap == Items * Cardinality(Producers) < SeqModulus

Waits == {"registered", "check", "asleep", "reload", "leave"}

Announcing == At({"signal"})

\* The items added so far: the i-th of p is in once p has fewer than i left
Made == {x \in Producers \X (1..Items) : condLeft[x[1]] < x[2]}

\* A caller inside a call has something left to do; producers signal
Roles ==
    /\ \A t \in CondCallers : condPc[t] \notin {"out", "signal", "wake"} => condLeft[t] > 0
    /\ \A t \in CondCallers : condPc[t] \in {"signal", "wake"} => t \in Producers
    /\ \A t \in CondCallers : condPc[t] \in Waits => t \in Consumers
    /\ \A p \in Producers : condLeft[p] <= Items

ItemsMade == items <= Cardinality(Made)

\* Every item is followed by one advance of the sequence
SeqExact == word.seq + Cardinality(Announcing) = Cardinality(Made)

\* Whoever a broadcast was addressed to is registered and registered before it
Addressed ==
    /\ called \subseteq Registered
    /\ \A t \in CondCallers : mine[t] <= word.seq
    /\ \A t \in called : mine[t] < word.seq

\* While the sequence has not moved since somebody found no item, every item is
\* one whose producer has yet to move it
Awaited == (\E c \in Registered : mine[c] = word.seq) => items <= Cardinality(Announcing)

\* Producers that will wake somebody, and consumers that will look for an item
\* before they sleep again
Helpers ==
    {t \in CondCallers :
        \/ condPc[t] \in {"signal", "wake"}
        \/ /\ t \in Consumers
           /\ \/ condPc[t] \in {"in", "leave", "relock"}
              \/ condPc[t] \in {"registered", "check", "reload"} /\ mine[t] # word.seq
              \/ condPc[t] = "out" /\ condLeft[t] > 0}

\* While somebody sleeps there is one of them for every item
Provided == At({"asleep"}) # {} => items <= Cardinality(Helpers)

Ordered == SeqExact /\ Addressed /\ BroadcastReachesAll /\ Awaited /\ Provided

CondInv == CondTypeOK /\ CountIsExact /\ Roles /\ ItemsMade /\ (NoWrap => Ordered)
-----------------------------------------------------------------------------
LEMMA CallersFinite ==
    ASSUME CondAssumption
    PROVE  /\ IsFiniteSet(CondCallers) /\ Cardinality(CondCallers) \in Nat
           /\ IsFiniteSet(Producers) /\ Cardinality(Producers) \in Nat
<1>1. IsFiniteSet(CondCallers) /\ Producers \in SUBSET CondCallers
    BY DEF CondAssumption, CondCallers
<1>2. IsFiniteSet(Producers)
    BY <1>1, FS_Subset
<1>3. QED
    BY <1>1, <1>2, FS_CardinalityType

LEMMA CondCounting ==
    ASSUME CondAssumption, NEW S \in SUBSET CondCallers
    PROVE  /\ Cardinality(S) \in 0..Cardinality(CondCallers)
           /\ \A t \in CondCallers : Cardinality(S \cup {t}) =
                                   IF t \in S THEN Cardinality(S) ELSE Cardinality(S) + 1
           /\ \A t \in S : Cardinality(S \ {t}) = Cardinality(S) - 1 /\ Cardinality(S) > 0
<1>1. IsFiniteSet(S) /\ Cardinality(S) <= Cardinality(CondCallers)
    BY CallersFinite, FS_Subset
<1>2. Cardinality(S) \in 0..Cardinality(CondCallers)
    BY <1>1, CallersFinite, FS_CardinalityType
<1>3. ASSUME NEW t \in CondCallers
      PROVE  Cardinality(S \cup {t}) = IF t \in S THEN Cardinality(S) ELSE Cardinality(S) + 1
    BY <1>1, FS_AddElement
<1>4. ASSUME NEW t \in S
      PROVE  Cardinality(S \ {t}) = Cardinality(S) - 1 /\ Cardinality(S) > 0
    <2>1. Cardinality(S \ {t}) = Cardinality(S) - 1
        BY <1>1, <1>4, FS_RemoveElement
    <2>2. S # {}
        BY <1>4
    <2>3. Cardinality(S) # 0
        BY <1>1, <2>2, FS_EmptySet
    <2>4. QED
        BY <1>2, <2>1, <2>3, CallersFinite
<1>5. QED
    BY <1>2, <1>3, <1>4

LEMMA Pairs ==
    ASSUME CondAssumption, NEW S \in SUBSET (Producers \X (1..Items))
    PROVE  /\ Cardinality(S) \in Nat
           /\ Cardinality(S) <= Items * Cardinality(Producers)
           /\ \A x : x \notin S => Cardinality(S \cup {x}) = Cardinality(S) + 1
<1>1. Items \in Nat
    BY DEF CondAssumption
<1>2. IsFiniteSet(1..Items) /\ Cardinality(1..Items) = Items
    BY <1>1, FS_Interval
<1>3. /\ IsFiniteSet(Producers \X (1..Items))
      /\ Cardinality(Producers \X (1..Items)) = Cardinality(Producers) * Items
    BY <1>2, CallersFinite, FS_Product
<1>4. IsFiniteSet(S) /\ Cardinality(S) <= Cardinality(Producers) * Items
    BY <1>3, FS_Subset
<1>5. Cardinality(Producers) * Items = Items * Cardinality(Producers)
    BY <1>1, CallersFinite
<1>6. QED
    BY <1>4, <1>5, FS_CardinalityType, FS_AddElement

\* What an invariant says in numbers
LEMMA Numbers ==
    ASSUME CondAssumption, CondInv
    PROVE  /\ Cardinality(Made) \in Nat /\ Cardinality(Made) <= Items * Cardinality(Producers)
           /\ Cardinality(Announcing) \in Nat /\ Cardinality(Registered) \in Nat
           /\ Cardinality(Helpers) \in Nat
           /\ word.seq \in 0..SeqModulus - 1 /\ items \in Nat
           /\ word.waiters = Cardinality(Registered)
           /\ Items * Cardinality(Producers) \in Nat /\ SeqModulus \in Nat /\ Items \in Nat
<1>1. Cardinality(Made) \in Nat /\ Cardinality(Made) <= Items * Cardinality(Producers)
    BY Pairs DEF Made
<1>2. Announcing \in SUBSET CondCallers /\ Registered \in SUBSET CondCallers
      /\ Helpers \in SUBSET CondCallers
    BY DEF Announcing, Registered, At, Helpers
<1>3. Cardinality(Announcing) \in Nat /\ Cardinality(Registered) \in Nat
      /\ Cardinality(Helpers) \in Nat
    BY <1>2, CondCounting, CallersFinite
<1>4. SeqModulus \in Nat /\ Items \in Nat /\ Items * Cardinality(Producers) \in Nat
    BY CallersFinite DEF CondAssumption
<1>5. word.seq \in 0..SeqModulus - 1 /\ items \in Nat
    BY <1>4 DEF CondInv, CondTypeOK, Word
<1>6. QED
    BY <1>1, <1>3, <1>4, <1>5 DEF CondInv, CountIsExact

\* A well-typed word is one whose numbers are right
LEMMA WordTyped ==
    ASSUME CondAssumption, NEW S \in SUBSET CondCallers,
           NEW n, n = Cardinality(S), NEW k \in 0..SeqModulus - 1
    PROVE  [waiters |-> n, seq |-> k] \in Word
<1>1. n \in 0..Cardinality(CondCallers)
    BY CondCounting
<1>2. QED
    BY <1>1 DEF Word

-----------------------------------------------------------------------------
(* What becomes of the groups when one thread goes to another place        *)

LEMMA Moves ==
    ASSUME CondInv, NEW t \in CondCallers, NEW place \in Places, CondGoTo(t, place)
    PROVE  /\ condPc' \in [CondCallers -> Places]
           /\ Registered' = IF place \in Waits THEN Registered \cup {t} ELSE Registered \ {t}
           /\ Announcing' = IF place = "signal" THEN Announcing \cup {t} ELSE Announcing \ {t}
           /\ t \in Registered <=> condPc[t] \in Waits
           /\ t \in Announcing <=> condPc[t] = "signal"
           /\ condPc'[t] = place /\ \A u \in CondCallers \ {t} : condPc'[u] = condPc[u]
<1>1. condPc \in [CondCallers -> Places] /\ condPc' = [condPc EXCEPT ![t] = place]
    BY DEF CondInv, CondTypeOK, CondGoTo
<1>2. /\ condPc' \in [CondCallers -> Places] /\ condPc'[t] = place
      /\ \A u \in CondCallers \ {t} : condPc'[u] = condPc[u]
    BY <1>1
<1>3. Registered' = IF place \in Waits THEN Registered \cup {t} ELSE Registered \ {t}
    BY <1>2 DEF Registered, At, Waits
<1>4. Announcing' = IF place = "signal" THEN Announcing \cup {t} ELSE Announcing \ {t}
    BY <1>2 DEF Announcing, At
<1>5. QED
    BY <1>2, <1>3, <1>4 DEF Registered, Announcing, At, Waits

\* The helpers are as many as before when none is lost, and one less when one is
LEMMA HelpersCount ==
    ASSUME CondAssumption, CondInv
    PROVE  /\ Announcing \subseteq Helpers /\ Cardinality(Announcing) <= Cardinality(Helpers)
           /\ Helpers \subseteq Helpers' => Cardinality(Helpers) <= Cardinality(Helpers')
           /\ \A t \in CondCallers : Helpers \ {t} \subseteq Helpers' =>
                 Cardinality(Helpers) - 1 <= Cardinality(Helpers')
           /\ Cardinality(Helpers') \in Nat
<1>1. Helpers \in SUBSET CondCallers /\ Helpers' \in SUBSET CondCallers
    BY DEF Helpers
<1>2. /\ IsFiniteSet(Helpers) /\ IsFiniteSet(Helpers')
      /\ Cardinality(Helpers) \in Nat /\ Cardinality(Helpers') \in Nat
    BY <1>1, CallersFinite, FS_Subset, FS_CardinalityType
<1>3. Announcing \subseteq Helpers
    BY DEF Announcing, At, Helpers
<1>4. Cardinality(Announcing) <= Cardinality(Helpers)
    BY <1>2, <1>3, FS_Subset
<1>5. Helpers \subseteq Helpers' => Cardinality(Helpers) <= Cardinality(Helpers')
    BY <1>2, FS_Subset
<1>6. ASSUME NEW t \in CondCallers, Helpers \ {t} \subseteq Helpers'
      PROVE  Cardinality(Helpers) - 1 <= Cardinality(Helpers')
    <2>1. Cardinality(Helpers \ {t}) <= Cardinality(Helpers')
        BY <1>2, <1>6, FS_Subset
    <2>2. CASE t \in Helpers
        BY <1>1, <2>1, <2>2, CondCounting
    <2>3. CASE t \notin Helpers
        <3>1. Helpers \ {t} = Helpers
            BY <2>3
        <3>2. QED
            BY <1>2, <2>1, <3>1
    <2>4. QED
        BY <2>2, <2>3
<1>7. QED
    BY <1>2, <1>3, <1>4, <1>5, <1>6

\* A waiter that stays registered changes nothing that is counted
LEMMA QuietRight ==
    ASSUME CondAssumption, CondInv,
           NEW t \in CondCallers, condPc[t] \in Waits \ {"leave"}, NEW place \in Waits,
           CondGoTo(t, place), place = "asleep" => mine[t] = word.seq,
           UNCHANGED <<word, items, mine, wakes, condLeft, called>>,
           mutex' \in CondCallers \cup {NoThread}, sample' \in [CondCallers -> Word],
           werr' \in [CondCallers -> BOOLEAN], interrupts' \in 0..MaxInterrupts
    PROVE  CondInv'
<1>1. place \in Places /\ condPc[t] \in Places
    BY DEF Waits, Places
<1>2. Registered' = Registered /\ Announcing' = Announcing /\ t \in Registered
    BY <1>1, Moves DEF Waits
<1>3. Made' = Made
    BY DEF Made
<1>4. CondTypeOK'
    BY <1>1, Moves DEF CondInv, CondTypeOK
<1>5. CountIsExact'
    BY <1>2, <1>4 DEF CondInv, CountIsExact
<1>6. Roles' /\ ItemsMade'
    BY <1>1, <1>3, Moves DEF CondInv, Roles, ItemsMade, Waits
<1>7. ASSUME NoWrap, Ordered PROVE Ordered'
    <2>1. SeqExact' /\ Addressed' /\ Awaited'
        BY <1>2, <1>3, <1>7 DEF Ordered, SeqExact, Addressed, Awaited
    <2>2. BroadcastReachesAll'
        <3> SUFFICES ASSUME NEW u \in called, condPc'[u] = "asleep"
                     PROVE  \E p \in Producers : condPc'[p] = "wake" /\ wakes'[p] = "all"
            BY DEF BroadcastReachesAll
        <3>1. u \in CondCallers
            BY DEF CondInv, CondTypeOK
        <3>2. u # t
            <4> SUFFICES ASSUME u = t PROVE FALSE
                OBVIOUS
            <4>1. mine[t] = word.seq /\ mine[t] < word.seq
                BY <1>1, <1>7, Moves DEF Ordered, Addressed
            <4>2. QED
                BY <4>1, Numbers
        <3>3. condPc[u] = "asleep"
            BY <1>1, <3>1, <3>2, Moves
        <3>4. PICK p \in Producers : condPc[p] = "wake" /\ wakes[p] = "all"
            BY <1>7, <3>3 DEF Ordered, BroadcastReachesAll
        <3>5. p # t /\ p \in CondCallers
            BY <3>4 DEF Waits, CondCallers
        <3>6. QED
            BY <1>1, <3>4, <3>5, Moves
    <2>3. Provided'
        <3>1. CASE place = "asleep"
            <4>1. items' <= Cardinality(Announcing')
                BY <1>2, <1>7, <3>1 DEF Ordered, Awaited
            <4>2. /\ Announcing' \subseteq Helpers' /\ IsFiniteSet(Helpers')
                  /\ Announcing' \in SUBSET CondCallers
                BY CallersFinite, FS_Subset DEF Announcing, At, Helpers
            <4>3. Cardinality(Announcing') <= Cardinality(Helpers')
                BY <4>2, FS_Subset
            <4>4. QED
                BY <1>2, <4>1, <4>3, Numbers, HelpersCount DEF Provided
        <3>2. CASE place # "asleep"
            <4>1. At({"asleep"})' \subseteq At({"asleep"})
                BY <1>1, <3>2, Moves DEF At
            <4>2. Helpers \subseteq Helpers'
                BY <1>1, <3>2, Moves DEF Helpers, Waits
            <4>3. QED
                BY <1>7, <4>1, <4>2, Numbers, HelpersCount DEF Ordered, Provided
        <3>3. QED
            BY <3>1, <3>2
    <2>4. QED
        BY <2>1, <2>2, <2>3 DEF Ordered
<1>8. QED
    BY <1>4, <1>5, <1>6, <1>7 DEF CondInv

\* Neither does a thread that comes, goes or takes an item
LEMMA OutsideRight ==
    ASSUME CondAssumption, CondInv,
           NEW t \in CondCallers, condPc[t] \in {"out", "in", "relock"}, NEW place \in {"out", "in"},
           CondGoTo(t, place),
           NEW n \in 0..condLeft[t], condLeft' = [condLeft EXCEPT ![t] = n],
           n = condLeft[t] \/ t \in Consumers, place = "in" => n > 0,
           items' \in Nat, items' <= items, place = "in" \/ items' < items \/ items' = 0,
           UNCHANGED <<word, sample, mine, wakes, interrupts, called>>,
           mutex' \in CondCallers \cup {NoThread}, werr' \in [CondCallers -> BOOLEAN]
    PROVE  CondInv'
<1>1. place \in Places /\ place \notin Waits /\ place # "signal"
    BY DEF Waits, Places
<1>2. t \notin Registered /\ t \notin Announcing
    BY <1>1, Moves DEF Waits
<1>3. Registered' = Registered /\ Announcing' = Announcing
    BY <1>1, <1>2, Moves
<1>4. condLeft \in [CondCallers -> 0..Items + Wanted] /\ Items + Wanted \in Nat
    BY DEF CondInv, CondTypeOK, CondAssumption
<1>5. /\ condLeft' \in [CondCallers -> 0..Items + Wanted]
      /\ \A p \in Producers : condLeft'[p] = condLeft[p]
    BY <1>4 DEF CondAssumption, CondCallers
<1>6. Made' = Made
    BY <1>5 DEF Made
<1>7. CondTypeOK'
    <2>1. items' \in 0..Items * Cardinality(Producers)
        BY Numbers DEF CondInv, CondTypeOK
    <2>2. QED
        BY <1>1, <1>5, <2>1, Moves DEF CondInv, CondTypeOK
<1>8. CountIsExact'
    BY <1>3, <1>7 DEF CondInv, CountIsExact
<1>9. Roles'
    BY <1>1, <1>4, <1>5, Moves DEF CondInv, Roles
<1>10. ItemsMade'
    BY <1>6, Numbers DEF CondInv, ItemsMade
<1>11. ASSUME NoWrap, Ordered PROVE Ordered'
    <2>1. SeqExact' /\ Addressed'
        BY <1>3, <1>6, <1>11 DEF Ordered, SeqExact, Addressed
    <2>2. BroadcastReachesAll'
        BY <1>1, <1>11, Moves
        DEF Ordered, BroadcastReachesAll, CondCallers, Addressed, Registered, At
    <2>3. Awaited'
        BY <1>3, <1>11, Numbers DEF Ordered, Awaited
    <2>4. Provided'
        <3>1. At({"asleep"})' \subseteq At({"asleep"})
            BY <1>1, Moves DEF At
        <3>2. CASE place = "in"
            <4>1. Helpers \subseteq Helpers'
                BY <1>1, <1>4, <3>2, Moves DEF Helpers
            <4>2. QED
                BY <1>11, <3>1, <4>1, Numbers, HelpersCount DEF Ordered, Provided
        <3>3. CASE items' < items
            <4>1. Helpers \ {t} \subseteq Helpers'
                BY <1>1, <1>4, Moves DEF Helpers
            <4>2. QED
                BY <1>11, <3>1, <3>3, <4>1, Numbers, HelpersCount DEF Ordered, Provided
        <3>4. CASE items' = 0
            BY <3>4, HelpersCount DEF Provided
        <3>5. QED
            BY <3>2, <3>3, <3>4
    <2>5. QED
        BY <2>1, <2>2, <2>3, <2>4 DEF Ordered
<1>12. QED
    BY <1>7, <1>8, <1>9, <1>10, <1>11 DEF CondInv

-----------------------------------------------------------------------------
(* Each action keeps the invariant                                         *)

LEMMA RegisterRight ==
    ASSUME CondAssumption, CondInv, NEW c \in CondCallers, Register(c)
    PROVE  CondInv'
<1>1. /\ condPc[c] = "in" /\ c \in Consumers /\ CondGoTo(c, "registered") /\ items = 0
      /\ word' = [word EXCEPT !.waiters = @ + 1]
      /\ sample' = [sample EXCEPT ![c] = word'] /\ mine' = [mine EXCEPT ![c] = word.seq]
      /\ UNCHANGED <<mutex, items, werr, wakes, condLeft, interrupts, called>>
    BY DEF Register
<1>2. "registered" \in Places /\ "registered" \in Waits
    BY DEF Places, Waits
<1>3. /\ c \notin Registered /\ Registered' = Registered \cup {c}
      /\ c \notin Announcing /\ Announcing' = Announcing
    BY <1>1, <1>2, Moves DEF Waits
<1>4. Registered \in SUBSET CondCallers /\ Registered' \in SUBSET CondCallers
    BY DEF Registered, At
<1>5. Cardinality(Registered') = Cardinality(Registered) + 1
    BY <1>3, <1>4, CondCounting
<1>6. word \in Word /\ word = [waiters |-> word.waiters, seq |-> word.seq]
    BY DEF CondInv, CondTypeOK, Word
<1>7. word' = [waiters |-> Cardinality(Registered'), seq |-> word.seq]
    BY <1>1, <1>5, <1>6, Numbers
<1>8. word' \in Word
    BY <1>4, <1>7, Numbers, WordTyped
<1>9. CondTypeOK'
    BY <1>1, <1>2, <1>8, Moves, Numbers DEF CondInv, CondTypeOK
<1>10. CountIsExact'
    BY <1>7, <1>9 DEF CountIsExact
<1>11. Roles' /\ ItemsMade'
    BY <1>1, <1>2, Moves DEF CondInv, Roles, ItemsMade, Made, Waits
<1>12. ASSUME NoWrap, Ordered PROVE Ordered'
    <2>1. SeqExact'
        BY <1>1, <1>3, <1>7, <1>12 DEF Ordered, SeqExact, Made
    <2>2. Addressed'
        BY <1>1, <1>3, <1>7, <1>12, Numbers DEF Ordered, Addressed, CondInv, CondTypeOK
    <2>3. BroadcastReachesAll'
        BY <1>1, <1>2, <1>12, Moves DEF Ordered, BroadcastReachesAll, CondInv, CondTypeOK, CondCallers
    <2>4. Awaited' /\ Provided'
        BY <1>1, <1>3, Numbers, HelpersCount DEF Awaited, Provided
    <2>5. QED
        BY <2>1, <2>2, <2>3, <2>4 DEF Ordered
<1>13. QED
    BY <1>9, <1>10, <1>11, <1>12 DEF CondInv

LEMMA LeaveRight ==
    ASSUME CondAssumption, CondInv, NEW c \in CondCallers, Leave(c)
    PROVE  CondInv'
<1>1. /\ condPc[c] = "leave" /\ CondGoTo(c, "relock")
      /\ word' = [word EXCEPT !.waiters = @ - 1] /\ called' = called \ {c}
      /\ UNCHANGED <<mutex, items, sample, mine, werr, wakes, condLeft, interrupts>>
    BY DEF Leave
<1>2. "relock" \in Places /\ "relock" \notin Waits
    BY DEF Places, Waits
<1>3. /\ c \in Registered /\ Registered' = Registered \ {c}
      /\ c \notin Announcing /\ Announcing' = Announcing
    BY <1>1, <1>2, Moves DEF Waits
<1>4. Registered \in SUBSET CondCallers /\ Registered' \in SUBSET CondCallers
    BY DEF Registered, At
<1>5. Cardinality(Registered') = Cardinality(Registered) - 1
    BY <1>3, <1>4, CondCounting
<1>6. word \in Word /\ word = [waiters |-> word.waiters, seq |-> word.seq]
    BY DEF CondInv, CondTypeOK, Word
<1>7. word' = [waiters |-> Cardinality(Registered'), seq |-> word.seq]
    BY <1>1, <1>5, <1>6, Numbers
<1>8. word' \in Word
    BY <1>4, <1>7, Numbers, WordTyped
<1>9. CondTypeOK'
    BY <1>1, <1>2, <1>8, Moves DEF CondInv, CondTypeOK
<1>10. CountIsExact'
    BY <1>7, <1>9 DEF CountIsExact
<1>11. Roles' /\ ItemsMade'
    BY <1>1, <1>2, Moves DEF CondInv, Roles, ItemsMade, Made, Waits
<1>12. ASSUME NoWrap, Ordered PROVE Ordered'
    <2>1. SeqExact' /\ Addressed' /\ Awaited'
        BY <1>1, <1>3, <1>7, <1>12 DEF Ordered, SeqExact, Made, Addressed, Awaited
    <2>2. BroadcastReachesAll'
        BY <1>1, <1>2, <1>12, Moves DEF Ordered, BroadcastReachesAll, CondInv, CondTypeOK, CondCallers
    <2>3. Provided'
        <3>1. At({"asleep"})' \subseteq At({"asleep"})
            BY <1>1, <1>2, Moves DEF At
        <3>2. Helpers \subseteq Helpers'
            BY <1>1, <1>2, <1>7, Moves DEF Helpers
        <3>3. QED
            BY <1>1, <1>12, <3>1, <3>2, Numbers, HelpersCount DEF Ordered, Provided
    <2>4. QED
        BY <2>1, <2>2, <2>3 DEF Ordered
<1>13. QED
    BY <1>9, <1>10, <1>11, <1>12 DEF CondInv

LEMMA AddRight ==
    ASSUME CondAssumption, CondInv, NEW p \in CondCallers, Add(p)
    PROVE  CondInv'
<1>1. /\ condPc[p] = "in" /\ p \in Producers /\ CondGoTo(p, "signal")
      /\ items' = items + 1 /\ condLeft' = [condLeft EXCEPT ![p] = @ - 1]
      /\ mutex' \in {p, NoThread}
      /\ UNCHANGED <<word, sample, mine, werr, interrupts, called>>
    BY DEF Add
<1>2. PICK w \in {"one", "all"} : wakes' = [wakes EXCEPT ![p] = w]
    BY DEF Add
<1>3. "signal" \in Places /\ "signal" \notin Waits
    BY DEF Places, Waits
<1>4. /\ p \notin Registered /\ Registered' = Registered
      /\ p \notin Announcing /\ Announcing' = Announcing \cup {p}
    BY <1>1, <1>3, Moves DEF Waits
<1>5. Cardinality(Announcing') = Cardinality(Announcing) + 1
    <2>1. Announcing \in SUBSET CondCallers
        BY DEF Announcing, At
    <2>2. QED
        BY <1>4, <2>1, CondCounting
<1>6. condLeft \in [CondCallers -> 0..Items + Wanted] /\ Items + Wanted \in Nat /\ Items \in Nat
    BY DEF CondInv, CondTypeOK, CondAssumption
<1>7. condLeft[p] > 0 /\ condLeft[p] \in 1..Items
    BY <1>1, <1>6 DEF CondInv, Roles
<1>8. condLeft' \in [CondCallers -> 0..Items + Wanted] /\ \A q \in Producers : condLeft'[q] <= Items
    BY <1>1, <1>6, <1>7 DEF CondInv, Roles, CondCallers
<1>9. Cardinality(Made') = Cardinality(Made) + 1
    <2>1. <<p, condLeft[p]>> \notin Made
        BY <1>6, <1>7 DEF Made
    <2>2. \A x \in Producers \X (1..Items) :
             condLeft'[x[1]] < x[2] <=> condLeft[x[1]] < x[2] \/ x = <<p, condLeft[p]>>
        <3> SUFFICES ASSUME NEW q \in Producers, NEW i \in 1..Items
                     PROVE  condLeft'[q] < i <=> condLeft[q] < i \/ (q = p /\ i = condLeft[p])
            OBVIOUS
        <3>1. CASE q = p
            BY <1>1, <1>6, <1>7, <3>1 DEF CondCallers
        <3>2. CASE q # p
            BY <1>1, <1>6, <3>2 DEF CondCallers
        <3>3. QED
            BY <3>1, <3>2
    <2>3. <<p, condLeft[p]>> \in Producers \X (1..Items)
        BY <1>1, <1>7
    <2>4. Made' = Made \cup {<<p, condLeft[p]>>}
        BY <2>2, <2>3 DEF Made
    <2>5. QED
        BY <2>1, <2>4, Pairs DEF Made
<1>10. items' \in 0..Items * Cardinality(Producers) /\ ItemsMade'
    <2>1. Cardinality(Made') <= Items * Cardinality(Producers)
        BY Pairs DEF Made
    <2>2. items' \in Nat /\ items' <= Cardinality(Made')
        BY <1>1, <1>9, Numbers DEF CondInv, ItemsMade
    <2>3. Cardinality(Made') \in Nat /\ Items * Cardinality(Producers) \in Nat
        BY <1>9, Numbers
    <2>4. QED
        BY <2>1, <2>2, <2>3 DEF ItemsMade
<1>11. CondTypeOK'
    BY <1>1, <1>2, <1>3, <1>8, <1>10, Moves DEF CondInv, CondTypeOK
<1>12. CountIsExact'
    BY <1>1, <1>4, <1>11 DEF CondInv, CountIsExact
<1>13. Roles'
    BY <1>1, <1>3, <1>8, Moves DEF CondInv, Roles, Waits
<1>14. ASSUME NoWrap, Ordered PROVE Ordered'
    <2>1. SeqExact' /\ Addressed'
        BY <1>1, <1>4, <1>5, <1>9, <1>14, Numbers DEF Ordered, SeqExact, Addressed
    <2>2. BroadcastReachesAll'
        <3>1. \A q \in Producers : condPc[q] = "wake" =>
                  q # p /\ condPc'[q] = condPc[q] /\ wakes'[q] = wakes[q]
            BY <1>1, <1>2, <1>3, Moves DEF CondInv, CondTypeOK, CondCallers
        <3>2. \A t \in called : condPc'[t] = "asleep" => condPc[t] = "asleep"
            BY <1>1, <1>3, Moves DEF CondInv, CondTypeOK
        <3>3. QED
            BY <1>1, <1>14, <3>1, <3>2 DEF Ordered, BroadcastReachesAll
    <2>3. Awaited'
        BY <1>1, <1>4, <1>5, <1>14, Numbers DEF Ordered, Awaited
    <2>4. Provided'
        <3>1. At({"asleep"})' \subseteq At({"asleep"})
            BY <1>1, <1>3, Moves DEF At
        <3>2. p \notin Helpers /\ Helpers' = Helpers \cup {p}
            BY <1>1, <1>3, <1>6, Moves DEF Helpers, CondAssumption
        <3>3. Helpers \in SUBSET CondCallers
            BY DEF Helpers
        <3>4. Cardinality(Helpers') = Cardinality(Helpers) + 1
            BY <3>2, <3>3, CondCounting
        <3>5. QED
            BY <1>1, <1>14, <3>1, <3>4, Numbers DEF Ordered, Provided
    <2>5. QED
        BY <2>1, <2>2, <2>3, <2>4 DEF Ordered
<1>15. QED
    BY <1>10, <1>11, <1>12, <1>13, <1>14 DEF CondInv

\* The sequence moves on; without coming round, if it has signals left
LEMMA AdvanceRight ==
    ASSUME CondAssumption, CondInv, NEW p \in CondCallers, Advance(p)
    PROVE  CondInv'
<1>1. /\ condPc[p] = "signal"
      /\ word' = [word EXCEPT !.seq = (@ + 1) % SeqModulus]
      /\ called' = IF wakes[p] = "all" THEN called \cup Registered ELSE called
      /\ UNCHANGED <<items, sample, mine, werr, wakes, condLeft, interrupts>>
    BY DEF Advance
<1>2. PICK place \in {"wake", "out"} :
         /\ CondGoTo(p, place) /\ mutex' \in {mutex, NoThread}
         /\ place = "out" => word.waiters = 0
    BY DEF Advance, Signalled
<1>3. place \in Places /\ place \notin Waits /\ place # "signal"
    BY DEF Places, Waits
<1>4. /\ p \notin Registered /\ Registered' = Registered /\ Registered \in SUBSET CondCallers
      /\ p \in Announcing /\ Announcing' = Announcing \ {p} /\ Announcing \in SUBSET CondCallers
    BY <1>1, <1>2, <1>3, Moves DEF Waits, Registered, Announcing, At
<1>5. Cardinality(Announcing') = Cardinality(Announcing) - 1 /\ Cardinality(Announcing) > 0
    BY <1>4, CondCounting
<1>6. SeqModulus \in Nat \ {0} /\ word.seq \in Nat
    BY Numbers DEF CondAssumption
<1>7. word' = [waiters |-> Cardinality(Registered), seq |-> (word.seq + 1) % SeqModulus]
    BY <1>1, Numbers DEF CondInv, CondTypeOK, Word
<1>8. (word.seq + 1) % SeqModulus \in 0..SeqModulus - 1
    BY <1>6
<1>9. word' \in Word
    BY <1>4, <1>7, <1>8, WordTyped
<1>10. called' \subseteq CondCallers
    BY <1>1, <1>4 DEF CondInv, CondTypeOK
<1>11. CondTypeOK'
    BY <1>1, <1>2, <1>3, <1>9, <1>10, Moves DEF CondInv, CondTypeOK
<1>12. CountIsExact'
    BY <1>4, <1>7, <1>11 DEF CountIsExact
<1>13. Roles' /\ ItemsMade'
    BY <1>1, <1>2, <1>3, Moves DEF CondInv, Roles, ItemsMade, Made, Waits
<1>14. ASSUME NoWrap, Ordered PROVE Ordered'
    <2>1. word'.seq = word.seq + 1
        <3>1. word.seq + 1 < SeqModulus
            BY <1>5, <1>6, <1>14, Numbers DEF Ordered, SeqExact, NoWrap
        <3>2. QED
            BY <1>6, <1>7, <3>1
    <2>2. SeqExact'
        BY <1>1, <1>4, <1>5, <1>6, <1>14, <2>1, Numbers DEF Ordered, SeqExact, Made
    <2>3. \A t \in CondCallers : mine'[t] \in Nat /\ mine'[t] < word'.seq
        <3>1. mine \in [CondCallers -> Nat]
            BY Numbers DEF CondInv, CondTypeOK
        <3>2. QED
            BY <1>1, <1>6, <1>14, <2>1, <3>1 DEF Ordered, Addressed
    <2>4. called' \subseteq Registered
        BY <1>1, <1>14 DEF Ordered, Addressed
    <2>5. Addressed'
        BY <1>4, <1>6, <1>10, <2>1, <2>3, <2>4 DEF Addressed
    <2>6. BroadcastReachesAll'
        <3> SUFFICES ASSUME NEW t \in called', condPc'[t] = "asleep"
                     PROVE  \E q \in Producers : condPc'[q] = "wake" /\ wakes'[q] = "all"
            BY DEF BroadcastReachesAll
        <3>1. t \in Registered /\ t \in CondCallers /\ t # p /\ condPc[t] = "asleep"
            BY <1>2, <1>3, <1>4, <2>4, Moves
        <3>2. CASE t \in called
            <4>1. PICK q \in Producers : condPc[q] = "wake" /\ wakes[q] = "all"
                BY <1>14, <3>1, <3>2 DEF Ordered, BroadcastReachesAll
            <4>2. QED
                BY <1>1, <1>2, <1>3, <4>1, Moves DEF CondCallers
        <3>3. CASE t \notin called
            <4>1. wakes[p] = "all" /\ p \in Producers
                BY <1>1, <3>3 DEF CondInv, Roles
            <4>2. Cardinality(Registered) > 0
                BY <1>4, <3>1, CondCounting
            <4>3. condPc'[p] = "wake"
                BY <1>2, <1>3, <4>2, Moves, Numbers
            <4>4. QED
                BY <1>1, <4>1, <4>3
        <3>4. QED
            BY <3>2, <3>3
    <2>7. Awaited'
        BY <1>4, <2>1, <2>3, <1>6 DEF Awaited
    <2>8. Provided'
        <3> SUFFICES ASSUME NEW t \in CondCallers, condPc'[t] = "asleep"
                     PROVE  items' <= Cardinality(Helpers')
            BY DEF Provided, At
        <3>1. t # p /\ condPc[t] = "asleep"
            BY <1>2, <1>3, Moves
        <3>2. t \in Registered /\ t \in At({"asleep"})
            BY <3>1 DEF Registered, At
        <3>3. Cardinality(Registered) > 0
            BY <1>4, <3>2, CondCounting
        <3>4. condPc'[p] = "wake"
            BY <1>2, <1>3, <3>3, Moves, Numbers
        <3>5. \A c \in CondCallers : mine'[c] # word'.seq
            BY <1>6, <2>1, <2>3
        <3>6. Helpers \subseteq Helpers'
            BY <1>1, <1>2, <1>3, <3>4, <3>5, Moves DEF Helpers
        <3>7. QED
            BY <1>1, <1>14, <3>2, <3>6, Numbers, HelpersCount DEF Ordered, Provided
    <2>9. QED
        BY <2>2, <2>5, <2>6, <2>7, <2>8 DEF Ordered
<1>15. QED
    BY <1>11, <1>12, <1>13, <1>14 DEF CondInv

\* A wake-up moves sleepers within the wait; a broadcast leaves none behind
LEMMA FutexWakeRight ==
    ASSUME CondAssumption, CondInv, NEW p \in CondCallers, FutexWake(p)
    PROVE  CondInv'
<1>1. /\ condPc[p] = "wake" /\ mutex' \in {mutex, NoThread}
      /\ UNCHANGED <<word, items, sample, mine, werr, wakes, condLeft, interrupts, called>>
    BY DEF FutexWake
<1>2. PICK woken :
         /\ woken \in IF wakes[p] = "all" \/ At({"asleep"}) = {} THEN {At({"asleep"})}
                      ELSE {{t} : t \in At({"asleep"})}
         /\ condPc' = [t \in CondCallers |-> IF t \in woken THEN "reload"
                                     ELSE IF t = p THEN "out" ELSE condPc[t]]
    BY DEF FutexWake
<1>3. /\ condPc \in [CondCallers -> Places]
      /\ woken \subseteq At({"asleep"}) /\ \A t \in woken : condPc[t] = "asleep"
      /\ wakes[p] = "all" => woken = At({"asleep"})
    BY <1>2 DEF CondInv, CondTypeOK, At
<1>4. condPc' \in [CondCallers -> Places]
    BY <1>2, <1>3 DEF Places
<1>5. Registered' = Registered /\ Announcing' = Announcing /\ Made' = Made
    <2>1. \A t \in CondCallers : condPc'[t] \in Waits <=> condPc[t] \in Waits
        BY <1>1, <1>2, <1>3 DEF Waits
    <2>2. \A t \in CondCallers : condPc'[t] = "signal" <=> condPc[t] = "signal"
        BY <1>1, <1>2, <1>3
    <2>3. QED
        BY <1>1, <2>1, <2>2 DEF Registered, Announcing, Made, At, Waits
<1>6. CondTypeOK'
    BY <1>1, <1>4 DEF CondInv, CondTypeOK
<1>7. CountIsExact' /\ ItemsMade'
    BY <1>1, <1>5, <1>6 DEF CondInv, CountIsExact, ItemsMade
<1>8. Roles'
    BY <1>1, <1>2, <1>3 DEF CondInv, Roles, Waits
<1>9. ASSUME NoWrap, Ordered PROVE Ordered'
    <2>1. SeqExact' /\ Addressed' /\ Awaited'
        BY <1>1, <1>5, <1>9 DEF Ordered, SeqExact, Addressed, Awaited
    <2>2. BroadcastReachesAll'
        <3> SUFFICES ASSUME NEW t \in called, condPc'[t] = "asleep"
                     PROVE  \E q \in Producers : condPc'[q] = "wake" /\ wakes'[q] = "all"
            BY <1>1 DEF BroadcastReachesAll
        <3>1. t \in CondCallers /\ t \notin woken /\ condPc[t] = "asleep" /\ t \in At({"asleep"})
            BY <1>2 DEF CondInv, CondTypeOK, At
        <3>2. PICK q \in Producers : condPc[q] = "wake" /\ wakes[q] = "all"
            BY <1>9, <3>1 DEF Ordered, BroadcastReachesAll
        <3>3. q # p /\ q \notin woken
            BY <1>3, <3>1, <3>2
        <3>4. QED
            BY <1>1, <1>2, <3>2, <3>3 DEF CondCallers
    <2>3. Provided'
        <3> SUFFICES ASSUME NEW s \in CondCallers, condPc'[s] = "asleep"
                     PROVE  items' <= Cardinality(Helpers')
            BY DEF Provided, At
        <3>1. s \notin woken /\ s \in At({"asleep"})
            BY <1>2 DEF At
        <3>2. PICK t \in At({"asleep"}) : woken = {t}
            BY <1>2, <3>1
        <3>3. t \in CondCallers /\ condPc[t] = "asleep" /\ condPc'[t] = "reload" /\ t # p
            BY <1>1, <1>2, <3>2 DEF At
        <3>4. CASE t \in Consumers /\ mine[t] # word.seq
            <4>1. t \notin Helpers /\ p \in Helpers /\ Helpers \in SUBSET CondCallers
                BY <1>1, <3>3 DEF Helpers
            <4>2. (Helpers \ {p}) \cup {t} \subseteq Helpers'
                BY <1>1, <1>2, <3>2, <3>3, <3>4 DEF Helpers
            <4>3. Helpers \ {p} \in SUBSET CondCallers /\ t \notin Helpers \ {p}
                BY <4>1
            <4>4. Cardinality((Helpers \ {p}) \cup {t}) = Cardinality(Helpers \ {p}) + 1
                BY <3>3, <4>3, CondCounting
            <4>5. Cardinality(Helpers \ {p}) = Cardinality(Helpers) - 1
                BY <4>1, CondCounting
            <4>6. Helpers' \in SUBSET CondCallers /\ IsFiniteSet(Helpers')
                BY CallersFinite, FS_Subset DEF Helpers
            <4>7. Cardinality((Helpers \ {p}) \cup {t}) <= Cardinality(Helpers')
                BY <4>2, <4>6, FS_Subset
            <4>8. items <= Cardinality(Helpers)
                BY <1>9, <3>1 DEF Ordered, Provided
            <4>9. QED
                BY <1>1, <4>4, <4>5, <4>7, <4>8, Numbers, HelpersCount
        <3>5. CASE t \in Consumers /\ mine[t] = word.seq
            <4>1. t \in Registered
                BY <3>3 DEF Registered, At
            <4>2. items' <= Cardinality(Announcing')
                BY <1>1, <1>5, <1>9, <3>5, <4>1 DEF Ordered, Awaited
            <4>3. Announcing' \subseteq Helpers' /\ IsFiniteSet(Helpers')
                  /\ Announcing' \in SUBSET CondCallers
                BY CallersFinite, FS_Subset DEF Announcing, At, Helpers
            <4>4. Cardinality(Announcing') <= Cardinality(Helpers')
                BY <4>3, FS_Subset
            <4>5. QED
                BY <1>1, <1>5, <4>2, <4>4, Numbers, HelpersCount
        <3>6. t \in Consumers
            BY <3>3 DEF CondInv, Roles, Waits
        <3>7. QED
            BY <3>4, <3>5, <3>6
    <2>4. QED
        BY <2>1, <2>2, <2>3 DEF Ordered
<1>10. QED
    BY <1>6, <1>7, <1>8, <1>9 DEF CondInv

LEMMA WaitingRight ==
    ASSUME CondAssumption, CondInv, NEW c \in CondCallers, Waiting(c) \/ Chance(c)
    PROVE  CondInv'
<1>1. /\ mutex \in CondCallers \cup {NoThread} /\ sample \in [CondCallers -> Word] /\ word \in Word
      /\ werr \in [CondCallers -> BOOLEAN] /\ interrupts \in 0..MaxInterrupts /\ MaxInterrupts \in Nat
    BY DEF CondInv, CondTypeOK, CondAssumption
<1>2. CASE UnlockMutex(c) \/ FutexRefuse(c) \/ FutexInterrupt(c) \/ FutexTimeout(c) \/ LoopEnds(c)
    <2>1. PICK place \in {"check", "reload", "leave"} : CondGoTo(c, place)
        BY <1>2 DEF UnlockMutex, FutexRefuse, FutexInterrupt, FutexTimeout, LoopEnds
    <2>2. /\ condPc[c] \in Waits \ {"leave"}
          /\ UNCHANGED <<word, items, sample, mine, wakes, condLeft, called>>
        BY <1>2 DEF UnlockMutex, FutexRefuse, FutexInterrupt, FutexTimeout, LoopEnds, Waits
    <2>3. mutex' \in {mutex, NoThread} /\ werr' \in [CondCallers -> BOOLEAN]
        BY <1>1, <1>2 DEF UnlockMutex, FutexRefuse, FutexInterrupt, FutexTimeout, LoopEnds
    <2>4. interrupts' \in 0..MaxInterrupts
        BY <1>1, <1>2 DEF UnlockMutex, FutexRefuse, FutexInterrupt, FutexTimeout, LoopEnds
    <2>5. QED
        BY <1>1, <2>1, <2>2, <2>3, <2>4, QuietRight DEF Waits
<1>3. CASE FutexSleep(c)
    <2>1. mine[c] = word.seq
        BY <1>3 DEF FutexSleep, SequenceMoved
    <2>2. QED
        BY <1>1, <1>3, <2>1, QuietRight DEF FutexSleep, Waits
<1>4. CASE Reload(c)
    <2>1. sample' \in [CondCallers -> Word] /\ werr' \in [CondCallers -> BOOLEAN]
        BY <1>1, <1>4 DEF Reload
    <2>2. PICK place \in {"check", "leave"} : CondGoTo(c, place)
        BY <1>4 DEF Reload
    <2>3. QED
        BY <1>1, <1>4, <2>1, <2>2, QuietRight DEF Reload, Waits
<1>5. condLeft \in [CondCallers -> Nat] /\ (condPc[c] \in {"in", "relock"} => condLeft[c] > 0)
    <2>1. Items + Wanted \in Nat
        BY DEF CondAssumption
    <2>2. QED
        BY <2>1 DEF CondInv, CondTypeOK, Roles
<1>6. condLeft = [condLeft EXCEPT ![c] = condLeft[c]] /\ condLeft[c] \in 0..condLeft[c]
    BY <1>5
<1>7. CASE Relock(c)
    <2>1. condPc[c] = "relock" /\ CondGoTo(c, "in") /\ mutex' = c /\ werr' \in [CondCallers -> BOOLEAN]
        BY <1>1, <1>7 DEF Relock
    <2>2. QED
        BY <1>5, <1>6, <1>7, <2>1, Numbers, OutsideRight DEF Relock
<1>8. CASE TooLate(c)
    <2>1. condPc[c] = "in" /\ CondGoTo(c, "in") /\ werr' \in [CondCallers -> BOOLEAN]
        BY <1>1, <1>8 DEF TooLate, CondGoTo, CondInv, CondTypeOK
    <2>2. QED
        BY <1>1, <1>5, <1>6, <1>8, <2>1, Numbers, OutsideRight DEF TooLate
<1>9. QED
    BY <1>2, <1>3, <1>4, <1>7, <1>8, RegisterRight, LeaveRight DEF Waiting, Chance

LEMMA CallingRight ==
    ASSUME CondAssumption, CondInv, NEW t \in CondCallers, Calling(t)
    PROVE  CondInv'
<1>1. condLeft \in [CondCallers -> Nat] /\ (condPc[t] = "in" => condLeft[t] > 0)
    <2>1. Items + Wanted \in Nat
        BY DEF CondAssumption
    <2>2. QED
        BY <2>1 DEF CondInv, CondTypeOK, Roles
<1>2. CASE Lock(t)
    <2>1. /\ condLeft = [condLeft EXCEPT ![t] = condLeft[t]] /\ condLeft[t] \in 0..condLeft[t]
          /\ werr \in [CondCallers -> BOOLEAN]
        BY <1>1 DEF CondInv, CondTypeOK
    <2>2. QED
        BY <1>2, <2>1, Numbers, OutsideRight DEF Lock
<1>3. CASE TakeItem(t)
    <2>1. /\ condLeft' = [condLeft EXCEPT ![t] = condLeft[t] - 1] /\ condLeft[t] - 1 \in 0..condLeft[t]
          /\ werr' \in [CondCallers -> BOOLEAN] /\ items' \in Nat /\ items' < items
        BY <1>1, <1>3, Numbers DEF TakeItem, CondInv, CondTypeOK
    <2>2. /\ condPc[t] = "in" /\ t \in Consumers /\ CondGoTo(t, "out") /\ mutex' = NoThread
          /\ UNCHANGED <<word, sample, mine, wakes, interrupts, called>>
        BY <1>3 DEF TakeItem
    <2>3. items' <= items
        BY <2>1, Numbers
    <2>4. QED
        BY <2>1, <2>2, <2>3, OutsideRight
<1>4. CASE GiveUpItem(t)
    <2>1. 0 \in 0..condLeft[t] /\ werr' \in [CondCallers -> BOOLEAN]
        BY <1>1, <1>4 DEF GiveUpItem, CondInv, CondTypeOK
    <2>2. /\ condPc[t] = "in" /\ t \in Consumers /\ condLeft' = [condLeft EXCEPT ![t] = 0]
          /\ CondGoTo(t, "out") /\ mutex' = NoThread /\ items = 0
          /\ UNCHANGED <<word, items, sample, mine, wakes, interrupts, called>>
        BY <1>4 DEF GiveUpItem
    <2>3. items' \in Nat /\ items' <= items /\ items' = 0
        BY <2>2, Numbers
    <2>4. QED
        BY <2>1, <2>2, <2>3, OutsideRight
<1>5. QED
    BY <1>2, <1>3, <1>4, AddRight DEF Calling

LEMMA CondNextRight == CondAssumption /\ CondInv /\ [CondNext]_condVars => CondInv'
<1> SUFFICES ASSUME CondAssumption, CondInv, [CondNext]_condVars PROVE CondInv'
    OBVIOUS
<1>1. CASE UNCHANGED condVars
    BY <1>1 DEF condVars, CondInv, CondTypeOK, CountIsExact, Registered, At, Roles, ItemsMade,
                Ordered, SeqExact, Announcing, Made, Addressed, BroadcastReachesAll,
                Awaited, Helpers, Provided
<1>2. QED
    BY <1>1, WaitingRight, CallingRight, AdvanceRight, FutexWakeRight
       DEF CondNext, CondStep, Waking, CondFinished

LEMMA CondInitRight == CondAssumption /\ CondInit => CondInv
<1> SUFFICES ASSUME CondAssumption, CondInit PROVE CondInv
    OBVIOUS
<1>1. /\ Items \in Nat /\ Wanted \in Nat /\ MaxInterrupts \in Nat /\ SeqModulus \in Nat \ {0}
      /\ Items * Cardinality(Producers) \in Nat
    BY CallersFinite DEF CondAssumption
<1>2. Registered = {} /\ Announcing = {} /\ Made = {}
    <2>1. \A p \in Producers : condLeft[p] = Items
        BY DEF CondInit, CondCallers
    <2>2. Made = {}
        BY <1>1, <2>1 DEF Made
    <2>3. QED
        BY <2>2 DEF CondInit, Registered, Announcing, At
<1>3. Cardinality({}) = 0
    BY FS_EmptySet
<1>4. word = [waiters |-> 0, seq |-> 0] /\ word \in Word
    <2>1. 0 \in 0..SeqModulus - 1 /\ 0 \in 0..Cardinality(CondCallers)
        BY <1>1, CallersFinite
    <2>2. QED
        BY <2>1 DEF CondInit, Word
<1>5. CondTypeOK
    <2>1. 0 \in 0..Items * Cardinality(Producers) /\ 0 \in 0..MaxInterrupts /\ 0 \in 0..SeqModulus - 1
        BY <1>1
    <2>2. condLeft \in [CondCallers -> 0..Items + Wanted]
        BY <1>1 DEF CondInit
    <2>3. QED
        BY <1>4, <2>1, <2>2 DEF CondInit, CondTypeOK, Places
<1>6. CountIsExact /\ ItemsMade /\ SeqExact
    BY <1>2, <1>3, <1>4, <1>5 DEF CondInit, CountIsExact, ItemsMade, SeqExact
<1>7. Roles /\ Addressed /\ BroadcastReachesAll
    BY <1>1, <1>4 DEF CondInit, Roles, Addressed, BroadcastReachesAll, CondCallers, Waits
<1>8. Awaited /\ Provided
    BY <1>2 DEF CondInit, Awaited, Provided, At
<1>9. QED
    BY <1>5, <1>6, <1>7, <1>8 DEF CondInv, Ordered

-----------------------------------------------------------------------------
\* The waiter count is the number of threads inside a wait, whichever of the four
\* ways they leave it by, and however often the sequence comes round; every field
\* stays in its range (pthread_cond_waitInternal(), pthread_cond_wake()).
THEOREM CountCorrect == ASSUME CondAssumption PROVE CondSpec => []CountIsExact
<1>1. CondInv => CountIsExact
    BY DEF CondInv
<1>2. QED
    BY <1>1, CondInitRight, CondNextRight, PTL DEF CondSpec

\* Whoever was registered when a broadcast advanced the sequence does not sleep
\* on once the broadcaster has called futexWake(), asleep by then or not.
THEOREM BroadcastCorrect == ASSUME CondAssumption, NoWrap PROVE CondSpec => []BroadcastReachesAll
<1>1. CondInv => BroadcastReachesAll
    BY DEF CondInv, Ordered
<1>2. QED
    BY <1>1, CondInitRight, CondNextRight, PTL DEF CondSpec

\* No signal is lost between a waiter's look at the predicate and its sleep in
\* futexWait(): at rest, nobody sleeps past an item that nobody else will take.
THEOREM SignalsNotLost == ASSUME CondAssumption, NoWrap PROVE CondSpec => []NobodyStranded
<1>1. CondInv => NobodyStranded
    <2> SUFFICES ASSUME CondInv, At(Places \ {"asleep", "out"}) = {}, At({"asleep"}) # {}, items # 0
                 PROVE  \E t \in CondCallers : condPc[t] = "out" /\ condLeft[t] > 0
        BY DEF NobodyStranded
    <2>1. items <= Cardinality(Helpers)
        BY DEF CondInv, Ordered, Provided
    <2>2. Cardinality(Helpers) # 0
        BY <2>1, Numbers
    <2>3. PICK t \in CondCallers : t \in Helpers
        BY <2>2, FS_EmptySet DEF Helpers
    <2>4. condPc[t] \in {"asleep", "out"}
        BY <2>3 DEF CondInv, CondTypeOK, At
    <2>5. QED
        BY <2>3, <2>4 DEF Helpers
<1>2. QED
    BY <1>1, CondInitRight, CondNextRight, PTL DEF CondSpec

-----------------------------------------------------------------------------
(* Barriers: the counters are exact, a destroyed barrier is empty, and the *)
(* rounds are those of the abstract barrier, for any finite set of threads *)
(* and any count.                                                          *)

\* No caller is ahead of the barrier, so the thread that completes a round
\* releases all of it.
NobodyAhead == \A t \in BarrierThreads : round[t] <= generation

BarrierInv == BarrierTypeOK /\ CountsAgree /\ DestroyedEmpty /\ NobodyAhead

BarrierStepImplements == [Rounds!Next]_<<Open, Inside \ Open>>

-----------------------------------------------------------------------------
LEMMA BarrierCounting ==
    ASSUME NEW S \in SUBSET BarrierThreads
    PROVE  /\ Cardinality(S) \in Nat
           /\ Cardinality(S) = 0 <=> S = {}
           /\ \A t \in BarrierThreads \ S : Cardinality(S \cup {t}) = Cardinality(S) + 1
           /\ \A t \in S : Cardinality(S \ {t}) = Cardinality(S) - 1
<1>1. IsFiniteSet(S)
    BY FS_Subset, BarrierAssumption
<1>2. Cardinality(S) \in Nat /\ (Cardinality(S) = 0 <=> S = {})
    BY <1>1, FS_CardinalityType, FS_EmptySet
<1>3. ASSUME NEW t \in BarrierThreads \ S
      PROVE  Cardinality(S \cup {t}) = Cardinality(S) + 1
    BY <1>1, <1>3, FS_AddElement
<1>4. ASSUME NEW t \in S
      PROVE  Cardinality(S \ {t}) = Cardinality(S) - 1
    BY <1>1, <1>4, FS_RemoveElement
<1>5. QED
    BY <1>2, <1>3, <1>4

LEMMA BarrierGroups ==
    /\ Open \in SUBSET BarrierThreads /\ Inside \in SUBSET BarrierThreads /\ Open \subseteq Inside
    /\ Open' \in SUBSET BarrierThreads /\ Inside' \in SUBSET BarrierThreads
BY DEF Open, Inside

\* The abstract barrier counts as this module does
LEMMA SameCardinality == ASSUME NEW S PROVE Rounds!Cardinality(S) = Cardinality(S)
BY DEF Rounds!Cardinality, Cardinality, Rounds!IsFiniteSet, IsFiniteSet

\* Whatever a step wakes, the places stay places
LEMMA MovedType ==
    ASSUME BarrierTypeOK, NEW t, NEW place \in {"out", "asleep", "woken", "gone"}, NEW woken,
           Moved(t, place, woken)
    PROVE  barrierPc' \in [Everyone -> {"out", "asleep", "woken", "gone"}]
BY DEF BarrierTypeOK, Moved

-----------------------------------------------------------------------------
LEMMA ArriveFirstRight ==
    ASSUME BarrierInv, NEW t \in BarrierThreads, ArriveFirst(t)
    PROVE  BarrierInv' /\ BarrierStepImplements
<1> USE BarrierAssumption, BarrierGroups
<1>1. /\ barrierPc[t] = "out" /\ barrierPc[Destroyer] = "out" /\ waiting + 1 # Count
      /\ inside' = inside + 1 /\ waiting' = waiting + 1 /\ generation' = generation
      /\ round' = [round EXCEPT ![t] = generation] /\ barrierLeft' = [barrierLeft EXCEPT ![t] = @ - 1]
      /\ barrierLeft[t] > 0 /\ Moved(t, "asleep", {})
    BY DEF ArriveFirst, BarrierCall
<1>2. t \notin Inside /\ Inside' = Inside \cup {t} /\ Open' = Open \cup {t}
    BY <1>1 DEF BarrierInv, BarrierTypeOK, Inside, Open, Moved, Everyone
<1>3. CountsAgree'
    <2>1. Cardinality(Open \cup {t}) = Cardinality(Open) + 1
        BY <1>2, BarrierCounting
    <2>2. Cardinality(Inside \cup {t}) = Cardinality(Inside) + 1
        BY <1>2, BarrierCounting
    <2>3. QED
        BY <1>1, <1>2, <2>1, <2>2 DEF BarrierInv, CountsAgree
<1>4. BarrierTypeOK'
    <2>1. barrierPc' \in [Everyone -> {"out", "asleep", "woken", "gone"}]
        BY <1>1, MovedType DEF BarrierInv
    <2>2. barrierLeft' \in [BarrierThreads -> 0..BarrierCalls] /\ round' \in [BarrierThreads -> Nat]
        BY <1>1 DEF BarrierInv, BarrierTypeOK
    <2>3. QED
        BY <1>1, <2>1, <2>2 DEF BarrierInv, BarrierTypeOK
<1>5. barrierPc'[Destroyer] = "out"
    BY <1>1 DEF Moved, Everyone
<1>6. NobodyAhead'
    BY <1>1 DEF BarrierInv, BarrierTypeOK, NobodyAhead
<1>7. Rounds!Arrive(t)
    <2>1. Cardinality(Open) + 1 < Count
        BY <1>1 DEF BarrierInv, BarrierTypeOK, CountsAgree
    <2>2. t \notin Open \cup (Inside \ Open) /\ (Inside \ Open)' = Inside \ Open
        BY <1>2
    <2>3. QED
        BY <1>2, <2>1, <2>2, SameCardinality DEF Rounds!Arrive
<1>8. QED
    BY <1>3, <1>4, <1>5, <1>6, <1>7 DEF BarrierInv, DestroyedEmpty, BarrierStepImplements, Rounds!Next

LEMMA ArriveLastRight ==
    ASSUME BarrierInv, NEW t \in BarrierThreads, ArriveLast(t)
    PROVE  BarrierInv' /\ BarrierStepImplements
<1> USE BarrierAssumption, BarrierGroups
<1>1. /\ barrierPc[t] = "out" /\ barrierPc[Destroyer] = "out" /\ waiting + 1 = Count
      /\ inside' = inside /\ waiting' = 0 /\ generation' = generation + 1
      /\ round' = [round EXCEPT ![t] = generation] /\ barrierLeft' = [barrierLeft EXCEPT ![t] = @ - 1]
      /\ barrierLeft[t] > 0 /\ Moved(t, "out", Asleep)
    BY DEF ArriveLast, BarrierCall
<1>2. t \notin Inside /\ Inside' = Inside
    BY <1>1 DEF BarrierInv, BarrierTypeOK, Inside, Moved, Asleep, Everyone
<1>3. Open' = {}
    BY <1>1, <1>2 DEF BarrierInv, BarrierTypeOK, NobodyAhead, Open
<1>4. CountsAgree'
    BY <1>1, <1>2, <1>3, FS_EmptySet DEF BarrierInv, CountsAgree
<1>5. BarrierTypeOK'
    <2>1. barrierPc' \in [Everyone -> {"out", "asleep", "woken", "gone"}]
        BY <1>1, MovedType DEF BarrierInv
    <2>2. barrierLeft' \in [BarrierThreads -> 0..BarrierCalls] /\ round' \in [BarrierThreads -> Nat]
        BY <1>1 DEF BarrierInv, BarrierTypeOK
    <2>3. QED
        BY <1>1, <2>1, <2>2 DEF BarrierInv, BarrierTypeOK
<1>6. barrierPc'[Destroyer] = "out"
    BY <1>1 DEF Moved, Asleep, Everyone
<1>7. NobodyAhead'
    BY <1>1 DEF BarrierInv, BarrierTypeOK, NobodyAhead
<1>8. Rounds!Complete(t)
    <2>1. Cardinality(Open) + 1 = Count
        BY <1>1 DEF BarrierInv, CountsAgree
    <2>2. t \notin Open \cup (Inside \ Open)
        BY <1>2
    <2>3. (Inside \ Open)' = (Inside \ Open) \cup Open
        BY <1>2, <1>3
    <2>4. QED
        BY <1>3, <2>1, <2>2, <2>3, SameCardinality DEF Rounds!Complete
<1>9. QED
    BY <1>4, <1>5, <1>6, <1>7, <1>8 DEF BarrierInv, DestroyedEmpty, BarrierStepImplements, Rounds!Next

LEMMA ResumeRight ==
    ASSUME BarrierInv, NEW t \in BarrierThreads, BarrierResume(t)
    PROVE  BarrierInv' /\ BarrierStepImplements
<1> USE BarrierAssumption, BarrierGroups
<1>1. barrierPc[t] = "woken" /\ t \in Inside /\ UNCHANGED <<waiting, generation, round, barrierLeft>>
    BY DEF BarrierResume, Inside
<1>2. barrierPc[Destroyer] # "gone"
    BY <1>1 DEF BarrierInv, DestroyedEmpty
<1>3. NobodyAhead'
    BY <1>1 DEF BarrierInv, NobodyAhead
<1>4. CASE round[t] = generation
    <2>1. Moved(t, "asleep", {}) /\ inside' = inside
        BY <1>4 DEF BarrierResume
    <2>2. Inside' = Inside /\ Open' = Open
        BY <1>1, <2>1 DEF BarrierInv, BarrierTypeOK, Inside, Open, Moved, Everyone
    <2>3. BarrierTypeOK' /\ CountsAgree'
        BY <1>1, <2>1, <2>2, MovedType DEF BarrierInv, BarrierTypeOK, CountsAgree
    <2>4. barrierPc'[Destroyer] # "gone"
        BY <1>2, <2>1 DEF Moved, Everyone
    <2>5. QED
        BY <1>3, <2>2, <2>3, <2>4 DEF BarrierInv, DestroyedEmpty, BarrierStepImplements
<1>5. CASE round[t] # generation
    <2> DEFINE woken == IF inside = 1 THEN Asleep ELSE {}
    <2>1. Moved(t, "out", woken) /\ inside' = inside - 1
        BY <1>5 DEF BarrierResume
    <2>2. woken \subseteq Asleep
        OBVIOUS
    <2> HIDE DEF woken
    <2>3. Inside' = Inside \ {t}
        BY <1>1, <2>1, <2>2 DEF BarrierInv, BarrierTypeOK, Inside, Moved, Asleep, Everyone
    <2>4. Open' = Open /\ t \notin Open
        BY <1>1, <1>5, <2>3 DEF Open
    <2>5. CountsAgree'
        <3>1. Cardinality(Inside \ {t}) = Cardinality(Inside) - 1
            BY <1>1, BarrierCounting
        <3>2. QED
            BY <1>1, <2>1, <2>3, <2>4, <3>1 DEF BarrierInv, CountsAgree
    <2>6. BarrierTypeOK'
        <3>1. inside' \in Nat
            BY <2>5, BarrierCounting DEF CountsAgree
        <3>2. QED
            BY <1>1, <2>1, <3>1, MovedType DEF BarrierInv, BarrierTypeOK
    <2>7. barrierPc'[Destroyer] # "gone"
        BY <1>2, <2>1 DEF Moved, Everyone
    <2>8. Rounds!Leave(t)
        BY <1>1, <2>3, <2>4 DEF Rounds!Leave
    <2>9. QED
        BY <1>3, <2>5, <2>6, <2>7, <2>8 DEF BarrierInv, DestroyedEmpty, BarrierStepImplements, Rounds!Next
<1>6. QED
    BY <1>4, <1>5

LEMMA WakeUpRight ==
    ASSUME BarrierInv, NEW u \in Everyone, WakeUp(u)
    PROVE  BarrierInv' /\ BarrierStepImplements
<1> USE BarrierAssumption, BarrierGroups
<1>1. /\ barrierPc[u] = "asleep" /\ Moved(u, "woken", {})
      /\ UNCHANGED <<waiting, inside, generation, round, barrierLeft>>
    BY DEF WakeUp
<1>2. Inside' = Inside /\ Open' = Open
    BY <1>1 DEF BarrierInv, BarrierTypeOK, Inside, Open, Moved, Everyone
<1>3. BarrierTypeOK' /\ CountsAgree' /\ NobodyAhead'
    BY <1>1, <1>2, MovedType DEF BarrierInv, BarrierTypeOK, CountsAgree, NobodyAhead
<1>4. DestroyedEmpty'
    BY <1>1, <1>2 DEF BarrierInv, DestroyedEmpty, Moved, Everyone
<1>5. QED
    BY <1>2, <1>3, <1>4 DEF BarrierInv, BarrierStepImplements

\* A destroy that goes through has found nobody inside
LEMMA DestroyRight ==
    ASSUME BarrierInv, Destroy \/ DestroyAgain
    PROVE  BarrierInv' /\ BarrierStepImplements
<1> USE BarrierAssumption, BarrierGroups
<1>1. LeftAlone /\ UNCHANGED <<waiting, inside, generation, round, barrierLeft>>
    BY DEF Destroy, DestroyAgain
<1>2. PICK place \in {"gone", "asleep"} :
          Moved(Destroyer, place, {}) /\ (place = "gone" => inside = 0)
    BY <1>1 DEF LeftAlone
<1>3. Inside' = Inside /\ Open' = Open
    BY <1>1, <1>2 DEF BarrierInv, BarrierTypeOK, Inside, Open, Moved, Everyone
<1>4. BarrierTypeOK' /\ CountsAgree' /\ NobodyAhead'
    BY <1>1, <1>2, <1>3, MovedType DEF BarrierInv, BarrierTypeOK, CountsAgree, NobodyAhead
<1>5. DestroyedEmpty'
    <2>1. barrierPc'[Destroyer] = place
        BY <1>2 DEF Moved, Everyone
    <2>2. inside = 0 => Inside = {}
        BY BarrierCounting DEF BarrierInv, CountsAgree
    <2>3. QED
        BY <1>2, <1>3, <2>1, <2>2 DEF DestroyedEmpty
<1>6. QED
    BY <1>3, <1>4, <1>5 DEF BarrierInv, BarrierStepImplements

LEMMA BarrierNextRight == BarrierInv /\ [BarrierNext]_barrierVars => BarrierInv' /\ BarrierStepImplements
<1> SUFFICES ASSUME BarrierInv, [BarrierNext]_barrierVars PROVE BarrierInv' /\ BarrierStepImplements
    OBVIOUS
<1>1. CASE UNCHANGED barrierVars
    BY <1>1 DEF barrierVars, BarrierInv, BarrierTypeOK, CountsAgree, DestroyedEmpty, NobodyAhead, BarrierStepImplements,
                Open, Inside
<1>2. ASSUME NEW t \in BarrierThreads, BarrierStep(t)
      PROVE  BarrierInv' /\ BarrierStepImplements
    BY <1>2, ArriveFirstRight, ArriveLastRight, ResumeRight DEF BarrierStep
<1>3. QED
    BY <1>1, <1>2, WakeUpRight, DestroyRight DEF BarrierNext, DestroyBusy, BarrierFinished

LEMMA BarrierInitRight == BarrierInit => BarrierInv /\ Rounds!Init
<1> SUFFICES ASSUME BarrierInit PROVE BarrierInv /\ Rounds!Init
    OBVIOUS
<1>1. Inside = {} /\ Open = {}
    BY DEF BarrierInit, Inside, Open, Everyone
<1>2. BarrierTypeOK
    BY BarrierAssumption DEF BarrierInit, BarrierTypeOK
<1>3. QED
    BY <1>1, <1>2, FS_EmptySet
    DEF BarrierInit, BarrierInv, CountsAgree, DestroyedEmpty, NobodyAhead, Rounds!Init

-----------------------------------------------------------------------------
\* Every state is well typed: fewer than Count threads wait in a round.
THEOREM BarrierTypeCorrect == BarrierSpec => []BarrierTypeOK
<1>1. BarrierInv => BarrierTypeOK
    BY DEF BarrierInv
<1>2. QED
    BY <1>1, BarrierInitRight, BarrierNextRight, PTL DEF BarrierSpec

\* The counters stand for the threads of the open round and for those inside.
THEOREM CountsExact == BarrierSpec => []CountsAgree
<1>1. BarrierInv => CountsAgree
    BY DEF BarrierInv
<1>2. QED
    BY <1>1, BarrierInitRight, BarrierNextRight, PTL DEF BarrierSpec

\* A barrier is destroyed only when nobody will touch it again.
THEOREM DestroyIsSafe == BarrierSpec => []DestroyedEmpty
<1>1. BarrierInv => DestroyedEmpty
    BY DEF BarrierInv
<1>2. QED
    BY <1>1, BarrierInitRight, BarrierNextRight, PTL DEF BarrierSpec

\* Every behaviour is one of the abstract barrier's: nobody leaves early.
THEOREM BarrierImplemented == BarrierSpec => Rounds!Init /\ [][Rounds!Next]_<<Open, Inside \ Open>>
<1>1. BarrierSpec => []BarrierInv
    BY BarrierInitRight, BarrierNextRight, PTL DEF BarrierSpec
<1>2. BarrierInv /\ [BarrierNext]_barrierVars => BarrierStepImplements
    BY BarrierNextRight
<1>3. BarrierSpec => Rounds!Init
    BY BarrierInitRight DEF BarrierSpec
<1>4. QED
    BY <1>1, <1>2, <1>3, PTL DEF BarrierSpec, BarrierStepImplements

-----------------------------------------------------------------------------
(* sys/semaphore.c: every behaviour is one of a counting semaphore, the    *)
(* waiters are counted, and no unit lies idle unannounced.                 *)

SemPlaces == {"out", "asleep", "woken", "late", "signal"}

SemWaiting == {t \in Takers : semPc[t] \in {"asleep", "woken", "late"}}

\* A unit is announced to a sleeper that has yet to be woken, or to look again
Announced == {t \in SemCallers : semPc[t] \in {"signal", "woken"}}

UnitsAnnounced == (\E t \in Takers : semPc[t] = "asleep") => v <= Cardinality(Announced)

SemTypes == v \in Nat /\ waiters \in Nat /\ semPc \in [SemCallers -> SemPlaces]

SemInv == SemTypes /\ waiters = Cardinality(SemWaiting) /\ UnitsAnnounced

SemStepImplements == [Counting!Next]_(Counting!vars)

LEMMA SemCounting ==
    ASSUME NEW S \in SUBSET SemCallers
    PROVE  /\ IsFiniteSet(S) /\ Cardinality(S) \in Nat
           /\ Cardinality(S) = 0 <=> S = {}
           /\ \A t \in SemCallers \ S : Cardinality(S \cup {t}) = Cardinality(S) + 1
           /\ \A t \in S : Cardinality(S \ {t}) = Cardinality(S) - 1
           /\ \A T \in SUBSET S : Cardinality(T) <= Cardinality(S)
<1>1. IsFiniteSet(S)
    BY FS_Subset, SemAssumption DEF SemCallers
<1>2. Cardinality(S) \in Nat /\ (Cardinality(S) = 0 <=> S = {})
    BY <1>1, FS_CardinalityType, FS_EmptySet
<1>3. ASSUME NEW t \in SemCallers \ S
      PROVE  Cardinality(S \cup {t}) = Cardinality(S) + 1
    BY <1>1, <1>3, FS_AddElement
<1>4. ASSUME NEW t \in S
      PROVE  Cardinality(S \ {t}) = Cardinality(S) - 1
    BY <1>1, <1>4, FS_RemoveElement
<1>5. ASSUME NEW T \in SUBSET S
      PROVE  Cardinality(T) <= Cardinality(S)
    BY <1>1, <1>5, FS_Subset
<1>6. QED
    BY <1>1, <1>2, <1>3, <1>4, <1>5

LEMMA SemGroups ==
    /\ SemWaiting \in SUBSET SemCallers /\ Announced \in SUBSET SemCallers
    /\ SemWaiting' \in SUBSET SemCallers /\ Announced' \in SUBSET SemCallers
BY DEF SemWaiting, Announced, SemCallers

\* A step of one thread between two places, neither of which is asleep before
LEMMA SemMoves ==
    ASSUME SemInv, NEW t \in SemCallers, NEW place \in SemPlaces, SemGoTo(t, place)
    PROVE  /\ semPc' \in [SemCallers -> SemPlaces]
           /\ semPc'[t] = place /\ \A u \in SemCallers \ {t} : semPc'[u] = semPc[u]
           /\ SemWaiting' = IF t \in Takers /\ place \in {"asleep", "woken", "late"}
                              THEN SemWaiting \cup {t} ELSE SemWaiting \ {t}
           /\ Announced' = IF place \in {"signal", "woken"}
                             THEN Announced \cup {t} ELSE Announced \ {t}
<1>1. /\ semPc' \in [SemCallers -> SemPlaces]
      /\ semPc'[t] = place /\ \A u \in SemCallers \ {t} : semPc'[u] = semPc[u]
    BY DEF SemInv, SemTypes, SemGoTo
<1>2. QED
    BY <1>1 DEF SemWaiting, Announced, SemCallers

\* A unit is taken, at once or after a wait
LEMMA TakenRight ==
    ASSUME SemInv, NEW t \in Takers, DownAtOnce(t) \/ (DownResumes(t) /\ v > 0)
    PROVE  SemInv' /\ SemStepImplements
<1> USE SemGroups
<1>1. v \in Nat /\ v' = v - 1 /\ v > 0 /\ v' \in Nat /\ t \in SemCallers
    BY DEF SemInv, SemTypes, DownAtOnce, DownResumes, TakeUnit, SemCallers
<1>2. CASE DownAtOnce(t)
    <2>1. /\ semPc[t] = "out" /\ UNCHANGED <<waiters, semPc>>
          /\ units' = [units EXCEPT ![t] = @ + 1]
        BY <1>2 DEF DownAtOnce, SemCall, TakeUnit
    <2>2. SemWaiting' = SemWaiting /\ Announced' = Announced /\ t \notin SemWaiting
        BY <2>1 DEF SemWaiting, Announced
    <2>3. UnitsAnnounced'
        BY <1>1, <2>1, <2>2, SemCounting DEF SemInv, UnitsAnnounced
    <2>4. Counting!TakeAtOnce(t)
        BY <1>1, <2>1, <2>2 DEF Counting!TakeAtOnce, Counting!Give, SemWaiting
    <2>5. QED
        BY <1>1, <2>1, <2>2, <2>3, <2>4
        DEF SemInv, SemTypes, SemStepImplements, Counting!Next
<1>3. CASE DownResumes(t) /\ v > 0
    <2>1. /\ semPc[t] = "woken" /\ waiters' = waiters - 1 /\ SemGoTo(t, "out")
          /\ units' = [units EXCEPT ![t] = @ + 1]
        BY <1>1, <1>3 DEF DownResumes, TakeUnit
    <2>2. /\ t \in SemWaiting /\ SemWaiting' = SemWaiting \ {t}
          /\ t \in Announced /\ Announced' = Announced \ {t}
          /\ semPc' \in [SemCallers -> SemPlaces]
          /\ semPc'[t] = "out" /\ \A u \in SemCallers \ {t} : semPc'[u] = semPc[u]
        BY <1>1, <2>1, SemMoves DEF SemPlaces, SemWaiting, Announced
    <2>3. /\ Cardinality(SemWaiting') = Cardinality(SemWaiting) - 1
          /\ Cardinality(Announced') = Cardinality(Announced) - 1
          /\ Cardinality(SemWaiting') \in Nat /\ Cardinality(Announced) \in Nat
        BY <2>2, SemCounting
    <2>4. UnitsAnnounced'
        BY <1>1, <2>2, <2>3 DEF SemInv, UnitsAnnounced, SemCallers
    <2>5. Counting!Acquire(t)
        BY <1>1, <2>1, <2>2 DEF Counting!Acquire, Counting!Give, SemWaiting
    <2>6. QED
        BY <1>1, <2>1, <2>2, <2>3, <2>4, <2>5
        DEF SemInv, SemTypes, SemStepImplements, Counting!Next, Counting!AcquireSome
<1>4. QED
    BY <1>2, <1>3

\* A taker begins to wait, finds nothing when it looks again, or gives up
LEMMA NotTakenRight ==
    ASSUME SemInv, NEW t \in Takers,
           DownWaits(t) \/ Refused(t) \/ (DownResumes(t) /\ v = 0) \/ DownGivesUp(t)
    PROVE  SemInv' /\ SemStepImplements
<1> USE SemGroups
<1>1. v \in Nat /\ t \in SemCallers /\ v' = v /\ UNCHANGED units
    BY DEF SemInv, SemTypes, DownWaits, Refused, DownResumes, DownGivesUp, TakeUnit, SemCallers
<1>2. Cardinality(Announced') \in Nat /\ Cardinality(SemWaiting) \in Nat
    BY SemCounting
<1>3. CASE DownWaits(t)
    <2>1. semPc[t] = "out" /\ v = 0 /\ waiters' = waiters + 1 /\ SemGoTo(t, "asleep")
        BY <1>3 DEF DownWaits, SemCall
    <2>2. t \notin SemWaiting /\ SemWaiting' = SemWaiting \cup {t}
          /\ semPc' \in [SemCallers -> SemPlaces]
        BY <1>1, <2>1, SemMoves DEF SemPlaces, SemWaiting
    <2>3. Cardinality(SemWaiting') = Cardinality(SemWaiting) + 1
        BY <1>1, <2>2, SemCounting
    <2>4. Counting!Wait(t)
        BY <1>1, <2>2 DEF Counting!Wait, SemWaiting
    <2>5. QED
        BY <1>1, <1>2, <2>1, <2>2, <2>3, <2>4
        DEF SemInv, SemTypes, UnitsAnnounced, SemStepImplements, Counting!Next
<1>4. CASE Refused(t)
    <2>1. UNCHANGED <<v, waiters, semPc, units>>
        BY <1>4 DEF Refused
    <2>2. SemWaiting' = SemWaiting /\ Announced' = Announced
        BY <2>1 DEF SemWaiting, Announced
    <2>3. QED
        BY <2>1, <2>2
        DEF SemInv, SemTypes, UnitsAnnounced, SemStepImplements, Counting!vars, SemWaiting
<1>5. CASE DownResumes(t) /\ v = 0
    <2>1. semPc[t] = "woken" /\ waiters' = waiters /\ SemGoTo(t, "asleep")
        BY <1>5 DEF DownResumes, TakeUnit
    <2>2. SemWaiting' = SemWaiting /\ semPc' \in [SemCallers -> SemPlaces]
        BY <1>1, <2>1, SemMoves DEF SemPlaces, SemWaiting
    <2>3. QED
        BY <1>1, <1>2, <1>5, <2>1, <2>2
        DEF SemInv, SemTypes, UnitsAnnounced, SemStepImplements, Counting!vars, SemWaiting
<1>6. CASE DownGivesUp(t)
    <2>1. semPc[t] = "late" /\ waiters' = waiters - 1 /\ SemGoTo(t, "out")
        BY <1>6 DEF DownGivesUp
    <2>2. /\ t \in SemWaiting /\ SemWaiting' = SemWaiting \ {t}
          /\ t \notin Announced /\ Announced' = Announced
          /\ semPc' \in [SemCallers -> SemPlaces]
          /\ semPc'[t] = "out" /\ \A u \in SemCallers \ {t} : semPc'[u] = semPc[u]
        BY <1>1, <2>1, SemMoves DEF SemPlaces, SemWaiting, Announced
    <2>3. Cardinality(SemWaiting') = Cardinality(SemWaiting) - 1 /\ Cardinality(SemWaiting') \in Nat
        BY <2>2, SemCounting
    <2>4. UnitsAnnounced'
        BY <1>1, <2>2 DEF SemInv, UnitsAnnounced, SemCallers
    <2>5. Counting!GiveUp(t)
        BY <1>1, <2>2 DEF Counting!GiveUp, SemWaiting
    <2>6. QED
        BY <1>1, <2>1, <2>2, <2>3, <2>4, <2>5
        DEF SemInv, SemTypes, SemStepImplements, Counting!Next
<1>7. QED
    BY <1>3, <1>4, <1>5, <1>6

\* A sleeper stops sleeping without a signal
LEMMA ChanceRight ==
    ASSUME SemInv, NEW t \in Takers, CondInterrupt(t) \/ CondTimeout(t)
    PROVE  SemInv' /\ SemStepImplements
<1> USE SemGroups
<1>1. PICK place \in {"woken", "late"} : SemGoTo(t, place)
    BY DEF CondInterrupt, CondTimeout
<1>2. semPc[t] = "asleep" /\ UNCHANGED <<v, waiters, units>> /\ t \in SemCallers
    BY DEF CondInterrupt, CondTimeout, SemCallers
<1>3. /\ SemWaiting' = SemWaiting /\ Announced \subseteq Announced'
      /\ semPc' \in [SemCallers -> SemPlaces]
      /\ semPc'[t] = place /\ \A u \in SemCallers \ {t} : semPc'[u] = semPc[u]
    BY <1>1, <1>2, SemMoves DEF SemPlaces, SemWaiting, Announced
<1>4. Cardinality(Announced) <= Cardinality(Announced')
      /\ Cardinality(Announced) \in Nat /\ Cardinality(Announced') \in Nat
    BY <1>3, SemCounting
<1>5. UnitsAnnounced'
    BY <1>1, <1>2, <1>3, <1>4 DEF SemInv, SemTypes, UnitsAnnounced, SemCallers
<1>6. QED
    BY <1>2, <1>3, <1>5 DEF SemInv, SemTypes, SemStepImplements, Counting!vars, SemWaiting

\* A post is announced while it wakes nobody yet, and then its signal is passed on
LEMMA PostingRight ==
    ASSUME SemInv, NEW p \in Posters, Posting(p)
    PROVE  SemInv' /\ SemStepImplements
<1> USE SemGroups
<1>1. v \in Nat /\ waiters \in Nat /\ p \in SemCallers /\ p \notin Takers /\ p \notin SemWaiting
      /\ Cardinality(Announced) \in Nat /\ Cardinality(Announced') \in Nat
    BY SemCounting, SemAssumption DEF SemInv, SemTypes, SemCallers, SemWaiting
<1>2. CASE Up(p)
    <2>1. /\ semPc[p] = "out" /\ v' = v + 1 /\ UNCHANGED <<waiters, units>>
          /\ SemGoTo(p, IF waiters > 0 THEN "signal" ELSE "out")
        BY <1>2 DEF Up, SemCall
    <2>2. /\ SemWaiting' = SemWaiting /\ semPc' \in [SemCallers -> SemPlaces]
          /\ \A u \in SemCallers \ {p} : semPc'[u] = semPc[u]
          /\ p \notin Announced
          /\ Announced' = IF waiters > 0 THEN Announced \cup {p} ELSE Announced
        BY <1>1, <2>1, SemMoves DEF SemPlaces, SemWaiting, Announced
    <2>3. UnitsAnnounced'
        <3> SUFFICES ASSUME NEW t \in Takers, semPc'[t] = "asleep"
                     PROVE  v' <= Cardinality(Announced')
            BY DEF UnitsAnnounced
        <3>1. semPc[t] = "asleep" /\ t \in SemWaiting
            BY <1>1, <2>2 DEF SemCallers, SemWaiting
        <3>2. Cardinality(SemWaiting) # 0
            BY <3>1, SemCounting
        <3>3. Announced' = Announced \cup {p}
            BY <1>1, <2>2, <3>2 DEF SemInv
        <3>4. Cardinality(Announced') = Cardinality(Announced) + 1
            BY <1>1, <2>2, <3>3, SemCounting
        <3>5. QED
            BY <1>1, <2>1, <3>1, <3>4 DEF SemInv, UnitsAnnounced
    <2>4. Counting!Post
        BY <2>1, <2>2 DEF Counting!Post, SemWaiting
    <2>5. QED
        BY <1>1, <2>1, <2>2, <2>3, <2>4 DEF SemInv, SemTypes, SemStepImplements, Counting!Next
<1>3. CASE UpFull(p)
    <2>1. UNCHANGED <<v, waiters, semPc, units>>
        BY <1>3 DEF UpFull
    <2>2. SemWaiting' = SemWaiting /\ Announced' = Announced
        BY <2>1 DEF SemWaiting, Announced
    <2>3. QED
        BY <2>1, <2>2
        DEF SemInv, SemTypes, UnitsAnnounced, SemStepImplements, Counting!vars, SemWaiting
<1>4. CASE Signal(p)
    <2>1. semPc[p] = "signal" /\ UNCHANGED <<v, waiters, units>>
        BY <1>4 DEF Signal
    <2>2. CASE \A t \in Takers : semPc[t] # "asleep"
        <3>1. SemGoTo(p, "out")
            BY <1>4, <2>2 DEF Signal
        <3>2. /\ SemWaiting' = SemWaiting /\ semPc' \in [SemCallers -> SemPlaces]
              /\ \A u \in SemCallers \ {p} : semPc'[u] = semPc[u]
            BY <1>1, <3>1, SemMoves DEF SemPlaces, SemWaiting
        <3>3. UnitsAnnounced'
            BY <1>1, <2>2, <3>2 DEF UnitsAnnounced, SemCallers
        <3>4. QED
            BY <2>1, <3>2, <3>3
            DEF SemInv, SemTypes, SemStepImplements, Counting!vars, SemWaiting
    <2>3. CASE \E t \in Takers : semPc[t] = "asleep"
        <3>1. PICK t \in Takers :
                 semPc[t] = "asleep" /\ semPc' = [semPc EXCEPT ![p] = "out", ![t] = "woken"]
            BY <1>4, <2>3 DEF Signal
        <3>2. semPc \in [SemCallers -> SemPlaces] /\ t \in SemCallers /\ t # p
            BY <1>1, <2>1, <3>1 DEF SemInv, SemTypes, SemCallers
        <3>3. /\ semPc' \in [SemCallers -> SemPlaces] /\ semPc'[t] = "woken" /\ semPc'[p] = "out"
              /\ \A u \in SemCallers \ {t, p} : semPc'[u] = semPc[u]
            BY <1>1, <3>1, <3>2 DEF SemPlaces
        <3>4. SemWaiting' = SemWaiting
            BY <1>1, <2>1, <3>1, <3>2, <3>3 DEF SemWaiting, SemCallers
        <3>5. /\ p \in Announced /\ t \notin Announced \ {p}
              /\ Announced' = (Announced \ {p}) \cup {t}
            BY <1>1, <2>1, <3>1, <3>2, <3>3 DEF Announced
        <3>6. Cardinality(Announced') = Cardinality(Announced)
            <4>1. Announced \ {p} \in SUBSET SemCallers /\ t \in SemCallers \ (Announced \ {p})
                BY <3>2, <3>5
            <4>2. Cardinality(Announced') = Cardinality(Announced \ {p}) + 1
                BY <3>5, <4>1, SemCounting
            <4>3. Cardinality(Announced \ {p}) = Cardinality(Announced) - 1
                BY <3>5, SemCounting
            <4>4. QED
                BY <1>1, <4>2, <4>3
        <3>7. UnitsAnnounced'
            BY <2>1, <3>1, <3>6 DEF SemInv, UnitsAnnounced
        <3>8. QED
            BY <2>1, <3>3, <3>4, <3>7
            DEF SemInv, SemTypes, SemStepImplements, Counting!vars, SemWaiting
    <2>4. QED
        BY <2>2, <2>3
<1>5. QED
    BY <1>2, <1>3, <1>4 DEF Posting

LEMMA SemNextRight == SemInv /\ [SemNext]_semVars => SemInv' /\ SemStepImplements
<1> SUFFICES ASSUME SemInv, [SemNext]_semVars PROVE SemInv' /\ SemStepImplements
    OBVIOUS
<1>1. CASE UNCHANGED semVars
    BY <1>1 DEF semVars, SemInv, SemTypes, SemWaiting, UnitsAnnounced, Announced,
                SemStepImplements, Counting!vars
<1>2. ASSUME NEW t \in Takers, Down(t) PROVE SemInv' /\ SemStepImplements
    <2>1. v > 0 \/ v = 0
        BY DEF SemInv, SemTypes
    <2>2. QED
        BY <1>2, <2>1, TakenRight, NotTakenRight DEF Down
<1>3. QED
    BY <1>1, <1>2, PostingRight, ChanceRight DEF SemNext, SemStep, SemFinished

LEMMA SemInitRight == SemInit => SemInv /\ Counting!Init
<1> SUFFICES ASSUME SemInit PROVE SemInv /\ Counting!Init
    OBVIOUS
<1>1. SemWaiting = {}
    BY DEF SemInit, SemWaiting, SemCallers
<1>2. Cardinality(SemWaiting) = 0
    BY <1>1, FS_EmptySet
<1>3. SemTypes /\ UnitsAnnounced
    BY SemAssumption DEF SemInit, SemTypes, SemPlaces, UnitsAnnounced, SemCallers
<1>4. Counting!Init
    BY <1>1 DEF SemInit, Counting!Init, SemWaiting
<1>5. QED
    BY <1>2, <1>3, <1>4 DEF SemInit, SemInv

\* Every behaviour is one of a counting semaphore: no unit is lost or made up.
THEOREM KernelSemaphoreImplemented ==
    SemSpec => Counting!Init /\ [][Counting!Next]_(Counting!vars)
<1>1. SemSpec => []SemInv /\ [][SemNext]_semVars /\ Counting!Init
    BY SemInitRight, SemNextRight, PTL DEF SemSpec
<1>2. SemInv /\ [SemNext]_semVars => [Counting!Next]_(Counting!vars)
    BY SemNextRight DEF SemStepImplements
<1>3. QED
    BY <1>1, <1>2, PTL

\* semaphoreUp() signals after it released the mutex: while a taker sleeps there is
\* a signal on its way, or a woken taker, for every unit.
THEOREM UnitsNotForgotten == SemSpec => []UnitsAnnounced
<1>1. SemInv => UnitsAnnounced
    BY DEF SemInv
<1>2. QED
    BY <1>1, SemInitRight, SemNextRight, PTL DEF SemSpec
-----------------------------------------------------------------------------
(* pthread_once(): each initialiser runs once, and no call returns before  *)
(* its control is done.  The thread that runs a control's initialiser is   *)
(* found by the call it is in: at most one call of one thread runs it.     *)

RunsAt(fs, i) == i \in 1..Len(fs) /\ fs[i].at \in {"routine", "routineEnds"}

OnceTyped ==
    /\ control \in [Control -> {"init", "progress", "done"}]
    /\ frames \in [OnceThreads -> Seq(Frame)]
    /\ ran \in [Control -> Nat]

RanOnce == \A c \in Control : ran[c] = IF control[c] = "init" THEN 0 ELSE 1

RunnersInProgress ==
    \A t \in OnceThreads : \A i \in Nat :
        RunsAt(frames[t], i) => control[frames[t][i].of] = "progress"

OneRunner ==
    \A t, u \in OnceThreads : \A i, j \in Nat :
        /\ RunsAt(frames[t], i) /\ RunsAt(frames[u], j)
        /\ frames[t][i].of = frames[u][j].of
        => t = u /\ i = j

ProgressIsRun ==
    \A c \in Control : control[c] = "progress" =>
        \E t \in OnceThreads : \E i \in Nat : RunsAt(frames[t], i) /\ frames[t][i].of = c

OnceInv == OnceTyped /\ RanOnce /\ RunnersInProgress /\ OneRunner /\ ProgressIsRun

\* What a step of a call does to the thread's calls: only the innermost moves
LEMMA GoToMoves ==
    ASSUME NEW fs \in Seq(Frame), fs # <<>>,
           NEW place \in {"test", "asleep", "routine", "routineEnds"}
    PROVE  /\ OnceGoTo(fs, place) \in Seq(Frame)
           /\ Len(OnceGoTo(fs, place)) = Len(fs)
           /\ \A i \in 1..Len(fs) : OnceGoTo(fs, place)[i].of = fs[i].of
           /\ \A i \in 1..Len(fs) : i # Len(fs) => OnceGoTo(fs, place)[i] = fs[i]
           /\ OnceGoTo(fs, place)[Len(fs)].at = place
  <1> DEFINE top == [fs[Len(fs)] EXCEPT !.at = place]
  <1>1. Len(fs) \in 1..Len(fs) /\ fs[Len(fs)] \in Frame
    BY LenProperties
  <1>2. top \in Frame /\ top.of = fs[Len(fs)].of /\ top.at = place
    BY <1>1 DEF Frame
  <1>3. OnceGoTo(fs, place) = [fs EXCEPT ![Len(fs)] = top]
    BY DEF OnceGoTo
  <1> HIDE DEF top
  <1> QED BY <1>1, <1>2, <1>3, ExceptSeq

\* A wake-up moves nobody into or out of an initialiser
LEMMA AwakeKeeps ==
    ASSUME NEW fs \in Seq(Frame)
    PROVE  /\ Awake(fs) \in Seq(Frame)
           /\ Len(Awake(fs)) = Len(fs)
           /\ \A i \in 1..Len(fs) : Awake(fs)[i].of = fs[i].of
           /\ \A i \in Nat : RunsAt(Awake(fs), i) <=> RunsAt(fs, i)
  <1>1. CASE fs # <<>> /\ Last(fs).at = "asleep"
    <2> DEFINE woken == OnceGoTo(fs, "test")
    <2>1. fs[Len(fs)].at = "asleep" /\ Awake(fs) = woken
      BY <1>1 DEF Awake, Last
    <2>2. /\ woken \in Seq(Frame) /\ Len(woken) = Len(fs)
          /\ \A i \in 1..Len(fs) : woken[i].of = fs[i].of
          /\ \A i \in 1..Len(fs) : i # Len(fs) => woken[i] = fs[i]
          /\ woken[Len(fs)].at = "test"
      BY <1>1, GoToMoves
    <2> HIDE DEF woken
    <2>3. ASSUME NEW i \in Nat PROVE RunsAt(woken, i) <=> RunsAt(fs, i)
      BY <2>1, <2>2, LenProperties DEF RunsAt
    <2> QED BY <2>1, <2>2, <2>3
  <1>2. CASE ~(fs # <<>> /\ Last(fs).at = "asleep")
    BY <1>2 DEF Awake
  <1> QED BY <1>1, <1>2

LEMMA FrontKeeps ==
    ASSUME NEW fs \in Seq(Frame), fs # <<>>
    PROVE  /\ Front(fs) \in Seq(Frame)
           /\ Len(Front(fs)) = Len(fs) - 1
           /\ \A i \in 1..Len(fs) - 1 : Front(fs)[i] = fs[i]
           /\ \A i \in Nat : RunsAt(Front(fs), i) <=> RunsAt(fs, i) /\ i # Len(fs)
  <1>1. Front(fs) = SubSeq(fs, 1, Len(fs) - 1) /\ Len(fs) \in Nat /\ Len(fs) > 0
    BY DEF Front
  <1>2. /\ Front(fs) \in Seq(Frame) /\ Len(Front(fs)) = Len(fs) - 1
        /\ \A i \in 1..Len(fs) - 1 : Front(fs)[i] = fs[i]
    <2> DEFINE n == Len(fs) - 1
    <2>1. n \in Int /\ n \in Nat /\ \A i \in 1..n : fs[i] \in Frame
      BY <1>1, ElementOfSeq
    <2>2. n - 1 + 1 = n /\ \A i \in 1..n : 1 + i - 1 = i
      BY <2>1
    <2> HIDE DEF n
    <2>3. /\ SubSeq(fs, 1, n) \in Seq(Frame)
          /\ Len(SubSeq(fs, 1, n)) = IF 1 <= n THEN n - 1 + 1 ELSE 0
          /\ \A i \in 1..(n - 1 + 1) : SubSeq(fs, 1, n)[i] = fs[1 + i - 1]
      BY <2>1, SubSeqProperties
    <2>4. /\ SubSeq(fs, 1, n) \in Seq(Frame) /\ Len(SubSeq(fs, 1, n)) = n
          /\ \A i \in 1..n : SubSeq(fs, 1, n)[i] = fs[i]
      BY <2>1, <2>2, <2>3
    <2> QED BY <1>1, <2>4 DEF n
  <1> QED BY <1>1, <1>2 DEF RunsAt

\* A step that moves nobody into or out of an initialiser
LEMMA OnceKept ==
    ASSUME OnceInv, control' = control, ran' = ran,
           frames' \in [OnceThreads -> Seq(Frame)],
           \A t \in OnceThreads : \A i \in Nat :
               /\ RunsAt(frames'[t], i) <=> RunsAt(frames[t], i)
               /\ RunsAt(frames[t], i) => frames'[t][i].of = frames[t][i].of
    PROVE  OnceInv'
  <1>1. OnceTyped' /\ RanOnce'
    BY DEF OnceInv, OnceTyped, RanOnce
  <1>2. RunnersInProgress'
    BY DEF OnceInv, OnceTyped, RunnersInProgress
  <1>3. OneRunner'
    BY DEF OnceInv, OnceTyped, OneRunner
  <1>4. ProgressIsRun'
    <2> SUFFICES ASSUME NEW c \in Control, control[c] = "progress"
                 PROVE  \E t \in OnceThreads : \E i \in Nat :
                            RunsAt(frames'[t], i) /\ frames'[t][i].of = c
      BY DEF ProgressIsRun
    <2>1. PICK t \in OnceThreads, i \in Nat : RunsAt(frames[t], i) /\ frames[t][i].of = c
      BY DEF OnceInv, ProgressIsRun
    <2>2. RunsAt(frames'[t], i) /\ frames'[t][i].of = c
      BY <2>1
    <2> QED BY <2>2
  <1> QED BY <1>1, <1>2, <1>3, <1>4 DEF OnceInv

\* The innermost call of a thread that is in one
LEMMA TopIs ==
    ASSUME OnceTyped, NEW t \in OnceThreads, frames[t] # <<>>
    PROVE  /\ frames[t] \in Seq(Frame)
           /\ Len(frames[t]) \in Nat /\ Len(frames[t]) \in 1..Len(frames[t])
           /\ Top(t) = frames[t][Len(frames[t])]
           /\ Top(t) \in Frame /\ Top(t).of \in Control
           /\ \A i \in 1..Len(frames[t]) : frames[t][i] \in Frame
  <1>1. frames[t] \in Seq(Frame)
    BY DEF OnceTyped
  <1>2. /\ Len(frames[t]) \in Nat /\ Len(frames[t]) \in 1..Len(frames[t])
        /\ \A i \in 1..Len(frames[t]) : frames[t][i] \in Frame
    BY <1>1, LenProperties, EmptySeq
  <1> QED BY <1>1, <1>2 DEF Top, Last, Frame

\* What a broadcast does: the caller goes on with fs, the others keep what they run
LEMMA BroadcastKeeps ==
    ASSUME OnceTyped, NEW t \in OnceThreads, NEW fs \in Seq(Frame), Broadcast(t, fs)
    PROVE  /\ frames' \in [OnceThreads -> Seq(Frame)]
           /\ frames'[t] = fs
           /\ \A u \in OnceThreads : u # t =>
                 /\ Len(frames'[u]) = Len(frames[u])
                 /\ \A i \in 1..Len(frames[u]) : frames'[u][i].of = frames[u][i].of
                 /\ \A i \in Nat : RunsAt(frames'[u], i) <=> RunsAt(frames[u], i)
  <1>1. \A u \in OnceThreads :
           frames[u] \in Seq(Frame) /\ frames'[u] = IF u = t THEN fs ELSE Awake(frames[u])
    BY DEF OnceTyped, Broadcast
  <1>2. \A u \in OnceThreads : frames'[u] \in Seq(Frame)
    BY <1>1, AwakeKeeps
  <1>3. frames' \in [OnceThreads -> Seq(Frame)]
    BY <1>2 DEF Broadcast
  <1> QED BY <1>1, <1>3, AwakeKeeps

LEMMA OnceStart ==
    ASSUME OnceInit
    PROVE  OnceInv
  <1>1. OnceTyped /\ RanOnce
    BY DEF OnceInit, OnceTyped, RanOnce
  <1>2. \A t \in OnceThreads : \A i \in Nat : ~RunsAt(frames[t], i)
    BY DEF OnceInit, RunsAt
  <1>3. \A c \in Control : control[c] # "progress"
    BY DEF OnceInit
  <1> QED BY <1>1, <1>2, <1>3 DEF OnceInv, RunnersInProgress, OneRunner, ProgressIsRun

LEMMA BeginKeeps ==
    ASSUME OnceInv, NEW t \in OnceThreads, Begin(t)
    PROVE  OnceInv'
  <1> DEFINE n == Len(frames[t])  c == Top(t).of  fs == OnceGoTo(frames[t], "routine")
  <1>1. OnceTyped /\ frames[t] # <<>> /\ Top(t).at = "test" /\ control[c] = "init"
    BY DEF Begin, In, OnceInv
  <1>2. /\ frames[t] \in Seq(Frame) /\ n \in Nat /\ n \in 1..n
        /\ Top(t) = frames[t][n] /\ c \in Control
    BY <1>1, TopIs
  <1>3. /\ fs \in Seq(Frame) /\ Len(fs) = n
        /\ \A i \in 1..n : fs[i].of = frames[t][i].of
        /\ \A i \in 1..n : i # n => fs[i] = frames[t][i]
        /\ fs[n].at = "routine"
    BY <1>1, <1>2, GoToMoves
  <1>4. /\ control' = [control EXCEPT ![c] = "progress"]
        /\ ran' = [ran EXCEPT ![c] = @ + 1]
        /\ frames' = [frames EXCEPT ![t] = fs]
    BY DEF Begin
  <1>5. frames'[t] = fs /\ \A u \in OnceThreads : u # t => frames'[u] = frames[u]
    BY <1>1, <1>4 DEF OnceTyped
  <1> HIDE DEF n, c, fs
  <1>6. \A i \in Nat : RunsAt(fs, i) <=> RunsAt(frames[t], i) \/ i = n
    <2> SUFFICES ASSUME NEW i \in Nat PROVE RunsAt(fs, i) <=> RunsAt(frames[t], i) \/ i = n
      OBVIOUS
    <2>1. CASE i = n
      BY <2>1, <1>2, <1>3 DEF RunsAt
    <2>2. CASE i # n
      BY <2>2, <1>2, <1>3 DEF RunsAt, n
    <2> QED BY <2>1, <2>2
  <1>7. OnceTyped' /\ RanOnce'
    BY <1>1, <1>2, <1>3, <1>4 DEF OnceInv, OnceTyped, RanOnce
  <1>8. \A u \in OnceThreads : \A i \in Nat : RunsAt(frames[u], i) => frames[u][i].of # c
    BY <1>1 DEF OnceInv, RunnersInProgress
  <1>9. fs[n].of = c /\ \A i \in Nat : RunsAt(frames[t], i) => fs[i].of = frames[t][i].of
    BY <1>2, <1>3 DEF RunsAt, c, n
  <1>10. RunnersInProgress'
    <2> SUFFICES ASSUME NEW u \in OnceThreads, NEW i \in Nat, RunsAt(frames'[u], i)
                 PROVE  control'[frames'[u][i].of] = "progress"
      BY DEF RunnersInProgress
    <2>1. CASE u = t /\ i = n
      BY <2>1, <1>1, <1>2, <1>4, <1>5, <1>9 DEF OnceTyped
    <2>2. CASE ~(u = t /\ i = n)
      <3>1. RunsAt(frames[u], i) /\ frames'[u][i].of = frames[u][i].of
        BY <2>2, <1>5, <1>6, <1>9
      <3>2. control[frames[u][i].of] = "progress" /\ frames[u][i].of # c
        BY <3>1, <1>8 DEF OnceInv, RunnersInProgress
      <3>3. frames[u][i].of \in Control
        <4>1. frames[u] \in Seq(Frame) /\ i \in 1..Len(frames[u])
          BY <3>1, <1>1 DEF RunsAt, OnceTyped
        <4>2. frames[u][i] \in Frame
          BY <4>1, ElementOfSeq
        <4> QED BY <4>2 DEF Frame
      <3> QED BY <3>1, <3>2, <3>3, <1>1, <1>4 DEF OnceTyped
    <2> QED BY <2>1, <2>2
  <1>11. OneRunner'
    <2> SUFFICES ASSUME NEW u \in OnceThreads, NEW w \in OnceThreads, NEW i \in Nat, NEW j \in Nat,
                        RunsAt(frames'[u], i), RunsAt(frames'[w], j),
                        frames'[u][i].of = frames'[w][j].of
                 PROVE  u = w /\ i = j
      BY DEF OneRunner
    <2>1. \/ u = t /\ i = n /\ frames'[u][i].of = c
          \/ RunsAt(frames[u], i) /\ frames'[u][i].of = frames[u][i].of
      BY <1>5, <1>6, <1>9
    <2>2. \/ w = t /\ j = n /\ frames'[w][j].of = c
          \/ RunsAt(frames[w], j) /\ frames'[w][j].of = frames[w][j].of
      BY <1>5, <1>6, <1>9
    <2> QED BY <2>1, <2>2, <1>8 DEF OnceInv, OneRunner
  <1>12. ProgressIsRun'
    <2> SUFFICES ASSUME NEW d \in Control, control'[d] = "progress"
                 PROVE  \E u \in OnceThreads : \E i \in Nat :
                            RunsAt(frames'[u], i) /\ frames'[u][i].of = d
      BY DEF ProgressIsRun
    <2>1. CASE d = c
      BY <2>1, <1>2, <1>5, <1>6, <1>9
    <2>2. CASE d # c
      <3>1. control[d] = "progress"
        BY <2>2, <1>4, <1>1 DEF OnceTyped
      <3>2. PICK u \in OnceThreads, i \in Nat : RunsAt(frames[u], i) /\ frames[u][i].of = d
        BY <3>1 DEF OnceInv, ProgressIsRun
      <3>3. RunsAt(frames'[u], i) /\ frames'[u][i].of = d
        <4>1. CASE u = t
          BY <4>1, <3>2, <1>5, <1>6, <1>9
        <4>2. CASE u # t
          BY <4>2, <3>2, <1>5
        <4> QED BY <4>1, <4>2
      <3> QED BY <3>3
    <2> QED BY <2>1, <2>2
  <1> QED BY <1>7, <1>10, <1>11, <1>12 DEF OnceInv

LEMMA RoutineReturnsKeeps ==
    ASSUME OnceInv, NEW t \in OnceThreads, RoutineReturns(t)
    PROVE  OnceInv'
  <1> DEFINE n == Len(frames[t])  c == Top(t).of  fs == Front(frames[t])
  <1>1. OnceTyped /\ frames[t] # <<>> /\ Top(t).at = "routineEnds"
    BY DEF RoutineReturns, In, OnceInv
  <1>2. /\ frames[t] \in Seq(Frame) /\ n \in Nat /\ n \in 1..n
        /\ Top(t) = frames[t][n] /\ c \in Control
    BY <1>1, TopIs
  <1>3. /\ fs \in Seq(Frame) /\ Len(fs) = n - 1
        /\ \A i \in 1..n - 1 : fs[i] = frames[t][i]
        /\ \A i \in Nat : RunsAt(fs, i) <=> RunsAt(frames[t], i) /\ i # n
    BY <1>1, <1>2, FrontKeeps
  <1>4. control' = [control EXCEPT ![c] = "done"] /\ ran' = ran /\ Broadcast(t, fs)
    BY DEF RoutineReturns
  <1> HIDE DEF n, c, fs
  <1>5. /\ frames' \in [OnceThreads -> Seq(Frame)]
        /\ frames'[t] = fs
        /\ \A u \in OnceThreads : u # t =>
              /\ \A i \in 1..Len(frames[u]) : frames'[u][i].of = frames[u][i].of
              /\ \A i \in Nat : RunsAt(frames'[u], i) <=> RunsAt(frames[u], i)
    BY <1>1, <1>3, <1>4, BroadcastKeeps
  <1>6. RunsAt(frames[t], n) /\ frames[t][n].of = c /\ control[c] = "progress"
    <2>1. RunsAt(frames[t], n) /\ frames[t][n].of = c
      BY <1>1, <1>2 DEF RunsAt, c, n
    <2> QED BY <2>1, <1>2 DEF OnceInv, RunnersInProgress
  <1>7. \A u \in OnceThreads : \A i \in Nat : RunsAt(frames'[u], i) =>
           /\ RunsAt(frames[u], i) /\ frames'[u][i].of = frames[u][i].of
           /\ frames[u][i].of \in Control /\ frames[u][i].of # c
    <2> SUFFICES ASSUME NEW u \in OnceThreads, NEW i \in Nat, RunsAt(frames'[u], i)
                 PROVE  /\ RunsAt(frames[u], i) /\ frames'[u][i].of = frames[u][i].of
                        /\ frames[u][i].of \in Control /\ frames[u][i].of # c
      OBVIOUS
    <2>1. RunsAt(frames[u], i) /\ ~(u = t /\ i = n)
      BY <1>3, <1>5
    <2>2. frames[u] \in Seq(Frame) /\ i \in 1..Len(frames[u])
      BY <2>1, <1>1 DEF RunsAt, OnceTyped
    <2>3. frames[u][i].of \in Control
      <3>1. frames[u][i] \in Frame
        BY <2>2, ElementOfSeq
      <3> QED BY <3>1 DEF Frame
    <2>4. frames'[u][i].of = frames[u][i].of
      <3>1. CASE u = t
        BY <3>1, <2>1, <2>2, <1>2, <1>3, <1>5 DEF n
      <3>2. CASE u # t
        BY <3>2, <2>2, <1>5
      <3> QED BY <3>1, <3>2
    <2>5. frames[u][i].of # c
      BY <2>1, <1>2, <1>6 DEF OnceInv, OneRunner
    <2> QED BY <2>1, <2>3, <2>4, <2>5
  <1>8. OnceTyped' /\ RanOnce'
    BY <1>1, <1>2, <1>4, <1>5, <1>6 DEF OnceInv, OnceTyped, RanOnce
  <1>9. RunnersInProgress'
    <2> SUFFICES ASSUME NEW u \in OnceThreads, NEW i \in Nat, RunsAt(frames'[u], i)
                 PROVE  control'[frames'[u][i].of] = "progress"
      BY DEF RunnersInProgress
    <2>1. /\ RunsAt(frames[u], i) /\ frames'[u][i].of = frames[u][i].of
          /\ frames[u][i].of \in Control /\ frames[u][i].of # c
      BY <1>7
    <2>2. control[frames[u][i].of] = "progress"
      BY <2>1 DEF OnceInv, RunnersInProgress
    <2> QED BY <2>1, <2>2, <1>1, <1>4 DEF OnceTyped
  <1>10. OneRunner'
    BY <1>7 DEF OnceInv, OneRunner
  <1>11. ProgressIsRun'
    <2> SUFFICES ASSUME NEW d \in Control, control'[d] = "progress"
                 PROVE  \E u \in OnceThreads : \E i \in Nat :
                            RunsAt(frames'[u], i) /\ frames'[u][i].of = d
      BY DEF ProgressIsRun
    <2>1. d # c /\ control[d] = "progress"
      BY <1>1, <1>4 DEF OnceTyped
    <2>2. PICK u \in OnceThreads, i \in Nat : RunsAt(frames[u], i) /\ frames[u][i].of = d
      BY <2>1 DEF OnceInv, ProgressIsRun
    <2>3. RunsAt(frames'[u], i)
      <3>1. CASE u = t
        BY <3>1, <2>1, <2>2, <1>3, <1>5, <1>6
      <3>2. CASE u # t
        BY <3>2, <2>2, <1>5
      <3> QED BY <3>1, <3>2
    <2>4. frames'[u][i].of = d
      BY <2>2, <2>3, <1>7
    <2> QED BY <2>3, <2>4
  <1> QED BY <1>8, <1>9, <1>10, <1>11 DEF OnceInv

LEMMA ReturnKeeps ==
    ASSUME OnceInv, NEW t \in OnceThreads, Return(t)
    PROVE  OnceInv'
  <1> DEFINE n == Len(frames[t])  fs == Front(frames[t])
  <1>1. OnceTyped /\ frames[t] # <<>> /\ Top(t).at = "test"
    BY DEF Return, In, OnceInv
  <1>2. /\ frames[t] \in Seq(Frame) /\ n \in Nat /\ n \in 1..n /\ Top(t) = frames[t][n]
    BY <1>1, TopIs
  <1>3. /\ fs \in Seq(Frame) /\ Len(fs) = n - 1
        /\ \A i \in 1..n - 1 : fs[i] = frames[t][i]
        /\ \A i \in Nat : RunsAt(fs, i) <=> RunsAt(frames[t], i) /\ i # n
    BY <1>1, <1>2, FrontKeeps
  <1>4. control' = control /\ ran' = ran /\ Broadcast(t, fs)
    BY DEF Return
  <1> HIDE DEF n, fs
  <1>5. /\ frames' \in [OnceThreads -> Seq(Frame)]
        /\ frames'[t] = fs
        /\ \A u \in OnceThreads : u # t =>
              /\ \A i \in 1..Len(frames[u]) : frames'[u][i].of = frames[u][i].of
              /\ \A i \in Nat : RunsAt(frames'[u], i) <=> RunsAt(frames[u], i)
    BY <1>1, <1>3, <1>4, BroadcastKeeps
  <1>6. ~RunsAt(frames[t], n)
    BY <1>1, <1>2 DEF RunsAt
  <1>7. \A u \in OnceThreads : \A i \in Nat :
           /\ RunsAt(frames'[u], i) <=> RunsAt(frames[u], i)
           /\ RunsAt(frames[u], i) => frames'[u][i].of = frames[u][i].of
    <2> SUFFICES ASSUME NEW u \in OnceThreads, NEW i \in Nat
                 PROVE  /\ RunsAt(frames'[u], i) <=> RunsAt(frames[u], i)
                        /\ RunsAt(frames[u], i) => frames'[u][i].of = frames[u][i].of
      OBVIOUS
    <2>1. CASE u = t
      <3>1. RunsAt(frames'[t], i) <=> RunsAt(frames[t], i)
        BY <1>3, <1>5, <1>6
      <3>2. ASSUME RunsAt(frames[t], i) PROVE i \in 1..n - 1
        BY <3>2, <1>2, <1>6 DEF RunsAt, n
      <3> QED BY <2>1, <3>1, <3>2, <1>3, <1>5
    <2>2. CASE u # t
      BY <2>2, <1>5 DEF RunsAt
    <2> QED BY <2>1, <2>2
  <1> QED BY <1>4, <1>5, <1>7, OnceKept

\* Wait, SpuriousWakeup: the innermost call moves among "test" and "asleep"
LEMMA TopMovesKeeps ==
    ASSUME OnceInv, NEW t \in OnceThreads, frames[t] # <<>>,
           Top(t).at \in {"test", "asleep"}, NEW place \in {"test", "asleep"},
           frames' = [frames EXCEPT ![t] = OnceGoTo(@, place)],
           control' = control, ran' = ran
    PROVE  OnceInv'
  <1> DEFINE n == Len(frames[t])  fs == OnceGoTo(frames[t], place)
  <1>1. /\ OnceTyped /\ frames[t] \in Seq(Frame) /\ n \in Nat /\ n \in 1..n
        /\ Top(t) = frames[t][n]
    BY TopIs DEF OnceInv
  <1>2. /\ fs \in Seq(Frame) /\ Len(fs) = n
        /\ \A i \in 1..n : fs[i].of = frames[t][i].of
        /\ \A i \in 1..n : i # n => fs[i] = frames[t][i]
        /\ fs[n].at = place
    BY <1>1, GoToMoves
  <1> HIDE DEF fs
  <1>3. \A i \in Nat : /\ RunsAt(fs, i) <=> RunsAt(frames[t], i)
                       /\ RunsAt(frames[t], i) => fs[i].of = frames[t][i].of
    BY <1>1, <1>2 DEF RunsAt
  <1>4. frames' \in [OnceThreads -> Seq(Frame)] /\ frames'[t] = fs
        /\ \A u \in OnceThreads : u # t => frames'[u] = frames[u]
    BY <1>1, <1>2 DEF OnceTyped, fs
  <1>5. \A u \in OnceThreads : \A i \in Nat :
           /\ RunsAt(frames'[u], i) <=> RunsAt(frames[u], i)
           /\ RunsAt(frames[u], i) => frames'[u][i].of = frames[u][i].of
    BY <1>3, <1>4
  <1> QED BY <1>4, <1>5, OnceKept

LEMMA CallNestedKeeps ==
    ASSUME OnceInv, OnceAssumption, NEW t \in OnceThreads, CallNested(t)
    PROVE  OnceInv'
  <1> DEFINE n == Len(frames[t])  fs == OnceGoTo(frames[t], "routineEnds")
             inner == [of |-> Needs[Top(t).of], at |-> "test"]
  <1>1. /\ OnceTyped /\ frames[t] \in Seq(Frame) /\ n \in Nat /\ n \in 1..n
        /\ Top(t) = frames[t][n] /\ Top(t).of \in Control /\ Top(t).at = "routine"
        /\ frames[t] # <<>>
    BY TopIs DEF OnceInv, CallNested, In
  <1>2. /\ fs \in Seq(Frame) /\ Len(fs) = n
        /\ \A i \in 1..n : fs[i].of = frames[t][i].of
        /\ \A i \in 1..n : i # n => fs[i] = frames[t][i]
        /\ fs[n].at = "routineEnds"
    BY <1>1, GoToMoves
  <1>3. inner \in Frame /\ inner.at = "test"
    BY <1>1 DEF OnceAssumption, Frame
  <1>4. /\ frames' = [frames EXCEPT ![t] = IF Needs[Top(t).of] = Top(t).of
                                             THEN fs ELSE Append(fs, inner)]
        /\ control' = control /\ ran' = ran
    BY DEF CallNested
  <1> HIDE DEF fs, inner
  <1>5. \A i \in Nat : /\ RunsAt(fs, i) <=> RunsAt(frames[t], i)
                       /\ RunsAt(frames[t], i) => fs[i].of = frames[t][i].of
    BY <1>1, <1>2 DEF RunsAt
  <1>6. /\ Append(fs, inner) \in Seq(Frame)
        /\ Len(Append(fs, inner)) = n + 1
        /\ \A i \in 1..n : Append(fs, inner)[i] = fs[i]
        /\ Append(fs, inner)[n + 1] = inner
    BY <1>2, <1>3, AppendProperties
  <1>7. \A i \in Nat : /\ RunsAt(Append(fs, inner), i) <=> RunsAt(fs, i)
                       /\ RunsAt(fs, i) => Append(fs, inner)[i] = fs[i]
    BY <1>1, <1>2, <1>3, <1>6 DEF RunsAt
  <1>8. /\ frames' \in [OnceThreads -> Seq(Frame)]
        /\ frames'[t] \in {fs, Append(fs, inner)}
        /\ \A u \in OnceThreads : u # t => frames'[u] = frames[u]
    BY <1>1, <1>2, <1>4, <1>6 DEF OnceTyped
  <1>9. \A u \in OnceThreads : \A i \in Nat :
           /\ RunsAt(frames'[u], i) <=> RunsAt(frames[u], i)
           /\ RunsAt(frames[u], i) => frames'[u][i].of = frames[u][i].of
    <2> SUFFICES ASSUME NEW u \in OnceThreads, NEW i \in Nat
                 PROVE  /\ RunsAt(frames'[u], i) <=> RunsAt(frames[u], i)
                        /\ RunsAt(frames[u], i) => frames'[u][i].of = frames[u][i].of
      OBVIOUS
    <2>1. CASE u # t
      BY <2>1, <1>8
    <2>2. CASE u = t /\ frames'[t] = fs
      BY <2>2, <1>5
    <2>3. CASE u = t /\ frames'[t] = Append(fs, inner)
      BY <2>3, <1>5, <1>7
    <2> QED BY <2>1, <2>2, <2>3, <1>8
  <1> QED BY <1>4, <1>8, <1>9, OnceKept

LEMMA OnceCallKeeps ==
    ASSUME OnceInv, NEW t \in OnceThreads, OnceCall(t)
    PROVE  OnceInv'
  <1>1. PICK c \in Control : frames' = [frames EXCEPT ![t] = <<[of |-> c, at |-> "test"]>>]
    BY DEF OnceCall
  <1> DEFINE fs == <<[of |-> c, at |-> "test"]>>
  <1>2. fs \in Seq(Frame) /\ \A i \in Nat : ~RunsAt(fs, i)
    BY DEF Frame, RunsAt
  <1>3. \A i \in Nat : ~RunsAt(frames[t], i)
    BY DEF OnceCall, RunsAt
  <1>4. frames' \in [OnceThreads -> Seq(Frame)] /\ frames'[t] = fs
        /\ \A u \in OnceThreads : u # t => frames'[u] = frames[u]
    BY <1>1, <1>2 DEF OnceInv, OnceTyped
  <1>5. control' = control /\ ran' = ran
    BY DEF OnceCall
  <1> HIDE DEF fs
  <1>6. \A u \in OnceThreads : \A i \in Nat :
           /\ RunsAt(frames'[u], i) <=> RunsAt(frames[u], i)
           /\ RunsAt(frames[u], i) => frames'[u][i].of = frames[u][i].of
    BY <1>2, <1>3, <1>4
  <1> QED BY <1>4, <1>5, <1>6, OnceKept

LEMMA OnceStepKeeps ==
    ASSUME OnceInv, OnceAssumption, [OnceNext]_onceVars
    PROVE  OnceInv'
  <1>1. ASSUME NEW t \in OnceThreads, OnceCall(t) \/ OnceStep(t) \/ SpuriousWakeup(t)
        PROVE  OnceInv'
    <2>1. CASE OnceCall(t)
      BY <2>1, OnceCallKeeps
    <2>2. CASE CallNested(t)
      BY <2>2, CallNestedKeeps
    <2>3. CASE Wait(t)
      <3>1. /\ frames[t] # <<>> /\ Top(t).at = "test" /\ control' = control /\ ran' = ran
            /\ frames' = [frames EXCEPT ![t] = OnceGoTo(@, "asleep")]
        BY <2>3 DEF Wait, In
      <3> QED BY <3>1, TopMovesKeeps
    <2>4. CASE SpuriousWakeup(t)
      <3>1. /\ frames[t] # <<>> /\ Top(t).at = "asleep" /\ control' = control /\ ran' = ran
            /\ frames' = [frames EXCEPT ![t] = Awake(frames[t])]
        BY <2>4 DEF SpuriousWakeup, In
      <3>2. Awake(frames[t]) = OnceGoTo(frames[t], "test")
        BY <3>1 DEF Awake, Top
      <3>3. frames' = [frames EXCEPT ![t] = OnceGoTo(@, "test")]
        BY <3>1, <3>2
      <3> QED BY <3>1, <3>3, TopMovesKeeps
    <2>5. CASE Begin(t)
      BY <2>5, BeginKeeps
    <2>6. CASE Return(t)
      BY <2>6, ReturnKeeps
    <2>7. CASE RoutineReturns(t)
      BY <2>7, RoutineReturnsKeeps
    <2> QED BY <1>1, <2>1, <2>2, <2>3, <2>4, <2>5, <2>6, <2>7 DEF OnceStep
  <1>2. CASE UNCHANGED onceVars
    <2>1. frames' = frames /\ control' = control /\ ran' = ran
      BY <1>2 DEF onceVars
    <2>2. frames' \in [OnceThreads -> Seq(Frame)]
      BY <2>1 DEF OnceInv, OnceTyped
    <2> QED BY <2>1, <2>2, OnceKept
  <1> QED BY <1>1, <1>2 DEF OnceNext, OnceFinished

\* A call that ends finds its control done
LEMMA OnceEnds ==
    ASSUME OnceInv, OnceAssumption, [OnceNext]_onceVars, NEW t \in OnceThreads,
           Len(frames'[t]) < Len(frames[t])
    PROVE  control'[Top(t).of] = "done"
  <1> USE DEF OnceInv
  <1>1. frames[t] \in Seq(Frame) /\ Len(frames[t]) \in Nat
    BY LenProperties DEF OnceTyped
  <1>2. frames[t] # <<>>
    <2>1. SUFFICES ASSUME frames[t] = <<>> PROVE FALSE
      OBVIOUS
    <2>2. Len(frames[t]) = 0 /\ Len(frames'[t]) \in Nat
      BY <2>1, EmptySeq, OnceStepKeeps, LenProperties DEF OnceTyped
    <2> QED BY <2>2
  <1>3. Top(t).of \in Control
    BY <1>2, TopIs
  <1>4. ASSUME NEW place \in {"test", "asleep", "routine", "routineEnds"}
        PROVE  Len(OnceGoTo(frames[t], place)) = Len(frames[t])
    BY <1>1, <1>2, GoToMoves
  <1>5. ASSUME NEW u \in OnceThreads, OnceCall(u) \/ OnceStep(u) \/ SpuriousWakeup(u)
        PROVE  control'[Top(t).of] = "done"
    <2>1. ASSUME u # t, frames'[t] = frames[t] PROVE FALSE
      BY <2>1, <1>1
    <2>2. ASSUME NEW place \in {"test", "asleep", "routine", "routineEnds"}, u = t,
                 frames'[t] = OnceGoTo(frames[t], place)
          PROVE  FALSE
      BY <2>2, <1>1, <1>4
    <2>3. CASE OnceCall(u)
      <3>1. u # t /\ frames'[t] = frames[t]
        BY <2>3, <1>2 DEF OnceCall, OnceTyped
      <3> QED BY <3>1, <2>1
    <2>4. CASE CallNested(u)
      <3>1. CASE u # t
        BY <2>4, <3>1, <2>1 DEF CallNested, OnceTyped
      <3>2. CASE u = t
        <4> DEFINE fs == OnceGoTo(frames[t], "routineEnds")
                   inner == [of |-> Needs[Top(t).of], at |-> "test"]
        <4>1. fs \in Seq(Frame) /\ Len(fs) = Len(frames[t]) /\ inner \in Frame
          BY <1>1, <1>2, <1>3, GoToMoves DEF OnceAssumption, Frame
        <4>2. frames'[t] = fs \/ frames'[t] = Append(fs, inner)
          BY <2>4, <3>2 DEF CallNested, OnceTyped
        <4> HIDE DEF fs, inner
        <4>3. Len(Append(fs, inner)) = Len(frames[t]) + 1
          BY <4>1, AppendProperties
        <4> QED BY <4>1, <4>2, <4>3, <1>1
      <3> QED BY <3>1, <3>2
    <2>5. CASE Wait(u)
      <3>1. CASE u # t
        BY <2>5, <3>1, <2>1 DEF Wait, OnceTyped
      <3>2. CASE u = t
        BY <2>5, <3>2, <2>2 DEF Wait, OnceTyped
      <3> QED BY <3>1, <3>2
    <2>6. CASE SpuriousWakeup(u)
      <3>1. frames'[t] = frames[t] \/ frames'[t] = Awake(frames[t])
        BY <2>6 DEF SpuriousWakeup, OnceTyped
      <3> QED BY <3>1, <1>1, AwakeKeeps
    <2>7. CASE Begin(u)
      <3>1. CASE u # t
        BY <2>7, <3>1, <2>1 DEF Begin, OnceTyped
      <3>2. CASE u = t
        BY <2>7, <3>2, <2>2 DEF Begin, OnceTyped
      <3> QED BY <3>1, <3>2
    <2>8. ASSUME Broadcast(u, Front(frames[u])), frames[u] # <<>>
          PROVE  u = t
      <3>1. SUFFICES ASSUME u # t PROVE FALSE
        OBVIOUS
      <3>2. frames[u] \in Seq(Frame) /\ Front(frames[u]) \in Seq(Frame)
        BY <2>8, FrontKeeps DEF OnceTyped
      <3>3. Len(frames'[t]) = Len(frames[t])
        BY <2>8, <3>1, <3>2, BroadcastKeeps
      <3> QED BY <3>3, <1>1
    <2>9. CASE Return(u)
      <3>1. u = t
        BY <2>8, <2>9 DEF Return, In
      <3> QED BY <2>9, <3>1 DEF Return
    <2>10. CASE RoutineReturns(u)
      <3>1. u = t
        BY <2>8, <2>10 DEF RoutineReturns, In
      <3> QED BY <2>10, <3>1, <1>3 DEF RoutineReturns, OnceTyped
    <2> QED BY <1>5, <2>3, <2>4, <2>5, <2>6, <2>7, <2>9, <2>10 DEF OnceStep
  <1>6. CASE UNCHANGED onceVars
    BY <1>1, <1>6 DEF onceVars
  <1> QED BY <1>5, <1>6 DEF OnceNext, OnceFinished

\* Each initialiser runs once, its control is in progress exactly while one thread
\* runs it, and no call for it returns before that, for any number of threads and
\* controls and however their initialisers call each other.
THEOREM OnceCorrect == ASSUME OnceAssumption PROVE OnceSpec => OnceSound
  <1> DEFINE inProgress ==
          \A c \in Control :
             /\ ran[c] = (IF control[c] = "init" THEN 0 ELSE 1)
             /\ (control[c] = "progress") = (\E t \in OnceThreads : Running(c) = {t})
  <1>1. ASSUME OnceInv PROVE inProgress
    <2> SUFFICES ASSUME NEW c \in Control
                 PROVE  (control[c] = "progress") <=> \E t \in OnceThreads : Running(c) = {t}
      BY <1>1 DEF OnceInv, RanOnce
    <2>1. \A t \in OnceThreads : t \in Running(c) <=>
             \E i \in Nat : RunsAt(frames[t], i) /\ frames[t][i].of = c
      BY DEF Running, RunsAt
    <2>2. ASSUME control[c] = "progress" PROVE \E t \in OnceThreads : Running(c) = {t}
      <3>1. PICK t \in OnceThreads, i \in Nat : RunsAt(frames[t], i) /\ frames[t][i].of = c
        BY <1>1, <2>2 DEF OnceInv, ProgressIsRun
      <3>2. t \in Running(c)
        BY <2>1, <3>1
      <3>3. ASSUME NEW u \in Running(c) PROVE u = t
        <4>1. u \in OnceThreads
          BY DEF Running
        <4>2. PICK j \in Nat : RunsAt(frames[u], j) /\ frames[u][j].of = c
          BY <2>1, <3>3, <4>1
        <4> QED BY <1>1, <3>1, <4>1, <4>2 DEF OnceInv, OneRunner
      <3> QED BY <3>2, <3>3
    <2>3. ASSUME NEW t \in OnceThreads, Running(c) = {t} PROVE control[c] = "progress"
      <3>1. PICK i \in Nat : RunsAt(frames[t], i) /\ frames[t][i].of = c
        BY <2>1, <2>3
      <3> QED BY <1>1, <3>1 DEF OnceInv, RunnersInProgress
    <2> QED BY <2>2, <2>3
  <1>2. ASSUME OnceInv, [OnceNext]_onceVars
        PROVE  [\A t \in OnceThreads :
                   Len(frames'[t]) < Len(frames[t]) => control'[Top(t).of] = "done"]_onceVars
    BY <1>2, OnceEnds
  <1> QED BY <1>1, <1>2, OnceStart, OnceStepKeeps, PTL DEF OnceSpec, OnceSound

-----------------------------------------------------------------------------
(* Lazy initialisation: one thread builds the resource while the state     *)
(* says so, and who destroys it is alone.                                  *)

Building == {"make", "publish", "retract"}

LazyTyped ==
    /\ state \in {"uninitialized", "initializing", "initialized"}
    /\ lazyPc \in [LazyThreads ->
                     {"out", "load", "claim", "use"} \cup Building \cup Destroying]

OneBuilder ==
    /\ state = "initializing" <=> \E t \in LazyThreads : lazyPc[t] \in Building
    /\ \A t, u \in LazyThreads : lazyPc[t] \in Building /\ lazyPc[u] \in Building => t = u

DestroyerAlone ==
    \A t, u \in LazyThreads : lazyPc[t] \in Destroying /\ u # t => lazyPc[u] = "out"

\* What the object holds at each place and in each state
LiveAt ==
    /\ \A t \in LazyThreads :
        /\ lazyPc[t] \in {"make", "retract"} => live = {}
        /\ lazyPc[t] = "publish" => live = {resource}
        /\ lazyPc[t] = "destroyResource" => state = "uninitialized" /\ live = {resource}
        /\ lazyPc[t] \in {"use", "destroyClaim"} => state = "initialized"
    /\ state = "initialized" => live = {resource}
    /\ state = "uninitialized" =>
          live = {} \/ \E t \in LazyThreads : lazyPc[t] = "destroyResource"

LazyInv == LazyTyped /\ OneBuilder /\ DestroyerAlone /\ LiveAt

LEMMA LazyStepKeeps ==
    ASSUME LazyInv, [LazyNext]_lazyVars
    PROVE  LazyInv'
  <1> USE DEF LazyInv, LazyTyped, OneBuilder, DestroyerAlone, LiveAt, Building, Destroying,
              LazyGoTo
  <1>1. ASSUME NEW t \in LazyThreads, LazyCall(t) \/ CallDestroy(t) \/ LazyStep(t)
        PROVE  LazyInv'
    <2>1. CASE LazyCall(t)
      BY <2>1 DEF LazyCall
    <2>2. CASE CallDestroy(t)
      BY <2>2 DEF CallDestroy
    <2>3. CASE Load(t)
      BY <2>3 DEF Load
    <2>4. CASE Claim(t)
      BY <2>4 DEF Claim
    <2>5. CASE Make(t)
      BY <2>5 DEF Make
    <2>6. CASE MakeFails(t)
      BY <2>6 DEF MakeFails
    <2>7. CASE Publish(t)
      BY <2>7 DEF Publish
    <2>8. CASE Retract(t)
      BY <2>8 DEF Retract
    <2>9. CASE Use(t)
      BY <2>9 DEF Use
    <2>10. CASE DestroyLoad(t)
      BY <2>10 DEF DestroyLoad
    <2>11. CASE DestroyClaim(t)
      BY <2>11 DEF DestroyClaim
    <2>12. CASE DestroyResource(t)
      BY <2>12 DEF DestroyResource
    <2> QED BY <1>1, <2>1, <2>2, <2>3, <2>4, <2>5, <2>6, <2>7, <2>8, <2>9, <2>10, <2>11,
               <2>12 DEF LazyStep
  <1>2. CASE UNCHANGED lazyVars
    BY <1>2 DEF lazyVars
  <1> QED BY <1>1, <1>2 DEF LazyNext, LazyFinished

\* Whoever gets past the initialisation finds a whole resource, the same for all,
\* and none is lost or made twice, whichever first users fail and for any number
\* of threads that use, destroy and use again.
THEOREM LazyInitCorrect == LazySpec => []LazyInitSound
  <1>1. LazyInit => LazyInv
    BY DEF LazyInit, LazyInv, LazyTyped, OneBuilder, DestroyerAlone, LiveAt, Building,
           Destroying
  <1>2. LazyInv => LazyInitSound
    BY DEF LazyInv, LiveAt, LazyInitSound
  <1> QED BY <1>1, <1>2, LazyStepKeeps, PTL DEF LazySpec

-----------------------------------------------------------------------------
(* Read-write locks: the counters are exact, writers are alone, and no     *)
(* sleeper is forgotten.                                                   *)

RdHolders == RwAt({"reading"})
WrHolders == RwAt({"writing"})
WrWaiters == RwAt({"onWriteCond", "writeAgain"})      \* the writers that are counted

\* Writers are alone, said of the counters, as the code sees it
OneKind == writeActive <= 1 /\ (writeActive = 1 => readActive = 0)

\* Only a thread that is awake has an error to return
FailedAreAwake == failed \subseteq RwAt({"readAgain", "writeAgain"})

\* NobodyForgotten as each step keeps it: the writer that is about to try must
\* not be one that is about to give up.
Served ==
    /\ RwAt({"onReadCond"}) # {} => ~CanRead
    /\ RwAt({"onWriteCond"}) # {} => ~CanWrite \/ RwAt({"writeAgain"}) \ failed # {}

RwInv == RwTypeOK /\ RwCountsAgree /\ OneKind /\ FailedAreAwake /\ Served

-----------------------------------------------------------------------------
\* Cardinalities of the three groups, and what one thread changes of them
LEMMA RwCounting ==
    ASSUME NEW S \in SUBSET RwThreads
    PROVE  /\ Cardinality(S) \in Nat
           /\ Cardinality(S) = 0 <=> S = {}
           /\ \A t \in RwThreads \ S : Cardinality(S \cup {t}) = Cardinality(S) + 1
           /\ \A t \in S : Cardinality(S \ {t}) = Cardinality(S) - 1
<1>1. IsFiniteSet(S)
    BY FS_Subset, RwlockAssumption
<1>2. Cardinality(S) \in Nat /\ (Cardinality(S) = 0 <=> S = {})
    BY <1>1, FS_CardinalityType, FS_EmptySet
<1>3. ASSUME NEW t \in RwThreads \ S
      PROVE  Cardinality(S \cup {t}) = Cardinality(S) + 1
    BY <1>1, <1>3, FS_AddElement
<1>4. ASSUME NEW t \in S
      PROVE  Cardinality(S \ {t}) = Cardinality(S) - 1
    BY <1>1, <1>4, FS_RemoveElement
<1>5. QED
    BY <1>2, <1>3, <1>4

\* The counting facts of the three groups, in this state and in the next one
LEMMA RwGroups ==
    /\ RdHolders \in SUBSET RwThreads /\ WrHolders \in SUBSET RwThreads /\ WrWaiters \in SUBSET RwThreads
    /\ RdHolders' \in SUBSET RwThreads /\ WrHolders' \in SUBSET RwThreads /\ WrWaiters' \in SUBSET RwThreads
BY DEF RdHolders, WrHolders, WrWaiters, RwAt

\* A thread that holds the lock for reading
LEMMA ReadsKeeps ==
    ASSUME RwInv, NEW t \in RwThreads, rwPc[t] \in {"out", "readAgain"}, t \notin failed,
           CanRead, Reads(t), rwLeft' \in [RwThreads -> Nat]
    PROVE  RwInv'
<1>1. RdHolders' = RdHolders \cup {t} /\ WrHolders' = WrHolders /\ WrWaiters' = WrWaiters /\ t \notin RdHolders
    BY DEF RwInv, RwTypeOK, Reads, RwGoTo, RdHolders, WrHolders, WrWaiters, RwAt, RwPlaces
<1>2. RwCountsAgree'
    BY <1>1, RwCounting, RwGroups DEF RwInv, RwCountsAgree, Reads, RdHolders, WrHolders, WrWaiters
<1>3. RwTypeOK'
    <2>1. rwPc' \in [RwThreads -> RwPlaces]
        BY DEF RwInv, RwTypeOK, Reads, RwGoTo, RwPlaces
    <2>2. QED
        BY <2>1 DEF RwInv, RwTypeOK, Reads
<1>4. OneKind'
    BY DEF RwInv, RwTypeOK, OneKind, CanRead, Reads
<1>5. FailedAreAwake'
    BY DEF RwInv, RwTypeOK, FailedAreAwake, Reads, RwGoTo, RwAt
<1>6. Served'
    <2>1. RwAt({"onReadCond"})' = RwAt({"onReadCond"})
        BY DEF RwInv, RwTypeOK, Reads, RwGoTo, RwAt
    <2>2. ~CanWrite'
        BY DEF RwInv, RwTypeOK, Reads, CanWrite
    <2>3. RwAt({"onReadCond"}) = {}
        BY DEF RwInv, Served
    <2>4. QED
        BY <2>1, <2>2, <2>3 DEF Served
<1>7. QED
    BY <1>2, <1>3, <1>4, <1>5, <1>6 DEF RwInv

\* A call takes one of the thread's calls
LEMMA CallKeepsType ==
    ASSUME RwInv, NEW t \in RwThreads, RwCall(t)
    PROVE  rwPc[t] = "out" /\ t \notin failed /\ rwLeft' \in [RwThreads -> Nat]
BY DEF RwInv, RwTypeOK, FailedAreAwake, RwCall, RwAt

\* A step that moves t between places where no writer is counted, and no counter
LEMMA ReaderMoves ==
    ASSUME RwInv, NEW t \in RwThreads, NEW place \in {"out", "onReadCond"},
           rwPc[t] \in {"out", "readAgain"}, place = "onReadCond" => ~CanRead,
           RwGoTo(t, place), failed' = failed \ {t}, rwLeft' \in [RwThreads -> Nat],
           UNCHANGED <<readActive, writeActive, writeWaiting>>
    PROVE  RwInv'
<1>1. RdHolders' = RdHolders /\ WrHolders' = WrHolders /\ WrWaiters' = WrWaiters
    BY DEF RwInv, RwTypeOK, RwGoTo, RdHolders, WrHolders, WrWaiters, RwAt, RwPlaces
<1>2. RwCountsAgree'
    BY <1>1 DEF RwInv, RwCountsAgree, RdHolders, WrHolders, WrWaiters
<1>3. RwTypeOK'
    <2>1. rwPc' \in [RwThreads -> RwPlaces]
        BY DEF RwInv, RwTypeOK, RwGoTo, RwPlaces
    <2>2. QED
        BY <2>1 DEF RwInv, RwTypeOK
<1>4. OneKind' /\ CanRead' = CanRead /\ CanWrite' = CanWrite
    BY DEF RwInv, OneKind, CanRead, CanWrite
<1>5. FailedAreAwake'
    BY DEF RwInv, RwTypeOK, FailedAreAwake, RwGoTo, RwAt
<1>6. Served'
    <2>1. RwAt({"onReadCond"})' # {} => ~CanRead
        BY DEF RwInv, RwTypeOK, Served, RwGoTo, RwAt
    <2>2. RwAt({"onWriteCond"})' = RwAt({"onWriteCond"})
        BY DEF RwInv, RwTypeOK, RwGoTo, RwAt
    <2>3. RwAt({"writeAgain"})' \ failed' = RwAt({"writeAgain"}) \ failed
        BY DEF RwInv, RwTypeOK, RwGoTo, RwAt
    <2>4. QED
        BY <1>4, <2>1, <2>2, <2>3 DEF RwInv, Served
<1>7. QED
    BY <1>2, <1>3, <1>4, <1>5, <1>6 DEF RwInv

\* A writer that was not counted takes the lock
LEMMA WrLockKeeps == ASSUME RwInv, NEW t \in RwThreads, WrLock(t) PROVE RwInv'
<1>1. RdHolders' = RdHolders /\ WrHolders' = WrHolders \cup {t} /\ WrWaiters' = WrWaiters /\ t \notin WrHolders
    BY CallKeepsType DEF RwInv, RwTypeOK, WrLock, RwGoTo, RdHolders, WrHolders, WrWaiters, RwAt, RwPlaces
<1>2. RwCountsAgree'
    BY <1>1, RwCounting, RwGroups DEF RwInv, RwCountsAgree, WrLock, RdHolders, WrHolders, WrWaiters
<1>3. RwTypeOK'
    <2>1. rwPc' \in [RwThreads -> RwPlaces]
        BY DEF RwInv, RwTypeOK, WrLock, RwGoTo, RwPlaces
    <2>2. QED
        BY <2>1, CallKeepsType DEF RwInv, RwTypeOK, WrLock
<1>4. OneKind'
    BY DEF RwInv, RwTypeOK, OneKind, CanWrite, WrLock
<1>5. FailedAreAwake'
    BY CallKeepsType DEF RwInv, RwTypeOK, FailedAreAwake, WrLock, RwGoTo, RwAt
<1>6. Served'
    BY DEF RwInv, RwTypeOK, Served, WrLock, CanRead, CanWrite
<1>7. QED
    BY <1>2, <1>3, <1>4, <1>5, <1>6 DEF RwInv

\* A writer is counted before it sleeps
LEMMA WrWaitKeeps == ASSUME RwInv, NEW t \in RwThreads, WrWait(t) PROVE RwInv'
<1>1. RdHolders' = RdHolders /\ WrHolders' = WrHolders /\ WrWaiters' = WrWaiters \cup {t} /\ t \notin WrWaiters
    BY CallKeepsType DEF RwInv, RwTypeOK, WrWait, RwGoTo, RdHolders, WrHolders, WrWaiters, RwAt, RwPlaces
<1>2. RwCountsAgree'
    BY <1>1, RwCounting, RwGroups DEF RwInv, RwCountsAgree, WrWait, RdHolders, WrHolders, WrWaiters
<1>3. RwTypeOK'
    <2>1. rwPc' \in [RwThreads -> RwPlaces]
        BY DEF RwInv, RwTypeOK, WrWait, RwGoTo, RwPlaces
    <2>2. QED
        BY <2>1, CallKeepsType DEF RwInv, RwTypeOK, WrWait
<1>4. OneKind' /\ ~CanRead' /\ ~CanWrite'
    BY DEF RwInv, RwTypeOK, OneKind, CanRead, CanWrite, WrWait
<1>5. FailedAreAwake'
    BY CallKeepsType DEF RwInv, RwTypeOK, FailedAreAwake, WrWait, RwGoTo, RwAt
<1>6. QED
    BY <1>2, <1>3, <1>4, <1>5 DEF RwInv, Served

\* A woken writer takes the lock, or sleeps again if it is taken
LEMMA WrAgainKeeps == ASSUME RwInv, NEW t \in RwThreads, WrAgain(t) PROVE RwInv'
<1>1. CASE /\ CanWrite
           /\ writeWaiting' = writeWaiting - 1
           /\ writeActive' = writeActive + 1
           /\ RwGoTo(t, "writing")
    <2>1. RdHolders' = RdHolders /\ WrHolders' = WrHolders \cup {t} /\ t \notin WrHolders /\ WrWaiters' = WrWaiters \ {t} /\ t \in WrWaiters
        BY <1>1 DEF RwInv, RwTypeOK, WrAgain, RwGoTo, RdHolders, WrHolders, WrWaiters, RwAt, RwPlaces
    <2>2. RwCountsAgree'
        BY <1>1, <2>1, RwCounting, RwGroups DEF RwInv, RwCountsAgree, WrAgain, RdHolders, WrHolders, WrWaiters
    <2>3. RwTypeOK'
        <3>1. rwPc' \in [RwThreads -> RwPlaces]
            BY <1>1 DEF RwInv, RwTypeOK, RwGoTo, RwPlaces
        <3>2. writeWaiting' \in Nat
            BY <2>2, RwCounting, RwGroups DEF RwCountsAgree, WrWaiters
        <3>3. QED
            BY <1>1, <3>1, <3>2 DEF RwInv, RwTypeOK, WrAgain
    <2>4. OneKind' /\ ~CanRead' /\ ~CanWrite'
        BY <1>1 DEF RwInv, RwTypeOK, OneKind, CanRead, CanWrite, WrAgain
    <2>5. FailedAreAwake'
        BY <1>1 DEF RwInv, RwTypeOK, FailedAreAwake, WrAgain, RwGoTo, RwAt
    <2>6. QED
        BY <2>2, <2>3, <2>4, <2>5 DEF RwInv, Served
<1>2. CASE ~CanWrite /\ RwGoTo(t, "onWriteCond") /\ UNCHANGED <<writeActive, writeWaiting>>
    <2>1. RdHolders' = RdHolders /\ WrHolders' = WrHolders /\ WrWaiters' = WrWaiters
        BY <1>2 DEF RwInv, RwTypeOK, WrAgain, RwGoTo, RdHolders, WrHolders, WrWaiters, RwAt, RwPlaces
    <2>2. RwCountsAgree'
        BY <1>2, <2>1 DEF RwInv, RwCountsAgree, WrAgain, RdHolders, WrHolders, WrWaiters
    <2>3. RwTypeOK'
        <3>1. rwPc' \in [RwThreads -> RwPlaces]
            BY <1>2 DEF RwInv, RwTypeOK, RwGoTo, RwPlaces
        <3>2. QED
            BY <1>2, <3>1 DEF RwInv, RwTypeOK, WrAgain
    <2>4. OneKind' /\ CanRead' = CanRead /\ ~CanWrite'
        BY <1>2 DEF RwInv, OneKind, CanRead, CanWrite, WrAgain
    <2>5. FailedAreAwake'
        BY <1>2 DEF RwInv, RwTypeOK, FailedAreAwake, WrAgain, RwGoTo, RwAt
    <2>6. RwAt({"onReadCond"})' = RwAt({"onReadCond"})
        BY <1>2 DEF RwInv, RwTypeOK, WrAgain, RwGoTo, RwAt
    <2>7. QED
        BY <2>2, <2>3, <2>4, <2>5, <2>6 DEF RwInv, Served
<1>3. QED
    BY <1>1, <1>2 DEF WrAgain

\* A writer gives up: it is off the count, and if it was the last that kept
\* readers waiting, they are awake
LEMMA WrFailsKeeps == ASSUME RwInv, NEW t \in RwThreads, WrFails(t) PROVE RwInv'
<1> DEFINE woken == IF writeWaiting' = 0 /\ writeActive = 0 THEN RwAt({"onReadCond"}) ELSE {}
<1>1. RwMoved(t, "out", woken, "readAgain") /\ rwPc[t] = "writeAgain"
    BY DEF WrFails
<1>2. woken \subseteq RwAt({"onReadCond"})
    OBVIOUS
<1> HIDE DEF woken
<1>3. RdHolders' = RdHolders /\ WrHolders' = WrHolders /\ WrWaiters' = WrWaiters \ {t} /\ t \in WrWaiters
    BY <1>1, <1>2 DEF RwInv, RwTypeOK, RwMoved, RdHolders, WrHolders, WrWaiters, RwAt, RwPlaces
<1>4. RwCountsAgree'
    BY <1>3, RwCounting, RwGroups DEF RwInv, RwCountsAgree, WrFails, RdHolders, WrHolders, WrWaiters
<1>5. RwTypeOK'
    <2>1. rwPc' \in [RwThreads -> RwPlaces]
        BY <1>1 DEF RwInv, RwTypeOK, RwMoved, RwPlaces
    <2>2. writeWaiting' \in Nat
        BY <1>4, RwCounting, RwGroups DEF RwCountsAgree, WrWaiters
    <2>3. QED
        BY <2>1, <2>2 DEF RwInv, RwTypeOK, WrFails
<1>6. OneKind' /\ CanWrite' = CanWrite
    BY DEF RwInv, OneKind, CanWrite, WrFails
<1>7. FailedAreAwake'
    BY <1>1, <1>2 DEF RwInv, RwTypeOK, FailedAreAwake, WrFails, RwMoved, RwAt
<1>8. RwAt({"onReadCond"})' # {} => ~CanRead'
    <2>1. CASE writeWaiting' = 0 /\ writeActive = 0
        BY <1>1, <2>1 DEF RwInv, RwTypeOK, RwMoved, RwAt, woken
    <2>2. CASE ~(writeWaiting' = 0 /\ writeActive = 0)
        BY <2>2 DEF CanRead, WrFails
    <2>3. QED
        BY <2>1, <2>2
<1>9. RwAt({"onWriteCond"})' = RwAt({"onWriteCond"})
    BY <1>1, <1>2 DEF RwInv, RwTypeOK, RwMoved, RwAt
<1>10. RwAt({"writeAgain"})' \ failed' = RwAt({"writeAgain"}) \ failed
    BY <1>1, <1>2 DEF RwInv, RwTypeOK, WrFails, RwMoved, RwAt
<1>11. QED
    BY <1>4, <1>5, <1>6, <1>7, <1>8, <1>9, <1>10 DEF RwInv, Served

\* A wait fails: the thread is awake, and still counted if it is a writer
LEMMA WaitFailsKeeps == ASSUME RwInv, NEW t \in RwThreads, WaitFails(t) PROVE RwInv'
<1>1. RdHolders' = RdHolders /\ WrHolders' = WrHolders /\ WrWaiters' = WrWaiters
    BY DEF RwInv, RwTypeOK, WaitFails, RwGoTo, RdHolders, WrHolders, WrWaiters, RwAt, RwPlaces
<1>2. RwCountsAgree'
    BY <1>1 DEF RwInv, RwCountsAgree, WaitFails, RdHolders, WrHolders, WrWaiters
<1>3. RwTypeOK'
    <2>1. rwPc' \in [RwThreads -> RwPlaces]
        BY DEF RwInv, RwTypeOK, WaitFails, RwGoTo, RwPlaces
    <2>2. QED
        BY <2>1 DEF RwInv, RwTypeOK, WaitFails
<1>4. OneKind' /\ CanRead' = CanRead /\ CanWrite' = CanWrite
    BY DEF RwInv, OneKind, CanRead, CanWrite, WaitFails
<1>5. FailedAreAwake'
    BY DEF RwInv, RwTypeOK, FailedAreAwake, WaitFails, RwGoTo, RwAt
<1>6. RwAt({"onReadCond"})' \subseteq RwAt({"onReadCond"})
    BY DEF RwInv, RwTypeOK, WaitFails, RwGoTo, RwAt
<1>7. RwAt({"onWriteCond"})' \subseteq RwAt({"onWriteCond"})
    BY DEF RwInv, RwTypeOK, WaitFails, RwGoTo, RwAt
<1>8. RwAt({"writeAgain"}) \ failed \subseteq RwAt({"writeAgain"})' \ failed'
    BY DEF RwInv, RwTypeOK, WaitFails, RwGoTo, RwAt
<1>9. QED
    BY <1>2, <1>3, <1>4, <1>5, <1>6, <1>7, <1>8 DEF RwInv, Served

\* A signal of the writers' condition wakes one of them, and one that is not
\* about to give up
LEMMA OneWoken ==
    ASSUME RwInv, NEW t \in RwThreads, rwPc[t] \in {"reading", "writing"},
           NEW woken \in OneOf(RwAt({"onWriteCond"})),
           RwMoved(t, "out", woken, "writeAgain"), failed' = failed
    PROVE  /\ rwPc' \in [RwThreads -> RwPlaces]
           /\ WrWaiters' = WrWaiters
           /\ RdHolders' = RdHolders \ {t} /\ WrHolders' = WrHolders \ {t}
           /\ RwAt({"onReadCond"})' = RwAt({"onReadCond"})
           /\ FailedAreAwake'
           /\ RwAt({"onWriteCond"})' # {} => RwAt({"writeAgain"})' \ failed' # {}
<1>1. woken \subseteq RwAt({"onWriteCond"}) /\ (RwAt({"onWriteCond"}) # {} => woken # {})
    BY DEF OneOf
<1>2. rwPc' \in [RwThreads -> RwPlaces]
    BY <1>1 DEF RwInv, RwTypeOK, RwMoved, RwPlaces
<1>3. WrWaiters' = WrWaiters /\ RdHolders' = RdHolders \ {t} /\ WrHolders' = WrHolders \ {t}
    BY <1>1 DEF RwInv, RwTypeOK, RwMoved, WrWaiters, RdHolders, WrHolders, RwAt, RwPlaces
<1>4. RwAt({"onReadCond"})' = RwAt({"onReadCond"})
    BY <1>1 DEF RwInv, RwTypeOK, RwMoved, RwAt
<1>5. FailedAreAwake'
    BY <1>1 DEF RwInv, RwTypeOK, FailedAreAwake, RwMoved, RwAt
<1>6. woken \subseteq RwAt({"writeAgain"})' \ failed'
    BY <1>1 DEF RwInv, RwTypeOK, FailedAreAwake, RwMoved, RwAt
<1>7. RwAt({"onWriteCond"})' \subseteq RwAt({"onWriteCond"})
    BY <1>1 DEF RwInv, RwTypeOK, RwMoved, RwAt
<1>8. QED
    BY <1>1, <1>2, <1>3, <1>4, <1>5, <1>6, <1>7

\* The writer leaves: a waiting writer is awake, or all readers are
LEMMA UnlockWriteKeeps == ASSUME RwInv, NEW t \in RwThreads, UnlockWrite(t) PROVE RwInv'
<1>1. t \in WrHolders /\ writeActive = 1 /\ readActive = 0 /\ t \notin RdHolders
    BY SMTT(30), RwCounting, RwGroups DEF RwInv, RwTypeOK, RwCountsAgree, OneKind, UnlockWrite, RdHolders, WrHolders, RwAt
<1>2. CASE writeWaiting > 0
    <2>1. PICK woken \in OneOf(RwAt({"onWriteCond"})) : RwMoved(t, "out", woken, "writeAgain")
        BY <1>2 DEF UnlockWrite
    <2>2. /\ rwPc' \in [RwThreads -> RwPlaces]
          /\ WrWaiters' = WrWaiters /\ RdHolders' = RdHolders /\ WrHolders' = WrHolders \ {t}
          /\ FailedAreAwake'
          /\ RwAt({"onWriteCond"})' # {} => RwAt({"writeAgain"})' \ failed' # {}
        BY <1>1, <2>1, OneWoken DEF UnlockWrite
    <2>3. RwCountsAgree'
        <3>1. Cardinality(WrHolders \ {t}) = Cardinality(WrHolders) - 1
            BY <1>1, RwCounting, RwGroups
        <3>2. QED
            BY <2>2, <3>1 DEF RwInv, RwCountsAgree, UnlockWrite, RdHolders, WrHolders, WrWaiters
    <2>4. RwTypeOK' /\ OneKind' /\ ~CanRead'
        BY <1>1, <1>2, <2>2 DEF RwInv, RwTypeOK, OneKind, CanRead, UnlockWrite
    <2>5. QED
        BY <2>2, <2>3, <2>4 DEF RwInv, Served
<1>3. CASE ~(writeWaiting > 0)
    <2>1. RwMoved(t, "out", RwAt({"onReadCond"}), "readAgain")
        BY <1>3 DEF UnlockWrite
    <2>2. RdHolders' = RdHolders /\ WrHolders' = WrHolders \ {t} /\ WrWaiters' = WrWaiters
        BY <1>1, <2>1 DEF RwInv, RwTypeOK, RwMoved, RdHolders, WrHolders, WrWaiters, RwAt, RwPlaces
    <2>3. RwCountsAgree'
        <3>1. Cardinality(WrHolders \ {t}) = Cardinality(WrHolders) - 1
            BY <1>1, RwCounting, RwGroups
        <3>2. QED
            BY <2>2, <3>1 DEF RwInv, RwCountsAgree, UnlockWrite, RdHolders, WrHolders, WrWaiters
    <2>4. RwTypeOK' /\ OneKind'
        <3>1. rwPc' \in [RwThreads -> RwPlaces]
            BY <2>1 DEF RwInv, RwTypeOK, RwMoved, RwPlaces
        <3>2. QED
            BY <1>1, <3>1 DEF RwInv, RwTypeOK, OneKind, UnlockWrite
    <2>5. FailedAreAwake'
        BY <1>1, <2>1 DEF RwInv, RwTypeOK, FailedAreAwake, UnlockWrite, RwMoved, RwAt, WrHolders
    <2>6. WrWaiters = {}
        BY <1>3, RwCounting, RwGroups DEF RwInv, RwTypeOK, RwCountsAgree, WrWaiters
    <2>7. RwAt({"onReadCond"})' = {} /\ RwAt({"onWriteCond"})' = {}
        BY <1>1, <2>1, <2>6 DEF RwInv, RwTypeOK, RwMoved, RwAt, WrWaiters
    <2>8. QED
        BY <2>3, <2>4, <2>5, <2>7 DEF RwInv, Served
<1>4. QED
    BY <1>2, <1>3

\* A reader leaves: the last one wakes a writer
LEMMA UnlockReadKeeps == ASSUME RwInv, NEW t \in RwThreads, UnlockRead(t) PROVE RwInv'
<1>1. t \in RdHolders /\ t \notin WrHolders /\ readActive \in Nat \ {0} /\ writeActive = 0
    <2>1. t \in RdHolders /\ t \notin WrHolders
        BY DEF UnlockRead, RdHolders, WrHolders, RwAt
    <2>2. readActive = Cardinality(RdHolders) /\ readActive \in Nat /\ writeActive \in Nat
        BY DEF RwInv, RwTypeOK, RwCountsAgree, RdHolders
    <2>3. readActive # 0
        BY <2>1, <2>2, RwCounting, RwGroups
    <2>4. QED
        BY <2>1, <2>2, <2>3 DEF RwInv, OneKind
<1>2. CASE readActive = 1 /\ writeWaiting > 0
    <2>1. PICK woken \in OneOf(RwAt({"onWriteCond"})) : RwMoved(t, "out", woken, "writeAgain")
        BY <1>2 DEF UnlockRead
    <2>2. /\ rwPc' \in [RwThreads -> RwPlaces]
          /\ WrWaiters' = WrWaiters /\ RdHolders' = RdHolders \ {t} /\ WrHolders' = WrHolders
          /\ FailedAreAwake'
          /\ RwAt({"onWriteCond"})' # {} => RwAt({"writeAgain"})' \ failed' # {}
        BY <1>1, <2>1, OneWoken DEF UnlockRead
    <2>3. RwCountsAgree'
        <3>1. Cardinality(RdHolders \ {t}) = Cardinality(RdHolders) - 1
            BY <1>1, RwCounting, RwGroups
        <3>2. QED
            BY <2>2, <3>1 DEF RwInv, RwCountsAgree, UnlockRead, RdHolders, WrHolders, WrWaiters
    <2>4. RwTypeOK' /\ OneKind' /\ ~CanRead'
        BY <1>1, <1>2, <2>2 DEF RwInv, RwTypeOK, OneKind, CanRead, UnlockRead
    <2>5. QED
        BY <2>2, <2>3, <2>4 DEF RwInv, Served
<1>3. CASE ~(readActive = 1 /\ writeWaiting > 0)
    <2>1. RwGoTo(t, "out")
        BY <1>3 DEF UnlockRead
    <2>2. RdHolders' = RdHolders \ {t} /\ WrHolders' = WrHolders /\ WrWaiters' = WrWaiters
        BY <1>1, <2>1 DEF RwInv, RwTypeOK, RwGoTo, RdHolders, WrHolders, WrWaiters, RwAt, RwPlaces
    <2>3. RwCountsAgree'
        <3>1. Cardinality(RdHolders \ {t}) = Cardinality(RdHolders) - 1
            BY <1>1, RwCounting, RwGroups
        <3>2. QED
            BY <2>2, <3>1 DEF RwInv, RwCountsAgree, UnlockRead, RdHolders, WrHolders, WrWaiters
    <2>4. RwTypeOK' /\ OneKind'
        <3>1. rwPc' \in [RwThreads -> RwPlaces]
            BY <2>1 DEF RwInv, RwTypeOK, RwGoTo, RwPlaces
        <3>2. QED
            BY <1>1, <3>1 DEF RwInv, RwTypeOK, OneKind, UnlockRead
    <2>5. FailedAreAwake'
        BY <1>1, <2>1 DEF RwInv, RwTypeOK, FailedAreAwake, UnlockRead, RwGoTo, RwAt, RdHolders
    <2>6. RwAt({"onReadCond"})' = RwAt({"onReadCond"}) /\ CanRead' = CanRead
        BY <1>1, <2>1 DEF RwInv, RwTypeOK, UnlockRead, CanRead, RwGoTo, RwAt, RdHolders
    <2>7. RwAt({"onWriteCond"})' # {} => ~CanWrite'
        <3>1. RwAt({"onWriteCond"})' = RwAt({"onWriteCond"})
            BY <1>1, <2>1 DEF RwInv, RwTypeOK, RwGoTo, RwAt, RdHolders
        <3>2. RwAt({"onWriteCond"}) # {} => writeWaiting # 0
            BY RwCounting, RwGroups DEF RwInv, RwCountsAgree, WrWaiters, RwAt
        <3>3. writeWaiting # 0 => readActive' # 0
            BY <1>1, <1>3 DEF RwInv, RwTypeOK, UnlockRead
        <3>4. QED
            BY <3>1, <3>2, <3>3 DEF CanWrite
    <2>8. QED
        BY <2>3, <2>4, <2>5, <2>6, <2>7 DEF RwInv, Served
<1>4. QED
    BY <1>2, <1>3

LEMMA ReadingKeeps == ASSUME RwInv, NEW t \in RwThreads, Reading(t) PROVE RwInv'
<1>1. CASE RdLock(t)
    BY <1>1, CallKeepsType, ReadsKeeps DEF RdLock
<1>2. CASE TryRdBusy(t)
    <2>1. RwGoTo(t, "out") /\ failed' = failed \ {t}
        BY <1>2, CallKeepsType DEF TryRdBusy, RwInv, RwTypeOK, RwGoTo
    <2>2. QED
        BY <1>2, <2>1, CallKeepsType, ReaderMoves DEF TryRdBusy
<1>3. CASE RdWait(t)
    <2>1. failed' = failed \ {t}
        BY <1>3, CallKeepsType DEF RdWait
    <2>2. QED
        BY <1>3, <2>1, CallKeepsType, ReaderMoves DEF RdWait
<1>4. CASE RdAgain(t)
    <2>1. rwPc[t] = "readAgain" /\ rwLeft' \in [RwThreads -> Nat]
        BY <1>4 DEF RdAgain, RwInv, RwTypeOK
    <2>2. CASE t \in failed
        BY <1>4, <2>1, <2>2, ReaderMoves DEF RdAgain
    <2>3. CASE t \notin failed /\ CanRead
        BY <1>4, <2>1, <2>3, ReadsKeeps DEF RdAgain
    <2>4. CASE t \notin failed /\ ~CanRead
        <3>1. failed' = failed \ {t}
            BY <1>4, <2>4 DEF RdAgain
        <3>2. QED
            BY <1>4, <2>1, <2>4, <3>1, ReaderMoves DEF RdAgain
    <2>5. QED
        BY <2>2, <2>3, <2>4
<1>5. QED
    BY <1>1, <1>2, <1>3, <1>4 DEF Reading

LEMMA WritingKeeps == ASSUME RwInv, NEW t \in RwThreads, Writing(t) PROVE RwInv'
<1>1. CASE TryWrBusy(t)
    <2>1. RwGoTo(t, "out") /\ failed' = failed \ {t}
        BY <1>1, CallKeepsType DEF TryWrBusy, RwInv, RwTypeOK, RwGoTo
    <2>2. QED
        BY <1>1, <2>1, CallKeepsType, ReaderMoves DEF TryWrBusy
<1>2. QED
    BY <1>1, WrLockKeeps, WrWaitKeeps, WrAgainKeeps, WrFailsKeeps DEF Writing

\* The invariant holds at first and is kept by every step
LEMMA RwInvInit == RwInit => RwInv
<1> SUFFICES ASSUME RwInit PROVE RwInv
    OBVIOUS
<1>1. RwAt({"reading"}) = {} /\ RwAt({"writing"}) = {} /\ RwAt({"onWriteCond", "writeAgain"}) = {}
    BY DEF RwInit, RwAt
<1>2. RwAt({"onReadCond"}) = {} /\ RwAt({"onWriteCond"}) = {}
    BY DEF RwInit, RwAt
<1>3. RwTypeOK
    BY RwlockAssumption DEF RwInit, RwTypeOK, RwPlaces
<1>4. RwCountsAgree
    BY <1>1, FS_EmptySet DEF RwInit, RwCountsAgree
<1>5. QED
    BY <1>2, <1>3, <1>4 DEF RwInit, RwInv, OneKind, FailedAreAwake, Served

LEMMA RwInvNext == RwInv /\ [RwNext]_rwVars => RwInv'
<1> SUFFICES ASSUME RwInv, [RwNext]_rwVars PROVE RwInv'
    OBVIOUS
<1>1. CASE UNCHANGED rwVars
    BY <1>1 DEF rwVars, RwInv, RwTypeOK, RwCountsAgree, OneKind, FailedAreAwake, Served,
                CanRead, CanWrite, RwAt
<1>2. ASSUME NEW t \in RwThreads, Unlocking(t)
      PROVE  RwInv'
    BY <1>2, UnlockReadKeeps, UnlockWriteKeeps DEF Unlocking
<1>3. ASSUME NEW t \in RwThreads, RwStep(t)
      PROVE  RwInv'
    BY <1>2, <1>3, ReadingKeeps, WritingKeeps DEF RwStep
<1>4. ASSUME NEW t \in RwThreads, RwChance(t)
      PROVE  RwInv'
    BY <1>4, WaitFailsKeeps DEF RwChance
<1>5. QED
    BY <1>1, <1>3, <1>4 DEF RwNext

\* Every reachable state satisfies the inductive invariant.
THEOREM RwlockInvariant == RwSpec => []RwInv
    BY RwInvInit, RwInvNext, PTL DEF RwSpec

-----------------------------------------------------------------------------
\* Every state is well typed: no counter of the lock goes below zero.
THEOREM RwlockTypeCorrect == RwSpec => []RwTypeOK
<1>1. RwInv => RwTypeOK
    BY DEF RwInv
<1>2. QED
    BY <1>1, RwlockInvariant, PTL

\* The counters are the numbers of threads they stand for.
THEOREM RwlockCountsExact == RwSpec => []RwCountsAgree
<1>1. RwInv => RwCountsAgree
    BY DEF RwInv
<1>2. QED
    BY <1>1, RwlockInvariant, PTL

\* A writer excludes everybody else.
THEOREM WritersAlone == RwSpec => []Exclusion
<1>1. RwInv => Exclusion
    <2> SUFFICES ASSUME RwInv, NEW w \in WrHolders PROVE RwAt({"reading", "writing"}) = {w}
        BY DEF Exclusion, WrHolders
    <2>1. Cardinality(WrHolders) \in Nat /\ (Cardinality(WrHolders) = 0 <=> WrHolders = {})
        BY RwCounting, RwGroups
    <2>2. writeActive = 1 /\ readActive = 0
        BY <2>1 DEF RwInv, RwTypeOK, RwCountsAgree, OneKind, WrHolders
    <2>3. RdHolders = {}
        BY <2>2, RwCounting, RwGroups DEF RwInv, RwCountsAgree, RdHolders
    <2>4. Cardinality(WrHolders \ {w}) = 0
        <3>1. Cardinality(WrHolders) = 1
            BY <2>2 DEF RwInv, RwCountsAgree, WrHolders
        <3>2. Cardinality(WrHolders \ {w}) = Cardinality(WrHolders) - 1
            BY RwCounting, RwGroups
        <3>3. QED
            BY <3>1, <3>2
    <2>5. WrHolders \ {w} = {}
        BY <2>4, RwGroups, RwCounting, WrHolders \ {w} \in SUBSET RwThreads
    <2>6. RwAt({"reading", "writing"}) = RdHolders \cup WrHolders
        BY DEF RdHolders, WrHolders, RwAt
    <2>7. QED
        BY <2>3, <2>5, <2>6
<1>2. QED
    BY <1>1, RwlockInvariant, PTL

\* No reader sleeps while the lock is free for reading, and no writer while it
\* is free for writing and nobody is about to take it.
THEOREM NobodySleepsOn == RwSpec => []NobodyForgotten
<1>1. RwInv => NobodyForgotten
    BY DEF RwInv, Served, NobodyForgotten
<1>2. QED
    BY <1>1, RwlockInvariant, PTL

-----------------------------------------------------------------------------
(* Unnamed semaphores: each waiter is counted or has a token coming, and   *)
(* the count with the tokens is a counting semaphore.                      *)

PipeWriting == PipeAt({"write"})

\* How many waiters are still counted
Below == IF value < 0 THEN -value ELSE 0

PipeInv == PipeTypeOK /\ TokensMatch /\ PipeWaiting \subseteq PipeTakers

-----------------------------------------------------------------------------
LEMMA PipeCounting ==
    ASSUME NEW S \in SUBSET (PipeTakers \cup PipePosters)
    PROVE  /\ Cardinality(S) \in Nat
           /\ \A t \in (PipeTakers \cup PipePosters) \ S : Cardinality(S \cup {t}) = Cardinality(S) + 1
           /\ \A t \in S : Cardinality(S \ {t}) = Cardinality(S) - 1
<1>1. IsFiniteSet(PipeTakers \cup PipePosters)
    BY PipeAssumption, FS_Union
<1>2. IsFiniteSet(S)
    BY <1>1, FS_Subset
<1>3. Cardinality(S) \in Nat
    BY <1>2, FS_CardinalityType
<1>4. ASSUME NEW t \in (PipeTakers \cup PipePosters) \ S
      PROVE  Cardinality(S \cup {t}) = Cardinality(S) + 1
    BY <1>2, <1>4, FS_AddElement
<1>5. ASSUME NEW t \in S
      PROVE  Cardinality(S \ {t}) = Cardinality(S) - 1
    BY <1>2, <1>5, FS_RemoveElement
<1>6. QED
    BY <1>3, <1>4, <1>5

LEMMA PipeGroups ==
    /\ PipeWaiting \in SUBSET (PipeTakers \cup PipePosters) /\ PipeWriting \in SUBSET (PipeTakers \cup PipePosters)
    /\ Cardinality(PipeWaiting) \in Nat /\ Cardinality(PipeWriting) \in Nat
<1>1. PipeWaiting \in SUBSET (PipeTakers \cup PipePosters) /\ PipeWriting \in SUBSET (PipeTakers \cup PipePosters)
    BY DEF PipeWaiting, PipeWriting, PipeAt
<1>2. QED
    BY <1>1, PipeCounting

LEMMA PipeInvFacts ==
    ASSUME PipeInv
    PROVE  /\ value \in Int /\ tokens \in Nat /\ value <= SemValueMax /\ SemValueMax \in Nat
           /\ Cardinality(PipeWaiting) = tokens + Cardinality(PipeWriting) + Below
<1>1. Cardinality(PipeTakers) \in Nat
    BY PipeAssumption, FS_CardinalityType
<1>2. QED
    BY <1>1, PipeAssumption DEF PipeInv, PipeTypeOK, TokensMatch, PipeWriting, Below

\* The invariant needs to be shown of the groups and the numbers only
LEMMA PipeInvFromGroups ==
    ASSUME PipeInv,
           pipePc' \in [PipeTakers \cup PipePosters -> PipeWaits \cup {"out", "write"}],
           pipeLeft' \in [PipeTakers \cup PipePosters -> Nat], given' \in [PipeTakers -> Nat],
           value' \in Int, value' <= SemValueMax, tokens' \in Nat,
           PipeWaiting' \subseteq PipeTakers,
           Cardinality(PipeWaiting)' = tokens' + Cardinality(PipeWriting)' + Below'
    PROVE  PipeInv'
<1>1. PipeWaiting' \subseteq PipeTakers /\ IsFiniteSet(PipeTakers)
    BY PipeAssumption
<1>2. Cardinality(PipeWaiting') <= Cardinality(PipeTakers) /\ Cardinality(PipeTakers) \in Nat
    BY <1>1, FS_Subset, FS_CardinalityType
<1>3. PipeWriting' \in SUBSET (PipeTakers \cup PipePosters)
    BY DEF PipeWriting, PipeAt
<1>4. Cardinality(PipeWriting') \in Nat
    BY <1>3, PipeCounting
<1>5. -Cardinality(PipeTakers) <= value'
    BY <1>2, <1>4 DEF Below
<1>6. PipeTypeOK'
    BY <1>2, <1>5, PipeAssumption DEF PipeTypeOK
<1>7. QED
    BY <1>6 DEF PipeInv, TokensMatch, PipeWriting, Below

-----------------------------------------------------------------------------
(* What becomes of the two groups when one thread goes to another place    *)

LEMMA PipeJoins ==
    ASSUME PipeInv, NEW t \in PipeTakers, pipePc[t] = "out", NEW place \in {"poll", "cancel"},
           PipeGoTo(t, place)
    PROVE  /\ pipePc' \in [PipeTakers \cup PipePosters -> PipeWaits \cup {"out", "write"}]
           /\ t \notin PipeWaiting /\ PipeWaiting' = PipeWaiting \cup {t}
           /\ PipeWriting' = PipeWriting /\ PipeWaiting' \subseteq PipeTakers
           /\ Cardinality(PipeWaiting)' = Cardinality(PipeWaiting) + 1
<1>1. pipePc' \in [PipeTakers \cup PipePosters -> PipeWaits \cup {"out", "write"}]
    BY DEF PipeInv, PipeTypeOK, PipeGoTo, PipeWaits
<1>2. t \notin PipeWaiting /\ PipeWaiting' = PipeWaiting \cup {t}
    BY DEF PipeInv, PipeTypeOK, PipeGoTo, PipeWaiting, PipeAt, PipeWaits
<1>3. PipeWriting' = PipeWriting
    BY DEF PipeInv, PipeTypeOK, PipeGoTo, PipeWriting, PipeAt
<1>4. Cardinality(PipeWaiting \cup {t}) = Cardinality(PipeWaiting) + 1
    BY <1>2, PipeCounting, PipeGroups
<1>5. QED
    BY <1>1, <1>2, <1>3, <1>4 DEF PipeInv

LEMMA PipeStays ==
    ASSUME PipeInv, NEW t \in PipeTakers, pipePc[t] \in PipeWaits, NEW place \in PipeWaits, PipeGoTo(t, place)
    PROVE  /\ pipePc' \in [PipeTakers \cup PipePosters -> PipeWaits \cup {"out", "write"}]
           /\ PipeWaiting' = PipeWaiting /\ PipeWriting' = PipeWriting
<1>1. pipePc' \in [PipeTakers \cup PipePosters -> PipeWaits \cup {"out", "write"}]
    BY DEF PipeInv, PipeTypeOK, PipeGoTo, PipeWaits
<1>2. PipeWaiting' = PipeWaiting
    BY DEF PipeInv, PipeTypeOK, PipeGoTo, PipeWaiting, PipeAt, PipeWaits
<1>3. PipeWriting' = PipeWriting
    BY DEF PipeInv, PipeTypeOK, PipeGoTo, PipeWriting, PipeAt, PipeWaits
<1>4. QED
    BY <1>1, <1>2, <1>3

LEMMA PipeLeaves ==
    ASSUME PipeInv, NEW t \in PipeTakers, pipePc[t] \in PipeWaits, PipeGoTo(t, "out")
    PROVE  /\ pipePc' \in [PipeTakers \cup PipePosters -> PipeWaits \cup {"out", "write"}]
           /\ t \in PipeWaiting /\ PipeWaiting' = PipeWaiting \ {t}
           /\ PipeWriting' = PipeWriting /\ PipeWaiting' \subseteq PipeTakers
           /\ Cardinality(PipeWaiting)' = Cardinality(PipeWaiting) - 1
<1>1. pipePc' \in [PipeTakers \cup PipePosters -> PipeWaits \cup {"out", "write"}]
    BY DEF PipeInv, PipeTypeOK, PipeGoTo, PipeWaits
<1>2. t \in PipeWaiting /\ PipeWaiting' = PipeWaiting \ {t}
    BY DEF PipeInv, PipeTypeOK, PipeGoTo, PipeWaiting, PipeAt, PipeWaits
<1>3. PipeWriting' = PipeWriting
    BY DEF PipeInv, PipeTypeOK, PipeGoTo, PipeWriting, PipeAt, PipeWaits
<1>4. Cardinality(PipeWaiting \ {t}) = Cardinality(PipeWaiting) - 1
    BY <1>2, PipeCounting, PipeGroups
<1>5. QED
    BY <1>1, <1>2, <1>3, <1>4 DEF PipeInv

LEMMA StartsWriting ==
    ASSUME PipeInv, NEW p \in PipePosters, pipePc[p] = "out", PipeGoTo(p, "write")
    PROVE  /\ pipePc' \in [PipeTakers \cup PipePosters -> PipeWaits \cup {"out", "write"}]
           /\ PipeWaiting' = PipeWaiting
           /\ Cardinality(PipeWriting)' = Cardinality(PipeWriting) + 1
<1>1. pipePc' \in [PipeTakers \cup PipePosters -> PipeWaits \cup {"out", "write"}]
    BY DEF PipeInv, PipeTypeOK, PipeGoTo
<1>2. PipeWaiting' = PipeWaiting
    BY DEF PipeInv, PipeTypeOK, PipeGoTo, PipeWaiting, PipeAt, PipeWaits
<1>3. p \notin PipeWriting /\ PipeWriting' = PipeWriting \cup {p}
    BY DEF PipeInv, PipeTypeOK, PipeGoTo, PipeWriting, PipeAt
<1>4. Cardinality(PipeWriting \cup {p}) = Cardinality(PipeWriting) + 1
    BY <1>3, PipeCounting, PipeGroups
<1>5. QED
    BY <1>1, <1>2, <1>3, <1>4

LEMMA EndsWriting ==
    ASSUME PipeInv, NEW p \in PipePosters, pipePc[p] = "write", PipeGoTo(p, "out")
    PROVE  /\ pipePc' \in [PipeTakers \cup PipePosters -> PipeWaits \cup {"out", "write"}]
           /\ PipeWaiting' = PipeWaiting
           /\ Cardinality(PipeWriting)' = Cardinality(PipeWriting) - 1
<1>1. pipePc' \in [PipeTakers \cup PipePosters -> PipeWaits \cup {"out", "write"}]
    BY DEF PipeInv, PipeTypeOK, PipeGoTo
<1>2. PipeWaiting' = PipeWaiting
    BY DEF PipeInv, PipeTypeOK, PipeGoTo, PipeWaiting, PipeAt, PipeWaits
<1>3. p \in PipeWriting /\ PipeWriting' = PipeWriting \ {p}
    BY DEF PipeInv, PipeTypeOK, PipeGoTo, PipeWriting, PipeAt
<1>4. Cardinality(PipeWriting \ {p}) = Cardinality(PipeWriting) - 1
    BY <1>3, PipeCounting, PipeGroups
<1>5. QED
    BY <1>1, <1>2, <1>3, <1>4

LEMMA PipeSamePlaces ==
    ASSUME PipeInv, pipePc' = pipePc
    PROVE  /\ pipePc' \in [PipeTakers \cup PipePosters -> PipeWaits \cup {"out", "write"}]
           /\ PipeWaiting' = PipeWaiting /\ PipeWriting' = PipeWriting
BY DEF PipeInv, PipeTypeOK, PipeWaiting, PipeWriting, PipeAt

LEMMA PipeHistoryTypes ==
    ASSUME PipeInv, NEW t \in PipeTakers \cup PipePosters
    PROVE  /\ PipeCall(t) => pipeLeft' \in [PipeTakers \cup PipePosters -> Nat]
           /\ Given(t) => given' \in [PipeTakers -> Nat]
           /\ pipeLeft \in [PipeTakers \cup PipePosters -> Nat] /\ given \in [PipeTakers -> Nat]
BY DEF PipeInv, PipeTypeOK, PipeCall, Given

-----------------------------------------------------------------------------
(* Each action keeps the invariant, and is a step of the counting semaphore *)

PipeAbstractStep == [PipeSemaphore!Next]_(PipeSemaphore!vars)

LEMMA TakeRight ==
    ASSUME PipeInv, NEW t \in PipeTakers, Take(t)
    PROVE  PipeInv' /\ PipeAbstractStep
<1> USE PipeInvFacts, PipeGroups, PipeHistoryTypes
<1>1. PipeCall(t) /\ pipePc[t] = "out" /\ value' = value - 1 /\ tokens' = tokens
    BY DEF Take, PipeCall
<1>2. CASE value > 0
    <2>1. Given(t) /\ pipePc' = pipePc
        BY <1>2 DEF Take
    <2>2. PipeWaiting' = PipeWaiting /\ PipeWriting' = PipeWriting /\ t \notin PipeWaiting
        BY <1>1, <2>1, PipeSamePlaces DEF PipeWaiting, PipeAt, PipeWaits
    <2>3. PipeInv'
        BY <1>1, <1>2, <2>1, <2>2, PipeSamePlaces, PipeInvFromGroups DEF PipeInv, Below
    <2>4. PipeSemaphore!TakeAtOnce(t)
        BY <1>1, <1>2, <2>1, <2>2 DEF PipeSemaphore!TakeAtOnce, PipeSemaphore!Give, Given
    <2>5. QED
        BY <2>3, <2>4 DEF PipeAbstractStep, PipeSemaphore!Next
<1>3. CASE ~(value > 0)
    <2>1. PICK place \in {"poll", "cancel"} : PipeGoTo(t, place) /\ given' = given
        BY <1>3 DEF Take
    <2>2. PipeInv'
        BY <1>1, <1>3, <2>1, PipeJoins, PipeInvFromGroups DEF Below
    <2>3. PipeSemaphore!Wait(t)
        BY <1>1, <2>1, PipeJoins DEF PipeSemaphore!Wait
    <2>4. QED
        BY <2>2, <2>3 DEF PipeAbstractStep, PipeSemaphore!Next
<1>4. QED
    BY <1>2, <1>3

LEMMA TryWaitRight ==
    ASSUME PipeInv, NEW t \in PipeTakers, TryWait(t)
    PROVE  PipeInv' /\ PipeAbstractStep
<1> USE PipeInvFacts, PipeGroups, PipeHistoryTypes
<1>1. PipeCall(t) /\ pipePc[t] = "out" /\ tokens' = tokens /\ pipePc' = pipePc
    BY DEF TryWait, PipeCall
<1>2. PipeWaiting' = PipeWaiting /\ PipeWriting' = PipeWriting /\ t \notin PipeWaiting
    BY <1>1, PipeSamePlaces DEF PipeWaiting, PipeAt, PipeWaits
<1>3. CASE value > 0
    <2>1. value' = value - 1 /\ Given(t)
        BY <1>3 DEF TryWait
    <2>2. PipeInv'
        BY <1>1, <1>2, <1>3, <2>1, PipeSamePlaces, PipeInvFromGroups DEF PipeInv, Below
    <2>3. PipeSemaphore!TakeAtOnce(t)
        BY <1>1, <1>2, <1>3, <2>1 DEF PipeSemaphore!TakeAtOnce, PipeSemaphore!Give, Given
    <2>4. QED
        BY <2>2, <2>3 DEF PipeAbstractStep, PipeSemaphore!Next
<1>4. CASE ~(value > 0)
    <2>1. value' = value /\ given' = given
        BY <1>4 DEF TryWait
    <2>2. PipeInv'
        BY <1>1, <1>2, <2>1, PipeSamePlaces, PipeInvFromGroups DEF PipeInv, Below
    <2>3. QED
        BY <1>2, <2>1, <2>2 DEF PipeAbstractStep, PipeSemaphore!vars
<1>5. QED
    BY <1>3, <1>4

\* Steps that move a waiter from one place to another change nothing
LEMMA MovesRight ==
    ASSUME PipeInv, NEW t \in PipeTakers, pipePc[t] \in PipeWaits, NEW place \in PipeWaits, PipeGoTo(t, place),
           UNCHANGED <<value, tokens, pipeLeft, given>>
    PROVE  PipeInv' /\ PipeAbstractStep
<1>1. PipeWaiting' = PipeWaiting /\ PipeWriting' = PipeWriting
    BY PipeStays
<1>2. PipeInv'
    BY <1>1, PipeStays, PipeInvFacts, PipeHistoryTypes, PipeInvFromGroups DEF PipeInv, Below
<1>3. QED
    BY <1>1, <1>2 DEF PipeAbstractStep, PipeSemaphore!vars

\* With a token there is a unit: whoever reads it is given one
LEMMA ReadTokenRight ==
    ASSUME PipeInv, NEW t \in PipeTakers, ReadToken(t)
    PROVE  PipeInv' /\ PipeAbstractStep
<1> USE PipeInvFacts, PipeGroups, PipeHistoryTypes
<1>1. /\ pipePc[t] \in PipeWaits /\ tokens > 0 /\ tokens' = tokens - 1
      /\ Given(t) /\ PipeGoTo(t, "out") /\ value' = value /\ pipeLeft' = pipeLeft
    BY DEF ReadToken, PipeWaits
<1>2. PipeInv'
    BY <1>1, PipeLeaves, PipeInvFromGroups DEF Below
<1>3. value + Cardinality(PipeWaiting) > 0
    BY <1>1 DEF Below
<1>4. PipeSemaphore!Acquire(t)
    BY <1>1, <1>3, PipeLeaves DEF PipeSemaphore!Acquire, PipeSemaphore!Give, Given
<1>5. QED
    BY <1>2, <1>4 DEF PipeAbstractStep, PipeSemaphore!Next, PipeSemaphore!AcquireSome

\* A waiter that is still counted leaves with nothing lost
LEMMA CancelRight ==
    ASSUME PipeInv, NEW t \in PipeTakers, Cancel(t)
    PROVE  PipeInv' /\ PipeAbstractStep
<1> USE PipeInvFacts, PipeGroups, PipeHistoryTypes
<1>1. pipePc[t] \in PipeWaits /\ UNCHANGED <<tokens, pipeLeft, given>>
    BY DEF Cancel, PipeWaits
<1>2. CASE value < 0
    <2>1. value' = value + 1 /\ PipeGoTo(t, "out")
        BY <1>2 DEF Cancel
    <2>2. PipeInv'
        BY <1>1, <1>2, <2>1, PipeLeaves, PipeInvFromGroups DEF Below
    <2>3. PipeSemaphore!GiveUp(t)
        BY <1>1, <2>1, PipeLeaves DEF PipeSemaphore!GiveUp
    <2>4. QED
        BY <2>2, <2>3 DEF PipeAbstractStep, PipeSemaphore!Next
<1>3. CASE ~(value < 0)
    BY <1>1, <1>3, MovesRight DEF Cancel, PipeWaits
<1>4. QED
    BY <1>2, <1>3

\* A post that finds somebody counted takes it off, and owes a token
LEMMA PostRight ==
    ASSUME PipeInv, NEW p \in PipePosters, Post(p)
    PROVE  PipeInv' /\ PipeAbstractStep
<1> USE PipeInvFacts, PipeGroups, PipeHistoryTypes
<1>1. PipeCall(p) /\ pipePc[p] = "out" /\ UNCHANGED <<tokens, given>>
    BY DEF Post, PipeCall
<1>2. CASE value < 0
    <2>1. value' = value + 1 /\ PipeGoTo(p, "write")
        BY <1>2 DEF Post
    <2>2. PipeInv'
        BY <1>1, <1>2, <2>1, StartsWriting, PipeInvFromGroups DEF PipeInv, Below
    <2>3. PipeSemaphore!Post
        BY <1>1, <2>1, StartsWriting DEF PipeSemaphore!Post
    <2>4. QED
        BY <2>2, <2>3 DEF PipeAbstractStep, PipeSemaphore!Next
<1>3. CASE ~(value < 0)
    <2>1. pipePc' = pipePc /\ value' \in {value, value + 1} /\ value' <= SemValueMax
        BY <1>3 DEF Post
    <2>2. PipeInv'
        BY <1>1, <1>3, <2>1, PipeSamePlaces, PipeInvFromGroups DEF PipeInv, Below
    <2>3. CASE value' = value
        BY <1>1, <2>1, <2>2, <2>3, PipeSamePlaces DEF PipeAbstractStep, PipeSemaphore!vars
    <2>4. CASE value' = value + 1
        <3>1. PipeSemaphore!Post
            BY <1>1, <2>1, <2>4, PipeSamePlaces DEF PipeSemaphore!Post
        <3>2. QED
            BY <2>2, <3>1 DEF PipeAbstractStep, PipeSemaphore!Next
    <2>5. QED
        BY <2>1, <2>3, <2>4
<1>4. QED
    BY <1>2, <1>3

LEMMA WriteTokenRight ==
    ASSUME PipeInv, NEW p \in PipePosters, WriteToken(p)
    PROVE  PipeInv' /\ PipeAbstractStep
<1> USE PipeInvFacts, PipeGroups, PipeHistoryTypes
<1>1. /\ pipePc[p] = "write" /\ tokens' = tokens + 1 /\ PipeGoTo(p, "out")
      /\ UNCHANGED <<value, pipeLeft, given>>
    BY DEF WriteToken
<1>2. PipeInv'
    BY <1>1, EndsWriting, PipeInvFromGroups DEF PipeInv, Below
<1>3. QED
    BY <1>1, <1>2, EndsWriting DEF PipeAbstractStep, PipeSemaphore!vars

LEMMA TakingRight ==
    ASSUME PipeInv, NEW t \in PipeTakers, PipeTaking(t) \/ PipeChance(t)
    PROVE  PipeInv' /\ PipeAbstractStep
<1>1. CASE Readable(t)
    <2>1. \E place \in PipeWaits : pipePc[t] \in PipeWaits /\ PipeGoTo(t, place)
        BY <1>1 DEF Readable, PipeWaits
    <2>2. QED
        BY <1>1, <2>1, MovesRight DEF Readable
<1>2. CASE ReadNothing(t)
    <2>1. \E place \in PipeWaits : pipePc[t] \in PipeWaits /\ PipeGoTo(t, place)
        BY <1>2 DEF ReadNothing, PipeWaits
    <2>2. QED
        BY <1>2, <2>1, MovesRight DEF ReadNothing
<1>3. CASE PollFails(t)
    BY <1>3, MovesRight DEF PollFails, PipeWaits
<1>4. QED
    BY <1>1, <1>2, <1>3, TakeRight, TryWaitRight, ReadTokenRight, CancelRight DEF PipeTaking, PipeChance

LEMMA PipeNextRight == PipeInv /\ [PipeNext]_pipeVars => PipeInv' /\ PipeAbstractStep
<1> SUFFICES ASSUME PipeInv, [PipeNext]_pipeVars PROVE PipeInv' /\ PipeAbstractStep
    OBVIOUS
<1>1. CASE UNCHANGED pipeVars
    <2>1. PipeWaiting' = PipeWaiting /\ PipeWriting' = PipeWriting
        BY <1>1, PipeSamePlaces DEF pipeVars
    <2>2. PipeInv'
        BY <1>1, <2>1 DEF pipeVars, PipeInv, PipeTypeOK, TokensMatch, PipeWriting
    <2>3. QED
        BY <1>1, <2>1, <2>2 DEF pipeVars, PipeAbstractStep, PipeSemaphore!vars
<1>2. ASSUME NEW p \in PipePosters, PipePosting(p)
      PROVE  PipeInv' /\ PipeAbstractStep
    BY <1>2, PostRight, WriteTokenRight DEF PipePosting
<1>3. QED
    BY <1>1, <1>2, TakingRight DEF PipeNext, PipeFinished

LEMMA PipeInitRight == PipeInit => PipeInv /\ PipeSemaphore!Init
<1> SUFFICES ASSUME PipeInit PROVE PipeInv /\ PipeSemaphore!Init
    OBVIOUS
<1>1. PipeWaiting = {} /\ PipeAt({"write"}) = {}
    BY DEF PipeInit, PipeWaiting, PipeAt, PipeWaits
<1>2. Cardinality(PipeWaiting) = 0 /\ Cardinality(PipeAt({"write"})) = 0
    BY <1>1, FS_EmptySet
<1>3. value \in 0..SemValueMax
    BY PipeAssumption DEF PipeInit
<1>4. Cardinality(PipeTakers) \in Nat
    BY PipeAssumption, FS_CardinalityType
<1>5. PipeTypeOK
    BY <1>3, <1>4, PipeAssumption DEF PipeInit, PipeTypeOK
<1>6. TokensMatch
    BY <1>2, <1>3, PipeAssumption DEF PipeInit, TokensMatch
<1>7. PipeSemaphore!Init
    BY <1>1, <1>2, <1>3, PipeAssumption DEF PipeInit, PipeSemaphore!Init
<1>8. QED
    BY <1>1, <1>5, <1>6, <1>7 DEF PipeInv

-----------------------------------------------------------------------------
\* Every state is well typed: the count stays between minus the number of
\* takers and SEM_VALUE_MAX.
THEOREM PipeTypeCorrect == PipeSpec => []PipeTypeOK
<1>1. PipeInv => PipeTypeOK
    BY DEF PipeInv
<1>2. QED
    BY <1>1, PipeInitRight, PipeNextRight, PTL DEF PipeSpec

\* Every waiter is counted below zero or has a token in the pipe or on its way.
THEOREM TokensExact == PipeSpec => []TokensMatch
<1>1. PipeInv => TokensMatch
    BY DEF PipeInv
<1>2. QED
    BY <1>1, PipeInitRight, PipeNextRight, PTL DEF PipeSpec

\* Every behaviour is one of a counting semaphore: no unit is lost or made up.
THEOREM SemaphoreImplemented == PipeSpec => PipeSemaphore!Init /\ [][PipeSemaphore!Next]_(PipeSemaphore!vars)
<1>1. PipeSpec => []PipeInv
    BY PipeInitRight, PipeNextRight, PTL DEF PipeSpec
<1>2. PipeInv /\ [PipeNext]_pipeVars => PipeAbstractStep
    BY PipeNextRight
<1>3. PipeSpec => PipeSemaphore!Init
    BY PipeInitRight DEF PipeSpec
<1>4. QED
    BY <1>1, <1>2, <1>3, PTL DEF PipeSpec, PipeAbstractStep
=============================================================================
