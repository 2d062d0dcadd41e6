---------------------------- MODULE LibraryProofs ---------------------------
(***************************************************************************)
(* Theorems about parts of the library that share nothing with each other: *)
(* fork(), the environment, files in memory, the list of streams, exit     *)
(* handlers, posix_spawn().                                                *)
(***************************************************************************)
EXTENDS PthreadFork, Env, Memstream, Streams, Atexit, Spawn, Integers, FiniteSetTheorems,
        SequenceTheorems, WellFoundedInduction, TLAPS

-----------------------------------------------------------------------------
(* fork(): who holds which lock is a function of where it is, so that the  *)
(* thread that copies the memory holds the list's and the heap's and       *)
(* nobody is in the middle of an update.                                   *)

ForkerPlaces == {"out", "prepare", "block", "list", "heap", "fork", "copied", "relist",
                 "unmask", "handlers", "parent"}
OtherPlaces == {"out", "list", "heap", "ended"}

Holds(t, l) ==
    \/ t \in Bystander /\ l # "atfork" /\ forkPc[t] = l
    \/ t \in Forker /\ l = "atfork" /\ forkPc[t] \in {"prepare", "parent"}
    \/ t \in Forker /\ l = "list" /\ forkPc[t] \in {"heap", "fork", "copied", "relist"}
    \/ t \in Forker /\ l = "heap" /\ forkPc[t] \in {"fork", "copied"}

ForkTyped ==
    /\ owner \in [Locks -> ForkThreads \cup {NoThread}]
    /\ forkPc \in [ForkThreads -> ForkerPlaces \cup OtherPlaces]
    /\ \A t \in Forker : forkPc[t] \in ForkerPlaces
    /\ \A t \in Bystander : forkPc[t] \in OtherPlaces
    /\ forkLeft \in [ForkThreads -> Int]
    /\ \A t \in Forker : forkLeft[t] \in {0, 1} /\ (forkPc[t] # "out" => forkLeft[t] = 0)
    /\ records \subseteq ForkThreads /\ retired \subseteq Bystander
    /\ forkSigmask = FALSE

LocksHeld ==
    /\ \A t \in ForkThreads, l \in Locks : owner[l] = t <=> Holds(t, l)
    /\ half = {t \in Bystander : forkPc[t] \in {"list", "heap"}}
    /\ masked = {t \in Forker :
                   forkPc[t] \in {"list", "heap", "fork", "copied", "relist", "unmask"}}
    /\ \A t \in Forker : forkPc[t] \in {"heap", "fork", "copied", "relist"} =>
          forking = IF t \in records THEN t ELSE NoThread

LocksInv == ForkTyped /\ LocksHeld

LEMMA LocksStart ==
    ASSUME ForkAssumption, Works \in Int, ForkInit
    PROVE  LocksInv
  BY DEF ForkAssumption, ForkInit, LocksInv, ForkTyped, LocksHeld, Holds, ForkThreads,
         ForkerPlaces, OtherPlaces, Locks

LEMMA LocksKept ==
    ASSUME ForkAssumption, LocksInv, [ForkNext]_forkVars
    PROVE  LocksInv'
  <1> USE DEF ForkAssumption, LocksInv, ForkTyped, LocksHeld, Holds, ForkThreads, Locks,
              ForkerPlaces, OtherPlaces, ForkGoto, ForkAt, ForkCall, Lock, Unlock
  <1>1. ASSUME NEW t \in Forker, Forking(t) PROVE LocksInv'
    <2>1. CASE Prepare(t)
      BY <2>1 DEF Prepare
    <2>2. CASE RunHandlers(t, "prepare", "block")
      BY <2>2 DEF RunHandlers
    <2>3. CASE BlockSignals(t)
      BY <2>3 DEF BlockSignals
    <2>4. CASE TakeList(t)
      BY <2>4 DEF TakeList
    <2>5. CASE TakeHeap(t)
      BY <2>5 DEF TakeHeap
    <2>6. CASE SysFork(t)
      BY <2>6 DEF SysFork
    <2>7. CASE ReleaseHeap(t)
      BY <2>7 DEF ReleaseHeap
    <2>8. CASE ReleaseList(t)
      BY <2>8 DEF ReleaseList
    <2>9. CASE UnblockSignals(t)
      BY <2>9 DEF UnblockSignals
    <2>10. CASE ParentHandlers(t)
      BY <2>10 DEF ParentHandlers
    <2>11. CASE RunHandlers(t, "parent", "out")
      BY <2>11 DEF RunHandlers
    <2>12. CASE ChildHeap(t) \/ ChildRecords(t) \/ ChildHandlers(t)
      BY <2>12 DEF ChildHeap, ChildRecords, ChildHandlers, ChildMoves
    <2> QED BY <1>1, <2>1, <2>2, <2>3, <2>4, <2>5, <2>6, <2>7, <2>8, <2>9, <2>10, <2>11,
               <2>12 DEF Forking
  <1>2. ASSUME NEW t \in Bystander, Working(t) PROVE LocksInv'
    <2>1. ASSUME NEW l \in {"list", "heap"}, BeginUpdate(t, l) PROVE LocksInv'
      BY <2>1 DEF BeginUpdate
    <2>2. ASSUME NEW l \in {"list", "heap"}, EndUpdate(t, l) PROVE LocksInv'
      BY <2>2 DEF EndUpdate
    <2>3. CASE PthreadAtfork(t)
      BY <2>3 DEF PthreadAtfork
    <2> HIDE DEF LocksInv
    <2> QED BY <1>2, <2>1, <2>2, <2>3 DEF Working
  <1>3. CASE UNCHANGED forkVars
    BY <1>3 DEF forkVars
  <1> QED BY <1>1, <1>2, <1>3 DEF ForkNext


\* What was called in the first phase is undone in the opposite order
Undoes(p, hs) == Len(p) <= Len(hs) /\ \A i \in 1..Len(p) : p[i] = hs[Len(p) - i + 1]

\* The handlers each phase still has to call are those it has not called
HandlersTyped ==
    /\ handlers \in Seq(Handler)
    /\ todo \in [ForkThreads -> Seq(Handler)]
    /\ ran \in [ForkThreads -> [prepare : Seq(Handler), parent : Seq(Handler)]]

\* p, then q, is hs backwards; and forwards
Backwards(p, q, hs) ==
    /\ Len(p) + Len(q) = Len(hs)
    /\ \A i \in 1..Len(p) : p[i] = hs[Len(hs) - i + 1]
    /\ \A i \in 1..Len(q) : q[i] = hs[Len(q) - i + 1]

Forwards(p, q, hs) ==
    /\ Len(p) + Len(q) = Len(hs)
    /\ \A i \in 1..Len(p) : p[i] = hs[i]
    /\ \A i \in 1..Len(q) : q[i] = hs[Len(p) + i]

Track(t) ==
    /\ forkPc[t] = "prepare" => Backwards(ran[t].prepare, todo[t], handlers)
    /\ forkPc[t] # "prepare" => Undoes(ran[t].prepare, handlers)
    /\ forkPc[t] = "parent" => Forwards(ran[t].parent, todo[t], handlers)
    /\ forkPc[t] = "out" => Undoes(ran[t].prepare, ran[t].parent)
    /\ forkPc[t] \notin {"out", "parent"} => ran[t].parent = <<>>

HandlersInv == HandlersTyped /\ \A t \in Forker : Track(t)

LEMMA ReverseIs ==
    ASSUME NEW s \in Seq(Handler)
    PROVE  /\ Reverse(s) \in Seq(Handler) /\ Len(Reverse(s)) = Len(s)
           /\ \A i \in 1..Len(s) : Reverse(s)[i] = s[Len(s) - i + 1]
  <1>1. Len(s) \in Nat /\ \A i \in 1..Len(s) : s[i] \in Handler
    BY LenProperties
  <1>2. Reverse(s) = [i \in 1..Len(s) |-> s[Len(s) - i + 1]]
    BY DEF Reverse
  <1>3. Reverse(s) \in [1..Len(s) -> Handler]
    BY <1>1, <1>2
  <1>4. Reverse(s) \in Seq(Handler)
    BY <1>1, <1>3, SeqDef
  <1> QED BY <1>1, <1>2, <1>3, <1>4, LenProperties

LEMMA UndoesIsPrefix ==
    ASSUME NEW p \in Seq(Handler), NEW hs \in Seq(Handler), Undoes(p, hs)
    PROVE  IsPrefix(Reverse(p), hs)
  <1> DEFINE n == Len(p)  r == Reverse(p)
  <1>1. /\ n \in Nat /\ Len(hs) \in Nat /\ n <= Len(hs)
        /\ r \in Seq(Handler) /\ Len(r) = n
        /\ \A i \in 1..n : r[i] = p[n - i + 1]
    BY ReverseIs, LenProperties DEF Undoes
  <1>2. \A i \in 1..n : r[i] = hs[i]
    <2> SUFFICES ASSUME NEW i \in 1..n PROVE r[i] = hs[i]
      OBVIOUS
    <2>1. n - i + 1 \in 1..n /\ n - (n - i + 1) + 1 = i
      BY <1>1
    <2>2. p[n - i + 1] = hs[n - (n - i + 1) + 1]
      BY <2>1 DEF Undoes
    <2> QED BY <1>1, <2>1, <2>2
  <1>3. \A i \in 1..n : r[i] \in Handler /\ hs[i] \in Handler
    BY <1>1, LenProperties
  <1> HIDE DEF n, r
  <1> DEFINE a == SubSeq(r, 1, n)  b == SubSeq(hs, 1, n)
  <1>4. /\ a \in Seq(Handler) /\ Len(a) = IF 1 <= n THEN n - 1 + 1 ELSE 0
        /\ \A i \in 1..(n - 1 + 1) : a[i] = r[1 + i - 1]
    BY <1>1, <1>3, SubSeqProperties
  <1>5. /\ b \in Seq(Handler) /\ Len(b) = IF 1 <= n THEN n - 1 + 1 ELSE 0
        /\ \A i \in 1..(n - 1 + 1) : b[i] = hs[1 + i - 1]
    BY <1>1, <1>3, SubSeqProperties
  <1> HIDE DEF a, b
  <1>6. Len(a) = n /\ Len(b) = n /\ \A i \in 1..n : a[i] = b[i]
    BY <1>1, <1>2, <1>4, <1>5
  <1>7. a = b
    BY <1>4, <1>5, <1>6, SeqEqual
  <1> QED BY <1>1, <1>7 DEF IsPrefix, a, b, r


\* Calling the next handler
LEMMA NextHandler ==
    ASSUME NEW p \in Seq(Handler), NEW q \in Seq(Handler), NEW hs \in Seq(Handler), q # <<>>
    PROVE  /\ Tail(q) \in Seq(Handler) /\ Append(p, Head(q)) \in Seq(Handler)
           /\ Backwards(p, q, hs) => Backwards(Append(p, Head(q)), Tail(q), hs)
           /\ Forwards(p, q, hs) => Forwards(Append(p, Head(q)), Tail(q), hs)
  <1> DEFINE h == Head(q)  rest == Tail(q)  next == Append(p, h)
             n == Len(p)  k == Len(rest)
  <1>1. /\ n \in Nat /\ k \in Nat /\ Len(q) = k + 1 /\ Len(hs) \in Nat
        /\ h \in Handler /\ h = q[1] /\ rest \in Seq(Handler)
        /\ \A i \in 1..k : rest[i] = q[i + 1]
    BY HeadTailProperties, EmptySeq, LenProperties
  <1>2. /\ next \in Seq(Handler) /\ Len(next) = n + 1
        /\ \A i \in 1..n : next[i] = p[i]
        /\ next[n + 1] = h
    BY <1>1, AppendProperties
  <1> HIDE DEF h, rest, next, n, k
  <1>3. ASSUME Backwards(p, q, hs) PROVE Backwards(next, rest, hs)
    <2>1. Len(hs) = n + 1 + k
      BY <1>1, <1>3 DEF Backwards, n
    <2>2. ASSUME NEW i \in 1..n + 1 PROVE next[i] = hs[n + 1 + k - i + 1]
      <3>1. CASE i \in 1..n
        BY <1>1, <1>2, <1>3, <2>1, <3>1 DEF Backwards, n
      <3>2. CASE i = n + 1
        <4>1. q[1] = hs[k + 1 - 1 + 1]
          BY <1>1, <1>3 DEF Backwards
        <4>2. n + 1 + k - i + 1 = k + 1 /\ k + 1 - 1 + 1 = k + 1
          BY <1>1, <3>2
        <4> QED BY <1>1, <1>2, <3>2, <4>1, <4>2
      <3>3. i \in 1..n \/ i = n + 1
        BY <1>1, <2>2
      <3> QED BY <3>1, <3>2, <3>3
    <2>3. ASSUME NEW i \in 1..k PROVE rest[i] = hs[k - i + 1]
      <3>1. i + 1 \in 1..k + 1 /\ k + 1 - (i + 1) + 1 = k - i + 1
        BY <1>1
      <3>2. q[i + 1] = hs[k + 1 - (i + 1) + 1]
        BY <1>1, <1>3, <3>1 DEF Backwards
      <3> QED BY <1>1, <3>1, <3>2
    <2> QED BY <1>2, <2>1, <2>2, <2>3, <1>1 DEF Backwards, k
  <1>4. ASSUME Forwards(p, q, hs) PROVE Forwards(next, rest, hs)
    <2>1. Len(hs) = n + 1 + k
      BY <1>1, <1>4 DEF Forwards, n
    <2>2. ASSUME NEW i \in 1..n + 1 PROVE next[i] = hs[i]
      <3>1. CASE i \in 1..n
        BY <1>1, <1>2, <1>4, <3>1 DEF Forwards, n
      <3>2. CASE i = n + 1
        <4>1. 1 \in 1..Len(q)
          BY <1>1
        <4>2. q[1] = hs[n + 1]
          BY <1>4, <4>1 DEF Forwards, n
        <4> QED BY <1>1, <1>2, <3>2, <4>2
      <3>3. i \in 1..n \/ i = n + 1
        BY <1>1, <2>2
      <3> QED BY <3>1, <3>2, <3>3
    <2>3. ASSUME NEW i \in 1..k PROVE rest[i] = hs[n + 1 + i]
      <3>1. i + 1 \in 1..k + 1 /\ n + (i + 1) = n + 1 + i
        BY <1>1
      <3>2. q[i + 1] = hs[n + (i + 1)]
        BY <1>1, <1>4, <3>1 DEF Forwards, n
      <3> QED BY <1>1, <3>1, <3>2
    <2> QED BY <1>2, <2>1, <2>2, <2>3, <1>1 DEF Forwards, k
  <1> QED BY <1>1, <1>2, <1>3, <1>4 DEF h, rest, next

\* Where the calls begin and end
LEMMA AllHandlers ==
    ASSUME NEW p \in Seq(Handler), NEW hs \in Seq(Handler)
    PROVE  /\ Backwards(<<>>, Reverse(hs), hs)
           /\ Forwards(<<>>, hs, hs)
           /\ Backwards(p, <<>>, hs) => Undoes(p, hs)
           /\ Forwards(p, <<>>, hs) => p = hs
  <1>1. Len(hs) \in Nat /\ Len(p) \in Nat /\ Len(<<>>) = 0
    BY LenProperties, EmptySeq
  <1>2. Backwards(<<>>, Reverse(hs), hs)
    BY <1>1, ReverseIs DEF Backwards
  <1>3. Forwards(<<>>, hs, hs)
    BY <1>1 DEF Forwards
  <1>4. ASSUME Backwards(p, <<>>, hs) PROVE Undoes(p, hs)
    <2>1. Len(p) = Len(hs)
      BY <1>1, <1>4 DEF Backwards
    <2> QED BY <1>1, <1>4, <2>1 DEF Backwards, Undoes
  <1>5. ASSUME Forwards(p, <<>>, hs) PROVE p = hs
    <2>1. Len(p) = Len(hs) /\ \A i \in 1..Len(p) : p[i] = hs[i]
      BY <1>1, <1>5 DEF Forwards
    <2> QED BY <2>1, SeqEqual
  <1> QED BY <1>2, <1>3, <1>4, <1>5

LEMMA HandlersStart ==
    ASSUME ForkInit
    PROVE  HandlersInv
  <1>1. HandlersTyped
    BY DEF ForkInit, HandlersTyped, NotRun
  <1>2. \A t \in Forker : forkPc[t] = "out" /\ ran[t] = [prepare |-> <<>>, parent |-> <<>>]
    BY DEF ForkInit, ForkThreads, NotRun
  <1> QED BY <1>1, <1>2 DEF ForkInit, HandlersInv, Track, Undoes

LEMMA TrackFrame ==
    ASSUME NEW u \in Forker, Track(u), handlers' = handlers,
           forkPc'[u] = forkPc[u], ran'[u] = ran[u], todo'[u] = todo[u]
    PROVE  Track(u)'
  BY DEF Track, Backwards, Forwards, Undoes

\* A step of t after which its own handlers are as they should be
LEMMA TrackStep ==
    ASSUME HandlersInv, NEW t \in Forker, HandlersTyped', Track(t)', handlers' = handlers,
           \A u \in Forker : u # t =>
              forkPc'[u] = forkPc[u] /\ ran'[u] = ran[u] /\ todo'[u] = todo[u]
    PROVE  HandlersInv'
  <1>1. \A u \in Forker : u # t => Track(u)'
    BY TrackFrame DEF HandlersInv
  <1> QED BY <1>1 DEF HandlersInv

\* A step of t that only moves its counter, between two places outside the handlers
LEMMA TrackMoves ==
    ASSUME HandlersInv, NEW t \in Forker, NEW place, ForkGoto(t, place),
           forkPc \in [ForkThreads -> ForkerPlaces \cup OtherPlaces],
           UNCHANGED <<handlers, todo, ran>>,
           forkPc[t] \notin {"out", "prepare", "parent"},
           place \notin {"out", "prepare", "parent"}
    PROVE  HandlersInv'
  <1>1. HandlersTyped'
    BY DEF HandlersInv, HandlersTyped
  <1>2. forkPc'[t] = place /\ \A u \in Forker : u # t => forkPc'[u] = forkPc[u]
    BY DEF ForkGoto, ForkThreads
  <1>3. Track(t)'
    BY <1>2 DEF HandlersInv, Track, Undoes
  <1> QED BY <1>1, <1>2, <1>3, TrackStep

LEMMA PrepareTracks ==
    ASSUME HandlersInv, NEW t \in Forker, Prepare(t),
           forkPc \in [ForkThreads -> ForkerPlaces \cup OtherPlaces]
    PROVE  HandlersInv'
  <1> DEFINE r == Reverse(handlers)
  <1>1. /\ HandlersTyped /\ t \in ForkThreads /\ r \in Seq(Handler)
        /\ Backwards(<<>>, r, handlers)
    BY ReverseIs, AllHandlers DEF HandlersInv, HandlersTyped, ForkThreads
  <1>2. /\ todo' = [todo EXCEPT ![t] = r] /\ ran' = [ran EXCEPT ![t] = NotRun]
        /\ forkPc' = [forkPc EXCEPT ![t] = "prepare"] /\ handlers' = handlers
    BY DEF Prepare, ForkGoto
  <1> HIDE DEF r
  <1>3. HandlersTyped'
    BY <1>1, <1>2 DEF HandlersTyped, NotRun
  <1>4. /\ forkPc'[t] = "prepare" /\ todo'[t] = r
        /\ ran'[t].prepare = <<>> /\ ran'[t].parent = <<>>
    BY <1>1, <1>2 DEF HandlersTyped, NotRun
  <1>5. Backwards(ran[t].prepare, todo[t], handlers)'
    BY <1>1, <1>2, <1>4 DEF Backwards
  <1>6. Track(t)'
    BY <1>4, <1>5 DEF Track
  <1>7. \A u \in Forker : u # t =>
           forkPc'[u] = forkPc[u] /\ ran'[u] = ran[u] /\ todo'[u] = todo[u]
    BY <1>1, <1>2 DEF HandlersTyped, ForkThreads
  <1> QED BY <1>2, <1>3, <1>6, <1>7, TrackStep

LEMMA ParentTracks ==
    ASSUME HandlersInv, NEW t \in Forker, ParentHandlers(t),
           forkPc \in [ForkThreads -> ForkerPlaces \cup OtherPlaces]
    PROVE  HandlersInv'
  <1>1. /\ HandlersTyped /\ t \in ForkThreads /\ Forwards(<<>>, handlers, handlers)
        /\ ran[t].parent = <<>> /\ Undoes(ran[t].prepare, handlers)
    BY AllHandlers DEF HandlersInv, HandlersTyped, ForkThreads, ParentHandlers, ForkAt, Track
  <1>2. /\ todo' = [todo EXCEPT ![t] = handlers] /\ ran' = ran
        /\ forkPc' = [forkPc EXCEPT ![t] = "parent"] /\ handlers' = handlers
    BY DEF ParentHandlers, ForkGoto
  <1>3. HandlersTyped'
    BY <1>1, <1>2 DEF HandlersTyped
  <1>4. forkPc'[t] = "parent" /\ todo'[t] = handlers /\ ran'[t] = ran[t]
    BY <1>1, <1>2 DEF HandlersTyped
  <1>5. Forwards(ran[t].parent, todo[t], handlers)' /\ Undoes(ran[t].prepare, handlers)'
    <2>1. Forwards(ran'[t].parent, todo'[t], handlers')
      BY <1>1, <1>2, <1>4
    <2>2. Undoes(ran'[t].prepare, handlers')
      BY <1>1, <1>2, <1>4
    <2> QED BY <2>1, <2>2 DEF Forwards, Undoes
  <1>6. Track(t)'
    BY <1>4, <1>5 DEF Track
  <1>7. \A u \in Forker : u # t =>
           forkPc'[u] = forkPc[u] /\ ran'[u] = ran[u] /\ todo'[u] = todo[u]
    BY <1>1, <1>2 DEF HandlersTyped, ForkThreads
  <1> QED BY <1>2, <1>3, <1>6, <1>7, TrackStep

LEMMA RunHandlersTracks ==
    ASSUME HandlersInv, NEW t \in Forker,
           forkPc \in [ForkThreads -> ForkerPlaces \cup OtherPlaces],
           \/ RunHandlers(t, "prepare", "block")
           \/ RunHandlers(t, "parent", "out")
    PROVE  HandlersInv'
  <1>1. /\ HandlersTyped /\ t \in ForkThreads /\ handlers' = handlers
        /\ handlers \in Seq(Handler) /\ todo[t] \in Seq(Handler)
        /\ ran[t].prepare \in Seq(Handler) /\ ran[t].parent \in Seq(Handler)
        /\ Track(t)
    BY DEF HandlersInv, HandlersTyped, ForkThreads, RunHandlers
  <1>2. \A u \in Forker : u # t =>
           forkPc'[u] = forkPc[u] /\ ran'[u] = ran[u] /\ todo'[u] = todo[u]
    BY <1>1 DEF HandlersTyped, ForkThreads, RunHandlers, ForkAt, ForkGoto
  <1>3. CASE todo[t] = <<>>
    <2>1. /\ todo' = todo /\ ran' = ran
          /\ \/ forkPc[t] = "prepare" /\ forkPc' = [forkPc EXCEPT ![t] = "block"]
             \/ forkPc[t] = "parent" /\ forkPc' = [forkPc EXCEPT ![t] = "out"]
      BY <1>3 DEF RunHandlers, ForkAt, ForkGoto
    <2>2. \/ forkPc[t] = "prepare" /\ forkPc'[t] = "block"
          \/ forkPc[t] = "parent" /\ forkPc'[t] = "out"
      BY <1>1, <2>1
    <2>3. HandlersTyped' /\ ran'[t] = ran[t]
      BY <1>1, <2>1 DEF HandlersTyped
    <2>4. CASE forkPc[t] = "prepare"
      <3>1. Undoes(ran[t].prepare, handlers) /\ ran[t].parent = <<>>
        BY <1>1, <1>3, <2>4, AllHandlers DEF Track
      <3>2. Undoes(ran[t].prepare, handlers)' /\ ran'[t].parent = <<>>
        BY <1>1, <2>3, <3>1 DEF Undoes
      <3>3. Track(t)'
        BY <2>2, <2>4, <3>2 DEF Track
      <3> QED BY <1>1, <1>2, <2>3, <3>3, TrackStep
    <2>5. CASE forkPc[t] = "parent"
      <3>1. Undoes(ran[t].prepare, handlers) /\ ran[t].parent = handlers
        BY <1>1, <1>3, <2>5, AllHandlers DEF Track
      <3>2. Undoes(ran[t].prepare, handlers)' /\ Undoes(ran[t].prepare, ran[t].parent)'
        BY <1>1, <2>3, <3>1 DEF Undoes
      <3>3. Track(t)'
        BY <2>2, <2>5, <3>2 DEF Track
      <3> QED BY <1>1, <1>2, <2>3, <3>3, TrackStep
    <2> QED BY <2>2, <2>4, <2>5
  <1>4. CASE todo[t] # <<>>
    <2> DEFINE rest == Tail(todo[t])
               before == Append(ran[t].prepare, Head(todo[t]))
               after == Append(ran[t].parent, Head(todo[t]))
    <2>1. /\ todo' = [todo EXCEPT ![t] = rest] /\ forkPc' = forkPc
          /\ \/ forkPc[t] = "prepare" /\ ran' = [ran EXCEPT ![t]["prepare"] = before]
             \/ forkPc[t] = "parent" /\ ran' = [ran EXCEPT ![t]["parent"] = after]
      BY <1>4 DEF RunHandlers, ForkAt
    <2>2. /\ rest \in Seq(Handler) /\ before \in Seq(Handler) /\ after \in Seq(Handler)
          /\ Backwards(ran[t].prepare, todo[t], handlers) => Backwards(before, rest, handlers)
          /\ Forwards(ran[t].parent, todo[t], handlers) => Forwards(after, rest, handlers)
      BY <1>1, <1>4, NextHandler
    <2> HIDE DEF rest, before, after
    <2>3. HandlersTyped' /\ forkPc'[t] = forkPc[t] /\ todo'[t] = rest
      <3>1. todo' \in [ForkThreads -> Seq(Handler)] /\ todo'[t] = rest
        BY <1>1, <2>1, <2>2 DEF HandlersTyped
      <3>2. CASE ran' = [ran EXCEPT ![t]["prepare"] = before]
        <4> DEFINE r == [ran[t] EXCEPT !["prepare"] = before]
        <4>1. r \in [prepare : Seq(Handler), parent : Seq(Handler)]
          BY <1>1, <2>2 DEF HandlersTyped
        <4>2. ran' = [ran EXCEPT ![t] = r]
          BY <3>2
        <4> HIDE DEF r
        <4>3. ran' \in [ForkThreads -> [prepare : Seq(Handler), parent : Seq(Handler)]]
          BY <1>1, <4>1, <4>2 DEF HandlersTyped
        <4> QED BY <1>1, <2>1, <3>1, <4>3 DEF HandlersTyped
      <3>3. CASE ran' = [ran EXCEPT ![t]["parent"] = after]
        <4> DEFINE r == [ran[t] EXCEPT !["parent"] = after]
        <4>1. r \in [prepare : Seq(Handler), parent : Seq(Handler)]
          BY <1>1, <2>2 DEF HandlersTyped
        <4>2. ran' = [ran EXCEPT ![t] = r]
          BY <3>3
        <4> HIDE DEF r
        <4>3. ran' \in [ForkThreads -> [prepare : Seq(Handler), parent : Seq(Handler)]]
          BY <1>1, <4>1, <4>2 DEF HandlersTyped
        <4> QED BY <1>1, <2>1, <3>1, <4>3 DEF HandlersTyped
      <3> QED BY <2>1, <3>2, <3>3
    <2>4. CASE forkPc[t] = "prepare"
      <3>1. ran'[t].prepare = before /\ ran'[t].parent = ran[t].parent
        BY <1>1, <2>1, <2>4 DEF HandlersTyped
      <3>2. Backwards(before, rest, handlers) /\ ran[t].parent = <<>>
        BY <1>1, <2>2, <2>4 DEF Track
      <3>3. Backwards(ran[t].prepare, todo[t], handlers)'
        BY <1>1, <2>3, <3>1, <3>2 DEF Backwards
      <3>4. Track(t)'
        BY <2>3, <2>4, <3>1, <3>2, <3>3 DEF Track
      <3> QED BY <1>1, <1>2, <2>3, <3>4, TrackStep
    <2>5. CASE forkPc[t] = "parent"
      <3>1. ran'[t].parent = after /\ ran'[t].prepare = ran[t].prepare
        BY <1>1, <2>1, <2>5 DEF HandlersTyped
      <3>2. Forwards(after, rest, handlers) /\ Undoes(ran[t].prepare, handlers)
        BY <1>1, <2>2, <2>5 DEF Track
      <3>3. Forwards(ran[t].parent, todo[t], handlers)' /\ Undoes(ran[t].prepare, handlers)'
        BY <1>1, <2>3, <3>1, <3>2 DEF Forwards, Undoes
      <3>4. Track(t)'
        BY <2>3, <2>5, <3>3 DEF Track
      <3> QED BY <1>1, <1>2, <2>3, <3>4, TrackStep
    <2> QED BY <2>1, <2>4, <2>5
  <1> QED BY <1>3, <1>4

\* A handler registered later is called after those already undone
LEMMA UndoesAppend ==
    ASSUME NEW p \in Seq(Handler), NEW hs \in Seq(Handler), NEW h \in Handler, Undoes(p, hs)
    PROVE  Undoes(p, Append(hs, h))
  <1>1. /\ Len(p) \in Nat /\ Len(hs) \in Nat /\ Len(Append(hs, h)) = Len(hs) + 1
        /\ \A i \in 1..Len(hs) : Append(hs, h)[i] = hs[i]
    BY AppendProperties, LenProperties
  <1>2. ASSUME NEW i \in 1..Len(p) PROVE p[i] = Append(hs, h)[Len(p) - i + 1]
    <2>1. Len(p) - i + 1 \in 1..Len(hs)
      BY <1>1 DEF Undoes
    <2>2. p[i] = hs[Len(p) - i + 1]
      BY DEF Undoes
    <2> QED BY <1>1, <2>1, <2>2
  <1> QED BY <1>1, <1>2 DEF Undoes

LEMMA AtforkTracks ==
    ASSUME ForkAssumption, LocksInv, HandlersInv, NEW u, PthreadAtfork(u)
    PROVE  HandlersInv'
  <1>1. PICK h \in Handler : handlers' = Append(handlers, h)
    BY DEF PthreadAtfork
  <1>2. forkPc' = forkPc /\ todo' = todo /\ ran' = ran /\ owner["atfork"] = NoThread
    BY DEF PthreadAtfork
  <1>3. HandlersTyped'
    BY <1>1, <1>2, AppendProperties DEF HandlersInv, HandlersTyped
  <1>4. ASSUME NEW t \in Forker PROVE Track(t)'
    <2>1. forkPc[t] \notin {"prepare", "parent"}
      BY <1>2 DEF ForkAssumption, LocksInv, LocksHeld, Holds, ForkThreads, Locks
    <2>2. Track(t) /\ ran[t].prepare \in Seq(Handler) /\ handlers \in Seq(Handler)
      BY DEF HandlersInv, HandlersTyped, ForkThreads
    <2>3. Undoes(ran[t].prepare, Append(handlers, h))
      BY <2>1, <2>2, UndoesAppend DEF Track
    <2>4. Undoes(ran'[t].prepare, handlers')
      BY <1>1, <1>2, <2>3
    <2>5. forkPc[t] = "out" => Undoes(ran'[t].prepare, ran'[t].parent)
      BY <1>2, <2>2 DEF Track
    <2> QED BY <1>2, <2>1, <2>2, <2>4, <2>5 DEF Track, Undoes
  <1> QED BY <1>3, <1>4 DEF HandlersInv

\* Steps of others, and of the child, leave the handlers alone
LEMMA TracksFrame ==
    ASSUME HandlersInv, UNCHANGED <<handlers, todo, ran>>,
           \A t \in Forker : forkPc'[t] = forkPc[t]
    PROVE  HandlersInv'
  <1>1. HandlersTyped'
    BY DEF HandlersInv, HandlersTyped
  <1>2. \A t \in Forker : Track(t)'
    BY TrackFrame DEF HandlersInv
  <1> QED BY <1>1, <1>2 DEF HandlersInv

LEMMA HandlersKept ==
    ASSUME ForkAssumption, LocksInv, HandlersInv, [ForkNext]_forkVars
    PROVE  HandlersInv'
  <1>0. /\ forkPc \in [ForkThreads -> ForkerPlaces \cup OtherPlaces]
        /\ forkSigmask = FALSE
        /\ Forker \cap Bystander = {}
    BY DEF LocksInv, ForkTyped, ForkAssumption
  <1>1. ASSUME NEW t \in Forker, Forking(t) PROVE HandlersInv'
    <2>1. CASE Prepare(t)
      BY <1>0, <2>1, PrepareTracks
    <2>2. CASE RunHandlers(t, "prepare", "block") \/ RunHandlers(t, "parent", "out")
      BY <1>0, <2>2, RunHandlersTracks
    <2>3. CASE BlockSignals(t)
      BY <1>0, <2>3, TrackMoves DEF BlockSignals, ForkAt
    <2>4. CASE TakeList(t)
      BY <1>0, <2>4, TrackMoves DEF TakeList, ForkAt
    <2>5. CASE TakeHeap(t)
      BY <1>0, <2>5, TrackMoves DEF TakeHeap, ForkAt
    <2>6. CASE SysFork(t)
      BY <1>0, <2>6, TrackMoves DEF SysFork, ForkAt
    <2>7. CASE ReleaseHeap(t)
      BY <1>0, <2>7, TrackMoves DEF ReleaseHeap, ForkAt
    <2>8. CASE ReleaseList(t)
      BY <1>0, <2>8, TrackMoves DEF ReleaseList, ForkAt
    <2>9. CASE UnblockSignals(t)
      BY <1>0, <2>9, TrackMoves DEF UnblockSignals, ForkAt
    <2>10. CASE ParentHandlers(t)
      BY <1>0, <2>10, ParentTracks
    <2>11. CASE ChildHeap(t) \/ ChildRecords(t) \/ ChildHandlers(t)
      BY <2>11, TracksFrame DEF ChildHeap, ChildRecords, ChildHandlers, ChildMoves
    <2> QED BY <1>1, <2>1, <2>2, <2>3, <2>4, <2>5, <2>6, <2>7, <2>8, <2>9, <2>10, <2>11
            DEF Forking
  <1>2. ASSUME NEW u \in Bystander, Working(u) PROVE HandlersInv'
    <2>1. ASSUME NEW l \in {"list", "heap"}, BeginUpdate(u, l) \/ EndUpdate(u, l)
          PROVE  HandlersInv'
      <3>1. UNCHANGED <<handlers, todo, ran>> /\ \E at : forkPc' = [forkPc EXCEPT ![u] = at]
        BY <2>1 DEF BeginUpdate, EndUpdate, ForkGoto
      <3>2. \A t \in Forker : forkPc'[t] = forkPc[t]
        BY <1>0, <3>1
      <3> QED BY <3>1, <3>2, TracksFrame
    <2>2. CASE PthreadAtfork(u)
      BY <2>2, AtforkTracks
    <2> QED BY <1>2, <2>1, <2>2 DEF Working
  <1>3. CASE UNCHANGED forkVars
    BY <1>3, TracksFrame DEF forkVars
  <1> QED BY <1>1, <1>2, <1>3 DEF ForkNext

-----------------------------------------------------------------------------
(* fork(): the child *)

ChildRecord ==
    [at : {"heap", "records", "handlers", "done"}, heapLocked : BOOLEAN, half : BOOLEAN,
     self : ForkThreads \cup {NoThread}, records : SUBSET ForkThreads, retired : SUBSET Bystander,
     freed : SUBSET ForkThreads, masked : BOOLEAN, mask : BOOLEAN,
     handlers : Seq(Handler), ran : Seq(Handler)]

\* c, a child of t, where t prepared p
ChildFine(t, c, p) ==
    /\ c \in ChildRecord
    /\ ~ c.half
    /\ c.at = "records" => ~ c.heapLocked
    /\ c.at \in {"heap", "records"} =>
          c.self = (IF t \in c.records THEN t ELSE NoThread) /\ c.masked /\ ~ c.mask
    /\ c.at \in {"handlers", "done"} =>
          /\ c.records = {t} /\ c.retired = {}
          /\ t \notin c.freed
          /\ ~ c.masked /\ ~ c.heapLocked
    /\ Undoes(p, c.handlers)
    /\ c.at = "done" => c.ran = c.handlers

\* The thread calls fork() once, so that what it prepared stays
ChildInv ==
    /\ DOMAIN child = Forker
    /\ \A t \in Forker : child[t] # NoChild =>
          /\ ChildFine(t, child[t], ran[t].prepare)
          /\ forkLeft[t] = 0
          /\ forkPc[t] \notin {"prepare", "block", "list", "heap", "fork"}

LEMMA ChildStart ==
    ASSUME ForkInit
    PROVE  ChildInv
  BY DEF ForkInit, ChildInv

\* Steps that leave the children alone, and what was prepared for them
LEMMA ChildFrame ==
    ASSUME ChildInv, child' = child,
           \A t \in Forker : child[t] # NoChild =>
              /\ ran'[t].prepare = ran[t].prepare
              /\ forkLeft'[t] = 0
              /\ forkPc'[t] \notin {"prepare", "block", "list", "heap", "fork"}
    PROVE  ChildInv'
  <1>1. DOMAIN child' = Forker
    BY DEF ChildInv
  <1>2. ASSUME NEW t \in Forker, child'[t] # NoChild
        PROVE  /\ ChildFine(t, child'[t], ran'[t].prepare)
               /\ forkLeft'[t] = 0
               /\ forkPc'[t] \notin {"prepare", "block", "list", "heap", "fork"}
    BY <1>2 DEF ChildInv
  <1>3. ASSUME NEW t \in Forker
        PROVE  ChildFine(t, child[t], ran[t].prepare)' <=> ChildFine(t, child'[t], ran'[t].prepare)
    BY DEF ChildFine, ChildRecord, ForkThreads, Undoes
  <1> QED BY <1>1, <1>2, <1>3 DEF ChildInv, NoChild

\* The copy is made between two updates, with the locks held
LEMMA CopyIsFine ==
    ASSUME ForkAssumption, LocksInv, HandlersInv, NEW t \in Forker, forkPc[t] = "fork"
    PROVE  ChildFine(t, Copy(t), ran[t].prepare) /\ Copy(t) # NoChild
  <1>1. owner["list"] = t /\ owner["heap"] = t /\ t \in ForkThreads
    BY DEF LocksInv, LocksHeld, Holds, ForkThreads, Locks
  <1>2. half = {}
    <2> SUFFICES ASSUME NEW u \in Bystander, forkPc[u] \in {"list", "heap"} PROVE FALSE
      BY DEF LocksInv, LocksHeld
    <2>1. Holds(u, forkPc[u]) /\ u \in ForkThreads /\ forkPc[u] \in Locks /\ u # t
      BY DEF Holds, ForkThreads, Locks, ForkAssumption
    <2> QED BY <1>1, <2>1 DEF LocksInv, LocksHeld
  <1>3. t \in masked /\ forkSigmask = FALSE /\ forking = (IF t \in records THEN t ELSE NoThread)
    BY DEF LocksInv, LocksHeld, ForkTyped
  <1>4. records \in SUBSET ForkThreads /\ retired \in SUBSET Bystander
    BY DEF LocksInv, ForkTyped
  <1>5. handlers \in Seq(Handler) /\ <<>> \in Seq(Handler) /\ Undoes(ran[t].prepare, handlers)
    BY DEF HandlersInv, HandlersTyped, Track
  <1>6. Copy(t) =
          [at |-> "heap", heapLocked |-> TRUE, half |-> FALSE, self |-> forking,
           records |-> records, retired |-> retired, freed |-> {}, masked |-> TRUE,
           mask |-> FALSE, handlers |-> handlers, ran |-> <<>>]
    <2>1. owner["heap"] # NoThread
      BY <1>1 DEF ForkAssumption
    <2> QED BY <1>2, <1>3, <2>1 DEF Copy
  <1>7. Copy(t) \in ChildRecord
    <2>1. forking \in ForkThreads \cup {NoThread} /\ {} \in SUBSET ForkThreads
      BY <1>1, <1>3
    <2> QED BY <1>4, <1>5, <1>6, <2>1 DEF ChildRecord
  <1>8. Copy(t) # NoChild
    BY <1>6 DEF NoChild
  <1> QED BY <1>3, <1>5, <1>6, <1>7, <1>8 DEF ChildFine

\* A step of the child itself
LEMMA ChildMoved ==
    ASSUME ChildInv, NEW t \in Forker, NEW c, ChildMoves(t, c),
           child[t] # NoChild, ChildFine(t, c, ran[t].prepare)
    PROVE  ChildInv'
  <1>1. /\ child' = [child EXCEPT ![t] = c] /\ DOMAIN child = Forker
        /\ ran' = ran /\ forkLeft' = forkLeft /\ forkPc' = forkPc
    BY DEF ChildMoves, ChildInv
  <1>2. DOMAIN child' = Forker /\ child'[t] = c /\ \A u \in Forker : u # t => child'[u] = child[u]
    BY <1>1
  <1>3. ASSUME NEW u \in Forker, child'[u] # NoChild
        PROVE  /\ ChildFine(u, child'[u], ran'[u].prepare)
               /\ forkLeft'[u] = 0
               /\ forkPc'[u] \notin {"prepare", "block", "list", "heap", "fork"}
    BY <1>1, <1>2, <1>3 DEF ChildInv
  <1>4. ASSUME NEW u \in Forker
        PROVE  ChildFine(u, child[u], ran[u].prepare)' <=> ChildFine(u, child'[u], ran'[u].prepare)
    BY DEF ChildFine, ChildRecord, ForkThreads, Undoes
  <1> QED BY <1>2, <1>3, <1>4 DEF ChildInv, NoChild

LEMMA ChildSteps ==
    ASSUME ForkAssumption, ChildInv, NEW t \in Forker,
           ChildHeap(t) \/ ChildRecords(t) \/ ChildHandlers(t)
    PROVE  ChildInv'
  <1> DEFINE c == child[t]
  <1>1. c.at # "none" => c # NoChild
    BY DEF NoChild
  <1>2. c # NoChild => ChildFine(t, c, ran[t].prepare)
    BY DEF ChildInv
  <1>3. t \in ForkThreads /\ t \notin Bystander
    BY DEF ForkThreads, ForkAssumption
  <1>4. CASE ChildHeap(t)
    <2> DEFINE d == [c EXCEPT !.at = "records", !.heapLocked = FALSE]
    <2>1. ChildMoves(t, d) /\ c.at = "heap"
      BY <1>4 DEF ChildHeap
    <2>2. ChildFine(t, c, ran[t].prepare) /\ c \in ChildRecord /\ c # NoChild
      BY <1>1, <1>2, <2>1 DEF ChildFine
    <2>3. ChildFine(t, d, ran[t].prepare)
      BY <2>1, <2>2 DEF ChildFine, ChildRecord
    <2> HIDE DEF d
    <2> QED BY <2>1, <2>2, <2>3, ChildMoved
  <1>5. CASE ChildRecords(t)
    <2> DEFINE d == [c EXCEPT !.at = "handlers", !.freed = (c.records \ {c.self}) \cup c.retired,
                              !.records = {t}, !.retired = {}, !.masked = c.mask]
    <2>1. ChildMoves(t, d) /\ c.at = "records" /\ ~ c.heapLocked
      BY <1>5 DEF ChildRecords
    <2>2. ChildFine(t, c, ran[t].prepare) /\ c \in ChildRecord /\ c # NoChild
      BY <1>1, <1>2, <2>1 DEF ChildFine
    <2>3. t \notin (c.records \ {c.self}) \cup c.retired
      BY <1>3, <2>1, <2>2 DEF ChildFine, ChildRecord
    <2>4. (c.records \ {c.self}) \cup c.retired \in SUBSET ForkThreads
      BY <2>2 DEF ChildRecord, ForkThreads
    <2>5. d \in ChildRecord
      BY <1>3, <2>2, <2>4 DEF ChildRecord
    <2>6. ChildFine(t, d, ran[t].prepare)
      BY <2>1, <2>2, <2>3, <2>5 DEF ChildFine, ChildRecord
    <2> HIDE DEF d
    <2> QED BY <2>1, <2>2, <2>6, ChildMoved
  <1>6. CASE ChildHandlers(t)
    <2> DEFINE d == [c EXCEPT !.at = "done", !.ran = c.handlers]
    <2>1. ChildMoves(t, d) /\ c.at = "handlers"
      BY <1>6 DEF ChildHandlers
    <2>2. ChildFine(t, c, ran[t].prepare) /\ c \in ChildRecord /\ c # NoChild
      BY <1>1, <1>2, <2>1 DEF ChildFine
    <2>3. ChildFine(t, d, ran[t].prepare)
      BY <2>1, <2>2 DEF ChildFine, ChildRecord
    <2> HIDE DEF d
    <2> QED BY <2>1, <2>2, <2>3, ChildMoved
  <1> QED BY <1>4, <1>5, <1>6

LEMMA SysForkChild ==
    ASSUME ForkAssumption, LocksInv, HandlersInv, ChildInv, NEW t \in Forker, SysFork(t)
    PROVE  ChildInv'
  <1>1. /\ forkPc[t] = "fork" /\ forkPc' = [forkPc EXCEPT ![t] = "copied"]
        /\ forkLeft' = forkLeft /\ ran' = ran
    BY DEF SysFork, ForkAt, ForkGoto
  <1>2. forkPc'[t] = "copied" /\ \A u \in Forker : u # t => forkPc'[u] = forkPc[u]
    BY <1>1 DEF LocksInv, ForkTyped, ForkThreads
  <1>3. CASE child' = child
    BY <1>1, <1>2, <1>3, ChildFrame DEF ChildInv
  <1>4. CASE child' = [child EXCEPT ![t] = Copy(t)]
    <2> DEFINE k == Copy(t)
    <2>1. ChildFine(t, k, ran[t].prepare) /\ forkLeft[t] = 0
      BY <1>1, CopyIsFine DEF LocksInv, ForkTyped
    <2> HIDE DEF k
    <2>2. /\ DOMAIN child' = Forker /\ child'[t] = k
          /\ \A u \in Forker : u # t => child'[u] = child[u]
      BY <1>4 DEF ChildInv, k
    <2>3. ASSUME NEW u \in Forker, child'[u] # NoChild
          PROVE  /\ ChildFine(u, child'[u], ran'[u].prepare)
                 /\ forkLeft'[u] = 0
                 /\ forkPc'[u] \notin {"prepare", "block", "list", "heap", "fork"}
      BY <1>1, <1>2, <2>1, <2>2, <2>3 DEF ChildInv
    <2>4. ASSUME NEW u \in Forker
          PROVE  ChildFine(u, child[u], ran[u].prepare)'
                    <=> ChildFine(u, child'[u], ran'[u].prepare)
      BY DEF ChildFine, ChildRecord, ForkThreads, Undoes
    <2> QED BY <2>2, <2>3, <2>4 DEF ChildInv, NoChild
  <1> QED BY <1>3, <1>4 DEF SysFork

\* What a forker with a child does, and what others do, leaves the child as it is
LEMMA ForkerChild ==
    ASSUME ForkAssumption, LocksInv, HandlersInv, ChildInv, NEW t \in Forker,
           child' = child,
           \/ Prepare(t) \/ RunHandlers(t, "prepare", "block")
           \/ BlockSignals(t) \/ TakeList(t) \/ TakeHeap(t)
           \/ ReleaseHeap(t) \/ ReleaseList(t) \/ UnblockSignals(t)
           \/ ParentHandlers(t) \/ RunHandlers(t, "parent", "out")
    PROVE  ChildInv'
  <1> SUFFICES ASSUME NEW u \in Forker, child[u] # NoChild
               PROVE  /\ ran'[u].prepare = ran[u].prepare
                      /\ forkLeft'[u] = 0
                      /\ forkPc'[u] \notin {"prepare", "block", "list", "heap", "fork"}
    BY ChildFrame
  <1>1. /\ forkLeft[u] = 0 /\ forkPc[u] \notin {"prepare", "block", "list", "heap", "fork"}
        /\ t \in ForkThreads /\ u \in ForkThreads
    BY DEF ChildInv, ForkThreads
  <1>2. /\ DOMAIN ran = ForkThreads /\ DOMAIN forkPc = ForkThreads /\ DOMAIN forkLeft = ForkThreads
        /\ ran[t] \in [prepare : Seq(Handler), parent : Seq(Handler)]
    BY <1>1 DEF HandlersInv, HandlersTyped, LocksInv, ForkTyped
  <1>3. CASE u # t
    BY <1>1, <1>2, <1>3 DEF Prepare, RunHandlers, BlockSignals, TakeList, TakeHeap, ReleaseHeap,
       ReleaseList, UnblockSignals, ParentHandlers, ForkAt, ForkGoto, ForkCall
  <1>4. CASE u = t
    <2>1. forkLeft' = forkLeft
      BY <1>1, <1>4 DEF Prepare, RunHandlers, BlockSignals, TakeList, TakeHeap, ReleaseHeap,
         ReleaseList, UnblockSignals, ParentHandlers, ForkAt, ForkCall
    <2>2. forkPc'[t] \notin {"prepare", "block", "list", "heap", "fork"}
      BY <1>1, <1>2, <1>4 DEF Prepare, RunHandlers, BlockSignals, TakeList, TakeHeap, ReleaseHeap,
         ReleaseList, UnblockSignals, ParentHandlers, ForkAt, ForkGoto, ForkCall
    <2>3. ran'[t].prepare = ran[t].prepare
      BY <1>1, <1>2, <1>4 DEF Prepare, RunHandlers, BlockSignals, TakeList, TakeHeap, ReleaseHeap,
         ReleaseList, UnblockSignals, ParentHandlers, ForkAt, ForkCall
    <2> QED BY <1>1, <1>4, <2>1, <2>2, <2>3
  <1> QED BY <1>3, <1>4

LEMMA ChildKept ==
    ASSUME ForkAssumption, LocksInv, HandlersInv, ChildInv, [ForkNext]_forkVars
    PROVE  ChildInv'
  <1>1. ASSUME NEW t \in Forker, Forking(t) PROVE ChildInv'
    <2>1. CASE SysFork(t)
      BY <2>1, SysForkChild
    <2>2. CASE ChildHeap(t) \/ ChildRecords(t) \/ ChildHandlers(t)
      BY <2>2, ChildSteps
    <2>3. CASE Prepare(t) \/ RunHandlers(t, "prepare", "block") \/ BlockSignals(t)
      BY <2>3, ForkerChild DEF Prepare, RunHandlers, BlockSignals
    <2>4. CASE TakeList(t) \/ TakeHeap(t) \/ ReleaseHeap(t) \/ ReleaseList(t)
      BY <2>4, ForkerChild DEF TakeList, TakeHeap, ReleaseHeap, ReleaseList
    <2>5. CASE UnblockSignals(t) \/ ParentHandlers(t) \/ RunHandlers(t, "parent", "out")
      BY <2>5, ForkerChild DEF UnblockSignals, ParentHandlers, RunHandlers
    <2> QED BY <1>1, <2>1, <2>2, <2>3, <2>4, <2>5 DEF Forking
  <1>2. ASSUME NEW u \in Bystander, Working(u) PROVE ChildInv'
    <2>1. /\ child' = child /\ ran' = ran
          /\ \/ forkPc' = forkPc
             \/ \E at : forkPc' = [forkPc EXCEPT ![u] = at]
          /\ forkLeft' = forkLeft \/ forkLeft' = [forkLeft EXCEPT ![u] = @ - 1]
      BY <1>2 DEF Working, BeginUpdate, EndUpdate, PthreadAtfork, ForkCall, ForkAt, ForkGoto
    <2>2. \A t \in Forker : forkPc'[t] = forkPc[t] /\ forkLeft'[t] = forkLeft[t]
      <3>1. /\ forkPc \in [ForkThreads -> ForkerPlaces \cup OtherPlaces]
            /\ forkLeft \in [ForkThreads -> Int]
            /\ \A t \in Forker : t \in ForkThreads /\ t # u
        BY DEF LocksInv, ForkTyped, ForkThreads, ForkAssumption
      <3> QED BY <2>1, <3>1
    <2> QED BY <2>1, <2>2, ChildFrame DEF ChildInv
  <1>3. CASE UNCHANGED forkVars
    BY <1>3, ChildFrame DEF forkVars, ChildInv
  <1> QED BY <1>1, <1>2, <1>3 DEF ForkNext

-----------------------------------------------------------------------------
(* fork(): the property *)

\* The locks are taken in one order, so that the one who holds the last goes on
LEMMA SomebodyMoves ==
    ASSUME ForkAssumption, LocksInv,
           NEW u \in ForkThreads, forkPc[u] \notin {"out", "ended"}
    PROVE  \E t \in ForkThreads : forkPc[t] \notin {"out", "ended"} /\ ~ ForkWaits(t)
  <1>1. \A l \in Locks : owner[l] # NoThread => Holds(owner[l], l) /\ owner[l] \in ForkThreads
    <2>1. owner \in [Locks -> ForkThreads \cup {NoThread}]
      BY DEF LocksInv, ForkTyped
    <2>2. \A t \in ForkThreads, l \in Locks : owner[l] = t => Holds(t, l)
      BY DEF LocksInv, LocksHeld
    <2> QED BY <2>1, <2>2
  <1>2. Forker \cap Bystander = {}
    BY DEF ForkAssumption
  <1>3. CASE owner["heap"] # NoThread
    <2> DEFINE h == owner["heap"]
    <2>1. h \in ForkThreads /\ Holds(h, "heap")
      BY <1>1, <1>3 DEF Locks
    <2>2. \/ h \in Bystander /\ forkPc[h] = "heap"
          \/ h \in Forker /\ forkPc[h] \in {"fork", "copied"}
      BY <2>1 DEF Holds
    <2>3. forkPc[h] \notin {"out", "ended"} /\ ~ ForkWaits(h)
      BY <1>2, <2>2 DEF ForkWaits
    <2> QED BY <2>1, <2>3
  <1>4. CASE owner["heap"] = NoThread /\ owner["list"] # NoThread
    <2> DEFINE h == owner["list"]
    <2>1. h \in ForkThreads /\ Holds(h, "list")
      BY <1>1, <1>4 DEF Locks
    <2>2. \/ h \in Bystander /\ forkPc[h] = "list"
          \/ h \in Forker /\ forkPc[h] \in {"heap", "fork", "copied", "relist"}
      BY <2>1 DEF Holds
    <2>3. forkPc[h] \notin {"out", "ended"} /\ ~ ForkWaits(h)
      BY <1>2, <1>4, <2>2 DEF ForkWaits
    <2> QED BY <2>1, <2>3
  <1>5. CASE owner["heap"] = NoThread /\ owner["list"] = NoThread /\ owner["atfork"] # NoThread
    <2> DEFINE h == owner["atfork"]
    <2>1. h \in ForkThreads /\ Holds(h, "atfork")
      BY <1>1, <1>5 DEF Locks
    <2>2. h \in Forker /\ forkPc[h] \in {"prepare", "parent"}
      BY <2>1 DEF Holds
    <2>3. forkPc[h] \notin {"out", "ended"} /\ ~ ForkWaits(h)
      BY <1>5, <2>2 DEF ForkWaits
    <2> QED BY <2>1, <2>3
  <1>6. CASE \A l \in {"atfork", "list", "heap"} : owner[l] = NoThread
    <2>1. ~ ForkWaits(u)
      BY <1>6 DEF ForkWaits
    <2> QED BY <2>1
  <1> QED BY <1>3, <1>4, <1>5, <1>6

LEMMA ForkInvariantSound ==
    ASSUME ForkAssumption, LocksInv, HandlersInv, ChildInv
    PROVE  ForkSound
  <1>1. ASSUME NEW t \in Forker, child[t].at # "none"
        PROVE  LET c == child[t]
               IN  /\ ~ c.half
                   /\ c.at = "records" => ~ c.heapLocked
                   /\ c.at \in {"handlers", "done"} =>
                         /\ c.records = {t} /\ c.retired = {}
                         /\ t \notin c.freed
                         /\ ~ c.masked /\ ~ c.heapLocked
                   /\ c.masked \/ c.at \in {"handlers", "done"}
                   /\ c.at = "done" => IsPrefix(Reverse(ran[t].prepare), c.ran)
    <2> DEFINE c == child[t]
    <2>1. ChildFine(t, c, ran[t].prepare)
      BY <1>1 DEF ChildInv, NoChild
    <2>2. ran[t].prepare \in Seq(Handler)
      BY DEF HandlersInv, HandlersTyped, ForkThreads
    <2>3. c.handlers \in Seq(Handler) /\ c.at \in {"heap", "records", "handlers", "done"}
      BY <2>1 DEF ChildFine, ChildRecord
    <2>4. c.at = "done" => IsPrefix(Reverse(ran[t].prepare), c.ran)
      BY <2>1, <2>2, <2>3, UndoesIsPrefix DEF ChildFine
    <2> QED BY <2>1, <2>3, <2>4 DEF ChildFine
  <1>2. \A t \in Forker : owner["list"] = t => t \in masked
    BY DEF LocksInv, LocksHeld, Holds, ForkThreads, Locks, ForkAssumption
  <1>3. ASSUME NEW t \in Forker, forkPc[t] = "out"
        PROVE  /\ t \notin masked /\ t \notin {owner[l] : l \in Locks}
               /\ IsPrefix(Reverse(ran[t].prepare), ran[t].parent)
    <2>1. t \notin masked /\ \A l \in Locks : owner[l] # t
      BY <1>3 DEF LocksInv, LocksHeld, Holds, ForkThreads, Locks, ForkAssumption
    <2>2. /\ ran[t].prepare \in Seq(Handler) /\ ran[t].parent \in Seq(Handler)
          /\ Undoes(ran[t].prepare, ran[t].parent)
      BY <1>3 DEF HandlersInv, HandlersTyped, ForkThreads, Track
    <2> QED BY <2>1, <2>2, UndoesIsPrefix
  <1> QED BY <1>1, <1>2, <1>3, SomebodyMoves DEF ForkSound

\* In every reachable state a child of fork() has consistent memory and its own
\* record only, its handlers and the parent's undo what was prepared, signals
\* are blocked while the list is locked to fork, and the locks cannot deadlock:
\* _fork_prepare(), _fork_parent() and _fork_child() of pthread.c.
THEOREM ForkCorrect ==
    ASSUME ForkAssumption, Works \in Int
    PROVE  ForkSpec => []ForkSound
  <1> DEFINE Inv == LocksInv /\ HandlersInv /\ ChildInv
  <1>1. ForkInit => Inv
    BY LocksStart, HandlersStart, ChildStart
  <1>2. Inv /\ [ForkNext]_forkVars => Inv'
    BY LocksKept, HandlersKept, ChildKept
  <1>3. Inv => ForkSound
    BY ForkInvariantSound
  <1> HIDE DEF Inv
  <1> QED BY <1>1, <1>2, <1>3, PTL DEF ForkSpec

-----------------------------------------------------------------------------
(* The environment: each name is in one slot, and what was last said of it *)
(* is there, in a string that is freed only if the flag of its slot says   *)
(* that the library made it.                                               *)

StringRecord == [by : {"start", "setenv", "caller"}, name : Name, value : Nat, freed : BOOLEAN]

EnvTyped ==
    /\ string \in Seq(StringRecord)
    /\ environ \in Seq(Nat) /\ \A i \in 1..Len(environ) : environ[i] \in 1..Len(string)
    /\ size \in Nat
    /\ owned = <<>> \/ DOMAIN owned = 1..size
    /\ \A i \in 1..Len(environ) : owned # <<>> => owned[i] \in BOOLEAN
    /\ expected \in [Name -> Nat]
    /\ environ # <<>> => Len(environ) < size
    /\ torn \in BOOLEAN /\ wild = FALSE

NameAt(i) == string[environ[i]].name

EnvFine ==
    /\ \A i \in 1..Len(environ) :
          /\ string[environ[i]].freed = FALSE
          /\ Owns(i) => owned[i] = TRUE /\ string[environ[i]].by = "setenv"
          /\ expected[NameAt(i)] = string[environ[i]].value
    /\ \A i, j \in 1..Len(environ) : i # j => NameAt(i) # NameAt(j)
    /\ \A n \in Name : (\A i \in 1..Len(environ) : NameAt(i) # n) => expected[n] = 0

EnvInv == EnvTyped /\ (~ torn => EnvFine)

\* The smallest of some numbers
LEMMA LeastOf ==
    ASSUME NEW S \in SUBSET Nat, S # {}
    PROVE  \E i \in S : \A j \in S : i <= j
  <1> DEFINE R == OpToRel(<, Nat)
  <1>1. IsWellFoundedOn(R, Nat)
    BY NatLessThanWellFounded, Zenon
  <1>2. \A x, y \in Nat : x < y => <<x, y>> \in R
    BY DEF OpToRel
  <1> HIDE DEF R
  <1>3. PICK x \in S : \A y \in S : ~ (<<y, x>> \in R)
    BY <1>1, WFMin
  <1>4. ASSUME NEW j \in S PROVE x <= j
    <2>1. x \in Nat /\ j \in Nat /\ ~ (<<j, x>> \in R)
      BY <1>3
    <2>2. ~ (j < x)
      BY <1>2, <2>1
    <2> QED BY <2>1, <2>2
  <1> QED BY <1>4

\* _env_find(): a slot with that name, the only one, or 0 for none
LEMMA FindIs ==
    ASSUME EnvTyped, NEW n
    PROVE  /\ Find(n) \in 0..Len(environ)
           /\ Find(n) # 0 => NameAt(Find(n)) = n
           /\ Find(n) = 0 => \A i \in 1..Len(environ) : NameAt(i) # n
  <1> DEFINE at == {i \in DOMAIN environ : string[environ[i]].name = n}
  <1>1. DOMAIN environ = 1..Len(environ) /\ Len(environ) \in Nat
    BY LenProperties DEF EnvTyped
  <1>2. Find(n) = IF at = {} THEN 0 ELSE CHOOSE i \in at : \A j \in at : i <= j
    BY DEF Find
  <1>3. CASE at = {}
    BY <1>1, <1>2, <1>3 DEF NameAt
  <1>4. CASE at # {}
    <2>1. at \in SUBSET Nat
      BY <1>1
    <2>2. \E i \in at : \A j \in at : i <= j
      BY <1>4, <2>1, LeastOf
    <2> HIDE DEF at
    <2>3. Find(n) \in at
      BY <1>2, <1>4, <2>2
    <2>4. Find(n) \in 1..Len(environ) /\ NameAt(Find(n)) = n
      BY <1>1, <2>3 DEF at, NameAt
    <2> QED BY <1>1, <2>4
  <1> QED BY <1>3, <1>4

\* _env_insert(): the array that grew has room for the string and for its NULL
LEMMA NewSizeIs ==
    ASSUME EnvTyped, NEW i \in 0..Len(environ)
    PROVE  /\ NewSize(i) \in Nat /\ size <= NewSize(i)
           /\ i = 0 => Len(environ) + 1 < NewSize(i)
           /\ i # 0 => NewSize(i) = size /\ Len(environ) < size
  <1>1. Len(environ) \in Nat /\ size \in Nat /\ (Len(environ) # 0 => Len(environ) < size)
    BY LenProperties, EmptySeq DEF EnvTyped
  <1>2. size \div 2 \in Nat
    BY <1>1
  <1>3. GrownSize \in Nat /\ GrownSize >= 2 /\ GrownSize > size
    BY <1>1, <1>2 DEF GrownSize
  <1> QED BY <1>1, <1>3 DEF NewSize

LEMMA FlagsAre ==
    ASSUME EnvTyped, NEW i \in 0..Len(environ), NEW allocated \in BOOLEAN
    PROVE  LET flags == Flags(i, allocated)
           IN  /\ flags = <<>> \/ DOMAIN flags = 1..NewSize(i)
               /\ flags = <<>> => owned = <<>> /\ ~ allocated
               /\ flags # <<>> => \A j \in 1..Len(environ) :
                     flags[j] = IF owned = <<>> THEN FALSE ELSE owned[j]
  <1> DEFINE flags == Flags(i, allocated)  new == NewSize(i)
  <1>1. /\ new \in Nat /\ size \in Nat /\ size <= new /\ Len(environ) \in Nat
        /\ i = 0 => Len(environ) + 1 < new
        /\ i # 0 => new = size /\ Len(environ) < size
    BY NewSizeIs, LenProperties DEF EnvTyped
  <1>2. Len(environ) <= size /\ 1 \in 1..new /\ Len(environ) <= new
    <2>1. environ = <<>> => Len(environ) = 0
      BY EmptySeq
    <2>2. Len(environ) <= size
      BY <1>1, <2>1 DEF EnvTyped
    <2> QED BY <1>1, <2>2
  <1>3. CASE owned # <<>>
    <2>1. flags = [j \in 1..new |-> IF j <= size THEN owned[j] ELSE Unknown]
      BY <1>3 DEF Flags
    <2> HIDE DEF flags, new
    <2>2. DOMAIN flags = 1..new /\ flags # <<>>
      BY <1>2, <2>1
    <2>3. \A j \in 1..Len(environ) : flags[j] = owned[j]
      BY <1>1, <1>2, <2>1
    <2> QED BY <1>3, <2>2, <2>3 DEF flags, new
  <1>4. CASE owned = <<>> /\ allocated
    <2>1. flags = [j \in 1..new |-> FALSE]
      BY <1>4 DEF Flags
    <2> HIDE DEF flags, new
    <2>2. DOMAIN flags = 1..new /\ flags # <<>>
      BY <1>2, <2>1
    <2>3. \A j \in 1..Len(environ) : flags[j] = FALSE
      BY <1>1, <1>2, <2>1
    <2> QED BY <1>4, <2>2, <2>3 DEF flags, new
  <1>5. CASE owned = <<>> /\ ~ allocated
    BY <1>5 DEF Flags
  <1> QED BY <1>3, <1>4, <1>5

LEMMA EnvStart ==
    ASSUME EnvInit
    PROVE  EnvInv
  <1>1. PICK k \in 0..MaxStart : \E names \in [1..k -> Name] :
          /\ IsInjective(names)
          /\ string = [i \in DOMAIN names |-> Made("start", names[i], 1)]
          /\ expected = [n \in Name |-> IF n \in Range(names) THEN 1 ELSE 0]
          /\ environ = [i \in DOMAIN names |-> i]
    BY SMTT(30) DEF EnvInit
  <1>2. PICK names \in [1..k -> Name] :
          /\ IsInjective(names)
          /\ string = [i \in DOMAIN names |-> Made("start", names[i], 1)]
          /\ expected = [n \in Name |-> IF n \in Range(names) THEN 1 ELSE 0]
          /\ environ = [i \in DOMAIN names |-> i]
    BY <1>1
  <1>3. k \in Nat /\ DOMAIN names = 1..k
    BY <1>1
  <1>4. /\ string \in [1..k -> StringRecord] /\ environ \in [1..k -> Nat]
        /\ \A i \in 1..k : string[i] = Made("start", names[i], 1) /\ environ[i] = i
    BY <1>2, <1>3 DEF StringRecord, Made
  <1>5. /\ string \in Seq(StringRecord) /\ environ \in Seq(Nat)
        /\ Len(string) = k /\ Len(environ) = k
    BY <1>3, <1>4, SeqDef, LenProperties
  <1>6. size \in Nat /\ (environ # <<>> => Len(environ) < size)
    BY <1>3, <1>5 DEF EnvInit
  <1>7. EnvTyped
    BY <1>2, <1>3, <1>4, <1>5, <1>6 DEF EnvTyped, EnvInit
  <1>8. EnvFine
    <2>1. \A i \in 1..k : /\ string[environ[i]].freed = FALSE /\ string[environ[i]].value = 1
                          /\ NameAt(i) = names[i] /\ names[i] \in Name
      BY <1>3, <1>4 DEF Made, NameAt
    <2>2. \A i, j \in 1..k : i # j => names[i] # names[j]
      BY <1>2, <1>3 DEF IsInjective
    <2>3. \A n \in Name : expected[n] = IF \E i \in 1..k : names[i] = n THEN 1 ELSE 0
      BY <1>2, <1>3 DEF Range
    <2> QED BY <1>3, <1>5, <2>1, <2>2, <2>3 DEF EnvFine, Owns, EnvInit
  <1> QED BY <1>7, <1>8 DEF EnvInv

\* A new string in the slot of its name, or in a slot of its own
LEMMA Inserted ==
    ASSUME EnvInv, torn = FALSE, torn' = FALSE, wild' = FALSE,
           NEW n \in Name, NEW v \in Nat, NEW by \in {"setenv", "caller"}, NEW allocated \in BOOLEAN,
           allocated => by = "setenv",
           Insert(Find(n), Len(string) + 1, allocated),
           string' \in Seq(StringRecord), Len(string') = Len(string) + 1,
           string'[Len(string) + 1] = Made(by, n, v),
           \A k \in 1..Len(string) :
              /\ string'[k].name = string[k].name /\ string'[k].value = string[k].value
              /\ string'[k].by = string[k].by
              /\ string'[k].freed = string[k].freed \/ (Find(n) # 0 /\ k = environ[Find(n)]),
           expected' = [expected EXCEPT ![n] = v]
    PROVE  EnvInv'
  <1> DEFINE i == Find(n)  p == Len(string) + 1  L == Len(environ)
             last == IF i = 0 THEN L + 1 ELSE L
             flags == Flags(i, allocated)  new == NewSize(i)
  <1>1. PICK at : at = IF i = 0 THEN L + 1 ELSE i
    OBVIOUS
  <1>2. EnvTyped /\ EnvFine
    BY DEF EnvInv
  <1>3. /\ L \in Nat /\ Len(string) \in Nat /\ p \in Nat
        /\ i \in 0..L /\ (i # 0 => NameAt(i) = n)
        /\ i = 0 => \A j \in 1..L : NameAt(j) # n
    BY <1>2, FindIs, LenProperties DEF EnvTyped
  <1>4. /\ new \in Nat /\ (i = 0 => L + 1 < new) /\ (i # 0 => new = size /\ L < size)
    BY <1>2, <1>3, NewSizeIs
  <1>5. /\ flags = <<>> \/ DOMAIN flags = 1..new
        /\ flags = <<>> => owned = <<>> /\ ~ allocated
        /\ flags # <<>> => \A j \in 1..L : flags[j] = IF owned = <<>> THEN FALSE ELSE owned[j]
    BY <1>2, <1>3, FlagsAre
  <1>6. /\ environ' = IF i = 0 THEN Append(environ, p) ELSE [environ EXCEPT ![i] = p]
        /\ size' = new
        /\ owned' = IF flags = <<>> THEN flags ELSE [flags EXCEPT ![at] = allocated]
    BY <1>1 DEF Insert
  <1> HIDE DEF i, p, flags, new, L
  <1>7. /\ environ' \in Seq(Nat) /\ Len(environ') = last
        /\ \A j \in 1..last : environ'[j] = IF j = at THEN p ELSE environ[j]
    <2>1. CASE i = 0
      BY <1>1, <1>2, <1>3, <1>6, <2>1, AppendProperties DEF EnvTyped, L
    <2>2. CASE i # 0
      BY <1>1, <1>2, <1>3, <1>6, <2>2, ExceptSeq DEF EnvTyped, L
    <2> QED BY <2>1, <2>2
  <1>8. at \in 1..last /\ last < new /\ \A j \in 1..last : j # at => j \in 1..L
    BY <1>1, <1>3, <1>4
  <1>9. /\ owned' = <<>> \/ DOMAIN owned' = 1..new
        /\ owned' = <<>> => owned = <<>> /\ ~ allocated
        /\ owned' # <<>> => /\ owned'[at] = allocated
                            /\ \A j \in 1..L : j # at =>
                                 owned'[j] = IF owned = <<>> THEN FALSE ELSE owned[j]
    <2>1. CASE flags = <<>>
      BY <1>5, <1>6, <2>1
    <2>2. CASE flags # <<>>
      <3>1. DOMAIN flags = 1..new /\ owned' = [flags EXCEPT ![at] = allocated]
        BY <1>1, <1>5, <1>6, <2>2
      <3>2. DOMAIN owned' = 1..new /\ at \in 1..new /\ at \in DOMAIN owned'
        BY <1>3, <1>4, <1>8, <3>1
      <3>3. owned' # <<>>
        <4>1. owned' = [j \in 1..new |-> IF j = at THEN allocated ELSE flags[j]]
          BY <3>1
        <4> QED BY <3>2, <4>1
      <3>4. owned'[at] = allocated /\ \A j \in 1..L : j # at => owned'[j] = flags[j]
        BY <1>3, <1>4, <3>1, <3>2
      <3> QED BY <1>5, <2>2, <3>2, <3>3, <3>4
    <2> QED BY <2>1, <2>2
  <1> HIDE DEF last
  \* what is in each slot
  <1>10. /\ environ'[at] = p /\ p \in 1..Len(string') /\ NameAt(at)' = n
        /\ string'[environ'[at]].value = v /\ string'[environ'[at]].freed = FALSE
        /\ string'[environ'[at]].by = by
    <2>1. environ'[at] = p /\ string'[environ'[at]] = Made(by, n, v)
      BY <1>7, <1>8 DEF p
    <2> QED BY <1>3, <2>1 DEF NameAt, Made, p
  <1>11. ASSUME NEW j \in 1..last, j # at
         PROVE  /\ j \in 1..L /\ environ'[j] = environ[j] /\ environ[j] \in 1..Len(string)
                /\ NameAt(j)' = NameAt(j) /\ NameAt(j) # n /\ NameAt(j) \in Name
                /\ string'[environ'[j]].value = string[environ[j]].value
                /\ string'[environ'[j]].by = string[environ[j]].by
                /\ string'[environ'[j]].freed = string[environ[j]].freed
    <2>1. j \in 1..L /\ environ'[j] = environ[j]
      BY <1>7, <1>8, <1>11
    <2>2. environ[j] \in 1..Len(string)
      BY <1>2, <2>1 DEF EnvTyped, L
    <2>3. NameAt(j) # n
      <3>1. CASE i = 0
        BY <1>3, <2>1, <3>1
      <3>2. CASE i # 0
        <4>1. i \in 1..L /\ i # j
          BY <1>1, <1>3, <1>11, <3>2
        <4> QED BY <1>2, <1>3, <2>1, <3>2, <4>1 DEF EnvFine, L
      <3> QED BY <3>1, <3>2
    <2>4. ~ (i # 0 /\ environ[j] = environ[i])
      BY <1>3, <2>3 DEF NameAt
    <2>5. NameAt(j) \in Name
      <3>1. string[environ[j]] \in StringRecord
        BY <1>2, <2>2, ElementOfSeq DEF EnvTyped
      <3> QED BY <3>1 DEF StringRecord, NameAt
    <2> QED BY <2>1, <2>2, <2>3, <2>4, <2>5 DEF NameAt, i
  <1>12. expected \in [Name -> Nat]
    BY <1>2 DEF EnvTyped
  <1>13. EnvTyped'
    <2>1. \A j \in 1..last : environ'[j] \in 1..Len(string')
      BY <1>3, <1>10, <1>11
    <2>2. \A j \in 1..last : owned' # <<>> => owned'[j] \in BOOLEAN
      BY <1>2, <1>8, <1>9 DEF EnvTyped, L
    <2>3. expected' \in [Name -> Nat]
      BY <1>12
    <2> QED BY <1>4, <1>6, <1>7, <1>8, <1>9, <2>1, <2>2, <2>3 DEF EnvTyped
  <1>14. EnvFine'
    <2>1. ASSUME NEW j \in 1..last
          PROVE  /\ string'[environ'[j]].freed = FALSE
                 /\ Owns(j)' => owned'[j] = TRUE /\ string'[environ'[j]].by = "setenv"
                 /\ expected'[NameAt(j)'] = string'[environ'[j]].value
      <3>1. CASE j = at
        <4>1. Owns(at)' => allocated = TRUE /\ owned'[at] = TRUE
          BY <1>9 DEF Owns
        <4>2. expected'[n] = v
          BY <1>12
        <4> QED BY <1>10, <3>1, <4>1, <4>2
      <3>2. CASE j # at
        <4>1. Owns(j)' => Owns(j) /\ owned'[j] = owned[j]
          BY <1>9, <1>11, <3>2 DEF Owns
        <4>2. /\ string[environ[j]].freed = FALSE
              /\ Owns(j) => owned[j] = TRUE /\ string[environ[j]].by = "setenv"
              /\ expected[NameAt(j)] = string[environ[j]].value
          BY <1>2, <1>11, <3>2 DEF EnvFine, L
        <4>3. expected'[NameAt(j)] = expected[NameAt(j)]
          BY <1>11, <1>12, <3>2
        <4> QED BY <1>11, <3>2, <4>1, <4>2, <4>3
      <3> QED BY <3>1, <3>2
    <2>2. ASSUME NEW j \in 1..last, NEW k \in 1..last, j # k PROVE NameAt(j)' # NameAt(k)'
      <3>1. CASE j = at
        BY <1>10, <1>11, <2>2, <3>1
      <3>2. CASE k = at
        BY <1>10, <1>11, <2>2, <3>2
      <3>3. CASE j # at /\ k # at
        BY <1>2, <1>11, <2>2, <3>3 DEF EnvFine, L
      <3> QED BY <3>1, <3>2, <3>3
    <2>3. ASSUME NEW m \in Name, \A j \in 1..last : NameAt(j)' # m PROVE expected'[m] = 0
      <3>1. m # n
        BY <1>8, <1>10, <2>3
      <3>2. ASSUME NEW j \in 1..L PROVE NameAt(j) # m
        <4>1. j \in 1..last
          BY <1>3 DEF last
        <4>2. CASE j = at
          BY <1>1, <1>3, <3>1, <3>2, <4>2
        <4>3. CASE j # at
          BY <1>11, <2>3, <4>1, <4>3
        <4> QED BY <4>2, <4>3
      <3> QED BY <1>2, <1>12, <3>1, <3>2 DEF EnvFine, L
    <2> QED BY <1>7, <2>1, <2>2, <2>3 DEF EnvFine
  <1> QED BY <1>13, <1>14 DEF EnvInv

\* What setenv() and unsetenv() free is the library's, and not freed yet
LEMMA DroppedIs ==
    ASSUME EnvInv, torn = FALSE, NEW n \in Name
    PROVE  /\ ~ FreesBadly(Find(n))
           /\ Dropped(Find(n)) \in Seq(StringRecord) /\ Len(Dropped(Find(n))) = Len(string)
           /\ \A k \in 1..Len(string) :
                 LET d == Dropped(Find(n))[k]
                 IN  /\ d.name = string[k].name /\ d.value = string[k].value
                     /\ d.by = string[k].by
                     /\ d.freed = string[k].freed
                           \/ (Find(n) # 0 /\ k = environ[Find(n)])
           /\ ~ (Find(n) # 0 /\ Owns(Find(n))) => Dropped(Find(n)) = string
  <1> DEFINE i == Find(n)
  <1>1. /\ EnvTyped /\ EnvFine /\ i \in 0..Len(environ) /\ Len(environ) \in Nat
        /\ string \in Seq(StringRecord)
    BY FindIs, LenProperties DEF EnvInv, EnvTyped
  <1> HIDE DEF i
  <1>2. CASE i # 0 /\ Owns(i)
    <2>1. i \in 1..Len(environ)
      BY <1>1, <1>2
    <2>2. environ[i] \in 1..Len(string) /\ string[environ[i]].freed = FALSE
          /\ string[environ[i]].by = "setenv"
      BY <1>1, <1>2, <2>1 DEF EnvFine, EnvTyped
    <2> DEFINE r == [string[environ[i]] EXCEPT !.freed = TRUE]
    <2>3. string[environ[i]] \in StringRecord
      BY <1>1, <2>2, ElementOfSeq
    <2>4. /\ r \in StringRecord /\ r.name = string[environ[i]].name
          /\ r.value = string[environ[i]].value /\ r.by = string[environ[i]].by
      BY <2>3 DEF StringRecord
    <2>5. Dropped(i) = [string EXCEPT ![environ[i]] = r]
      BY <1>2 DEF Dropped, FreedIn
    <2> HIDE DEF r
    <2>6. /\ Dropped(i) \in Seq(StringRecord) /\ Len(Dropped(i)) = Len(string)
          /\ \A k \in 1..Len(string) : Dropped(i)[k] = IF k = environ[i] THEN r ELSE string[k]
      BY <1>1, <2>2, <2>4, <2>5, ExceptSeq
    <2>7. ~ FreesBadly(i)
      BY <2>2 DEF FreesBadly, Bad
    <2> QED BY <1>2, <2>4, <2>6, <2>7 DEF i
  <1>3. CASE ~ (i # 0 /\ Owns(i))
    <2>1. Dropped(i) = string /\ ~ FreesBadly(i)
      BY <1>3 DEF Dropped, FreesBadly
    <2> QED BY <1>1, <2>1 DEF i
  <1> QED BY <1>2, <1>3

LEMMA MadeIs ==
    ASSUME NEW s \in Seq(StringRecord), NEW r \in StringRecord
    PROVE  /\ Append(s, r) \in Seq(StringRecord) /\ Len(Append(s, r)) = Len(s) + 1
           /\ Append(s, r)[Len(s) + 1] = r
           /\ \A k \in 1..Len(s) : Append(s, r)[k] = s[k]
  BY AppendProperties

LEMMA SetNewKeeps ==
    ASSUME EnvAssumption, EnvInv, NEW n \in Name, NEW v \in Lengths, SetNew(n, v)
    PROVE  EnvInv'
  <1>1. torn = FALSE /\ torn' = torn /\ v \in Nat
    BY DEF SetNew, More, EnvInv, EnvTyped, EnvAssumption
  <1> DEFINE d == Dropped(Find(n))  r == Made("setenv", n, v)
  <1>2. /\ ~ FreesBadly(Find(n)) /\ d \in Seq(StringRecord) /\ Len(d) = Len(string)
        /\ \A k \in 1..Len(string) :
              /\ d[k].name = string[k].name /\ d[k].value = string[k].value
              /\ d[k].by = string[k].by
              /\ d[k].freed = string[k].freed \/ (Find(n) # 0 /\ k = environ[Find(n)])
    BY <1>1, DroppedIs
  <1>3. r \in StringRecord
    BY <1>1 DEF Made, StringRecord
  <1>4. /\ string' = Append(d, r) /\ wild' = (wild \/ FreesBadly(Find(n)))
        /\ expected' = [expected EXCEPT ![n] = v]
        /\ Insert(Find(n), Len(string) + 1, TRUE)
    BY DEF SetNew
  <1>5. wild' = FALSE
    BY <1>2, <1>4 DEF EnvInv, EnvTyped
  <1> HIDE DEF d
  <1>6. /\ string' \in Seq(StringRecord) /\ Len(string') = Len(string) + 1
        /\ string'[Len(string) + 1] = r
        /\ \A k \in 1..Len(string) : string'[k] = d[k]
    BY <1>2, <1>3, <1>4, MadeIs
  <1> QED BY <1>1, <1>2, <1>4, <1>5, <1>6, Inserted

LEMMA PutEnvKeeps ==
    ASSUME EnvAssumption, EnvInv, NEW n \in Name, NEW v \in Lengths, PutEnv(n, v)
    PROVE  EnvInv'
  <1>1. torn = FALSE /\ torn' = torn /\ v \in Nat /\ string \in Seq(StringRecord) /\ wild' = FALSE
    BY DEF PutEnv, More, EnvInv, EnvTyped, EnvAssumption
  <1> DEFINE r == Made("caller", n, v)
  <1>2. r \in StringRecord
    BY <1>1 DEF Made, StringRecord
  <1>3. /\ string' = Append(string, r) /\ expected' = [expected EXCEPT ![n] = v]
        /\ Insert(Find(n), Len(string) + 1, FALSE)
    BY DEF PutEnv
  <1>4. /\ string' \in Seq(StringRecord) /\ Len(string') = Len(string) + 1
        /\ string'[Len(string) + 1] = r
        /\ \A k \in 1..Len(string) : string'[k] = string[k]
    BY <1>1, <1>2, <1>3, MadeIs
  <1> QED BY <1>1, <1>3, <1>4, Inserted

\* The slots and what is in their strings stay; the array may have grown
LEMMA EnvFrame ==
    ASSUME EnvInv, torn = FALSE, torn' = FALSE, wild' = FALSE,
           environ' = environ, owned' = owned, expected' = expected,
           size' \in Nat, size <= size', owned # <<>> => size' = size,
           string' \in Seq(StringRecord), Len(string) <= Len(string'),
           \A k \in 1..Len(string) : string'[k] = string[k]
    PROVE  EnvInv'
  <1>1. EnvTyped /\ EnvFine
    BY DEF EnvInv
  <1>2. /\ Len(environ) \in Nat /\ Len(string) \in Nat /\ Len(string') \in Nat /\ size \in Nat
        /\ \A i \in 1..Len(environ) : environ[i] \in 1..Len(string)
    BY <1>1, LenProperties DEF EnvTyped
  <1>3. EnvTyped'
    <2>1. \A i \in 1..Len(environ) : environ[i] \in 1..Len(string')
      BY <1>2
    <2>2. environ # <<>> => Len(environ) < size'
      BY <1>1, <1>2 DEF EnvTyped
    <2> QED BY <1>1, <2>1, <2>2 DEF EnvTyped
  <1>4. EnvFine'
    <2>1. \A i \in 1..Len(environ) : string'[environ'[i]] = string[environ[i]]
      BY <1>2
    <2>2. \A i \in 1..Len(environ) : NameAt(i)' = NameAt(i) /\ (Owns(i)' <=> Owns(i))
      BY <2>1 DEF NameAt, Owns
    <2>3. ASSUME NEW i \in 1..Len(environ)
          PROVE  /\ string'[environ'[i]].freed = FALSE
                 /\ Owns(i)' => owned'[i] = TRUE /\ string'[environ'[i]].by = "setenv"
                 /\ expected'[NameAt(i)'] = string'[environ'[i]].value
      BY <1>1, <2>1, <2>2 DEF EnvFine
    <2>4. \A i, j \in 1..Len(environ) : i # j => NameAt(i)' # NameAt(j)'
      BY <1>1, <2>2 DEF EnvFine
    <2>5. ASSUME NEW n \in Name, \A i \in 1..Len(environ) : NameAt(i)' # n
          PROVE  expected'[n] = 0
      BY <1>1, <2>2, <2>5 DEF EnvFine
    <2> QED BY <2>3, <2>4, <2>5 DEF EnvFine
  <1> QED BY <1>3, <1>4 DEF EnvInv

\* When only the slots change, to some of those there were
LEMMA SetInPlaceKeeps ==
    ASSUME EnvAssumption, EnvInv, NEW n \in Name, NEW v \in Lengths, SetInPlace(n, v)
    PROVE  EnvInv'
  <1> DEFINE p == environ[Find(n)]  r == [string[p] EXCEPT !.value = v]
  <1>1. PICK i : i = Find(n)
    OBVIOUS
  <1>2. /\ torn = FALSE /\ torn' = FALSE /\ i # 0 /\ v \in Nat
        /\ EnvTyped /\ EnvFine /\ i \in 1..Len(environ) /\ NameAt(i) = n
    <2>1. /\ torn = FALSE /\ torn' = FALSE /\ i # 0 /\ v \in Nat /\ EnvTyped /\ EnvFine
          /\ Len(environ) \in Nat
      BY <1>1, LenProperties DEF SetInPlace, EnvInv, EnvTyped, EnvAssumption
    <2>2. i \in 0..Len(environ) /\ NameAt(i) = n
      BY <1>1, <2>1, FindIs
    <2> QED BY <2>1, <2>2
  <1>3. p \in 1..Len(string) /\ string[p].freed = FALSE /\ string[p] \in StringRecord
    BY <1>1, <1>2, ElementOfSeq DEF EnvTyped, EnvFine
  <1>4. /\ r \in StringRecord /\ r.name = n /\ r.value = v /\ r.by = string[p].by
        /\ r.freed = FALSE
    BY <1>1, <1>2, <1>3 DEF StringRecord, NameAt
  <1>5. /\ string' = [string EXCEPT ![p] = r] /\ expected' = [expected EXCEPT ![n] = v]
        /\ wild' = FALSE /\ environ' = environ /\ size' = size /\ owned' = owned
    BY <1>2, <1>3 DEF SetInPlace, EnvTyped
  <1> HIDE DEF r
  <1>6. /\ string' \in Seq(StringRecord) /\ Len(string') = Len(string)
        /\ \A k \in 1..Len(string) : string'[k] = IF k = p THEN r ELSE string[k]
    BY <1>2, <1>3, <1>4, <1>5, ExceptSeq DEF EnvTyped
  <1>7. expected \in [Name -> Nat] /\ expected' \in [Name -> Nat]
    BY <1>2, <1>5 DEF EnvTyped
  <1>8. EnvTyped'
    BY <1>2, <1>5, <1>6, <1>7 DEF EnvTyped
  <1>9. ASSUME NEW j \in 1..Len(environ)
        PROVE  /\ NameAt(j)' = NameAt(j) /\ (Owns(j)' <=> Owns(j)) /\ NameAt(j) \in Name
               /\ string'[environ'[j]].freed = FALSE
               /\ string'[environ'[j]].by = string[environ[j]].by
               /\ string'[environ'[j]].value = IF j = i THEN v ELSE string[environ[j]].value
    <2>1. environ[j] \in 1..Len(string) /\ string[environ[j]] \in StringRecord
      BY <1>2, ElementOfSeq DEF EnvTyped
    <2>2. string[environ[j]].freed = FALSE /\ (Owns(j)' <=> Owns(j)) /\ NameAt(j) \in Name
      BY <1>2, <1>5, <2>1 DEF EnvFine, Owns, StringRecord, NameAt
    <2>3. CASE j = i
      BY <1>1, <1>2, <1>4, <1>5, <1>6, <2>1, <2>2, <2>3 DEF NameAt
    <2>4. CASE j # i
      <3>1. environ[j] # p
        BY <1>1, <1>2, <2>4 DEF EnvFine, NameAt
      <3>2. string'[environ'[j]] = string[environ[j]]
        BY <1>5, <1>6, <2>1, <3>1
      <3> QED BY <2>2, <2>4, <3>2 DEF NameAt
    <2> QED BY <2>3, <2>4
  <1>10. EnvFine'
    <2>1. ASSUME NEW j \in 1..Len(environ)
          PROVE  /\ Owns(j)' => owned'[j] = TRUE /\ string'[environ'[j]].by = "setenv"
                 /\ expected'[NameAt(j)'] = string'[environ'[j]].value
      <3>1. Owns(j)' => owned'[j] = TRUE /\ string'[environ'[j]].by = "setenv"
        BY <1>2, <1>5, <1>9 DEF EnvFine
      <3>2. CASE j = i
        BY <1>2, <1>5, <1>7, <1>9, <3>1, <3>2
      <3>3. CASE j # i
        <4>1. NameAt(j) # n /\ expected[NameAt(j)] = string[environ[j]].value
          BY <1>2, <3>3 DEF EnvFine
        <4> QED BY <1>5, <1>7, <1>9, <3>1, <3>3, <4>1
      <3> QED BY <3>2, <3>3
    <2>2. ASSUME NEW j \in 1..Len(environ), NEW k \in 1..Len(environ), j # k
          PROVE  NameAt(j)' # NameAt(k)'
      <3>1. NameAt(j) # NameAt(k)
        BY <1>2, <2>2 DEF EnvFine
      <3> QED BY <1>9, <3>1
    <2>3. ASSUME NEW m \in Name, \A j \in 1..Len(environ) : NameAt(j)' # m
          PROVE  expected'[m] = 0
      <3>1. \A j \in 1..Len(environ) : NameAt(j) # m
        BY <1>9, <2>3
      <3>2. m # n /\ expected[m] = 0
        BY <1>2, <3>1 DEF EnvFine
      <3> QED BY <1>5, <1>7, <3>2
    <2>4. environ' = environ
      BY <1>5
    <2> QED BY <1>9, <2>1, <2>2, <2>3, <2>4 DEF EnvFine
  <1> QED BY <1>8, <1>10 DEF EnvInv

LEMMA SetNoMemoryKeeps ==
    ASSUME EnvInv, NEW n \in Name, NEW v \in Lengths, SetNoMemory(n, v)
    PROVE  EnvInv'
  <1> DEFINE d == Dropped(Find(n))
  <1>1. /\ torn = FALSE /\ string' = d /\ torn' = (Find(n) # 0 /\ Owns(Find(n)))
        /\ wild' = (wild \/ FreesBadly(Find(n)))
        /\ environ' = environ /\ size' = size /\ owned' = owned /\ expected' = expected
    BY DEF SetNoMemory, More, EnvInv, EnvTyped
  <1>2. /\ ~ FreesBadly(Find(n)) /\ d \in Seq(StringRecord) /\ Len(d) = Len(string)
        /\ ~ (Find(n) # 0 /\ Owns(Find(n))) => d = string
    BY <1>1, DroppedIs
  <1>3. wild' = FALSE /\ torn' \in BOOLEAN
    BY <1>1, <1>2 DEF EnvInv, EnvTyped
  <1> HIDE DEF d
  <1>4. EnvTyped'
    BY <1>1, <1>2, <1>3 DEF EnvInv, EnvTyped
  <1>5. CASE torn' = TRUE
    BY <1>4, <1>5 DEF EnvInv
  <1>6. CASE torn' = FALSE
    <2>1. string' = string
      BY <1>1, <1>2, <1>6
    <2>2. /\ string' \in Seq(StringRecord) /\ Len(string) <= Len(string') /\ size' \in Nat
          /\ size <= size' /\ \A k \in 1..Len(string) : string'[k] = string[k]
      BY <1>1, <1>2, <2>1, LenProperties DEF EnvInv, EnvTyped
    <2> QED BY <1>1, <1>3, <1>6, <2>2, EnvFrame
  <1> QED BY <1>3, <1>5, <1>6

LEMMA NoSlotKeeps ==
    ASSUME EnvAssumption, EnvInv, NEW n \in Name,
           (\E v \in Lengths : SetNoSlot(n, v)) \/ PutNoSlot(n)
    PROVE  EnvInv'
  <1>1. EnvTyped /\ Find(n) \in 0..Len(environ) /\ string \in Seq(StringRecord) /\ size \in Nat
    BY FindIs DEF EnvInv, EnvTyped
  <1>2. NewSize(Find(n)) \in Nat /\ size <= NewSize(Find(n))
    BY <1>1, NewSizeIs
  <1>3. /\ torn = FALSE /\ torn' = FALSE /\ wild' = FALSE
        /\ environ' = environ /\ owned' = owned /\ expected' = expected
        /\ \/ size' = size
           \/ owned = <<>> /\ size' = NewSize(Find(n))
    BY <1>1 DEF SetNoSlot, PutNoSlot, InsertFails, More, EnvInv, EnvTyped
  <1>4. /\ Len(string) \in Nat /\ size' \in Nat /\ size <= size'
        /\ owned # <<>> => size' = size
    BY <1>1, <1>2, <1>3, LenProperties
  <1>5. CASE string' = string
    <2>1. /\ string' \in Seq(StringRecord) /\ Len(string) <= Len(string')
          /\ \A k \in 1..Len(string) : string'[k] = string[k]
      BY <1>1, <1>4, <1>5
    <2> QED BY <1>3, <1>4, <2>1, EnvFrame
  <1>6. CASE \E v \in Lengths : SetNoSlot(n, v)
    <2>1. PICK v \in Lengths : SetNoSlot(n, v)
      BY <1>6
    <2> DEFINE r == [Made("setenv", n, v) EXCEPT !.freed = TRUE]
    <2>2. r \in StringRecord /\ string' = Append(string, r)
      BY <2>1 DEF SetNoSlot, Made, StringRecord, EnvAssumption
    <2> HIDE DEF r
    <2>3. /\ string' \in Seq(StringRecord) /\ Len(string') = Len(string) + 1
          /\ \A k \in 1..Len(string) : string'[k] = string[k]
      BY <1>1, <2>2, MadeIs
    <2>4. Len(string) <= Len(string')
      BY <1>4, <2>3
    <2> QED BY <1>3, <1>4, <2>3, <2>4, EnvFrame
  <1>7. PutNoSlot(n) => string' = string
    BY DEF PutNoSlot
  <1> QED BY <1>5, <1>6, <1>7

\* The last string moves into the slot, and its flag with it
LEMMA UnsetEnvKeeps ==
    ASSUME EnvInv, NEW n \in Name, UnsetEnv(n)
    PROVE  EnvInv'
  <1> DEFINE d == Dropped(Find(n))  L == Len(environ)
  <1>1. PICK i : i = Find(n)
    OBVIOUS
  <1>2. /\ torn = FALSE /\ torn' = FALSE /\ i # 0 /\ EnvTyped /\ EnvFine /\ L \in Nat
        /\ environ \in Seq(Nat) /\ (owned # <<>> => DOMAIN owned = 1..size)
    BY <1>1, LenProperties DEF UnsetEnv, EnvInv, EnvTyped
  <1>3. i \in 1..L /\ NameAt(i) = n /\ L < size /\ L >= 1 /\ size \in Nat
    <2>1. i \in 0..L /\ NameAt(i) = n
      BY <1>1, <1>2, FindIs
    <2>2. environ # <<>>
      BY <1>2, <2>1, EmptySeq
    <2> QED BY <1>2, <2>1, <2>2 DEF EnvTyped
  <1>4. /\ ~ FreesBadly(i) /\ d \in Seq(StringRecord) /\ Len(d) = Len(string)
        /\ \A k \in 1..Len(string) :
              /\ d[k].name = string[k].name /\ d[k].value = string[k].value
              /\ d[k].by = string[k].by
              /\ d[k].freed = string[k].freed \/ k = environ[i]
    BY <1>1, <1>2, DroppedIs
  <1>5. /\ string' = d /\ wild' = (wild \/ FreesBadly(i)) /\ size' = size
        /\ environ' = Front([environ EXCEPT ![i] = environ[L]])
        /\ owned' = IF owned = <<>> THEN owned ELSE [owned EXCEPT ![i] = owned[L]]
        /\ expected' = [expected EXCEPT ![n] = 0]
    BY <1>1 DEF UnsetEnv, Last
  <1>6. wild' = FALSE
    BY <1>2, <1>4, <1>5 DEF EnvTyped
  <1> HIDE DEF d
  <1>7. /\ environ' \in Seq(Nat) /\ Len(environ') = L - 1
        /\ \A j \in 1..(L - 1) : environ'[j] = environ[IF j = i THEN L ELSE j]
    <2> DEFINE moved == [environ EXCEPT ![i] = environ[L]]
    <2>1. L \in 1..L /\ environ[L] \in Nat
      BY <1>2, <1>3, ElementOfSeq
    <2>2. /\ moved \in Seq(Nat) /\ Len(moved) = L
          /\ \A j \in 1..L : moved[j] = IF j = i THEN environ[L] ELSE environ[j]
      BY <1>2, <1>3, <2>1, ExceptSeq
    <2>3. environ' = Front(moved)
      BY <1>5
    <2> HIDE DEF moved, L
    <2>4. PICK n0 \in Int : n0 = L - 1
      BY <1>2
    <2>5. environ' = SubSeq(moved, 1, n0)
      BY <2>2, <2>3, <2>4 DEF Front
    <2>6. \A j \in 1..n0 : moved[j] \in Nat
      BY <1>2, <2>2, <2>4, LenProperties
    <2>7. /\ SubSeq(moved, 1, n0) \in Seq(Nat)
          /\ Len(SubSeq(moved, 1, n0)) = IF 1 <= n0 THEN n0 - 1 + 1 ELSE 0
          /\ \A j \in 1..(n0 - 1 + 1) : SubSeq(moved, 1, n0)[j] = moved[1 + j - 1]
      BY <2>4, <2>6, SubSeqProperties
    <2>8. Len(environ') = L - 1
      BY <1>2, <1>3, <2>4, <2>5, <2>7
    <2>9. ASSUME NEW j \in 1..(L - 1) PROVE environ'[j] = environ[IF j = i THEN L ELSE j]
      <3>1. j \in 1..(n0 - 1 + 1) /\ 1 + j - 1 = j /\ j \in 1..L
        BY <1>2, <2>4
      <3> QED BY <2>2, <2>5, <2>7, <3>1
    <2> QED BY <2>5, <2>7, <2>8, <2>9
  <1>8. /\ owned = <<>> <=> owned' = <<>>
        /\ owned' # <<>> => /\ DOMAIN owned' = 1..size
                            /\ \A j \in 1..(L - 1) : owned'[j] = owned[IF j = i THEN L ELSE j]
    <2>1. CASE owned = <<>>
      BY <1>5, <2>1
    <2>2. CASE owned # <<>>
      <3>1. owned' = [j \in 1..size |-> IF j = i THEN owned[L] ELSE owned[j]]
        BY <1>2, <1>5, <2>2
      <3>2. 1 \in 1..size /\ \A j \in 1..(L - 1) : j \in 1..size
        BY <1>2, <1>3
      <3>3. DOMAIN owned' = 1..size /\ owned' # <<>>
        BY <3>1, <3>2
      <3> QED BY <2>2, <3>1, <3>2, <3>3
    <2> QED BY <2>1, <2>2
  <1>9. expected \in [Name -> Nat]
    BY <1>2 DEF EnvTyped
  <1> HIDE DEF L
  \* what is in each slot was in another
  <1>10. ASSUME NEW j \in 1..(L - 1), NEW k \in 1..L, k = IF j = i THEN L ELSE j
         PROVE  /\ k # i /\ environ'[j] = environ[k] /\ environ[k] \in 1..Len(string)
                /\ NameAt(j)' = NameAt(k) /\ NameAt(k) # n /\ NameAt(k) \in Name
                /\ string'[environ'[j]].value = string[environ[k]].value
                /\ string'[environ'[j]].by = string[environ[k]].by
                /\ string'[environ'[j]].freed = string[environ[k]].freed
                /\ owned' # <<>> => owned'[j] = owned[k]
    <2>1. k # i /\ environ'[j] = environ[k]
      BY <1>2, <1>3, <1>7, <1>10
    <2>2. environ[k] \in 1..Len(string) /\ NameAt(k) # n
      BY <1>2, <1>3, <2>1 DEF EnvTyped, EnvFine, L
    <2>3. environ[k] # environ[i]
      BY <1>3, <2>2 DEF NameAt
    <2>4. NameAt(k) \in Name
      <3>1. string[environ[k]] \in StringRecord
        BY <1>2, <2>2, ElementOfSeq DEF EnvTyped
      <3> QED BY <3>1 DEF StringRecord, NameAt
    <2>5. owned' # <<>> => owned'[j] = owned[k]
      BY <1>8, <1>10
    <2> QED BY <1>4, <1>5, <2>1, <2>2, <2>3, <2>4, <2>5 DEF NameAt
  <1>11. ASSUME NEW j \in 1..(L - 1)
         PROVE  \E k \in 1..L : k = (IF j = i THEN L ELSE j)
    BY <1>2, <1>3
  <1>12. EnvTyped'
    <2>1. ASSUME NEW j \in 1..(L - 1)
          PROVE  environ'[j] \in 1..Len(string') /\ (owned' # <<>> => owned'[j] \in BOOLEAN)
      <3>1. PICK k \in 1..L : k = IF j = i THEN L ELSE j
        BY <1>11
      <3>2. owned # <<>> => owned[k] \in BOOLEAN
        BY <1>2 DEF EnvTyped, L
      <3> QED BY <1>4, <1>5, <1>8, <1>10, <3>1, <3>2
    <2>2. expected' \in [Name -> Nat]
      BY <1>5, <1>9
    <2>3. environ' # <<>> => Len(environ') < size'
      BY <1>2, <1>3, <1>5, <1>7
    <2> QED BY <1>2, <1>3, <1>4, <1>5, <1>6, <1>7, <1>8, <2>1, <2>2, <2>3 DEF EnvTyped
  <1>13. EnvFine'
    <2>1. ASSUME NEW j \in 1..(L - 1)
          PROVE  /\ string'[environ'[j]].freed = FALSE
                 /\ Owns(j)' => owned'[j] = TRUE /\ string'[environ'[j]].by = "setenv"
                 /\ expected'[NameAt(j)'] = string'[environ'[j]].value
      <3>1. PICK k \in 1..L : k = IF j = i THEN L ELSE j
        BY <1>11
      <3>2. Owns(j)' => Owns(k) /\ owned'[j] = owned[k]
        BY <1>8, <1>10, <3>1 DEF Owns
      <3>3. /\ string[environ[k]].freed = FALSE
            /\ Owns(k) => owned[k] = TRUE /\ string[environ[k]].by = "setenv"
            /\ expected[NameAt(k)] = string[environ[k]].value
        BY <1>2 DEF EnvFine, L
      <3>4. expected'[NameAt(k)] = expected[NameAt(k)]
        BY <1>5, <1>9, <1>10, <3>1
      <3> QED BY <1>10, <3>1, <3>2, <3>3, <3>4
    <2>2. ASSUME NEW j \in 1..(L - 1), NEW k \in 1..(L - 1), j # k
          PROVE  NameAt(j)' # NameAt(k)'
      <3>1. PICK a \in 1..L : a = IF j = i THEN L ELSE j
        BY <1>11
      <3>2. PICK b \in 1..L : b = IF k = i THEN L ELSE k
        BY <1>11
      <3>3. a # b
        BY <1>2, <2>2, <3>1, <3>2
      <3>4. NameAt(a) # NameAt(b)
        BY <1>2, <3>3 DEF EnvFine, L
      <3> QED BY <1>10, <3>1, <3>2, <3>4
    <2>3. ASSUME NEW m \in Name, \A j \in 1..(L - 1) : NameAt(j)' # m
          PROVE  expected'[m] = 0
      <3>1. CASE m = n
        BY <1>5, <1>9, <3>1
      <3>2. CASE m # n
        <4>1. ASSUME NEW k \in 1..L PROVE NameAt(k) # m
          <5>1. CASE k = i
            BY <1>3, <3>2, <5>1
          <5>2. CASE k # i
            <6>1. PICK j \in 1..(L - 1) : k = IF j = i THEN L ELSE j
              <7>1. CASE k = L
                <8>1. i \in 1..(L - 1)
                  BY <1>2, <1>3, <5>2, <7>1
                <8> QED BY <7>1, <8>1
              <7>2. CASE k # L
                <8>1. k \in 1..(L - 1)
                  BY <1>2, <7>2
                <8> QED BY <5>2, <8>1
              <7> QED BY <7>1, <7>2
            <6> QED BY <1>10, <2>3, <6>1
          <5> QED BY <5>1, <5>2
        <4> QED BY <1>2, <1>5, <1>9, <3>2, <4>1 DEF EnvFine, L
      <3> QED BY <3>1, <3>2
    <2> QED BY <1>7, <2>1, <2>2, <2>3 DEF EnvFine
  <1> QED BY <1>12, <1>13 DEF EnvInv

LEMMA ClearEnvKeeps ==
    ASSUME EnvInv, ClearEnv
    PROVE  EnvInv'
  <1> DEFINE mine == {environ[i] : i \in {j \in DOMAIN environ : Owns(j)}}
  <1>1. EnvTyped /\ EnvFine /\ torn = FALSE /\ torn' = FALSE
    BY DEF ClearEnv, EnvInv, EnvTyped
  <1>2. /\ string' = [p \in DOMAIN string |-> [string[p] EXCEPT !.freed = @ \/ p \in mine]]
        /\ wild' = (wild \/ \E p \in mine : Bad(p))
        /\ environ' = <<>> /\ owned' = <<>> /\ expected' = [n \in Name |-> 0] /\ size' = size
    BY DEF ClearEnv
  <1>3. ASSUME NEW p \in mine PROVE ~ Bad(p)
    <2>1. PICK i \in 1..Len(environ) : p = environ[i] /\ Owns(i)
      BY <1>1, LenProperties DEF EnvTyped
    <2> QED BY <1>1, <2>1 DEF EnvFine, Bad
  <1>4. wild' = FALSE
    BY <1>1, <1>2, <1>3 DEF EnvTyped
  <1> HIDE DEF mine
  <1>5. string' \in Seq(StringRecord)
    <2>1. /\ Len(string) \in Nat /\ DOMAIN string = 1..Len(string)
          /\ \A p \in 1..Len(string) : string[p] \in StringRecord
      BY <1>1, LenProperties, ElementOfSeq DEF EnvTyped
    <2>2. ASSUME NEW p \in 1..Len(string)
          PROVE  [string[p] EXCEPT !.freed = @ \/ p \in mine] \in StringRecord
      BY <2>1 DEF StringRecord
    <2>3. string' \in [1..Len(string) -> StringRecord]
      BY <1>2, <2>1, <2>2
    <2> QED BY <2>1, <2>3, SeqDef
  <1>6. Len(environ') = 0 /\ environ' \in Seq(Nat)
    BY <1>2, EmptySeq
  <1>7. EnvTyped'
    <2>1. torn' \in BOOLEAN /\ wild' = FALSE
      BY <1>1, <1>4
    <2>2. expected' \in [Name -> Nat] /\ size' \in Nat
      BY <1>1, <1>2 DEF EnvTyped
    <2>3. environ' = <<>> /\ owned' = <<>>
      BY <1>2
    <2>4. \A i \in 1..Len(environ') : FALSE
      BY <1>6
    <2> QED BY <1>5, <1>6, <2>1, <2>2, <2>3, <2>4 DEF EnvTyped
  <1>8. EnvFine'
    BY <1>2, <1>6 DEF EnvFine
  <1> QED BY <1>7, <1>8 DEF EnvInv

LEMMA EnvInvariantSound ==
    ASSUME EnvInv
    PROVE  EnvSound
  <1>1. EnvTyped /\ DOMAIN environ = 1..Len(environ) /\ Len(environ) \in Nat
    BY LenProperties DEF EnvInv, EnvTyped
  <1>2. ASSUME ~ torn, NEW n \in Name
        PROVE  LET i == Find(n)
               IN  expected[n] = (IF i = 0 THEN 0 ELSE string[environ[i]].value)
    <2>1. /\ Find(n) \in 0..Len(environ) /\ (Find(n) # 0 => NameAt(Find(n)) = n)
          /\ Find(n) = 0 => \A i \in 1..Len(environ) : NameAt(i) # n
      BY <1>1, FindIs
    <2>2. CASE Find(n) = 0
      BY <1>2, <2>1, <2>2 DEF EnvInv, EnvFine
    <2>3. CASE Find(n) # 0
      <3>1. Find(n) \in 1..Len(environ)
        BY <1>1, <2>1, <2>3
      <3> QED BY <1>2, <2>1, <2>3, <3>1 DEF EnvInv, EnvFine
    <2> QED BY <2>2, <2>3
  <1>3. ~ torn => EnvFine
    BY DEF EnvInv
  <1>4. ~ torn => \A i, j \in DOMAIN environ :
           i # j => string[environ[i]].name # string[environ[j]].name
    BY <1>1, <1>3 DEF EnvFine, NameAt
  <1>5. ~ torn => \A i \in DOMAIN environ :
           /\ ~ string[environ[i]].freed
           /\ Owns(i) => owned[i] = TRUE /\ string[environ[i]].by = "setenv"
    BY <1>1, <1>3 DEF EnvFine
  <1>6. ~ wild /\ (environ # <<>> => Len(environ) < size)
    BY <1>1 DEF EnvTyped
  <1> QED BY <1>2, <1>4, <1>5, <1>6 DEF EnvSound

\* In every reachable state getenv() finds what was last set, free() gets only
\* strings the library made, once, and the array has room for its NULL, however
\* often setenv(), putenv(), unsetenv() and clearenv() were called and failed:
\* _env_insert() keeps _string_allocated as long as the array.
THEOREM EnvCorrect ==
    ASSUME EnvAssumption
    PROVE  EnvSpec => []EnvSound
  <1>1. EnvInit => EnvInv
    BY EnvStart
  <1>2. ASSUME EnvInv, [EnvNext]_envVars PROVE EnvInv'
    <2>1. ASSUME NEW n \in Name, NEW v \in Lengths,
                 \/ SetInPlace(n, v) \/ SetNew(n, v) \/ SetNoMemory(n, v) \/ SetNoSlot(n, v)
                 \/ PutEnv(n, v)
          PROVE  EnvInv'
      BY <1>2, <2>1, SetInPlaceKeeps, SetNewKeeps, SetNoMemoryKeeps, NoSlotKeeps, PutEnvKeeps
    <2>2. ASSUME NEW n \in Name, PutNoSlot(n) \/ UnsetEnv(n) PROVE EnvInv'
      BY <1>2, <2>2, NoSlotKeeps, UnsetEnvKeeps
    <2>3. CASE ClearEnv
      BY <1>2, <2>3, ClearEnvKeeps
    <2>4. CASE UNCHANGED envVars
      BY <1>2, <2>4 DEF envVars, EnvInv, EnvTyped, EnvFine, Owns, NameAt, StringRecord
    <2> QED BY <1>2, <2>1, <2>2, <2>3, <2>4 DEF EnvNext
  <1>3. EnvInv => EnvSound
    BY EnvInvariantSound
  <1> QED BY <1>1, <1>2, <1>3, PTL DEF EnvSpec
-----------------------------------------------------------------------------
(* Files in memory.  Beyond what MemorySound says, over fixed memory the   *)
(* text is followed by a NUL if it is shorter than the memory and not      *)
(* empty, also when nothing was written yet.                               *)

MemoryTyped ==
    /\ kind \in Modes \cup {"memstream"} /\ memOpen \in BOOLEAN
    /\ buf \in Seq(Int)
    /\ len \in Nat /\ pos \in Nat
    /\ kind \in Modes => Len(buf) = MemSize

Terminated == kind \in Modes /\ 0 < len /\ len < MemSize => buf[len + 1] = 0

MemoryInv == MemoryTyped /\ Terminated /\ MemorySound

\* strnlen() of the caller's memory
LEMMA TextIs ==
    ASSUME MemoryAssumption, NEW s \in [1..MemSize -> Int], Len(s) = MemSize
    PROVE  Text(s) \in 0..MemSize /\ (Text(s) < MemSize => s[Text(s) + 1] = 0)
  <1> DEFINE zero == {i \in 1..Len(s) : s[i] = 0}
  <1>1. MemSize \in Nat
    BY DEF MemoryAssumption
  <1>2. CASE zero = {}
    BY <1>1, <1>2 DEF Text
  <1>3. CASE zero # {}
    <2>1. zero \in SUBSET Nat /\ zero \subseteq 1..MemSize
      BY <1>1
    <2>2. \E i \in zero : \A j \in zero : i <= j
      <3> HIDE DEF zero
      <3> QED BY <1>3, <2>1, LeastOf
    <2> DEFINE first == CHOOSE i \in zero : \A j \in zero : i <= j
    <2>3. first \in zero
      BY <2>2
    <2>4. Text(s) = first - 1
      BY <1>3 DEF Text
    <2>5. first \in 1..MemSize /\ s[first] = 0
      BY <2>1, <2>3
    <2> HIDE DEF first
    <2> QED BY <1>1, <2>4, <2>5
  <1> QED BY <1>2, <1>3

LEMMA MemoryStart ==
    ASSUME MemoryAssumption, MemoryInit
    PROVE  MemoryInv
  <1>0. /\ MemSize \in Nat \ {0} /\ Cap \in Nat \ {0} /\ Given \subseteq [1..MemSize -> Int]
        /\ published = 0 /\ put = <<>> /\ DOMAIN put = {} /\ memOpen = TRUE
    BY DEF MemoryAssumption, MemoryInit
  <1>1. CASE OpenMemstream
    <2>1. /\ kind = "memstream" /\ kind \notin Modes /\ len = 0 /\ pos = 0
          /\ buf = [i \in 1..Cap |-> 0]
      BY <1>1 DEF OpenMemstream, Zeros, Modes
    <2>2. buf \in Seq(Int) /\ Len(buf) = Cap /\ DOMAIN buf = 1..Cap
      BY <1>0, <2>1
    <2> QED BY <1>0, <2>1, <2>2 DEF MemoryInv, MemoryTyped, Terminated, MemorySound, Smaller
  <1>2. CASE Fmemopen
    <2>1. kind \in Modes /\ kind # "memstream"
      BY <1>2 DEF Fmemopen, Modes
    <2>2. buf \in [1..MemSize -> Int] /\ (kind = "w+" => buf[1] = 0)
      <3>1. PICK given \in Given : buf = IF kind = "w+" THEN [given EXCEPT ![1] = 0] ELSE given
        BY <1>2 DEF Fmemopen
      <3> QED BY <1>0, <3>1
    <2>3. buf \in Seq(Int) /\ Len(buf) = MemSize /\ DOMAIN buf = 1..MemSize
      BY <1>0, <2>2, SeqDef, LenProperties
    <2>4. len \in 0..MemSize /\ (0 < len /\ len < MemSize => buf[len + 1] = 0)
      <3>1. CASE kind \in {"r", "r+"}
        BY <1>0, <1>2, <3>1 DEF Fmemopen
      <3>2. CASE kind \in {"w", "w+"}
        BY <1>0, <1>2, <3>2 DEF Fmemopen
      <3>3. CASE kind \in {"a", "a+"}
        <4>1. len = Text(buf)
          BY <1>2, <3>3 DEF Fmemopen
        <4> QED BY <2>2, <2>3, <4>1, TextIs
      <3> QED BY <2>1, <3>1, <3>2, <3>3 DEF Modes
    <2>5. pos \in Nat /\ pos <= MemSize
      BY <1>0, <1>2, <2>4 DEF Fmemopen
    <2> QED BY <1>0, <2>1, <2>3, <2>4, <2>5
            DEF MemoryInv, MemoryTyped, Terminated, MemorySound
  <1> QED BY <1>1, <1>2 DEF MemoryInit

\* A text laid over memory with room for it
LEMMA OverlayIs ==
    ASSUME NEW s \in Seq(Int), NEW at \in Nat, NEW text \in Seq(Int)
    PROVE  /\ MemOverlay(s, at, text) \in Seq(Int) /\ Len(MemOverlay(s, at, text)) = Len(s)
           /\ \A i \in 1..Len(s) :
                 MemOverlay(s, at, text)[i]
                    = IF i \in at+1..at+Len(text) THEN text[i - at] ELSE s[i]
  <1>1. /\ Len(s) \in Nat /\ Len(text) \in Nat
        /\ \A i \in 1..Len(s) : s[i] \in Int
        /\ \A i \in 1..Len(text) : text[i] \in Int
    BY LenProperties
  <1>2. ASSUME NEW i \in 1..Len(s)
        PROVE  /\ (i > at /\ i <= at + Len(text)) <=> i \in at+1..at+Len(text)
               /\ i \in at+1..at+Len(text) => text[i - at] \in Int
    BY <1>1
  <1>3. \A i \in 1..Len(s) :
           (IF i > at /\ i <= at + Len(text) THEN text[i - at] ELSE s[i]) \in Int
    BY <1>1, <1>2
  <1>4. MemOverlay(s, at, text) \in [1..Len(s) -> Int]
    BY <1>3 DEF MemOverlay
  <1>5. MemOverlay(s, at, text) \in Seq(Int) /\ Len(MemOverlay(s, at, text)) = Len(s)
    <2> DEFINE o == MemOverlay(s, at, text)
    <2>1. o \in [1..Len(s) -> Int]
      BY <1>4
    <2> HIDE DEF o
    <2>2. o \in Seq(Int)
      BY <1>1, <2>1, SeqDef
    <2>3. DOMAIN o = 1..Len(s) /\ DOMAIN o = 1..Len(o) /\ Len(o) \in Nat
      BY <2>1, <2>2, LenProperties
    <2>4. Len(o) = Len(s)
      BY <1>1, <2>3
    <2> QED BY <2>2, <2>4 DEF o
  <1>6. \A i \in 1..Len(s) :
           MemOverlay(s, at, text)[i]
              = IF i \in at+1..at+Len(text) THEN text[i - at] ELSE s[i]
    BY <1>2 DEF MemOverlay
  <1> QED BY <1>5, <1>6
\* What realloc() adds is cleared, and there is room for the NUL after the text
LEMMA GrownBufIs ==
    ASSUME buf \in Seq(Int), NEW end \in Nat
    PROVE  LET grown == GrownBuf(Room(end))
           IN  /\ grown \in Seq(Int) /\ Len(grown) = Room(end)
               /\ Room(end) \in Nat /\ end < Room(end) /\ Len(buf) <= Room(end)
               /\ \A i \in 1..Room(end) : grown[i] = IF i <= Len(buf) THEN buf[i] ELSE 0
  <1>1. Len(buf) \in Nat
    BY LenProperties
  <1>2. Room(end) \in Nat /\ end < Room(end) /\ Len(buf) <= Room(end)
    BY <1>1 DEF Room
  <1> DEFINE n == Room(end) - Len(buf)  zeros == Zeros(n)
  <1>3. n \in Nat /\ Room(end) = Len(buf) + n
    BY <1>1, <1>2
  <1>4. zeros \in Seq(Int) /\ Len(zeros) = n /\ \A i \in 1..n : zeros[i] = 0
    <2> HIDE DEF n
    <2> QED BY <1>3 DEF Zeros
  <1>5. GrownBuf(Room(end)) = buf \o zeros
    BY DEF GrownBuf
  <1> HIDE DEF zeros, n
  <1>6. /\ buf \o zeros \in Seq(Int) /\ Len(buf \o zeros) = Len(buf) + n
        /\ \A i \in 1..(Len(buf) + n) :
              (buf \o zeros)[i] = IF i <= Len(buf) THEN buf[i] ELSE zeros[i - Len(buf)]
    BY <1>4, ConcatProperties
  <1>7. ASSUME NEW i \in 1..Room(end)
        PROVE  (buf \o zeros)[i] = IF i <= Len(buf) THEN buf[i] ELSE 0
    <2>1. CASE i <= Len(buf)
      BY <1>3, <1>6, <2>1
    <2>2. CASE ~ (i <= Len(buf))
      <3>1. i - Len(buf) \in 1..n
        BY <1>1, <1>3, <2>2
      <3> QED BY <1>3, <1>4, <1>6, <2>2, <3>1
    <2> QED BY <2>1, <2>2
  <1> QED BY <1>2, <1>3, <1>5, <1>6, <1>7

LEMMA WriteKeeps ==
    ASSUME MemoryAssumption, MemoryInv, NEW text \in MemTexts, Write(text)
    PROVE  MemoryInv'
  <1> DEFINE end == pos + Len(text)  grown == GrownBuf(Room(end))
             new == pos+1..pos+Len(text)
  <1>1. /\ kind = "memstream" /\ kind' = kind /\ kind \notin Modes
        /\ memOpen = TRUE /\ memOpen' = TRUE
    BY DEF Write, MemoryInv, MemoryTyped, Modes
  <1>2. text \in Seq(Int) /\ Len(text) \in Nat /\ pos \in Nat /\ len \in Nat /\ end \in Nat
    BY LenProperties DEF MemoryAssumption, MemoryInv, MemoryTyped
  <1>3. /\ buf \in Seq(Int) /\ Len(buf) \in Nat /\ DOMAIN buf = 1..Len(buf)
        /\ DOMAIN put \subseteq 1..len /\ len < Len(buf)
        /\ \A i \in 1..Len(buf) : buf[i] = (IF i \in DOMAIN put THEN put[i] ELSE 0)
    BY <1>1, LenProperties DEF MemoryInv, MemoryTyped, MemorySound
  <1>4. /\ grown \in Seq(Int) /\ Len(grown) = Room(end)
        /\ Room(end) \in Nat /\ end < Room(end) /\ Len(buf) <= Room(end)
        /\ \A i \in 1..Room(end) : grown[i] = IF i <= Len(buf) THEN buf[i] ELSE 0
    BY <1>2, <1>3, GrownBufIs
  <1>5. /\ buf' = MemOverlay(grown, pos, text) /\ pos' = end
        /\ len' = (IF end > len THEN end ELSE len)
        /\ published' = Smaller(end, len')
    BY DEF Write, Publish
  <1>6. /\ DOMAIN put' = DOMAIN put \cup new
        /\ \A i \in DOMAIN put' : put'[i] = IF i \in new THEN text[i - pos] ELSE put[i]
    BY DEF Write, Wrote
  <1> HIDE DEF grown
  <1>7. /\ buf' \in Seq(Int) /\ Len(buf') = Room(end) /\ DOMAIN buf' = 1..Room(end)
        /\ \A i \in 1..Room(end) : buf'[i] = IF i \in new THEN text[i - pos] ELSE grown[i]
    BY <1>2, <1>4, <1>5, OverlayIs, LenProperties
  <1>8. len' \in Nat /\ len <= len' /\ end <= len' /\ len' < Room(end)
    BY <1>2, <1>3, <1>4, <1>5
  <1>9. DOMAIN put' \subseteq 1..len'
    BY <1>2, <1>3, <1>6, <1>8
  <1>10. ASSUME NEW i \in 1..Room(end)
         PROVE  buf'[i] = (IF i \in DOMAIN put' THEN put'[i] ELSE 0)
    <2>1. CASE i \in new
      BY <1>6, <1>7, <2>1
    <2>2. CASE i \notin new /\ i <= Len(buf)
      BY <1>3, <1>4, <1>6, <1>7, <2>2
    <2>3. CASE i \notin new /\ ~ (i <= Len(buf))
      <3>1. i \notin 1..len
        BY <1>2, <1>3, <1>4, <2>3
      <3>2. i \notin DOMAIN put'
        BY <1>3, <1>6, <2>3, <3>1
      <3> QED BY <1>4, <1>7, <2>3, <3>2
    <2> QED BY <2>1, <2>2, <2>3
  <1> HIDE DEF new
  <1>11. MemoryTyped'
    BY <1>1, <1>2, <1>5, <1>7, <1>8 DEF MemoryTyped, Modes
  <1>12. Terminated'
    BY <1>1 DEF Terminated, Modes
  <1>13. MemorySound'
    <2>1. pos' >= 0
      BY <1>2, <1>5
    <2>2. published' = Smaller(pos', len') /\ len' < Len(buf')
      BY <1>5, <1>7, <1>8
    <2>3. \A i \in DOMAIN buf' : buf'[i] = (IF i \in DOMAIN put' THEN put'[i] ELSE 0)
      BY <1>7, <1>10
    <2> QED BY <1>1, <1>9, <2>1, <2>2, <2>3 DEF MemorySound, Smaller, Modes
  <1> QED BY <1>11, <1>12, <1>13 DEF MemoryInv

LEMMA SeekKeeps ==
    ASSUME MemoryAssumption, MemoryInv, NEW o \in MemOffsets, NEW whence \in {"set", "cur", "end"},
           Seek(o, whence)
    PROVE  MemoryInv'
  <1>1. /\ UNCHANGED <<kind, buf, len, put, memOpen>> /\ memOpen = TRUE
        /\ pos' = MemTarget(o, whence) /\ pos' >= 0
        /\ kind \in Modes => pos' <= MemSize
        /\ kind = "memstream" => published' = Smaller(pos', len)
    BY DEF Seek, Publish, Modes, MemoryInv, MemoryTyped
  <1>2. o \in Int /\ pos \in Int /\ len \in Int /\ MemSize \in Nat
    BY DEF MemoryAssumption, MemoryInv, MemoryTyped
  <1>3. pos' \in Nat
    BY <1>1, <1>2 DEF MemTarget
  <1>4. MemoryTyped' /\ Terminated'
    BY <1>1, <1>3 DEF MemoryInv, MemoryTyped, Terminated, Modes
  <1>5. MemorySound'
    BY <1>1, <1>3 DEF MemoryInv, MemoryTyped, MemorySound, Modes, Smaller, MemReadable
  <1> QED BY <1>4, <1>5 DEF MemoryInv

LEMMA ReadKeeps ==
    ASSUME MemoryAssumption, MemoryInv, NEW n \in 1..2, Read(n)
    PROVE  MemoryInv'
  <1>1. /\ UNCHANGED <<kind, buf, len, published, put, memOpen>>
        /\ kind \in Modes /\ kind # "memstream"
        /\ pos' = IF pos >= len THEN pos ELSE pos + Smaller(n, len - pos)
    BY DEF Read, MemReadable, Modes
  <1>2. pos \in Nat /\ len \in Nat /\ MemSize \in Nat /\ len <= MemSize /\ pos <= MemSize
    BY <1>1 DEF MemoryAssumption, MemoryInv, MemoryTyped, MemorySound
  <1>3. pos' \in Nat /\ pos' <= MemSize
    BY <1>1, <1>2 DEF Smaller
  <1>4. MemoryTyped' /\ Terminated'
    BY <1>1, <1>3 DEF MemoryInv, MemoryTyped, Terminated, Modes
  <1>5. MemorySound'
    BY <1>1, <1>3 DEF MemoryInv, MemoryTyped, MemorySound, Modes, Smaller, MemReadable
  <1> QED BY <1>4, <1>5 DEF MemoryInv

LEMMA MemCloseKeeps ==
    ASSUME MemoryAssumption, MemoryInv, MemClose
    PROVE  MemoryInv'
  <1>1. /\ UNCHANGED <<kind, len, pos, put>> /\ memOpen = TRUE /\ memOpen' = FALSE
        /\ pos \in Nat /\ len \in Nat
    BY DEF MemClose, MemoryInv, MemoryTyped
  <1>2. CASE kind = "memstream"
    <2>1. /\ kind \notin Modes /\ published' = Smaller(pos, len)
          /\ buf' = [buf EXCEPT ![published' + 1] = 0]
      BY <1>2 DEF MemClose, Publish, Modes
    <2>2. /\ buf \in Seq(Int) /\ Len(buf) \in Nat /\ DOMAIN buf = 1..Len(buf)
          /\ DOMAIN put \subseteq 1..len /\ len < Len(buf)
          /\ \A i \in 1..Len(buf) : buf[i] = (IF i \in DOMAIN put THEN put[i] ELSE 0)
      BY <1>1, <1>2, LenProperties DEF MemoryInv, MemoryTyped, MemorySound
    <2>3. published' + 1 \in 1..Len(buf) /\ published' \in Nat
      BY <1>1, <2>1, <2>2 DEF Smaller
    <2>4. /\ buf' \in Seq(Int) /\ Len(buf') = Len(buf) /\ DOMAIN buf' = 1..Len(buf)
          /\ buf'[published' + 1] = 0
          /\ \A i \in 1..Len(buf) : i # published' + 1 => buf'[i] = buf[i]
      <3>1. PICK z : z = published' + 1
        OBVIOUS
      <3>2. z \in 1..Len(buf) /\ buf' = [buf EXCEPT ![z] = 0]
        BY <2>1, <2>3, <3>1
      <3>3. /\ buf' \in Seq(Int) /\ Len(buf') = Len(buf) /\ buf'[z] = 0
            /\ \A i \in 1..Len(buf) : i # z => buf'[i] = buf[i]
        BY <2>2, <3>2, ExceptSeq
      <3>4. DOMAIN buf' = 1..Len(buf)
        BY <3>3, LenProperties
      <3> QED BY <3>1, <3>3, <3>4
    <2>5. \A i \in DOMAIN buf' : \/ buf'[i] = (IF i \in DOMAIN put THEN put[i] ELSE 0)
                                 \/ i > published'
      <3>1. ASSUME NEW i \in 1..Len(buf)
            PROVE  \/ buf'[i] = (IF i \in DOMAIN put THEN put[i] ELSE 0)
                   \/ i > published'
        <4>1. CASE i = published' + 1
          <5>1. PICK p \in Nat : p = published'
            BY <2>3
          <5>2. i = p + 1
            BY <4>1, <5>1
          <5>3. i > p
            BY <5>2
          <5> QED BY <5>1, <5>3
        <4>2. CASE i # published' + 1
          BY <2>2, <2>4, <4>2
        <4> QED BY <4>1, <4>2
      <3> QED BY <2>4, <3>1
    <2>6. MemoryTyped' /\ Terminated'
      BY <1>1, <1>2, <2>1, <2>4 DEF MemoryTyped, Terminated, Modes
    <2>7. MemorySound'
      BY <1>1, <1>2, <2>1, <2>2, <2>4, <2>5 DEF MemorySound, Modes, Smaller
    <2> QED BY <2>6, <2>7 DEF MemoryInv
  <1>3. CASE kind # "memstream"
    <2>1. UNCHANGED <<published, buf>>
      BY <1>3 DEF MemClose
    <2> QED BY <1>1, <1>3, <2>1
            DEF MemoryInv, MemoryTyped, Terminated, MemorySound, Modes, MemReadable
  <1> QED BY <1>2, <1>3
\* What is laid over the memory, and the NUL after it or in its last byte
LEMMA FmemWriteKeeps ==
    ASSUME MemoryAssumption, MemoryInv, NEW text \in MemTexts, FmemWrite(text)
    PROVE  MemoryInv'
  <1> DEFINE from == IF Appends THEN len ELSE pos
             n == Smaller(Len(text), IF from < MemSize THEN MemSize - from ELSE 0)
             to == from + n
             part == SubSeq(text, 1, n)
             stored == MemOverlay(buf, from, part)
             longer == n > 0 /\ to > len
             new == from+1..from+Len(part)
  <1>1. /\ kind \in Modes /\ kind # "memstream" /\ kind' = kind
        /\ memOpen' = memOpen /\ memOpen \in BOOLEAN
        /\ (MemReadable' <=> MemReadable)
    BY DEF FmemWrite, Modes, MemoryInv, MemoryTyped, MemReadable
  <1>2. /\ text \in Seq(Int) /\ Len(text) \in Nat /\ MemSize \in Nat
        /\ len \in Nat /\ pos \in Nat /\ len <= MemSize /\ pos <= MemSize
        /\ buf \in Seq(Int) /\ Len(buf) = MemSize /\ DOMAIN buf = 1..MemSize
        /\ DOMAIN put \subseteq 1..len
    BY <1>1, LenProperties DEF MemoryAssumption, MemoryInv, MemoryTyped, MemorySound
  <1>3. \A i \in DOMAIN put : buf[i] = put[i] \/ (i = MemSize /\ ~ MemReadable /\ buf[i] = 0)
    BY <1>1 DEF MemoryInv, MemorySound
  <1>4. 0 < len /\ len < MemSize => buf[len + 1] = 0
    BY <1>1 DEF MemoryInv, Terminated
  <1>5. from \in 0..MemSize /\ n \in 0..Len(text) /\ to \in 0..MemSize
    <2>1. from \in 0..MemSize
      BY <1>2
    <2> HIDE DEF from
    <2>2. n \in 0..Len(text) /\ from + n \in 0..MemSize
      BY <1>2, <2>1 DEF Smaller
    <2> QED BY <2>1, <2>2
  <1>6. part \in Seq(Int) /\ Len(part) = n
    <2> HIDE DEF n
    <2>1. PICK n0 \in Int : n0 = n
      BY <1>5
    <2>2. SubSeq(text, 1, n0) \in Seq(Int) /\ Len(SubSeq(text, 1, n0)) = n0
      BY <1>2, <1>5, <2>1, SubSeqProperties
    <2> QED BY <2>1, <2>2
  <1> HIDE DEF part
  <1>7. /\ stored \in Seq(Int) /\ Len(stored) = MemSize
        /\ \A i \in 1..MemSize : stored[i] = IF i \in new THEN part[i - from] ELSE buf[i]
    <2> HIDE DEF from, n
    <2>1. from \in Nat
      BY <1>5
    <2> QED BY <1>2, <1>6, <2>1, OverlayIs
  <1>8. /\ pos' = to /\ len' = (IF longer THEN to ELSE len) /\ published' = published
        /\ buf' = CASE longer /\ to < MemSize -> [stored EXCEPT ![to + 1] = 0]
                    [] longer /\ to = MemSize /\ ~ MemReadable -> [stored EXCEPT ![MemSize] = 0]
                    [] OTHER -> stored
    BY DEF FmemWrite, part
  <1>9. /\ DOMAIN put' = DOMAIN put \cup new
        /\ \A i \in DOMAIN put' : put'[i] = IF i \in new THEN part[i - from] ELSE put[i]
    BY DEF FmemWrite, Wrote, part
  <1> HIDE DEF stored
  <1>10. PICK at : /\ at = IF Appends THEN len ELSE pos
                   /\ at = from
    OBVIOUS
  <1>11. new = at+1..at+n
    BY <1>6, <1>10
  <1> HIDE DEF new, from, n
  <1>12. /\ at \in 0..MemSize /\ n \in Nat /\ to = at + n /\ to \in 0..MemSize
    BY <1>5, <1>10
  <1> HIDE DEF to
  <1>13. len' \in Nat /\ len <= len' /\ len' <= MemSize /\ (n > 0 => to <= len')
    BY <1>2, <1>8, <1>12
  <1>14. DOMAIN put' \subseteq 1..len'
    <2>1. new \subseteq 1..len'
      BY <1>11, <1>12, <1>13
    <2> QED BY SMTT(30), <1>2, <1>9, <1>13, <2>1
  \* The text as it was laid, before the NUL
  <1>15. \A i \in DOMAIN put' :
            stored[i] = put'[i] \/ (i = MemSize /\ ~ MemReadable /\ stored[i] = 0)
    <2>1. ASSUME NEW i \in DOMAIN put'
          PROVE  stored[i] = put'[i] \/ (i = MemSize /\ ~ MemReadable /\ stored[i] = 0)
      <3>1. i \in 1..MemSize
        BY <1>2, <1>13, <1>14
      <3>2. CASE i \in new
        BY <1>7, <1>9, <3>1, <3>2
      <3>3. CASE i \notin new
        <4>1. i \in DOMAIN put /\ put'[i] = put[i] /\ stored[i] = buf[i]
          BY <1>7, <1>9, <3>1, <3>3
        <4> QED BY <1>3, <4>1
      <3> QED BY <3>2, <3>3
    <2> QED BY <2>1
  <1>16. /\ buf' \in Seq(Int) /\ Len(buf') = MemSize
         /\ \A i \in DOMAIN put' : buf'[i] = put'[i] \/ (i = MemSize /\ ~ MemReadable /\ buf'[i] = 0)
         /\ 0 < len' /\ len' < MemSize => buf'[len' + 1] = 0
    <2>1. CASE longer /\ to < MemSize
      <3>1. buf' = [stored EXCEPT ![to + 1] = 0] /\ len' = to /\ to + 1 \in 1..MemSize
        BY <1>8, <1>12, <2>1
      <3>2. /\ buf' \in Seq(Int) /\ Len(buf') = MemSize /\ buf'[to + 1] = 0
            /\ \A i \in 1..MemSize : i # to + 1 => buf'[i] = stored[i]
        <4>1. PICK z : z = to + 1
          OBVIOUS
        <4> QED BY <1>7, <3>1, <4>1, ExceptSeq
      <3>3. \A i \in DOMAIN put' : i \in 1..MemSize /\ i # to + 1
        BY <1>2, <1>12, <1>13, <1>14, <3>1
      <3> QED BY <1>15, <3>1, <3>2, <3>3
    <2>2. CASE longer /\ to = MemSize /\ ~ MemReadable
      <3>1. buf' = [stored EXCEPT ![MemSize] = 0] /\ len' = MemSize /\ MemSize \in 1..MemSize
        BY <1>2, <1>8, <1>12, <2>2
      <3>2. /\ buf' \in Seq(Int) /\ Len(buf') = MemSize /\ buf'[MemSize] = 0
            /\ \A i \in 1..MemSize : i # MemSize => buf'[i] = stored[i]
        BY <1>7, <3>1, ExceptSeq
      <3>3. \A i \in DOMAIN put' : i \in 1..MemSize
        BY <1>2, <1>14, <3>1
      <3> QED BY <1>2, <1>15, <2>2, <3>1, <3>2, <3>3
    <2>3. CASE ~ (longer /\ to < MemSize) /\ ~ (longer /\ to = MemSize /\ ~ MemReadable)
      <3>1. buf' = stored
        BY <1>8, <2>3
      <3>2. CASE longer
        <4>1. len' = MemSize
          BY <1>2, <1>8, <1>12, <2>3, <3>2
        <4> QED BY <1>2, <1>7, <1>15, <3>1, <4>1
      <3>3. CASE ~ longer
        <4>1. len' = len
          BY <1>8, <3>3
        <4>2. ASSUME 0 < len, len < MemSize PROVE stored[len + 1] = 0
          <5>1. len + 1 \in 1..MemSize
            BY <1>2, <4>2
          <5>2. len + 1 \notin new
            BY <1>2, <1>11, <1>12, <3>3
          <5> QED BY <1>4, <1>7, <4>2, <5>1, <5>2
        <4> QED BY <1>7, <1>15, <3>1, <4>1, <4>2
      <3> QED BY <3>2, <3>3
    <2> QED BY <2>1, <2>2, <2>3
  <1>17. MemoryTyped'
    BY <1>1, <1>8, <1>12, <1>13, <1>16 DEF MemoryTyped, Modes
  <1>18. Terminated'
    BY <1>16 DEF Terminated
  <1>19. MemorySound'
    <2>1. pos' >= 0 /\ pos' <= MemSize
      BY <1>2, <1>8, <1>12
    <2>2. DOMAIN put' # {} /\ len' < MemSize => buf'[len' + 1] = 0
      <3>1. DOMAIN put' # {} => 0 < len'
        BY <1>13, <1>14
      <3> QED BY <1>16, <3>1
    <2> QED BY <1>1, <1>13, <1>14, <1>16, <2>1, <2>2 DEF MemorySound, Modes
  <1> QED BY <1>17, <1>18, <1>19 DEF MemoryInv

\* In every reachable state of a file in memory what was written is where it was
\* put, memstream_ensure() has cleared what it added, a NUL follows the text where
\* there is room for one, and *sizep is the length up to the position.
THEOREM MemoryCorrect ==
    ASSUME MemoryAssumption
    PROVE  MemorySpec => []MemorySound
  <1>1. MemoryInit => MemoryInv
    BY MemoryStart
  <1>2. ASSUME MemoryInv, [MemoryNext]_memoryVars PROVE MemoryInv'
    <2>1. CASE UNCHANGED memoryVars
      BY <1>2, <2>1 DEF memoryVars, MemoryInv, MemoryTyped, Terminated, MemorySound, Modes, MemReadable
    <2>2. ASSUME NEW text \in MemTexts, Write(text) \/ WriteFails(text) \/ FmemWrite(text)
          PROVE  MemoryInv'
      <3>1. CASE WriteFails(text)
        BY <2>1, <3>1 DEF WriteFails
      <3> QED BY <1>2, <2>2, <3>1, WriteKeeps, FmemWriteKeeps
    <2>3. ASSUME NEW o \in MemOffsets, NEW whence \in {"set", "cur", "end"}, Seek(o, whence)
          PROVE  MemoryInv'
      BY <1>2, <2>3, SeekKeeps
    <2>4. ASSUME NEW n \in 1..2, Read(n) PROVE MemoryInv'
      BY <1>2, <2>4, ReadKeeps
    <2>5. CASE MemClose
      BY <1>2, <2>5, MemCloseKeeps
    <2> QED BY <1>2, <2>1, <2>2, <2>3, <2>4, <2>5 DEF MemoryNext
  <1>3. MemoryInv => MemorySound
    BY DEF MemoryInv
  <1> QED BY <1>1, <1>2, <1>3, PTL DEF MemorySpec
-----------------------------------------------------------------------------
(* The list of streams.  A FILE has one user between its creation and its  *)
(* release but for the walk of fflush(NULL), which holds the list's lock   *)
(* and is at a FILE of the list, and for the holder of the FILE's lock,    *)
(* for whom the last flush of fclose() waits.                              *)

Exclusive == {"add", "flush", "close", "release", "reopen", "drop", "hold"}
StreamTasks ==
    {task \in [op : {"fopen", "fclose", "freopen", "fflush", "hold"},
               at : Exclusive \cup {"walk"}, f : Object] :
        /\ task.op = "fflush" <=> task.at = "walk"
        /\ task.at \in {"reopen", "drop"} => task.op = "freopen"}

StreamsTyped ==
    /\ list \in Seq(Object) /\ IsInjective(list)
    /\ listLock \in StreamThreads \cup {Nobody}
    /\ lock \in [Object -> StreamThreads \cup {Nobody}]
    /\ mem \in [Object -> {"none", "alive", "freed"}]
    /\ fd \in [Object -> {NoFd} \cup {<<d>> : d \in Std \cup Descriptor}]
    /\ streamTask \in [StreamThreads -> StreamTasks \cup {Idle}]
    /\ misused = FALSE

StreamLocks ==
    /\ \A t \in StreamThreads : listLock = t <=> streamTask[t].at = "walk"
    /\ \A t \in StreamThreads, f \in Object :
          lock[f] = t <=> streamTask[t].at = "hold" /\ Of(t) = f

Listed == \A t \in StreamThreads :
    /\ streamTask[t].at \in {"reopen", "drop", "walk"} => Of(t) \in ToSet(list)
    /\ streamTask[t].at \in {"add", "flush", "close", "release"} => Of(t) \notin ToSet(list)
    /\ streamTask[t].at = "hold" =>
          \/ Of(t) \in ToSet(list)
          \/ \E u \in StreamThreads : streamTask[u].at = "flush" /\ Of(u) = Of(t)

Apart == \A t, u \in StreamThreads :
    t # u /\ streamTask[t].at \in Exclusive /\ streamTask[u].at \in Exclusive /\ Of(t) = Of(u)
       => {streamTask[t].at, streamTask[u].at} = {"hold", "flush"}

Living ==
    /\ Std \cup ToSet(list) \subseteq {f \in Object : mem[f] = "alive"}
    /\ \A t \in StreamThreads : streamTask[t] # Idle =>
          /\ mem[Of(t)] = "alive"
          /\ streamTask[t].at = "add" => Of(t) \notin Std
    /\ \A f \in Object : mem[f] = "alive" =>
          \/ f \in Std \cup ToSet(list)
          \/ \E t \in StreamThreads :
                streamTask[t].at \in {"add", "flush", "close", "release"} /\ Of(t) = f

\* The FILEs that have a descriptor, each its own
Connected(f) ==
    \/ /\ f \in ToSet(list)
       /\ \A t \in StreamThreads : streamTask[t].at = "drop" => Of(t) # f
    \/ \E t \in StreamThreads : streamTask[t].at \in {"add", "flush", "close"} /\ Of(t) = f

Connections ==
    /\ \A f \in Object : Connected(f) => fd[f] \in openFds
    /\ \A f, g \in Object : Connected(f) /\ Connected(g) /\ f # g => fd[f] # fd[g]
    /\ \A t \in StreamThreads : streamTask[t].at = "drop" => fd[Of(t)] = NoFd
    /\ \A f \in Std :
          \/ f \in ToSet(list)
          \/ fd[f] = NoFd
          \/ \E t \in StreamThreads :
                streamTask[t].at \in {"flush", "close", "release"} /\ Of(t) = f

StreamsInv == StreamsTyped /\ StreamLocks /\ Listed /\ Apart /\ Living /\ Connections

LEMMA ListOfStd ==
    ASSUME StreamsAssumption
    PROVE  LET std == SetToSeq(Std)
           IN  std \in Seq(Object) /\ IsInjective(std) /\ ToSet(std) = Std
  <1> DEFINE n == Cardinality(Std)  std == SetToSeq(Std)
  <1>1. n \in Nat /\ ExistsBijection(1..n, Std)
    BY FS_CardinalityType DEF StreamsAssumption
  <1>2. PICK b \in [1..n -> Std] : IsInjective(b)
    BY <1>1 DEF ExistsBijection, Bijection, Injection
  <1>3. std \in [1..n -> Std] /\ IsInjective(std)
    BY <1>2 DEF SetToSeq
  <1> HIDE DEF std, n
  <1>4. ToSet(std) \subseteq Std
    BY <1>3 DEF ToSet
  <1>5. Std \subseteq ToSet(std)
    <2> SUFFICES ASSUME NEW x \in Std, x \notin ToSet(std) PROVE FALSE
      OBVIOUS
    <2> DEFINE T == Std \ {x}
    <2>1. IsFiniteSet(Std) /\ IsFiniteSet(T) /\ Cardinality(T) = n - 1
      BY FS_RemoveElement DEF StreamsAssumption, n
    <2>2. std \in [1..n -> T]
      BY <1>3 DEF ToSet
    <2>3. IsFiniteSet(1..n) /\ Cardinality(1..n) = n
      BY <1>1, FS_Interval
    <2>4. PICK i, j \in 1..n : i # j /\ std[i] = std[j]
      <3> HIDE DEF T
      <3>1. Cardinality(T) < Cardinality(1..n)
        BY <1>1, <2>1, <2>3
      <3> QED BY <2>1, <2>2, <2>3, <3>1, FS_PigeonHole
    <2> QED BY <1>3, <2>4 DEF IsInjective
  <1>6. std \in Seq(Object)
    BY <1>1, <1>3, SeqDef DEF StreamsAssumption
  <1> QED BY <1>3, <1>4, <1>5, <1>6 DEF std

LEMMA OffIs ==
    ASSUME list \in Seq(Object), IsInjective(list), NEW f
    PROVE  /\ Off(f) \in Seq(Object) /\ IsInjective(Off(f))
           /\ ToSet(Off(f)) = ToSet(list) \ {f}
  <1>1. /\ Len(list) \in Nat /\ DOMAIN list = 1..Len(list)
        /\ \A i \in 1..Len(list) : list[i] \in Object
    BY LenProperties
  <1>2. CASE ~ Contains(list, f)
    BY <1>1, <1>2 DEF Off, Contains, ToSet
  <1>3. CASE Contains(list, f)
    <2>1. PICK k \in 1..Len(list) : k = Place(f) /\ list[k] = f
      BY <1>1, <1>3 DEF Contains, Place
    <2> DEFINE a == SubSeq(list, 1, k - 1)  b == SubSeq(list, k + 1, Len(list))
    <2>2. k - 1 \in Int /\ k + 1 \in Int /\ Len(list) \in Int
      BY <1>1
    <2>3. a \in Seq(Object) /\ Len(a) = k - 1 /\ \A i \in 1..(k - 1) : a[i] = list[i]
      <3>1. \A i \in 1..(k - 1) : list[i] \in Object
        BY <1>1
      <3>2. /\ a \in Seq(Object)
            /\ Len(a) = IF 1 <= k - 1 THEN (k - 1) - 1 + 1 ELSE 0
            /\ \A i \in 1..((k - 1) - 1 + 1) : a[i] = list[1 + i - 1]
        BY <2>2, <3>1, SubSeqProperties
      <3> QED BY <3>2
    <2>4. /\ b \in Seq(Object) /\ Len(b) = Len(list) - k
          /\ \A i \in 1..(Len(list) - k) : b[i] = list[i + k]
      <3>1. \A i \in (k + 1)..Len(list) : list[i] \in Object
        BY <1>1
      <3>2. /\ b \in Seq(Object)
            /\ Len(b) = IF k + 1 <= Len(list) THEN Len(list) - (k + 1) + 1 ELSE 0
            /\ \A i \in 1..(Len(list) - (k + 1) + 1) : b[i] = list[(k + 1) + i - 1]
        BY <2>2, <3>1, SubSeqProperties
      <3> HIDE DEF b
      <3>3. Len(b) = Len(list) - k /\ Len(list) - (k + 1) + 1 = Len(list) - k
        <4>1. PICK n : n = Len(list)
          OBVIOUS
        <4>2. n \in Nat /\ k \in 1..n
          BY <1>1, <4>1
        <4>3. n - (k + 1) + 1 = n - k /\ (k + 1 <= n \/ n - k = 0)
          BY <4>2
        <4>4. Len(b) = IF k + 1 <= n THEN n - (k + 1) + 1 ELSE 0
          BY <3>2, <4>1
        <4> QED BY <4>1, <4>3, <4>4
      <3>4. ASSUME NEW i \in 1..(Len(list) - k) PROVE b[i] = list[i + k]
        <4>1. (k + 1) + i - 1 = i + k
          BY <1>1
        <4> QED BY <3>2, <3>3, <4>1
      <3> QED BY <3>2, <3>3, <3>4
    <2>5. Off(f) = a \o b
      BY <1>3, <2>1 DEF Off, RemoveAt
    <2> HIDE DEF a, b
    <2>6. /\ a \o b \in Seq(Object) /\ Len(a \o b) = Len(list) - 1
          /\ DOMAIN (a \o b) = 1..(Len(list) - 1)
          /\ \A i \in 1..(Len(list) - 1) :
                (a \o b)[i] = IF i <= k - 1 THEN a[i] ELSE b[i - (k - 1)]
      <3>1. /\ a \o b \in Seq(Object) /\ Len(a \o b) = Len(a) + Len(b)
            /\ \A i \in 1..(Len(a) + Len(b)) :
                  (a \o b)[i] = IF i <= Len(a) THEN a[i] ELSE b[i - Len(a)]
        BY <2>3, <2>4, ConcatProperties
      <3>2. Len(a) + Len(b) = Len(list) - 1 /\ Len(a) = k - 1
        BY <1>1, <2>3, <2>4
      <3>3. DOMAIN (a \o b) = 1..Len(a \o b)
        BY <3>1, LenProperties
      <3> QED BY <3>1, <3>2, <3>3
    <2>7. \A i \in 1..(Len(list) - 1) :
             (a \o b)[i] = IF i < k THEN list[i] ELSE list[i + 1]
      <3>1. ASSUME NEW i \in 1..(Len(list) - 1), i < k PROVE (a \o b)[i] = list[i]
        <4>1. i \in 1..(k - 1) /\ i <= k - 1
          BY <1>1, <3>1
        <4> QED BY <2>3, <2>6, <4>1
      <3>2. ASSUME NEW i \in 1..(Len(list) - 1), ~ (i < k) PROVE (a \o b)[i] = list[i + 1]
        <4>1. /\ i - (k - 1) \in 1..(Len(list) - k) /\ (i - (k - 1)) + k = i + 1
              /\ ~ (i <= k - 1)
          BY <1>1, <3>2
        <4>2. (a \o b)[i] = b[i - (k - 1)]
          BY <2>6, <4>1
        <4> QED BY <2>4, <4>1, <4>2
      <3> QED BY <3>1, <3>2
    <2>8. IsInjective(a \o b)
      <3> SUFFICES ASSUME NEW i \in 1..(Len(list) - 1), NEW j \in 1..(Len(list) - 1),
                          (a \o b)[i] = (a \o b)[j]
                   PROVE  i = j
        BY <2>6 DEF IsInjective
      <3> DEFINE p == IF i < k THEN i ELSE i + 1  q == IF j < k THEN j ELSE j + 1
      <3>1. p \in 1..Len(list) /\ q \in 1..Len(list)
        BY <1>1
      <3>2. list[p] = list[q]
        BY <2>7
      <3>3. p = q
        <4> HIDE DEF p, q
        <4> QED BY <1>1, <3>1, <3>2 DEF IsInjective
      <3> QED BY <1>1, <3>3
    <2>9. ToSet(a \o b) \subseteq ToSet(list) \ {f}
      <3> SUFFICES ASSUME NEW i \in 1..(Len(list) - 1)
                   PROVE  (a \o b)[i] \in ToSet(list) \ {f}
        BY <2>6 DEF ToSet
      <3>1. CASE i < k
        <4>1. i \in 1..Len(list) /\ i # k
          BY <1>1, <3>1
        <4>2. (a \o b)[i] = list[i]
          BY <2>7, <3>1
        <4> QED BY <1>1, <2>1, <4>1, <4>2 DEF ToSet, IsInjective
      <3>2. CASE ~ (i < k)
        <4>1. i + 1 \in 1..Len(list) /\ i + 1 # k
          BY <1>1, <3>2
        <4>2. (a \o b)[i] = list[i + 1]
          BY <2>7, <3>2
        <4> QED BY <1>1, <2>1, <4>1, <4>2 DEF ToSet, IsInjective
      <3> QED BY <3>1, <3>2
    <2>10. ToSet(list) \ {f} \subseteq ToSet(a \o b)
      <3> SUFFICES ASSUME NEW i \in 1..Len(list), list[i] # f
                   PROVE  list[i] \in ToSet(a \o b)
        BY <1>1 DEF ToSet
      <3>1. i # k
        BY <2>1
      <3>2. PICK j \in 1..(Len(list) - 1) : i = IF j < k THEN j ELSE j + 1
        <4>1. CASE i < k
          <5>1. i \in 1..(Len(list) - 1)
            BY <1>1, <4>1
          <5> QED BY <4>1, <5>1
        <4>2. CASE ~ (i < k)
          <5>1. i - 1 \in 1..(Len(list) - 1) /\ ~ (i - 1 < k) /\ i = (i - 1) + 1
            BY <1>1, <3>1, <4>2
          <5> QED BY <5>1
        <4> QED BY <4>1, <4>2
      <3>3. (a \o b)[j] = list[i]
        BY <2>7, <3>2
      <3> QED BY <2>6, <3>3 DEF ToSet
    <2> QED BY <2>5, <2>6, <2>8, <2>9, <2>10
  <1> QED BY <1>2, <1>3

LEMMA AppendIs ==
    ASSUME list \in Seq(Object), IsInjective(list), NEW f \in Object, f \notin ToSet(list)
    PROVE  /\ Append(list, f) \in Seq(Object) /\ IsInjective(Append(list, f))
           /\ ToSet(Append(list, f)) = ToSet(list) \cup {f}
  <1> DEFINE n == Len(list)  new == Append(list, f)
  <1>1. n \in Nat /\ DOMAIN list = 1..n
    BY LenProperties
  <1>2. /\ new \in Seq(Object) /\ Len(new) = n + 1
        /\ \A i \in 1..n : new[i] = list[i]
        /\ new[n + 1] = f
    BY AppendProperties
  <1>3. DOMAIN new = 1..(n + 1)
    BY <1>2, LenProperties
  <1> HIDE DEF new, n
  <1>4. IsInjective(new)
    BY <1>1, <1>2, <1>3 DEF IsInjective, ToSet
  <1>5. ToSet(new) = ToSet(list) \cup {f}
    BY <1>1, <1>2, <1>3 DEF ToSet
  <1> QED BY <1>2, <1>4, <1>5 DEF new
LEMMA StreamsStart ==
    ASSUME StreamsAssumption, StreamsInit
    PROVE  StreamsInv
  <1>1. list \in Seq(Object) /\ IsInjective(list) /\ ToSet(list) = Std
    BY ListOfStd DEF StreamsInit
  <1>2. /\ Std \subseteq Object /\ Nobody \notin StreamThreads
        /\ listLock = Nobody /\ lock = [f \in Object |-> Nobody]
        /\ mem = [f \in Object |-> IF f \in Std THEN "alive" ELSE "none"]
        /\ fd = [f \in Object |-> IF f \in Std THEN <<f>> ELSE NoFd]
        /\ openFds = {<<f>> : f \in Std}
        /\ streamTask = [t \in StreamThreads |-> Idle] /\ misused = FALSE
    BY DEF StreamsInit, StreamsAssumption
  <1>3. StreamsTyped
    BY <1>1, <1>2 DEF StreamsTyped
  <1>4. \A t \in StreamThreads : streamTask[t] = Idle /\ streamTask[t].at = "out"
    BY <1>2 DEF Idle
  <1>5. StreamLocks /\ Listed /\ Apart
    BY <1>2, <1>4 DEF StreamLocks, Listed, Apart, Exclusive
  <1>6. Living
    BY <1>1, <1>2, <1>4 DEF Living
  <1>7. Connections
    BY <1>1, <1>2, <1>4 DEF Connections, Connected
  <1> QED BY <1>3, <1>5, <1>6, <1>7 DEF StreamsInv

\* Where a thread is in its call, and with which FILE
LEMMA TaskIs ==
    ASSUME StreamsTyped, NEW t \in StreamThreads
    PROVE  /\ streamTask[t] = Idle <=> streamTask[t].at = "out"
           /\ streamTask[t] # Idle =>
                 /\ streamTask[t].at \in Exclusive \cup {"walk"} /\ Of(t) \in Object
                 /\ streamTask[t].op = "fflush" <=> streamTask[t].at = "walk"
                 /\ streamTask[t].at \in {"reopen", "drop"} => streamTask[t].op = "freopen"
  <1>1. streamTask[t] \in StreamTasks \cup {Idle}
    BY DEF StreamsTyped
  <1>2. streamTask[t] \in StreamTasks => streamTask[t].at # "out"
    BY DEF StreamTasks, Exclusive
  <1> QED BY <1>1, <1>2 DEF StreamTasks, Idle, Of

LEMMA GotoIs ==
    ASSUME StreamsTyped, NEW t \in StreamThreads, NEW op, NEW at, NEW f,
           StreamGoto(t, op, at, f), [op |-> op, at |-> at, f |-> f] \in StreamTasks
    PROVE  /\ streamTask' \in [StreamThreads -> StreamTasks \cup {Idle}]
           /\ streamTask'[t].op = op /\ streamTask'[t].at = at /\ streamTask'[t].f = f
           /\ at # "out" /\ f \in Object /\ streamTask'[t] # Idle
           /\ \A u \in StreamThreads : u # t => streamTask'[u] = streamTask[u]
  <1> DEFINE task == [op |-> op, at |-> at, f |-> f]
  <1>1. /\ streamTask \in [StreamThreads -> StreamTasks \cup {Idle}]
        /\ streamTask' = [streamTask EXCEPT ![t] = task]
    BY DEF StreamsTyped, StreamGoto
  <1>2. task.op = op /\ task.at = at /\ task.f = f /\ task \in StreamTasks
    OBVIOUS
  <1>3. at # "out" /\ f \in Object
    BY <1>2 DEF StreamTasks, Exclusive
  <1>4. task # Idle
    BY <1>2, <1>3 DEF Idle
  <1> HIDE DEF task
  <1> QED BY <1>1, <1>2, <1>3, <1>4

LEMMA ReturnIs ==
    ASSUME StreamsTyped, NEW t \in StreamThreads, Return(t)
    PROVE  /\ streamTask' \in [StreamThreads -> StreamTasks \cup {Idle}]
           /\ streamTask'[t] = Idle /\ streamTask'[t].at = "out"
           /\ \A u \in StreamThreads : u # t => streamTask'[u] = streamTask[u]
  BY DEF StreamsTyped, Return, Idle

LEMMA FopenKeeps ==
    ASSUME StreamsAssumption, StreamsInv, NEW t \in StreamThreads, Fopen(t)
    PROVE  StreamsInv'
  <1> USE DEF StreamsInv
  <1>1. PICK d \in Descriptor, f \in Object \ Std :
          /\ <<d>> \notin openFds /\ mem[f] # "alive"
          /\ mem' = [mem EXCEPT ![f] = "alive"]
          /\ fd' = [fd EXCEPT ![f] = <<d>>]
          /\ openFds' = openFds \cup {<<d>>}
          /\ StreamGoto(t, "fopen", "add", f)
    BY DEF Fopen, Freed
  <1>2. /\ UNCHANGED <<list, listLock, lock, misused>>
        /\ streamTask[t].at = "out" /\ StreamsTyped
    BY DEF Fopen, StreamCall, Idle
  <1>3. [op |-> "fopen", at |-> "add", f |-> f] \in StreamTasks
    BY DEF StreamTasks, Exclusive
  <1>4. /\ streamTask' \in [StreamThreads -> StreamTasks \cup {Idle}]
        /\ streamTask'[t].at = "add" /\ streamTask'[t].f = f
        /\ \A u \in StreamThreads : u # t => streamTask'[u] = streamTask[u]
    BY <1>1, <1>2, <1>3, GotoIs
  <1>5. /\ mem'[f] = "alive" /\ \A g \in Object : g # f => mem'[g] = mem[g]
        /\ fd'[f] = <<d>> /\ \A g \in Object : g # f => fd'[g] = fd[g]
        /\ mem' \in [Object -> {"none", "alive", "freed"}]
        /\ fd' \in [Object -> {NoFd} \cup {<<x>> : x \in Std \cup Descriptor}]
    BY <1>1, <1>2 DEF StreamsTyped
  \* Nobody is at a FILE that is not in use
  <1>6. f \notin ToSet(list) /\ \A u \in StreamThreads : streamTask[u].at # "out" => Of(u) # f
    BY <1>1, <1>2, TaskIs DEF Living
  <1>7. StreamsTyped'
    BY <1>2, <1>4, <1>5 DEF StreamsTyped
  <1>8. StreamLocks'
    BY <1>2, <1>4 DEF StreamLocks, Of
  <1>9. Listed'
    BY <1>2, <1>4, <1>6 DEF Listed, Of
  <1>10. Apart'
    BY <1>2, <1>4, <1>6 DEF Apart, Exclusive, Of
  <1>11. Living'
    BY <1>1, <1>2, <1>4, <1>5, <1>6, TaskIs DEF Living, Of
  <1>12. Connections'
    BY <1>1, <1>2, <1>4, <1>5, <1>6 DEF Connections, Connected, Of
  <1> QED BY <1>7, <1>8, <1>9, <1>10, <1>11, <1>12
LEMMA AddToListKeeps ==
    ASSUME StreamsAssumption, StreamsInv, NEW t \in StreamThreads, AddToList(t)
    PROVE  StreamsInv'
  <1> USE DEF StreamsInv
  <1>1. PICK f : f = Of(t)
    OBVIOUS
  <1>2. /\ UNCHANGED <<listLock, lock, mem, fd, openFds, misused>>
        /\ streamTask[t].at = "add" /\ listLock = Nobody /\ list' = Append(list, f)
        /\ Return(t) /\ StreamsTyped
    BY <1>1 DEF AddToList, StreamAt, ListFree
  <1>3. f \in Object /\ f \notin ToSet(list) /\ mem[f] = "alive" /\ f \notin Std
    BY <1>1, <1>2, TaskIs DEF Listed, Living
  <1>4. list' \in Seq(Object) /\ IsInjective(list') /\ ToSet(list') = ToSet(list) \cup {f}
    BY <1>2, <1>3, AppendIs DEF StreamsTyped
  <1>5. /\ streamTask' \in [StreamThreads -> StreamTasks \cup {Idle}]
        /\ streamTask'[t] = Idle /\ streamTask'[t].at = "out"
        /\ \A u \in StreamThreads : u # t => streamTask'[u] = streamTask[u]
    BY <1>2, ReturnIs
  \* A FILE being opened is known to nobody else
  <1>6. \A u \in StreamThreads : u # t /\ streamTask[u].at # "out" => Of(u) # f
    <2> SUFFICES ASSUME NEW u \in StreamThreads, u # t, streamTask[u].at # "out", Of(u) = f
                 PROVE  FALSE
      OBVIOUS
    <2>1. streamTask[u].at \in Exclusive
      BY <1>2, <1>3, TaskIs DEF Listed
    <2>2. {streamTask[t].at, streamTask[u].at} = {"hold", "flush"}
      BY <1>1, <1>2, <2>1 DEF Apart, Exclusive
    <2> QED BY <1>2, <2>2
  <1>7. StreamsTyped'
    BY <1>2, <1>4, <1>5 DEF StreamsTyped
  <1>8. StreamLocks'
    BY <1>2, <1>5 DEF StreamLocks, Of
  <1>9. Listed'
    BY <1>2, <1>4, <1>5, <1>6 DEF Listed, Of
  <1>10. Apart'
    BY <1>2, <1>5 DEF Apart, Exclusive, Of
  <1>11. Living'
    BY <1>1, <1>2, <1>3, <1>4, <1>5 DEF Living, Of
  <1>12. Connections'
    BY <1>1, <1>2, <1>3, <1>4, <1>5, <1>6 DEF Connections, Connected, Of
  <1> QED BY <1>7, <1>8, <1>9, <1>10, <1>11, <1>12

LEMMA ContainsIs ==
    ASSUME list \in Seq(Object), NEW f
    PROVE  Contains(list, f) <=> f \in ToSet(list)
  BY LenProperties DEF Contains, ToSet

\* The calls that take a stream off the list, and go on with it
LEMMA FcloseKeeps ==
    ASSUME StreamsAssumption, StreamsInv, NEW t \in StreamThreads, Fclose(t)
    PROVE  StreamsInv'
  <1> USE DEF StreamsInv
  <1>1. /\ UNCHANGED <<listLock, lock, mem, fd, openFds, misused>>
        /\ streamTask[t].at = "out" /\ listLock = Nobody /\ StreamsTyped
    BY DEF Fclose, StreamCall, Idle, ListFree
  <1>2. PICK f \in Object :
          /\ Reopening(f) = {} /\ list' = Off(f)
          /\ IF Contains(list, f) THEN StreamGoto(t, "fclose", "flush", f) ELSE UNCHANGED streamTask
    BY DEF Fclose
  <1>3. list' \in Seq(Object) /\ IsInjective(list') /\ ToSet(list') = ToSet(list) \ {f}
    BY <1>1, <1>2, OffIs DEF StreamsTyped
  <1>4. CASE f \notin ToSet(list)
    <2>1. UNCHANGED streamTask /\ ToSet(list') = ToSet(list)
      BY <1>1, <1>2, <1>3, <1>4, ContainsIs DEF StreamsTyped
    <2>2. StreamsTyped'
      BY <1>1, <1>3, <2>1 DEF StreamsTyped
    <2> QED BY <1>1, <2>1, <2>2
            DEF StreamLocks, Listed, Apart, Living, Connections, Connected, Of
  <1>5. CASE f \in ToSet(list)
    <2>1. StreamGoto(t, "fclose", "flush", f)
      BY <1>1, <1>2, <1>5, ContainsIs DEF StreamsTyped
    <2>2. [op |-> "fclose", at |-> "flush", f |-> f] \in StreamTasks
      BY DEF StreamTasks, Exclusive
    <2>3. /\ streamTask' \in [StreamThreads -> StreamTasks \cup {Idle}]
          /\ streamTask'[t].at = "flush" /\ streamTask'[t].f = f
          /\ \A u \in StreamThreads : u # t => streamTask'[u] = streamTask[u]
      BY <1>1, <2>1, <2>2, GotoIs
    \* Who else is at the FILE holds its lock
    <2>4. \A u \in StreamThreads : streamTask[u].at # "out" /\ Of(u) = f => streamTask[u].at = "hold"
      <3> SUFFICES ASSUME NEW u \in StreamThreads, streamTask[u].at # "out", Of(u) = f
                   PROVE  streamTask[u].at = "hold"
        OBVIOUS
      <3>1. streamTask[u] # Idle /\ streamTask[u].at \in Exclusive \cup {"walk"}
        BY <1>1, TaskIs
      <3>2. streamTask[u].at # "walk"
        BY <1>1 DEF StreamLocks, StreamsAssumption
      <3>3. streamTask[u].at \notin {"add", "flush", "close", "release"}
        BY <1>5 DEF Listed
      <3>4. streamTask[u].at \notin {"reopen", "drop"}
        BY <1>1, <1>2, <3>1, TaskIs DEF Reopening, Used, Of
      <3> QED BY <3>1, <3>2, <3>3, <3>4 DEF Exclusive
    <2>5. StreamsTyped'
      BY <1>1, <1>3, <2>3 DEF StreamsTyped
    <2>6. StreamLocks'
      BY <1>1, <2>3 DEF StreamLocks, Of
    <2>7. Listed'
      BY <1>1, <1>3, <2>3, <2>4 DEF Listed, Of
    <2>8. Apart'
      BY <1>1, <2>3, <2>4 DEF Apart, Exclusive, Of
    <2>9. Living'
      <3>1. mem[f] = "alive"
        BY <1>5 DEF Living
      <3>2. streamTask[t] = Idle
        BY <1>1, TaskIs
      <3> QED BY <1>1, <1>3, <2>3, <3>1, <3>2, TaskIs DEF Living, Of
    <2>10. Connections'
      <3>1. Connected(f)
        BY <1>5, <2>4 DEF Connected
      <3>2. \A g \in Object : Connected(g)' <=> Connected(g)
        BY <1>1, <1>3, <2>3, <3>1 DEF Connected, Of
      <3>3. \A u \in StreamThreads : streamTask'[u].at = "drop" => fd[streamTask'[u].f] = NoFd
        BY <1>1, <2>3 DEF Connections, Of
      <3>4. \A g \in Std :
               \/ g \in ToSet(list')
               \/ fd[g] = NoFd
               \/ \E u \in StreamThreads :
                     streamTask'[u].at \in {"flush", "close", "release"} /\ streamTask'[u].f = g
        BY <1>1, <1>3, <2>3 DEF Connections, Of
      <3> QED BY <1>1, <3>2, <3>3, <3>4 DEF Connections, Of
    <2> QED BY <2>5, <2>6, <2>7, <2>8, <2>9, <2>10
  <1> QED BY <1>4, <1>5

\* A FILE being closed has one user, and has its descriptor until that is closed
LEMMA OneCloser ==
    ASSUME StreamsInv, NEW t \in StreamThreads, NEW f, f = Of(t),
           streamTask[t].at \in {"flush", "close", "release"},
           streamTask[t].at = "flush" => lock[f] \in {Nobody, t}, Nobody \notin StreamThreads
    PROVE  /\ f \in Object /\ f \notin ToSet(list) /\ mem[f] = "alive"
           /\ \A u \in StreamThreads : u # t /\ streamTask[u].at # "out" => Of(u) # f
           /\ streamTask[t].at # "release" => fd[f] \in openFds /\ Connected(f)
  <1>1. StreamsTyped /\ StreamLocks /\ Listed /\ Apart /\ Living /\ Connections
    BY DEF StreamsInv
  <1>2. f \in Object /\ f \notin ToSet(list) /\ mem[f] = "alive"
    BY <1>1, TaskIs DEF Listed, Living
  <1>3. ASSUME NEW u \in StreamThreads, u # t, streamTask[u].at # "out", Of(u) = f
        PROVE  FALSE
    <2>1. streamTask[u].at \in Exclusive
      BY <1>1, <1>2, <1>3, TaskIs DEF Listed
    <2>2. {streamTask[t].at, streamTask[u].at} = {"hold", "flush"}
      BY <1>1, <1>3, <2>1 DEF Apart, Exclusive
    <2>3. streamTask[u].at = "hold" /\ streamTask[t].at = "flush"
      BY <2>2
    <2>4. lock[f] = u
      BY <1>1, <1>2, <1>3, <2>3 DEF StreamLocks
    <2> QED BY <1>3, <2>3, <2>4
  <1>4. streamTask[t].at # "release" => Connected(f)
    BY DEF Connected
  <1>5. Connected(f) => fd[f] \in openFds
    BY <1>1, <1>2 DEF Connections
  <1> QED BY <1>2, <1>3, <1>4, <1>5

LEMMA FlushLastKeeps ==
    ASSUME StreamsAssumption, StreamsInv, NEW t \in StreamThreads, FlushLast(t)
    PROVE  StreamsInv'
  <1>1. PICK f : f = Of(t)
    OBVIOUS
  <1>2. /\ UNCHANGED <<list, listLock, lock, mem, fd, openFds>>
        /\ streamTask[t].at = "flush" /\ lock[f] \in {Nobody, t}
        /\ StreamGoto(t, "fclose", "close", f)
        /\ misused' = (misused \/ mem[f] # "alive" \/ fd[f] \notin openFds \cup {NoFd})
        /\ Nobody \notin StreamThreads
    BY <1>1 DEF FlushLast, StreamAt, LockFree, Flushed, Wild, Freed, StreamsAssumption
  <1>3. /\ f \in Object /\ f \notin ToSet(list) /\ mem[f] = "alive"
        /\ \A u \in StreamThreads : u # t /\ streamTask[u].at # "out" => Of(u) # f
        /\ fd[f] \in openFds
    BY <1>1, <1>2, OneCloser
  <1> USE DEF StreamsInv
  <1>4. [op |-> "fclose", at |-> "close", f |-> f] \in StreamTasks
    BY <1>3 DEF StreamTasks, Exclusive
  <1>5. /\ streamTask' \in [StreamThreads -> StreamTasks \cup {Idle}]
        /\ streamTask'[t].at = "close" /\ streamTask'[t].f = f /\ streamTask'[t] # Idle
        /\ \A u \in StreamThreads : u # t => streamTask'[u] = streamTask[u]
    BY <1>2, <1>4, GotoIs
  <1>6. StreamsTyped'
    BY <1>2, <1>3, <1>5 DEF StreamsTyped
  <1>7. StreamLocks'
    BY <1>2, <1>5 DEF StreamLocks, Of
  <1>8. Listed'
    BY <1>1, <1>2, <1>3, <1>5 DEF Listed, Of
  <1>9. Apart'
    BY <1>1, <1>2, <1>3, <1>5 DEF Apart, Exclusive, Of
  <1>10. Living'
    BY <1>1, <1>2, <1>3, <1>5 DEF Living, Of
  <1>11. Connections'
    BY <1>1, <1>2, <1>3, <1>5 DEF Connections, Connected, Of
  <1> QED BY <1>6, <1>7, <1>8, <1>9, <1>10, <1>11

LEMMA CloseFdKeeps ==
    ASSUME StreamsAssumption, StreamsInv, NEW t \in StreamThreads, CloseFd(t)
    PROVE  StreamsInv'
  <1>1. PICK f : f = Of(t)
    OBVIOUS
  <1>2. /\ UNCHANGED <<list, listLock, lock, mem, fd>>
        /\ streamTask[t].at = "close" /\ openFds' = openFds \ {fd[f]}
        /\ StreamGoto(t, streamTask[t].op, "release", f)
        /\ misused' = (misused \/ mem[f] # "alive" \/ fd[f] \notin openFds \cup {NoFd})
        /\ Nobody \notin StreamThreads
    BY <1>1 DEF CloseFd, StreamAt, Wild, Freed, StreamsAssumption
  <1>3. /\ f \in Object /\ f \notin ToSet(list) /\ mem[f] = "alive"
        /\ \A u \in StreamThreads : u # t /\ streamTask[u].at # "out" => Of(u) # f
        /\ fd[f] \in openFds /\ Connected(f)
    BY <1>1, <1>2, OneCloser
  <1> USE DEF StreamsInv
  <1>4. [op |-> streamTask[t].op, at |-> "release", f |-> f] \in StreamTasks
    <2>1. streamTask[t] \in StreamTasks
      BY <1>2 DEF StreamsTyped, Idle
    <2> QED BY <1>2, <1>3, <2>1 DEF StreamTasks, Exclusive
  <1>5. /\ streamTask' \in [StreamThreads -> StreamTasks \cup {Idle}]
        /\ streamTask'[t].at = "release" /\ streamTask'[t].f = f /\ streamTask'[t] # Idle
        /\ \A u \in StreamThreads : u # t => streamTask'[u] = streamTask[u]
    BY <1>2, <1>4, GotoIs
  <1>6. StreamsTyped'
    BY <1>2, <1>3, <1>5 DEF StreamsTyped
  <1>7. StreamLocks'
    BY <1>2, <1>5 DEF StreamLocks, Of
  <1>8. Listed'
    BY <1>1, <1>2, <1>3, <1>5 DEF Listed, Of
  <1>9. Apart'
    BY <1>1, <1>2, <1>3, <1>5 DEF Apart, Exclusive, Of
  <1>10. Living'
    BY <1>1, <1>2, <1>3, <1>5 DEF Living, Of
  <1>11. Connections'
    <2>1. \A g \in Object : Connected(g)' => Connected(g) /\ g # f
      BY <1>1, <1>2, <1>3, <1>5 DEF Connected, Of
    <2>2. \A g \in Object : Connected(g)' => fd[g] \in openFds'
      BY <1>2, <1>3, <2>1 DEF Connections
    <2>3. \A g, h \in Object : Connected(g)' /\ Connected(h)' /\ g # h => fd[g] # fd[h]
      BY <2>1 DEF Connections
    <2>4. \A u \in StreamThreads : streamTask'[u].at = "drop" => fd[streamTask'[u].f] = NoFd
      BY <1>5 DEF Connections, Of
    <2>5. \A g \in Std :
             \/ g \in ToSet(list)
             \/ fd[g] = NoFd
             \/ \E u \in StreamThreads :
                   streamTask'[u].at \in {"flush", "close", "release"} /\ streamTask'[u].f = g
      BY <1>1, <1>2, <1>5 DEF Connections, Of
    <2> QED BY <1>2, <2>2, <2>3, <2>4, <2>5 DEF Connections, Of
  <1> QED BY <1>6, <1>7, <1>8, <1>9, <1>10, <1>11
LEMMA ReleaseKeeps ==
    ASSUME StreamsAssumption, StreamsInv, NEW t \in StreamThreads, Release(t)
    PROVE  StreamsInv'
  <1>1. PICK f : f = Of(t)
    OBVIOUS
  <1>2. /\ UNCHANGED <<list, listLock, lock, openFds>>
        /\ streamTask[t].at = "release"
        /\ IF f \in Std THEN UNCHANGED mem ELSE mem' = [mem EXCEPT ![f] = "freed"]
        /\ fd' = [fd EXCEPT ![f] = NoFd] /\ Return(t)
        /\ misused' = (misused \/ mem[f] # "alive")
        /\ Nobody \notin StreamThreads
    BY <1>1 DEF Release, StreamAt, Wild, Freed, StreamsAssumption
  <1>3. /\ f \in Object /\ f \notin ToSet(list) /\ mem[f] = "alive"
        /\ \A u \in StreamThreads : u # t /\ streamTask[u].at # "out" => Of(u) # f
    BY <1>1, <1>2, OneCloser
  <1> USE DEF StreamsInv
  <1>4. /\ streamTask' \in [StreamThreads -> StreamTasks \cup {Idle}]
        /\ streamTask'[t] = Idle /\ streamTask'[t].at = "out"
        /\ \A u \in StreamThreads : u # t => streamTask'[u] = streamTask[u]
    BY <1>2, ReturnIs
  <1>5. /\ fd'[f] = NoFd /\ \A g \in Object : g # f => fd'[g] = fd[g] /\ mem'[g] = mem[g]
        /\ mem'[f] = (IF f \in Std THEN "alive" ELSE "freed")
        /\ mem' \in [Object -> {"none", "alive", "freed"}]
        /\ fd' \in [Object -> {NoFd} \cup {<<x>> : x \in Std \cup Descriptor}]
    BY <1>2, <1>3 DEF StreamsTyped
  <1>6. StreamsTyped'
    BY <1>2, <1>3, <1>4, <1>5 DEF StreamsTyped
  <1>7. StreamLocks'
    BY <1>2, <1>4 DEF StreamLocks, Of
  <1>8. Listed'
    BY <1>1, <1>2, <1>3, <1>4 DEF Listed, Of
  <1>9. Apart'
    BY <1>1, <1>2, <1>3, <1>4 DEF Apart, Exclusive, Of
  <1>10. Living'
    <2>1. Std \cup ToSet(list) \subseteq {g \in Object : mem'[g] = "alive"}
      BY <1>3, <1>5 DEF Living
    <2>2. ASSUME NEW u \in StreamThreads, streamTask'[u] # Idle
          PROVE  /\ mem'[streamTask'[u].f] = "alive"
                 /\ streamTask'[u].at = "add" => streamTask'[u].f \notin Std
      <3>1. u # t /\ streamTask[u] # Idle /\ streamTask'[u] = streamTask[u]
        BY <1>4, <2>2
      <3>2. Of(u) # f /\ Of(u) \in Object
        BY <1>3, <3>1, TaskIs
      <3> QED BY <1>5, <3>1, <3>2 DEF Living, Of
    <2>3. ASSUME NEW g \in Object, mem'[g] = "alive", g \notin Std \cup ToSet(list)
          PROVE  \E u \in StreamThreads :
                    /\ streamTask'[u].at \in {"add", "flush", "close", "release"}
                    /\ streamTask'[u].f = g
      <3>1. g # f /\ mem[g] = "alive"
        BY <1>5, <2>3
      <3>2. PICK u \in StreamThreads :
               streamTask[u].at \in {"add", "flush", "close", "release"} /\ Of(u) = g
        BY <2>3, <3>1 DEF Living
      <3> QED BY <1>1, <1>4, <3>1, <3>2 DEF Of
    <2> QED BY <1>2, <2>1, <2>2, <2>3 DEF Living, Of
  <1>11. Connections'
    <2>1. \A g \in Object : Connected(g)' => Connected(g) /\ g # f
      BY <1>1, <1>2, <1>3, <1>4 DEF Connected, Of
    <2>2. \A g \in Object : Connected(g)' => fd'[g] \in openFds
      BY <1>5, <2>1 DEF Connections
    <2>3. \A g, h \in Object : Connected(g)' /\ Connected(h)' /\ g # h => fd'[g] # fd'[h]
      BY <1>5, <2>1 DEF Connections
    <2>4. ASSUME NEW u \in StreamThreads, streamTask'[u].at = "drop"
          PROVE  fd'[streamTask'[u].f] = NoFd
      <3>1. u # t /\ streamTask'[u] = streamTask[u]
        BY <1>4, <2>4
      <3>2. Of(u) \in Object /\ fd[Of(u)] = NoFd
        BY <2>4, <3>1, TaskIs DEF Connections
      <3> QED BY <1>5, <3>1, <3>2 DEF Of
    <2>5. \A g \in Std :
             \/ g \in ToSet(list)
             \/ fd'[g] = NoFd
             \/ \E u \in StreamThreads :
                   streamTask'[u].at \in {"flush", "close", "release"} /\ streamTask'[u].f = g
      BY <1>1, <1>2, <1>4, <1>5 DEF Connections, Of, StreamsAssumption
    <2> QED BY <1>2, <2>2, <2>3, <2>4, <2>5 DEF Connections, Of
  <1> QED BY <1>6, <1>7, <1>8, <1>9, <1>10, <1>11

\* A stream that is used by nobody but, perhaps, the walk of fflush(NULL)
LEMMA Unused ==
    ASSUME StreamsTyped, NEW f
    PROVE  /\ Used(f) = {} => \A u \in StreamThreads : streamTask[u].at # "out" => Of(u) # f
           /\ {u \in Used(f) : streamTask[u].op # "fflush"} = {} =>
                 \A u \in StreamThreads : streamTask[u].at \notin {"out", "walk"} => Of(u) # f
  BY TaskIs DEF Used, Of

LEMMA FreopenKeeps ==
    ASSUME StreamsAssumption, StreamsInv, NEW t \in StreamThreads, Freopen(t)
    PROVE  StreamsInv'
  <1> USE DEF StreamsInv
  <1>1. /\ UNCHANGED <<list, listLock, lock, mem, fd, openFds>>
        /\ streamTask[t].at = "out"
    BY DEF Freopen, StreamCall, Idle
  <1>2. PICK f \in ToSet(list) :
          /\ Used(f) = {}
          /\ misused' = (misused \/ mem[f] # "alive" \/ fd[f] \notin openFds \cup {NoFd})
          /\ StreamGoto(t, "freopen", "reopen", f)
    BY DEF Freopen, Flushed, Wild, Freed
  <1>3. /\ \A u \in StreamThreads : streamTask[u].at # "out" => Of(u) # f
        /\ f \in Object /\ mem[f] = "alive"
    BY <1>2, Unused DEF Living
  <1>4. Connected(f) /\ fd[f] \in openFds
    BY <1>2, <1>3 DEF Connected, Connections
  <1>5. [op |-> "freopen", at |-> "reopen", f |-> f] \in StreamTasks
    BY <1>3 DEF StreamTasks, Exclusive
  <1>6. /\ streamTask' \in [StreamThreads -> StreamTasks \cup {Idle}]
        /\ streamTask'[t].at = "reopen" /\ streamTask'[t].f = f /\ streamTask'[t] # Idle
        /\ \A u \in StreamThreads : u # t => streamTask'[u] = streamTask[u]
    BY <1>2, <1>5, GotoIs
  <1>7. StreamsTyped'
    BY <1>1, <1>2, <1>3, <1>4, <1>6 DEF StreamsTyped
  <1>8. StreamLocks'
    BY <1>1, <1>6 DEF StreamLocks, Of
  <1>9. Listed'
    BY <1>1, <1>2, <1>6 DEF Listed, Of
  <1>10. Apart'
    BY <1>1, <1>3, <1>6 DEF Apart, Exclusive, Of
  <1>11. Living'
    BY <1>1, <1>3, <1>6 DEF Living, Of
  <1>12. Connections'
    BY <1>1, <1>6 DEF Connections, Connected, Of
  <1> QED BY <1>7, <1>8, <1>9, <1>10, <1>11, <1>12

\* A stream being reopened is on the list, and only the walk may be at it as well
LEMMA OneReopener ==
    ASSUME StreamsInv, NEW t \in StreamThreads, NEW f, f = Of(t),
           streamTask[t].at \in {"reopen", "drop"}
    PROVE  /\ f \in Object /\ f \in ToSet(list) /\ mem[f] = "alive"
           /\ \A u \in StreamThreads : u # t /\ streamTask[u].at \in Exclusive => Of(u) # f
           /\ streamTask[t].at = "reopen" => fd[f] \in openFds /\ Connected(f)
  <1>1. StreamsTyped /\ StreamLocks /\ Listed /\ Apart /\ Living /\ Connections
    BY DEF StreamsInv
  <1>2. f \in Object /\ f \in ToSet(list) /\ mem[f] = "alive"
    BY <1>1, TaskIs DEF Listed, Living
  <1>3. ASSUME NEW u \in StreamThreads, u # t, streamTask[u].at \in Exclusive, Of(u) = f
        PROVE  FALSE
    <2>1. {streamTask[t].at, streamTask[u].at} = {"hold", "flush"}
      BY <1>1, <1>3 DEF Apart, Exclusive
    <2> QED BY <2>1
  <1>4. streamTask[t].at = "reopen" => Connected(f)
    BY <1>2, <1>3 DEF Connected, Exclusive
  <1>5. Connected(f) => fd[f] \in openFds
    BY <1>1, <1>2 DEF Connections
  <1> QED BY <1>2, <1>3, <1>4, <1>5

LEMMA ReopenKeeps ==
    ASSUME StreamsAssumption, StreamsInv, NEW t \in StreamThreads, Reopen(t)
    PROVE  StreamsInv'
  <1>1. PICK f : f = Of(t)
    OBVIOUS
  <1> DEFINE closed == openFds \ {fd[f]}
  <1>2. /\ UNCHANGED <<list, listLock, lock, mem>> /\ streamTask[t].at = "reopen"
        /\ misused' = (misused \/ fd[f] \notin openFds)
    BY <1>1 DEF Reopen, StreamAt, Wild
  <1>3. \/ /\ \E d \in Descriptor :
                 /\ <<d>> \notin closed
                 /\ fd' = [fd EXCEPT ![f] = <<d>>]
                 /\ openFds' = closed \cup {<<d>>}
           /\ Return(t)
        \/ /\ fd' = [fd EXCEPT ![f] = NoFd]
           /\ openFds' = closed
           /\ StreamGoto(t, "freopen", "drop", f)
    BY <1>1 DEF Reopen
  <1>4. /\ f \in Object /\ f \in ToSet(list) /\ mem[f] = "alive"
        /\ \A u \in StreamThreads : u # t /\ streamTask[u].at \in Exclusive => Of(u) # f
        /\ fd[f] \in openFds /\ Connected(f)
    BY <1>1, <1>2, OneReopener
  <1> USE DEF StreamsInv
  <1>5. \A g \in Object : Connected(g) /\ g # f => fd[g] \in closed
    BY <1>4 DEF Connections
  <1>6. CASE Return(t) /\ \E d \in Descriptor :
              /\ <<d>> \notin closed
              /\ fd' = [fd EXCEPT ![f] = <<d>>]
              /\ openFds' = closed \cup {<<d>>}
    <2>1. /\ streamTask' \in [StreamThreads -> StreamTasks \cup {Idle}]
          /\ streamTask'[t] = Idle /\ streamTask'[t].at = "out"
          /\ \A u \in StreamThreads : u # t => streamTask'[u] = streamTask[u]
      BY <1>6, ReturnIs
    <2>2. PICK d \in Descriptor : /\ <<d>> \notin closed
                                  /\ fd' = [fd EXCEPT ![f] = <<d>>]
                                  /\ openFds' = closed \cup {<<d>>}
      BY <1>6
    <2>3. /\ fd'[f] = <<d>> /\ \A g \in Object : g # f => fd'[g] = fd[g]
          /\ fd' \in [Object -> {NoFd} \cup {<<x>> : x \in Std \cup Descriptor}]
      BY <1>4, <2>2 DEF StreamsTyped
    <2>4. StreamsTyped'
      BY <1>2, <1>4, <2>1, <2>3 DEF StreamsTyped
    <2>5. StreamLocks'
      BY <1>2, <2>1 DEF StreamLocks, Of
    <2>6. Listed'
      BY <1>1, <1>2, <2>1 DEF Listed, Of
    <2>7. Apart'
      BY <1>1, <1>2, <2>1 DEF Apart, Exclusive, Of
    <2>8. Living'
      BY <1>1, <1>2, <1>4, <2>1 DEF Living, Of
    <2>9. Connections'
      <3>1. \A g \in Object : Connected(g)' => Connected(g)
        BY <1>1, <1>2, <1>4, <2>1 DEF Connected, Of
      <3>2. \A g \in Object : Connected(g)' => fd'[g] \in openFds'
        BY <1>5, <2>2, <2>3, <3>1
      <3>3. \A g, h \in Object : Connected(g)' /\ Connected(h)' /\ g # h => fd'[g] # fd'[h]
        BY <1>5, <2>2, <2>3, <3>1 DEF Connections
      <3>4. ASSUME NEW u \in StreamThreads, streamTask'[u].at = "drop"
            PROVE  fd'[streamTask'[u].f] = NoFd
        <4>1. u # t /\ streamTask'[u] = streamTask[u]
          BY <2>1, <3>4
        <4>2. Of(u) \in Object /\ fd[Of(u)] = NoFd /\ Of(u) # f
          BY <1>4, <3>4, <4>1, TaskIs DEF Connections, Exclusive
        <4> QED BY <2>3, <4>1, <4>2 DEF Of
      <3>5. \A g \in Std :
               \/ g \in ToSet(list)
               \/ fd'[g] = NoFd
               \/ \E u \in StreamThreads :
                     streamTask'[u].at \in {"flush", "close", "release"} /\ streamTask'[u].f = g
        BY <1>2, <1>4, <2>1, <2>3 DEF Connections, Of, StreamsAssumption
      <3> QED BY <1>2, <3>2, <3>3, <3>4, <3>5 DEF Connections, Of
    <2> QED BY <2>4, <2>5, <2>6, <2>7, <2>8, <2>9
  <1>7. CASE /\ fd' = [fd EXCEPT ![f] = NoFd]
             /\ openFds' = closed
             /\ StreamGoto(t, "freopen", "drop", f)
    <2>1. [op |-> "freopen", at |-> "drop", f |-> f] \in StreamTasks
      BY <1>4 DEF StreamTasks, Exclusive
    <2>2. /\ streamTask' \in [StreamThreads -> StreamTasks \cup {Idle}]
          /\ streamTask'[t].at = "drop" /\ streamTask'[t].f = f /\ streamTask'[t] # Idle
          /\ \A u \in StreamThreads : u # t => streamTask'[u] = streamTask[u]
      BY <1>7, <2>1, GotoIs
    <2>3. /\ fd'[f] = NoFd /\ \A g \in Object : g # f => fd'[g] = fd[g]
          /\ fd' \in [Object -> {NoFd} \cup {<<x>> : x \in Std \cup Descriptor}]
      BY <1>4, <1>7 DEF StreamsTyped
    <2>4. StreamsTyped'
      BY <1>2, <1>4, <2>2, <2>3 DEF StreamsTyped
    <2>5. StreamLocks'
      BY <1>2, <2>2 DEF StreamLocks, Of
    <2>6. Listed'
      BY <1>2, <1>4, <2>2 DEF Listed, Of
    <2>7. Apart'
      BY <1>2, <1>4, <2>2 DEF Apart, Exclusive, Of
    <2>8. Living'
      BY <1>2, <1>4, <2>2 DEF Living, Of
    <2>9. Connections'
      <3>1. \A g \in Object : Connected(g)' => Connected(g) /\ g # f
        BY <1>1, <1>2, <1>4, <2>2 DEF Connected, Of, Exclusive
      <3>2. \A g \in Object : Connected(g)' => fd'[g] \in openFds'
        BY <1>5, <1>7, <2>3, <3>1
      <3>3. \A g, h \in Object : Connected(g)' /\ Connected(h)' /\ g # h => fd'[g] # fd'[h]
        BY <2>3, <3>1 DEF Connections
      <3>4. ASSUME NEW u \in StreamThreads, streamTask'[u].at = "drop"
            PROVE  fd'[streamTask'[u].f] = NoFd
        <4>1. CASE u = t
          BY <2>2, <2>3, <4>1
        <4>2. CASE u # t
          <5>1. streamTask'[u] = streamTask[u]
            BY <2>2, <4>2
          <5>2. Of(u) \in Object /\ fd[Of(u)] = NoFd /\ Of(u) # f
            BY <1>4, <3>4, <4>2, <5>1, TaskIs DEF Connections, Exclusive
          <5> QED BY <2>3, <5>1, <5>2 DEF Of
        <4> QED BY <4>1, <4>2
      <3>5. \A g \in Std :
               \/ g \in ToSet(list)
               \/ fd'[g] = NoFd
               \/ \E u \in StreamThreads :
                     streamTask'[u].at \in {"flush", "close", "release"} /\ streamTask'[u].f = g
        BY <1>2, <1>4, <2>2, <2>3 DEF Connections, Of, StreamsAssumption
      <3> QED BY <1>2, <3>2, <3>3, <3>4, <3>5 DEF Connections, Of
    <2> QED BY <2>4, <2>5, <2>6, <2>7, <2>8, <2>9
  <1> QED BY <1>3, <1>6, <1>7
LEMMA DropKeeps ==
    ASSUME StreamsAssumption, StreamsInv, NEW t \in StreamThreads, DropConnection(t)
    PROVE  StreamsInv'
  <1>1. PICK f : f = Of(t)
    OBVIOUS
  <1> USE DEF StreamsInv
  <1>2. /\ UNCHANGED <<listLock, lock, mem, fd, openFds, misused>>
        /\ streamTask[t].at = "drop" /\ listLock = Nobody /\ list' = Off(f)
        /\ StreamsTyped
    BY <1>1 DEF DropConnection, StreamAt, ListFree
  <1>3. /\ f \in Object /\ f \in ToSet(list) /\ mem[f] = "alive"
        /\ \A u \in StreamThreads : u # t /\ streamTask[u].at \in Exclusive => Of(u) # f
    BY <1>1, <1>2, OneReopener
  <1>4. StreamGoto(t, "freopen", "release", f)
    BY <1>1, <1>2, <1>3, ContainsIs DEF DropConnection, StreamsTyped
  <1>5. list' \in Seq(Object) /\ IsInjective(list') /\ ToSet(list') = ToSet(list) \ {f}
    BY <1>2, OffIs DEF StreamsTyped
  <1>6. [op |-> "freopen", at |-> "release", f |-> f] \in StreamTasks
    BY <1>3 DEF StreamTasks, Exclusive
  <1>7. /\ streamTask' \in [StreamThreads -> StreamTasks \cup {Idle}]
        /\ streamTask'[t].at = "release" /\ streamTask'[t].f = f /\ streamTask'[t] # Idle
        /\ \A u \in StreamThreads : u # t => streamTask'[u] = streamTask[u]
    BY <1>2, <1>4, <1>6, GotoIs
  <1>8. \A u \in StreamThreads : streamTask[u].at # "walk"
    BY <1>2 DEF StreamLocks, StreamsAssumption
  <1>9. \A u \in StreamThreads : u # t /\ streamTask[u].at # "out" => Of(u) # f
    BY <1>2, <1>3, <1>8, TaskIs
  <1>10. StreamsTyped'
    BY <1>2, <1>5, <1>7 DEF StreamsTyped
  <1>11. StreamLocks'
    BY <1>2, <1>7 DEF StreamLocks, Of
  <1>12. Listed'
    BY <1>2, <1>5, <1>7, <1>8, <1>9 DEF Listed, Of
  <1>13. Apart'
    BY <1>7, <1>9 DEF Apart, Exclusive, Of
  <1>14. Living'
    BY <1>1, <1>2, <1>3, <1>5, <1>7 DEF Living, Of
  <1>15. Connections'
    <2>1. \A g \in Object : Connected(g)' => Connected(g)
      BY <1>1, <1>2, <1>5, <1>7 DEF Connected, Of
    <2>2. \A g \in Object : Connected(g)' => fd[g] \in openFds
      BY <2>1 DEF Connections
    <2>3. \A g, h \in Object : Connected(g)' /\ Connected(h)' /\ g # h => fd[g] # fd[h]
      BY <2>1 DEF Connections
    <2>4. \A u \in StreamThreads : streamTask'[u].at = "drop" => fd[streamTask'[u].f] = NoFd
      BY <1>7 DEF Connections, Of
    <2>5. \A g \in Std :
             \/ g \in ToSet(list')
             \/ fd[g] = NoFd
             \/ \E u \in StreamThreads :
                   streamTask'[u].at \in {"flush", "close", "release"} /\ streamTask'[u].f = g
      BY <1>2, <1>5, <1>7 DEF Connections, Of
    <2> QED BY <1>2, <2>2, <2>3, <2>4, <2>5 DEF Connections, Of
  <1> QED BY <1>10, <1>11, <1>12, <1>13, <1>14, <1>15

\* A step of the walk, or of a holder of a FILE's lock, that changes where t is
LEMMA WalkStep ==
    ASSUME StreamsAssumption, StreamsInv, NEW t \in StreamThreads, NEW old, NEW at,
           old = streamTask[t].at, at = streamTask'[t].at,
           UNCHANGED <<list, mem, fd, openFds>>, misused' = FALSE,
           streamTask' \in [StreamThreads -> StreamTasks \cup {Idle}],
           \A u \in StreamThreads : u # t => streamTask'[u] = streamTask[u],
           old \in {"out", "walk", "hold"}, at \in {"out", "walk", "hold"},
           at \in {"walk", "hold"} => Of(t)' \in ToSet(list),
           at = "hold" => \A u \in StreamThreads :
              u # t /\ streamTask[u].at \in Exclusive => Of(u) # Of(t)',
           listLock' \in StreamThreads \cup {Nobody},
           lock' \in [Object -> StreamThreads \cup {Nobody}],
           StreamLocks'
    PROVE  StreamsInv'
  <1> USE DEF StreamsInv
  <1>1. StreamsTyped'
    BY DEF StreamsTyped
  <1>2. Listed'
    BY DEF Listed, Of
  <1>3. Apart'
    <2> SUFFICES ASSUME NEW u \in StreamThreads, NEW v \in StreamThreads, u # v,
                        streamTask'[u].at \in Exclusive, streamTask'[v].at \in Exclusive,
                        streamTask'[u].f = streamTask'[v].f
                 PROVE  {streamTask'[u].at, streamTask'[v].at} = {"hold", "flush"}
      BY DEF Apart, Of
    <2>1. CASE u # t /\ v # t
      BY <2>1 DEF Apart, Of
    <2>2. CASE u = t
      BY <2>2 DEF Exclusive, Of
    <2>3. CASE v = t
      BY <2>3 DEF Exclusive, Of
    <2> QED BY <2>1, <2>2, <2>3
  <1>4. Living'
    <2>1. ASSUME NEW u \in StreamThreads, streamTask'[u] # Idle
          PROVE  /\ mem[streamTask'[u].f] = "alive"
                 /\ streamTask'[u].at = "add" => streamTask'[u].f \notin Std
      <3>1. CASE u # t
        BY <2>1, <3>1 DEF Living, Of
      <3>2. CASE u = t
        <4>1. at # "out"
          BY <2>1, <3>2 DEF StreamTasks, Exclusive
        <4> QED BY <3>2, <4>1 DEF Living, Of
      <3> QED BY <3>1, <3>2
    <2>2. \A g \in Object : mem[g] = "alive" =>
             \/ g \in Std \cup ToSet(list)
             \/ \E u \in StreamThreads :
                   /\ streamTask'[u].at \in {"add", "flush", "close", "release"}
                   /\ streamTask'[u].f = g
      BY DEF Living, Of
    <2> QED BY <2>1, <2>2 DEF Living, Of
  <1>5. Connections'
    BY DEF Connections, Connected, Of
  <1> QED BY <1>1, <1>2, <1>3, <1>4, <1>5

LEMMA StreamsFrame ==
    ASSUME StreamsInv, UNCHANGED <<list, listLock, lock, mem, fd, openFds, streamTask, misused>>
    PROVE  StreamsInv'
  <1> USE DEF StreamsInv
  <1>1. StreamsTyped' /\ StreamLocks'
    BY DEF StreamsTyped, StreamLocks, Of
  <1>2. Listed' /\ Apart' /\ Living'
    BY DEF Listed, Apart, Living, Of
  <1>3. Connections'
    BY DEF Connections, Connected, Of
  <1> QED BY <1>1, <1>2, <1>3

LEMMA FflushAllKeeps ==
    ASSUME StreamsAssumption, StreamsInv, NEW t \in StreamThreads, FflushAll(t)
    PROVE  StreamsInv'
  <1>1. /\ UNCHANGED <<list, lock, mem, fd, openFds, misused>> /\ misused' = FALSE
        /\ streamTask[t].at = "out" /\ listLock = Nobody
        /\ StreamsTyped /\ StreamLocks /\ Nobody \notin StreamThreads
        /\ lock' \in [Object -> StreamThreads \cup {Nobody}]
    BY DEF FflushAll, StreamCall, Idle, ListFree, StreamsInv, StreamsTyped, StreamsAssumption
  <1>2. CASE list = <<>>
    <2>1. UNCHANGED <<list, listLock, lock, mem, fd, openFds, streamTask, misused>>
      BY <1>1, <1>2 DEF FflushAll
    <2> QED BY <2>1, StreamsFrame
  <1>3. CASE list # <<>>
    <2>1. PICK f : f = Head(list)
      OBVIOUS
    <2>2. f \in ToSet(list) /\ f \in Object
      <3>1. Len(list) \in Nat \ {0} /\ DOMAIN list = 1..Len(list) /\ f = list[1]
        BY <1>1, <1>3, <2>1, EmptySeq, LenProperties DEF StreamsTyped
      <3>2. 1 \in 1..Len(list)
        BY <3>1
      <3> QED BY <1>1, <3>1, <3>2, ElementOfSeq DEF ToSet, StreamsTyped
    <2>3. listLock' = t /\ StreamGoto(t, "fflush", "walk", f)
      BY <1>3, <2>1 DEF FflushAll
    <2>4. [op |-> "fflush", at |-> "walk", f |-> f] \in StreamTasks
      BY <2>2 DEF StreamTasks
    <2>5. /\ streamTask' \in [StreamThreads -> StreamTasks \cup {Idle}]
          /\ streamTask'[t].at = "walk" /\ streamTask'[t].f = f
          /\ \A u \in StreamThreads : u # t => streamTask'[u] = streamTask[u]
      BY <1>1, <2>3, <2>4, GotoIs
    <2>6. StreamLocks'
      BY <1>1, <2>3, <2>5 DEF StreamLocks, Of
    <2>7. Of(t)' \in ToSet(list)
      BY <2>2, <2>5 DEF Of
    <2> QED BY <1>1, <2>3, <2>5, <2>6, <2>7, WalkStep
  <1> QED BY <1>2, <1>3
LEMMA VisitKeeps ==
    ASSUME StreamsAssumption, StreamsInv, NEW t \in StreamThreads, Visit(t)
    PROVE  StreamsInv'
  <1>1. PICK f : f = Of(t)
    OBVIOUS
  <1>2. /\ UNCHANGED <<list, lock, mem, fd, openFds>>
        /\ streamTask[t].at = "walk"
        /\ misused' = (misused \/ mem[f] # "alive" \/ fd[f] \notin openFds \cup {NoFd})
        /\ StreamsTyped /\ StreamLocks /\ Nobody \notin StreamThreads
        /\ lock' \in [Object -> StreamThreads \cup {Nobody}]
    BY <1>1 DEF Visit, StreamAt, Flushed, Wild, Freed, StreamsInv, StreamsTyped, StreamsAssumption
  <1>3. f \in ToSet(list) /\ f \in Object /\ mem[f] = "alive" /\ listLock = t
    BY <1>1, <1>2, TaskIs DEF StreamsInv, Listed, Living, StreamLocks
  \* A FILE of the list has a descriptor, or lost it in a reopen that failed
  <1>4. misused' = FALSE
    <2>1. fd[f] \in openFds \cup {NoFd}
      BY <1>3 DEF StreamsInv, Connections, Connected
    <2> QED BY <1>2, <1>3, <2>1 DEF StreamsTyped
  <1>5. PICK i \in 1..Len(list) : i = Place(f)
    BY <1>2, <1>3, LenProperties DEF Place, ToSet, StreamsTyped
  <1>6. CASE i = Len(list)
    <2>1. listLock' = Nobody /\ Return(t)
      BY <1>1, <1>5, <1>6 DEF Visit
    <2>2. /\ streamTask' \in [StreamThreads -> StreamTasks \cup {Idle}]
          /\ streamTask'[t] = Idle /\ streamTask'[t].at = "out"
          /\ \A u \in StreamThreads : u # t => streamTask'[u] = streamTask[u]
      BY <1>2, <2>1, ReturnIs
    <2>3. StreamLocks'
      BY <1>2, <1>3, <2>1, <2>2 DEF StreamLocks, Of
    <2> QED BY <1>2, <1>4, <2>1, <2>2, <2>3, WalkStep
  <1>7. CASE i # Len(list)
    <2>1. PICK g : g = list[i + 1]
      OBVIOUS
    <2>2. g \in ToSet(list) /\ g \in Object
      <3>1. Len(list) \in Nat /\ DOMAIN list = 1..Len(list) /\ list \in Seq(Object)
        BY <1>2, LenProperties DEF StreamsTyped
      <3>2. i + 1 \in 1..Len(list)
        BY <1>5, <1>7, <3>1
      <3> QED BY <2>1, <3>1, <3>2, ElementOfSeq DEF ToSet
    <2>3. StreamGoto(t, "fflush", "walk", g) /\ listLock' = listLock
      BY <1>1, <1>5, <1>7, <2>1 DEF Visit
    <2>4. [op |-> "fflush", at |-> "walk", f |-> g] \in StreamTasks
      BY <2>2 DEF StreamTasks
    <2>5. /\ streamTask' \in [StreamThreads -> StreamTasks \cup {Idle}]
          /\ streamTask'[t].at = "walk" /\ streamTask'[t].f = g
          /\ \A u \in StreamThreads : u # t => streamTask'[u] = streamTask[u]
      BY <1>2, <2>3, <2>4, GotoIs
    <2>6. StreamLocks'
      BY <1>2, <2>3, <2>5 DEF StreamLocks, Of
    <2>7. Of(t)' \in ToSet(list) /\ listLock' \in StreamThreads \cup {Nobody}
      BY <1>3, <2>2, <2>3, <2>5 DEF Of
    <2> QED BY <1>2, <1>4, <2>5, <2>6, <2>7, WalkStep
  <1> QED BY <1>6, <1>7

LEMMA FflushStdKeeps ==
    ASSUME StreamsAssumption, StreamsInv, NEW t \in StreamThreads, FflushStd(t)
    PROVE  StreamsInv'
  <1>1. UNCHANGED <<list, listLock, lock, mem, fd, openFds, streamTask>>
    BY DEF FflushStd
  <1>2. PICK f \in Std :
          /\ Used(f) = {}
          /\ misused' = (misused \/ mem[f] # "alive" \/ fd[f] \notin openFds \cup {NoFd})
    BY DEF FflushStd, Flushed, Wild, Freed
  <1>3. StreamsTyped /\ misused = FALSE
    BY DEF StreamsInv, StreamsTyped
  <1>4. \A u \in StreamThreads : streamTask[u].at # "out" => Of(u) # f
    BY <1>2, <1>3, Unused
  <1>5. mem[f] = "alive" /\ f \in Object
    BY DEF StreamsInv, Living, StreamsAssumption
  \* It is on the list, or was closed
  <1>6. fd[f] \in openFds \cup {NoFd}
    <2>1. f \in ToSet(list) => Connected(f)
      BY <1>4 DEF Connected
    <2> QED BY <1>4, <1>5, <2>1 DEF StreamsInv, Connections
  <1>7. misused' = misused
    BY <1>2, <1>3, <1>5, <1>6
  <1> QED BY <1>1, <1>7, StreamsFrame

LEMMA FlockfileKeeps ==
    ASSUME StreamsAssumption, StreamsInv, NEW t \in StreamThreads, Flockfile(t)
    PROVE  StreamsInv'
  <1>1. /\ UNCHANGED <<list, listLock, mem, fd, openFds, misused>> /\ misused' = FALSE
        /\ streamTask[t].at = "out" /\ listLock' \in StreamThreads \cup {Nobody}
        /\ StreamsTyped /\ StreamLocks /\ Nobody \notin StreamThreads
    BY DEF Flockfile, StreamCall, Idle, StreamsInv, StreamsTyped, StreamsAssumption
  <1>2. PICK f \in ToSet(list) :
          /\ lock[f] = Nobody /\ {u \in Used(f) : streamTask[u].op # "fflush"} = {}
          /\ lock' = [lock EXCEPT ![f] = t]
          /\ StreamGoto(t, "hold", "hold", f)
    BY DEF Flockfile
  <1>3. f \in Object /\ \A u \in StreamThreads : streamTask[u].at \in Exclusive => Of(u) # f
    BY <1>1, <1>2, Unused DEF StreamsInv, Living, Exclusive
  <1>4. [op |-> "hold", at |-> "hold", f |-> f] \in StreamTasks
    BY <1>3 DEF StreamTasks, Exclusive
  <1>5. /\ streamTask' \in [StreamThreads -> StreamTasks \cup {Idle}]
        /\ streamTask'[t].at = "hold" /\ streamTask'[t].f = f
        /\ \A u \in StreamThreads : u # t => streamTask'[u] = streamTask[u]
    BY <1>1, <1>2, <1>4, GotoIs
  <1>6. /\ lock' \in [Object -> StreamThreads \cup {Nobody}]
        /\ lock'[f] = t /\ \A g \in Object : g # f => lock'[g] = lock[g]
    BY <1>1, <1>2, <1>3 DEF StreamsTyped
  <1>7. StreamLocks'
    BY <1>1, <1>2, <1>3, <1>5, <1>6 DEF StreamLocks, Of
  <1>8. /\ Of(t)' \in ToSet(list)
        /\ \A u \in StreamThreads : u # t /\ streamTask[u].at \in Exclusive => Of(u) # Of(t)'
    <2>1. Of(t)' = f
      BY <1>5 DEF Of
    <2> QED BY <1>2, <1>3, <2>1
  <1> QED BY <1>1, <1>5, <1>6, <1>7, <1>8, WalkStep

LEMMA FunlockfileKeeps ==
    ASSUME StreamsAssumption, StreamsInv, NEW t \in StreamThreads, Funlockfile(t)
    PROVE  StreamsInv'
  <1>1. PICK f : f = Of(t)
    OBVIOUS
  <1>2. /\ UNCHANGED <<list, listLock, mem, fd, openFds>> /\ streamTask[t].at = "hold"
        /\ lock' = [lock EXCEPT ![f] = Nobody] /\ Return(t)
        /\ misused' = (misused \/ mem[f] # "alive")
        /\ StreamsTyped /\ StreamLocks /\ Nobody \notin StreamThreads
        /\ listLock' \in StreamThreads \cup {Nobody}
    BY <1>1 DEF Funlockfile, StreamAt, Wild, Freed, StreamsInv, StreamsTyped, StreamsAssumption
  <1>3. f \in Object /\ mem[f] = "alive" /\ lock[f] = t
    BY <1>1, <1>2, TaskIs DEF StreamsInv, Living, StreamLocks
  <1>4. misused' = FALSE
    BY <1>2, <1>3 DEF StreamsTyped
  <1>5. /\ streamTask' \in [StreamThreads -> StreamTasks \cup {Idle}]
        /\ streamTask'[t] = Idle /\ streamTask'[t].at = "out"
        /\ \A u \in StreamThreads : u # t => streamTask'[u] = streamTask[u]
    BY <1>2, ReturnIs
  <1>6. /\ lock' \in [Object -> StreamThreads \cup {Nobody}]
        /\ lock'[f] = Nobody /\ \A g \in Object : g # f => lock'[g] = lock[g]
    BY <1>2, <1>3 DEF StreamsTyped
  <1>7. StreamLocks'
    BY <1>1, <1>2, <1>3, <1>5, <1>6 DEF StreamLocks, Of
  <1> QED BY <1>2, <1>4, <1>5, <1>6, <1>7, WalkStep

\* Who waits for the list waits for the walk, and who waits for a FILE for the
\* holder of its lock, who waits for nobody
LEMMA SomeStreamMoves ==
    ASSUME StreamsAssumption, StreamsInv, NEW t \in StreamThreads, streamTask[t] # Idle
    PROVE  \E u \in StreamThreads : streamTask[u] # Idle /\ ~ StreamWaits(u)
  <1>1. StreamsTyped /\ StreamLocks /\ Nobody \notin StreamThreads
    BY DEF StreamsInv, StreamsAssumption
  <1>2. ASSUME NEW u \in StreamThreads, streamTask[u].at \in {"flush", "walk"},
               ~ LockFree(u, Of(u))
        PROVE  \E v \in StreamThreads : streamTask[v] # Idle /\ ~ StreamWaits(v)
    <2>1. PICK f : f = Of(u)
      OBVIOUS
    <2>2. f \in Object
      BY <1>1, <1>2, <2>1, TaskIs
    <2>3. PICK v \in StreamThreads : lock[f] = v
      BY <1>2, <2>1, <2>2, <1>1 DEF LockFree, StreamsTyped
    <2>4. streamTask[v].at = "hold"
      BY <1>1, <2>2, <2>3 DEF StreamLocks
    <2>5. streamTask[v] # Idle /\ ~ StreamWaits(v)
      BY <2>4 DEF Idle, StreamWaits
    <2> QED BY <2>5
  <1>3. CASE ~ StreamWaits(t)
    BY <1>3
  <1>4. CASE StreamWaits(t) /\ listLock = Nobody
    BY <1>2, <1>4 DEF StreamWaits, ListFree
  <1>5. CASE StreamWaits(t) /\ listLock # Nobody
    <2>1. PICK u \in StreamThreads : listLock = u
      BY <1>1, <1>5 DEF StreamsTyped
    <2>2. streamTask[u].at = "walk" /\ streamTask[u] # Idle
      BY <1>1, <2>1 DEF StreamLocks, Idle
    <2>3. CASE LockFree(u, Of(u))
      BY <2>2, <2>3 DEF StreamWaits
    <2> QED BY <1>2, <2>2, <2>3
  <1> QED BY <1>3, <1>4, <1>5

LEMMA StreamsInvariantIntact ==
    ASSUME StreamsAssumption, StreamsInv
    PROVE  StreamsIntact
  <1> DEFINE Closers == {"add", "flush", "close", "release"}
  <1>1. StreamsTyped /\ Listed /\ Living /\ Connections /\ ~ misused /\ IsInjective(list)
    BY DEF StreamsInv, StreamsTyped
  <1>2. ToSet(list) \cap Busy(Closers) = {}
    BY <1>1 DEF Busy, Listed, Of
  <1>3. ToSet(list) \subseteq Object
    BY <1>1 DEF Living
  <1>4. Busy(Closers) \subseteq {f \in Object : mem[f] = "alive"}
    <2> SUFFICES ASSUME NEW u \in StreamThreads, streamTask[u].at \in Closers
                 PROVE  streamTask[u].f \in Object /\ mem[streamTask[u].f] = "alive"
      BY DEF Busy
    <2>1. streamTask[u] # Idle
      BY DEF Idle
    <2> QED BY <1>1, <2>1, TaskIs DEF Living, Of
  <1>5. \A f \in Object : mem[f] = "alive" => f \in Std \cup ToSet(list) \cup Busy(Closers)
    BY <1>1 DEF Living, Busy, Of
  <1>6. {f \in Object : mem[f] = "alive"} \ Std = (ToSet(list) \cup Busy(Closers)) \ Std
    BY <1>1, <1>4, <1>5 DEF Living
  <1>7. \A f \in ToSet(list) : fd[f] \in openFds \/ f \in Busy({"drop"})
    BY <1>1, <1>3 DEF Connections, Connected, Busy, Of
  <1>8. Std \subseteq {f \in Object : mem[f] = "alive"}
    BY <1>1 DEF Living
  <1>9. (\E t \in StreamThreads : streamTask[t] # Idle) =>
           \E t \in StreamThreads : streamTask[t] # Idle /\ ~ StreamWaits(t)
    BY SomeStreamMoves
  <1> QED BY <1>1, <1>2, <1>6, <1>7, <1>8, <1>9 DEF StreamsIntact

\* In every reachable state, of any number of threads and streams, no freed FILE
\* and no closed descriptor is used, the list and the FILEs that are alive agree,
\* and some call can go on: _fclose_fp() takes a FILE off the list before it
\* frees it, and who does not find it there goes no further.
THEOREM StreamsCorrect ==
    ASSUME StreamsAssumption
    PROVE  StreamsSpec => []StreamsIntact
  <1>1. StreamsInit => StreamsInv
    BY StreamsStart
  <1>2. ASSUME StreamsInv, [StreamsNext]_streamsVars PROVE StreamsInv'
    <2>1. ASSUME NEW t \in StreamThreads,
                 Fopen(t) \/ AddToList(t) \/ Fclose(t) \/ FlushLast(t) \/ CloseFd(t)
          PROVE  StreamsInv'
      BY <1>2, <2>1, FopenKeeps, AddToListKeeps, FcloseKeeps, FlushLastKeeps, CloseFdKeeps
    <2>2. ASSUME NEW t \in StreamThreads,
                 Release(t) \/ Freopen(t) \/ Reopen(t) \/ DropConnection(t) \/ FflushAll(t)
          PROVE  StreamsInv'
      BY <1>2, <2>2, ReleaseKeeps, FreopenKeeps, ReopenKeeps, DropKeeps, FflushAllKeeps
    <2>3. ASSUME NEW t \in StreamThreads,
                 Visit(t) \/ FflushStd(t) \/ Flockfile(t) \/ Funlockfile(t)
          PROVE  StreamsInv'
      BY <1>2, <2>3, VisitKeeps, FflushStdKeeps, FlockfileKeeps, FunlockfileKeeps
    <2>4. CASE UNCHANGED streamsVars
      BY <1>2, <2>4, StreamsFrame DEF streamsVars
    <2> QED BY <1>2, <2>1, <2>2, <2>3, <2>4 DEF StreamsNext
  <1>3. StreamsInv => StreamsIntact
    BY StreamsInvariantIntact
  <1> QED BY <1>1, <1>2, <1>3, PTL DEF StreamsSpec
-----------------------------------------------------------------------------
(* Exit handlers.  A place is a slot of a node of the chain; from the      *)
(* bottom up the handlers in them are in the order of their registration.  *)
(* A walk that will go on from its cursor has left no handler it is to     *)
(* call above it.                                                          *)

Holding(k, i) == slot[chain[k]][i]
Slots == 1..AtexitMax
Above(m, j, k, i) == k < m \/ (k = m /\ i < j)

ExitFrame ==
    [handle : Handle \cup {NULL}, exit : BOOLEAN, mod : Nat, node : Addr,
     i : 0..AtexitMax, runs : 1..MaxReg]

ExitTyped ==
    /\ static \in BOOLEAN /\ over \in BOOLEAN
    /\ chain \in Seq(Addr) /\ IsInjective(chain)
    /\ handles \in Seq(Handle \cup {NULL}) /\ Len(handles) <= MaxReg
    /\ slot \in [Addr -> [Slots -> 0..Len(handles)]]
    /\ usedCnt \in 0..AtexitMax /\ modCnt \in Nat
    /\ called \in [1..MaxReg -> Nat]

InOrder ==
    /\ \A k, m \in 1..Len(chain), i, j \in Slots :
          Above(m, j, k, i) /\ Holding(k, i) # NULL /\ Holding(m, j) # NULL =>
             Holding(k, i) < Holding(m, j)
    /\ chain # <<>> => \A i \in Slots : usedCnt < i => Holding(Len(chain), i) = NULL
    /\ static => chain # <<>> /\ chain[1] = 1

Counted ==
    /\ \A d \in 1..MaxReg : called[d] = IF d \in Reg /\ d \notin Pending THEN 1 ELSE 0
    /\ over => Pending = {}

\* No handler for h is above slot i of the k-th node
Left(h, k, i) ==
    \A m \in 1..Len(chain), j \in Slots :
        Above(m, j, k, i) /\ Holding(m, j) # NULL => ~ Matches(h, Holding(m, j))

FineFrame ==
    {f \in ExitFrame :
        /\ f.mod <= modCnt /\ (f.exit => f.handle = NULL)
        /\ f.mod = modCnt => \E k \in 1..Len(chain) : chain[k] = f.node /\ Left(f.handle, k, f.i)}

WalksFine == frames \in [ExitThreads -> Seq(FineFrame)]

ExitInv == ExitTyped /\ InOrder /\ Counted /\ WalksFine

\* The greatest of a set of small numbers
LEMMA GreatestOf ==
    ASSUME NEW n \in Nat, NEW S \in SUBSET (0..n), S # {}
    PROVE  Max(S) \in S /\ \A j \in S : j <= Max(S)
  <1> DEFINE T == {n - j : j \in S}
  <1>0. \A j \in S : j \in 0..n /\ n - j \in Nat
    OBVIOUS
  <1>1. T \in SUBSET Nat /\ T # {}
    BY <1>0
  <1>2. PICK x \in T : \A y \in T : x <= y
    <2> HIDE DEF T
    <2> QED BY <1>1, LeastOf
  <1>3. PICK g \in S : x = n - g
    BY <1>2
  <1>4. ASSUME NEW j \in S PROVE j <= g
    <2>1. n - j \in T /\ j \in Int /\ g \in Int
      BY <1>0
    <2>2. n - g <= n - j
      BY <1>2, <1>3, <2>1
    <2> QED BY <2>1, <2>2
  <1>5. \E g2 \in S : \A j \in S : g2 >= j
    BY <1>4
  <1>6. Max(S) \in S /\ \A j \in S : Max(S) >= j
    BY <1>5 DEF Max
  <1>7. PICK h \in S : h = Max(S)
    BY <1>6
  <1>8. \A j \in S : j <= h
    BY <1>0, <1>6, <1>7
  <1> QED BY <1>7, <1>8

LEMMA UppermostIs ==
    ASSUME ExitAssumption, NEW n \in Nat, NEW P \in SUBSET ((1..n) \X Slots), P # {}
    PROVE  Uppermost(P) \in P /\ \A q \in P : ~ Above(q[1], q[2], Uppermost(P)[1], Uppermost(P)[2])
  <1>1. AtexitMax \in Nat
    BY DEF ExitAssumption
  <1>2. \A q \in P : q[1] \in 1..n /\ q[2] \in 1..AtexitMax
    BY DEF Slots
  <1> DEFINE A == {q[1] : q \in P}  a == Max(A)
             B == {q[2] : q \in {r \in P : r[1] = a}}  b == Max(B)
  <1>3. a \in A /\ \A j \in A : j <= a
    <2>1. A \in SUBSET (0..n) /\ A # {}
      BY <1>2
    <2> HIDE DEF A
    <2> QED BY <2>1, GreatestOf
  <1> HIDE DEF a
  <1>4. b \in B /\ \A j \in B : j <= b
    <2>1. B \in SUBSET (0..AtexitMax) /\ B # {}
      BY <1>2, <1>3
    <2> HIDE DEF B
    <2> QED BY <1>1, <2>1, GreatestOf
  <1> HIDE DEF b
  <1>5. PICK p \in P : p[1] = a /\ p[2] = b
    BY <1>4
  <1>6. \A q \in P : q[1] < p[1] \/ (q[1] = p[1] /\ q[2] <= p[2])
    <2> SUFFICES ASSUME NEW q \in P PROVE q[1] < p[1] \/ (q[1] = p[1] /\ q[2] <= p[2])
      OBVIOUS
    <2>1. q[1] \in A /\ q[1] <= p[1] /\ q[1] \in Nat /\ p[1] \in Nat
      BY <1>2, <1>3, <1>5
    <2>2. CASE q[1] = p[1]
      <3>1. q[2] \in B
        BY <1>5, <2>2
      <3> QED BY <1>4, <1>5, <2>2, <3>1
    <2>3. CASE q[1] # p[1]
      BY <2>1, <2>3
    <2> QED BY <2>2, <2>3
  <1> DEFINE u == Uppermost(P)
  <1>7. u \in P /\ \A q \in P : q[1] < u[1] \/ (q[1] = u[1] /\ q[2] <= u[2])
    BY <1>6 DEF Uppermost
  <1> HIDE DEF u
  <1>8. ASSUME NEW q \in P PROVE ~ Above(q[1], q[2], u[1], u[2])
    <2>1. q[1] \in Nat /\ q[2] \in Nat /\ u[1] \in Nat /\ u[2] \in Nat
      BY <1>2, <1>7
    <2> QED BY <1>7, <2>1 DEF Above
  <1> QED BY <1>7, <1>8 DEF u

\* What the type invariant says of the places
LEMMA PlaceIs ==
    ASSUME ExitAssumption, ExitTyped
    PROVE  /\ Len(chain) \in Nat /\ DOMAIN chain = 1..Len(chain)
           /\ AtexitMax \in Nat /\ Slots \subseteq Nat /\ Len(handles) \in Nat
           /\ \A k \in 1..Len(chain), i \in Slots :
                 chain[k] \in Addr /\ Holding(k, i) \in 0..Len(handles)
           /\ \A k, m \in 1..Len(chain) : chain[k] = chain[m] => k = m
           /\ \A d : d \in Pending <=>
                 d # NULL /\ \E k \in 1..Len(chain), i \in Slots : Holding(k, i) = d
           /\ Reg \subseteq 1..MaxReg
  <1>1. Len(chain) \in Nat /\ DOMAIN chain = 1..Len(chain) /\ Len(handles) \in Nat
    BY LenProperties DEF ExitTyped
  <1>2. AtexitMax \in Nat /\ Slots \subseteq Nat /\ MaxReg \in Nat
    BY DEF ExitAssumption, Slots
  <1>3. ASSUME NEW k \in 1..Len(chain), NEW i \in Slots
        PROVE  chain[k] \in Addr /\ Holding(k, i) \in 0..Len(handles)
    <2>1. chain[k] \in Addr
      BY ElementOfSeq DEF ExitTyped
    <2> QED BY <2>1 DEF ExitTyped, Holding
  <1>4. \A k, m \in 1..Len(chain) : chain[k] = chain[m] => k = m
    BY <1>1 DEF ExitTyped, IsInjective
  <1>5. \A d : d \in Pending <=>
           d # NULL /\ \E k \in 1..Len(chain), i \in Slots : Holding(k, i) = d
    BY <1>1 DEF Pending, Slots, Holding
  <1>6. Reg \subseteq 1..MaxReg
    BY <1>1, <1>2 DEF Reg, ExitTyped
  <1> QED BY <1>1, <1>2, <1>3, <1>4, <1>5, <1>6

\* Two places that hold handlers hold different ones, in the order of the places
LEMMA OrderIs ==
    ASSUME ExitAssumption, ExitTyped, InOrder,
           NEW k \in 1..Len(chain), NEW m \in 1..Len(chain), NEW i \in Slots, NEW j \in Slots,
           Holding(k, i) # NULL, Holding(m, j) # NULL
    PROVE  /\ Above(m, j, k, i) => Holding(k, i) < Holding(m, j)
           /\ ~ Above(m, j, k, i) => Holding(m, j) <= Holding(k, i)
           /\ Holding(k, i) = Holding(m, j) => k = m /\ i = j
  <1>1. k \in Nat /\ m \in Nat /\ i \in Nat /\ j \in Nat
        /\ Holding(k, i) \in Nat /\ Holding(m, j) \in Nat
    BY PlaceIs
  <1>2. Above(m, j, k, i) => Holding(k, i) < Holding(m, j)
    BY DEF InOrder
  <1>3. Above(k, i, m, j) => Holding(m, j) < Holding(k, i)
    BY DEF InOrder
  <1>4. Above(m, j, k, i) \/ Above(k, i, m, j) \/ (k = m /\ i = j)
    BY <1>1 DEF Above
  <1> QED BY <1>1, <1>2, <1>3, <1>4

LEMMA ExitStart ==
    ASSUME ExitAssumption, ExitInit
    PROVE  ExitInv
  <1>1. /\ static \in BOOLEAN /\ over = FALSE /\ handles = <<>> /\ usedCnt = 0 /\ modCnt = 0
        /\ chain = (IF static THEN <<1>> ELSE <<>>) /\ slot = [a \in Addr |-> Empty]
        /\ called = [d \in 1..MaxReg |-> 0] /\ frames = [t \in ExitThreads |-> <<>>]
        /\ AtexitMax \in Nat \ {0} /\ MaxReg \in Nat /\ 1 \in Addr
    BY DEF ExitInit, ExitAssumption
  <1>2. /\ handles \in Seq(Handle \cup {NULL}) /\ Len(handles) = 0
        /\ \A t \in ExitThreads : frames[t] \in Seq(FineFrame)
    BY <1>1, EmptySeq
  <1>3. chain \in Seq(Addr) /\ IsInjective(chain) /\ (static => chain # <<>> /\ chain[1] = 1)
    <2>1. CASE static
      <3>1. chain = [k \in 1..1 |-> 1]
        BY <1>1, <2>1
      <3> QED BY <1>1, <2>1, <3>1, SeqDef DEF IsInjective
    <2>2. CASE ~ static
      BY <1>1, <2>2, EmptySeq DEF IsInjective
    <2> QED BY <2>1, <2>2
  <1>4. Len(chain) \in Nat
    BY <1>3, LenProperties
  <1>5. ExitTyped
    <2>1. slot \in [Addr -> [Slots -> 0..Len(handles)]]
      BY <1>1, <1>2 DEF Empty, Slots, NULL
    <2>3. called \in [1..MaxReg -> Nat]
      BY <1>1
    <2>4. Len(handles) <= MaxReg /\ usedCnt \in 0..AtexitMax /\ modCnt \in Nat
      BY <1>1, <1>2
    <2>5. static \in BOOLEAN /\ over \in BOOLEAN
      BY <1>1
    <2> QED BY <1>2, <1>3, <2>1, <2>3, <2>4, <2>5 DEF ExitTyped
  <1>6. \A k \in 1..Len(chain), i \in Slots : Holding(k, i) = NULL
    <2> SUFFICES ASSUME NEW k \in 1..Len(chain), NEW i \in Slots PROVE slot[chain[k]][i] = NULL
      BY DEF Holding
    <2>1. chain[k] \in Addr
      BY <1>3, ElementOfSeq
    <2> QED BY <1>1, <2>1 DEF Empty, Slots
  <1>7. InOrder
    <2>1. chain # <<>> => Len(chain) \in 1..Len(chain)
      BY <1>3, <1>4, EmptySeq
    <2> QED BY <1>3, <1>6, <2>1 DEF InOrder
  <1>8. Counted
    <2>1. Reg = {}
      BY <1>2 DEF Reg
    <2> QED BY <1>1, <2>1 DEF Counted
  <1>9. WalksFine
    BY <1>1, <1>2 DEF WalksFine
  <1> QED BY <1>5, <1>7, <1>8, <1>9 DEF ExitInv

\* The walks of one thread change
LEMMA FramesStep ==
    ASSUME NEW Fine, NEW Fine2, Fine \subseteq Fine2, NEW new \in Seq(Fine2),
           frames \in [ExitThreads -> Seq(Fine)],
           NEW t \in ExitThreads, frames' = [frames EXCEPT ![t] = new]
    PROVE  frames' \in [ExitThreads -> Seq(Fine2)]
  <1>1. Seq(Fine) \subseteq Seq(Fine2)
    BY SeqDef
  <1> QED BY <1>1

LEMMA KeptIs ==
    ASSUME ExitAssumption, ExitTyped
    PROVE  /\ Kept \in 0..Len(chain)
           /\ \A k \in 1..Len(chain) : Kept < k => \A i \in Slots : Holding(k, i) = NULL
           /\ static /\ chain # <<>> => Kept # 0
  <1>1. Len(chain) \in Nat /\ DOMAIN chain = 1..Len(chain)
    BY PlaceIs
  <1> DEFINE S == {0} \cup {k \in DOMAIN chain : (static /\ k = 1) \/ slot[chain[k]] # Empty}
  <1>2. S \in SUBSET (0..Len(chain)) /\ S # {}
    BY <1>1
  <1>3. \A k \in 1..Len(chain) : k \in S \/ (slot[chain[k]] = Empty /\ ~ (static /\ k = 1))
    BY <1>1
  <1>4. Kept = Max(S)
    BY DEF Kept
  <1> HIDE DEF S
  <1>5. Kept \in S /\ \A j \in S : j <= Kept
    BY <1>1, <1>2, <1>4, GreatestOf
  <1>6. Kept \in 0..Len(chain)
    BY <1>2, <1>5
  <1>7. ASSUME NEW k \in 1..Len(chain), Kept < k PROVE \A i \in Slots : Holding(k, i) = NULL
    <2>1. ~ (k <= Kept)
      BY <1>1, <1>6, <1>7
    <2>2. slot[chain[k]] = Empty
      BY <1>3, <1>5, <2>1
    <2> QED BY <2>2 DEF Holding, Empty, Slots
  <1>8. ASSUME static, chain # <<>> PROVE Kept # 0
    <2>1. 1 \in 1..Len(chain)
      BY <1>1, <1>8, EmptySeq DEF ExitTyped
    <2>2. 1 \in S
      BY <1>3, <1>8, <2>1
    <2> QED BY <1>5, <2>2
  <1> QED BY <1>6, <1>7, <1>8

\* What a walk knows of itself when it goes on from slot i of the k-th node
WalkFrame ==
    [handle : Handle \cup {NULL}, exit : BOOLEAN, mod : Nat, node : Addr \cup {NULL},
     i : 0..AtexitMax, runs : 0..MaxReg]
Walking(f, k, i) ==
    /\ f \in WalkFrame /\ f.mod = modCnt /\ (f.exit => f.handle = NULL)
    /\ k \in 0..Len(chain) /\ i \in 0..AtexitMax /\ Left(f.handle, k, i)

\* A pending handler the walk is to call is in one of its places
LEMMA PlacesAre ==
    ASSUME ExitAssumption, ExitTyped, NEW f, NEW k, NEW i, Walking(f, k, i)
    PROVE  /\ Places(k, i, f.handle) \in SUBSET ((1..k) \X Slots)
           /\ \A p \in Places(k, i, f.handle) :
                 /\ p[1] \in 1..Len(chain) /\ p[2] \in Slots
                 /\ Holding(p[1], p[2]) \in 1..Len(handles)
                 /\ Matches(f.handle, Holding(p[1], p[2]))
           /\ \A m \in 1..Len(chain), j \in Slots :
                 Holding(m, j) # NULL /\ Matches(f.handle, Holding(m, j)) =>
                    <<m, j>> \in Places(k, i, f.handle)
  <1>1. k \in 0..Len(chain) /\ i \in 0..AtexitMax /\ Left(f.handle, k, i)
    BY DEF Walking
  <1>2. Places(k, i, f.handle) \in SUBSET ((1..k) \X Slots)
    BY DEF Places, Slots
  <1>3. ASSUME NEW p \in Places(k, i, f.handle)
        PROVE  /\ p[1] \in 1..Len(chain) /\ p[2] \in Slots
               /\ Holding(p[1], p[2]) \in 1..Len(handles)
               /\ Matches(f.handle, Holding(p[1], p[2]))
    <2>1. p[1] \in 1..Len(chain) /\ p[2] \in Slots
      BY <1>1, <1>2, PlaceIs
    <2>2. Holding(p[1], p[2]) # NULL /\ Matches(f.handle, Holding(p[1], p[2]))
      BY DEF Places, Holding
    <2>3. Holding(p[1], p[2]) \in 0..Len(handles) /\ Len(handles) \in Nat
      BY <2>1, PlaceIs
    <2> QED BY <2>1, <2>2, <2>3 DEF NULL
  <1>4. ASSUME NEW m \in 1..Len(chain), NEW j \in Slots, Holding(m, j) # NULL,
               Matches(f.handle, Holding(m, j))
        PROVE  <<m, j>> \in Places(k, i, f.handle)
    <2>1. ~ Above(m, j, k, i)
      BY <1>1, <1>4 DEF Left
    <2>2. m \in Nat /\ j \in Nat /\ k \in Nat /\ i \in Nat
      BY <1>1, PlaceIs
    <2>3. m \in 1..k /\ (m < k \/ j <= i)
      BY <2>1, <2>2 DEF Above
    <2> QED BY <1>4, <2>3 DEF Places, Slots, Holding
  <1> QED BY <1>2, <1>3, <1>4

LEMMA TakeKeeps ==
    ASSUME ExitAssumption, ExitInv, NEW t \in ExitThreads, NEW below \in Seq(FineFrame),
           NEW f, NEW k, NEW i, Walking(f, k, i), NEW p \in Places(k, i, f.handle),
           \A q \in Places(k, i, f.handle) : ~ Above(q[1], q[2], p[1], p[2]),
           TakeHandler(t, below, f, p)
    PROVE  ExitInv' /\ LatestFirst
  <1>1. ExitTyped /\ InOrder /\ Counted /\ WalksFine
    BY DEF ExitInv
  <1>2. /\ Len(chain) \in Nat /\ AtexitMax \in Nat /\ Slots \subseteq Nat /\ Len(handles) \in Nat
        /\ DOMAIN chain = 1..Len(chain)
        /\ \A m \in 1..Len(chain), j \in Slots :
              chain[m] \in Addr /\ Holding(m, j) \in 0..Len(handles)
        /\ \A m, n \in 1..Len(chain) : chain[m] = chain[n] => m = n
        /\ \A d : d \in Pending <=>
              d # NULL /\ \E m \in 1..Len(chain), j \in Slots : Holding(m, j) = d
        /\ Reg \subseteq 1..MaxReg
    BY <1>1, PlaceIs
  <1>3. /\ p[1] \in 1..Len(chain) /\ p[2] \in Slots
        /\ Holding(p[1], p[2]) \in 1..Len(handles) /\ Matches(f.handle, Holding(p[1], p[2]))
    BY <1>1, PlacesAre
  <1> PICK a \in 1..Len(chain), b \in Slots, d \in 1..Len(handles) :
              a = p[1] /\ b = p[2] /\ d = Holding(a, b)
    BY <1>3
  <1>4. /\ a = p[1] /\ b = p[2] /\ d = Holding(a, b)
        /\ a \in 1..Len(chain) /\ b \in Slots /\ d \in 1..Len(handles)
        /\ Matches(f.handle, d) /\ a \in Nat /\ b \in Nat /\ d # NULL
        /\ d \in 1..MaxReg /\ d \in Reg
    BY <1>2, <1>3 DEF NULL, Reg
  <1>5. d \in Pending
    BY <1>2, <1>4
  <1>6. /\ slot' = [slot EXCEPT ![chain[a]][b] = NULL]
        /\ called' = [called EXCEPT ![d] = @ + 1]
        /\ frames' = [frames EXCEPT ![t] = Append(below,
                        [f EXCEPT !.node = chain[a], !.i = b - 1, !.runs = d])]
        /\ chain' = chain /\ static' = static /\ usedCnt' = usedCnt /\ modCnt' = modCnt
        /\ handles' = handles /\ over' = over
    BY <1>4 DEF TakeHandler, Holding
  <1>7. ASSUME NEW m \in 1..Len(chain), NEW j \in Slots
        PROVE  /\ Holding(m, j)' = slot'[chain[m]][j]
               /\ slot'[chain[m]][j] = IF m = a /\ j = b THEN NULL ELSE Holding(m, j)
    <2>1. chain[m] \in Addr /\ slot[chain[m]] \in [Slots -> 0..Len(handles)]
      BY <1>1, <1>2 DEF ExitTyped
    <2>2. CASE m = a
      <3>1. slot'[chain[a]] = [slot[chain[a]] EXCEPT ![b] = NULL]
        BY <1>1, <1>6, <2>1, <2>2 DEF ExitTyped
      <3>2. slot'[chain[m]][j] = IF j = b THEN NULL ELSE slot[chain[m]][j]
        BY <2>1, <2>2, <3>1
      <3> QED BY <1>6, <2>2, <3>2 DEF Holding
    <2>3. CASE m # a
      <3>1. chain[m] # chain[a]
        BY <1>2, <1>4, <2>3
      <3> QED BY <1>1, <1>6, <2>1, <2>3, <3>1 DEF Holding, ExitTyped
    <2> QED BY <2>2, <2>3
  <1>8. f \in WalkFrame /\ f.mod = modCnt /\ (f.exit => f.handle = NULL) /\ Left(f.handle, k, i)
    BY DEF Walking
  <1> PICK g : g = [f EXCEPT !.node = chain[a], !.i = b - 1, !.runs = d]
    OBVIOUS
  <1>9. g \in ExitFrame /\ g.mod = modCnt /\ g.exit = f.exit /\ g.handle = f.handle
        /\ g.node = chain[a] /\ g.i = b - 1 /\ g.runs = d
    <2>1. b - 1 \in 0..AtexitMax /\ chain[a] \in Addr
      BY <1>2, <1>4 DEF Slots
    <2> QED BY <1>4, <1>8, <2>1 DEF WalkFrame, ExitFrame
  <1>10. frames' = [frames EXCEPT ![t] = Append(below, g)]
    BY <1>6
  <1>13. Pending' = Pending \ {d}
    <2>1. Pending' = {slot'[chain[m]][j] : m \in 1..Len(chain), j \in Slots} \ {NULL}
      <3>1. chain' = chain /\ DOMAIN chain = 1..Len(chain)
        BY <1>2, <1>6
      <3> QED BY <3>1 DEF Pending, Slots
    <2>2. ASSUME NEW e, e \in Pending' PROVE e \in Pending \ {d}
      <3>1. PICK m \in 1..Len(chain), j \in Slots : slot'[chain[m]][j] = e /\ e # NULL
        BY <2>1, <2>2
      <3>2. e = Holding(m, j) /\ ~ (m = a /\ j = b)
        BY <1>7, <3>1
      <3>3. e # d
        BY <1>1, <1>4, <3>1, <3>2, OrderIs
      <3> QED BY <1>2, <3>1, <3>2, <3>3
    <2>3. ASSUME NEW e \in Pending, e # d PROVE e \in Pending'
      <3>1. PICK m \in 1..Len(chain), j \in Slots : Holding(m, j) = e /\ e # NULL
        BY <1>2
      <3>2. slot'[chain[m]][j] = e
        BY <1>4, <1>7, <2>3, <3>1
      <3> QED BY <2>1, <3>1, <3>2
    <2>4. d \notin Pending'
      BY <2>2
    <2> QED BY <2>2, <2>3, <2>4
  <1>14. ASSUME NEW x \in FineFrame PROVE x \in FineFrame'
    <2>1. x \in ExitFrame /\ x.mod <= modCnt' /\ (x.exit => x.handle = NULL)
      BY <1>6 DEF FineFrame
    <2>2. ASSUME x.mod = modCnt'
          PROVE  \E n \in 1..Len(chain') : chain'[n] = x.node /\ Left(x.handle, n, x.i)'
      <3>1. PICK n \in 1..Len(chain) : chain[n] = x.node /\ Left(x.handle, n, x.i)
        BY <1>6, <2>2 DEF FineFrame
      <3>2. ASSUME NEW m \in 1..Len(chain), NEW j \in Slots, Above(m, j, n, x.i),
                   slot'[chain[m]][j] # NULL
            PROVE  ~ Matches(x.handle, slot'[chain[m]][j])
        <4>1. slot'[chain[m]][j] = Holding(m, j)
          BY <1>7, <3>2
        <4> QED BY <3>1, <3>2, <4>1 DEF Left
      <3>3. Left(x.handle, n, x.i)'
        BY <1>6, <3>2 DEF Left, Holding, Matches
      <3> QED BY <1>6, <3>1, <3>3
    <2> QED BY <2>1, <2>2 DEF FineFrame, Left, Holding, Matches
  <1>15. g \in FineFrame'
    <2>1. g \in ExitFrame /\ g.mod <= modCnt' /\ (g.exit => g.handle = NULL)
      BY <1>1, <1>6, <1>8, <1>9 DEF ExitTyped
    <2>2. ASSUME NEW m \in 1..Len(chain), NEW j \in Slots, Above(m, j, a, g.i),
                 slot'[chain[m]][j] # NULL
          PROVE  ~ Matches(g.handle, slot'[chain[m]][j])
      <3>1. slot'[chain[m]][j] = Holding(m, j)
        BY <1>7, <2>2
      <3>2. ~ (m = a /\ j = b)
        BY <1>7, <2>2
      <3>3. m \in Nat /\ j \in Nat /\ a \in Nat /\ b \in Nat /\ g.i = b - 1
        BY <1>2, <1>4, <1>9
      <3>4. Above(m, j, a, b)
        BY <2>2, <3>2, <3>3 DEF Above
      <3>5. <<m, j>> \notin Places(k, i, f.handle)
        BY <1>4, <3>4
      <3> QED BY <1>1, <1>9, <2>2, <3>1, <3>5, PlacesAre
    <2>3. Left(g.handle, a, g.i)'
      BY <1>6, <2>2 DEF Left, Holding, Matches
    <2>4. \E n \in 1..Len(chain') : chain'[n] = g.node /\ Left(g.handle, n, g.i)'
      BY <1>4, <1>6, <1>9, <2>3
    <2> QED BY <2>1, <2>4 DEF FineFrame, Left, Holding, Matches
  <1>16. Append(below, g) \in Seq(FineFrame')
    <2>1. below \in Seq(FineFrame')
      BY <1>14, SeqDef
    <2> QED BY <1>15, <2>1, AppendProperties
  <1>18. WalksFine'
    <2>1. frames \in [ExitThreads -> Seq(FineFrame)]
      BY <1>1 DEF WalksFine
    <2>2. FineFrame \subseteq FineFrame'
      BY <1>14
    <2>3. frames' \in [ExitThreads -> Seq(FineFrame')]
      BY <1>10, <1>16, <2>1, <2>2, FramesStep
    <2> QED BY <2>3 DEF WalksFine
  <1>19. ExitTyped'
    <2>1. slot' \in [Addr -> [Slots -> 0..Len(handles)]]
      <3> DEFINE r == [slot[chain[a]] EXCEPT ![b] = NULL]
      <3>1. chain[a] \in Addr /\ slot[chain[a]] \in [Slots -> 0..Len(handles)]
        BY <1>1, <1>2 DEF ExitTyped
      <3>2. r \in [Slots -> 0..Len(handles)]
        BY SMTT(30), <1>2, <3>1 DEF NULL
      <3>3. slot' = [slot EXCEPT ![chain[a]] = r] /\ slot \in [Addr -> [Slots -> 0..Len(handles)]]
        BY <1>1, <1>6 DEF ExitTyped
      <3> HIDE DEF r
      <3> QED BY <3>1, <3>2, <3>3
    <2>2. called' \in [1..MaxReg -> Nat]
      <3>1. called \in [1..MaxReg -> Nat] /\ d \in 1..MaxReg /\ called' = [called EXCEPT ![d] = @ + 1]
        BY <1>1, <1>4, <1>6 DEF ExitTyped
      <3> QED BY <3>1
    <2> QED BY <1>1, <1>6, <2>1, <2>2 DEF ExitTyped
  <1>20. InOrder'
    <2>1. ASSUME NEW m \in 1..Len(chain), NEW n \in 1..Len(chain), NEW j \in Slots, NEW l \in Slots,
                 Above(n, l, m, j), slot'[chain[m]][j] # NULL, slot'[chain[n]][l] # NULL
          PROVE  slot'[chain[m]][j] < slot'[chain[n]][l]
      BY <1>1, <1>7, <2>1 DEF InOrder
    <2>2. ASSUME chain # <<>>, NEW j \in Slots, usedCnt < j
          PROVE  slot'[chain[Len(chain)]][j] = NULL
      <3>1. Len(chain) \in 1..Len(chain)
        BY <1>1, <1>2, <2>2, EmptySeq DEF ExitTyped
      <3> QED BY <1>1, <1>7, <2>2, <3>1 DEF InOrder
    <2>3. static => chain # <<>> /\ chain[1] = 1
      BY <1>1 DEF InOrder
    <2>4. static' => chain' # <<>> /\ chain'[1] = 1
      BY <1>6, <2>3
    <2>5. chain' # <<>> => \A j \in Slots : usedCnt' < j => slot'[chain'[Len(chain')]][j] = NULL
      BY <1>6, <2>2
    <2>6. \A m, n \in 1..Len(chain'), j, l \in Slots :
             Above(n, l, m, j) /\ slot'[chain'[m]][j] # NULL /\ slot'[chain'[n]][l] # NULL =>
                slot'[chain'[m]][j] < slot'[chain'[n]][l]
      BY <1>6, <2>1
    <2> QED BY <2>4, <2>5, <2>6 DEF InOrder, Holding
  <1>21. Counted'
    <2>1. over' = FALSE
      BY <1>1, <1>5, <1>6 DEF Counted, ExitTyped
    <2>2. ASSUME NEW e \in 1..MaxReg
          PROVE  called'[e] = IF e \in Reg /\ e \notin Pending' THEN 1 ELSE 0
      <3>1. called[e] = IF e \in Reg /\ e \notin Pending THEN 1 ELSE 0
        BY <1>1 DEF Counted
      <3>2. called'[e] = IF e = d THEN called[e] + 1 ELSE called[e]
        BY <1>1, <1>6 DEF ExitTyped
      <3>3. CASE e = d
        <4>1. called[e] = 0
          BY <1>5, <3>1, <3>3
        <4> QED BY <1>4, <1>13, <3>2, <3>3, <4>1
      <3>4. CASE e # d
        BY <1>13, <3>1, <3>2, <3>4
      <3> QED BY <3>3, <3>4
    <2> QED BY <1>6, <2>1, <2>2 DEF Counted, Reg
  <1>22. LatestFirst
    <2> SUFFICES ASSUME NEW u \in ExitThreads, frames'[u] # frames[u],
                        NEW e \in Pending, Matches(Last(frames'[u]).handle, e)
                 PROVE  e <= Last(frames'[u]).runs
      BY DEF LatestFirst
    <2>1. u = t /\ Last(frames'[u]) = g
      <3>1. u = t /\ frames'[u] = Append(below, g)
        BY <1>1, <1>10 DEF WalksFine
      <3>2. /\ Len(Append(below, g)) = Len(below) + 1
            /\ Append(below, g)[Len(below) + 1] = g
        BY <1>9, <1>14, SeqDef
      <3> QED BY <3>1, <3>2 DEF Last
    <2>2. PICK m \in 1..Len(chain), j \in Slots : Holding(m, j) = e /\ e # NULL
      BY <1>2
    <2>3. <<m, j>> \in Places(k, i, f.handle)
      BY <1>1, <1>9, <2>1, <2>2, PlacesAre
    <2>4. ~ Above(m, j, a, b)
      BY <1>4, <2>3
    <2>5. ExitTyped /\ InOrder /\ Holding(a, b) # NULL /\ Holding(m, j) # NULL
      BY <1>1, <1>4, <2>2
    <2>6. Holding(m, j) <= Holding(a, b)
      BY <2>4, <2>5, OrderIs
    <2> QED BY <1>4, <1>9, <2>1, <2>2, <2>6
  <1> QED BY <1>18, <1>19, <1>20, <1>21, <1>22 DEF ExitInv

LEMMA ReleaseNodesKeeps ==
    ASSUME ExitAssumption, ExitInv, NEW t \in ExitThreads, NEW below \in Seq(FineFrame),
           NEW f, NEW k, NEW i, Walking(f, k, i), Places(k, i, f.handle) = {},
           ReleaseNodes(t, below, f)
    PROVE  ExitInv' /\ LatestFirst
  <1>1. ExitTyped /\ InOrder /\ Counted /\ WalksFine
    BY DEF ExitInv
  <1>2. /\ Len(chain) \in Nat /\ AtexitMax \in Nat /\ Slots \subseteq Nat /\ Len(handles) \in Nat
        /\ DOMAIN chain = 1..Len(chain)
        /\ \A m \in 1..Len(chain), j \in Slots :
              chain[m] \in Addr /\ Holding(m, j) \in 0..Len(handles)
        /\ \A m, n \in 1..Len(chain) : chain[m] = chain[n] => m = n
        /\ \A d : d \in Pending <=>
              d # NULL /\ \E m \in 1..Len(chain), j \in Slots : Holding(m, j) = d
        /\ Reg \subseteq 1..MaxReg
    BY <1>1, PlaceIs
  <1>3. PICK c : c = Kept
    OBVIOUS
  <1>4. /\ c \in 0..Len(chain) /\ c \in Nat
        /\ \A n \in 1..Len(chain) : c < n => \A j \in Slots : Holding(n, j) = NULL
        /\ static /\ chain # <<>> => c # 0
    BY <1>1, <1>2, <1>3, KeptIs
  <1>5. /\ chain' = SubSeq(chain, 1, c) /\ modCnt' = modCnt + Len(chain) - c
        /\ usedCnt' = IF c = 0 THEN 0
                      ELSE Max({0} \cup {j \in 1..AtexitMax : slot[chain[c]][j] # NULL})
        /\ frames' = [frames EXCEPT ![t] = below]
        /\ over' = f.exit
        /\ static' = static /\ slot' = slot /\ handles' = handles /\ called' = called
    BY <1>3 DEF ReleaseNodes
  <1>6. chain' \in Seq(Addr) /\ Len(chain') = c /\ \A n \in 1..c : chain'[n] = chain[n]
    <2>1. chain \in Seq(Addr)
      BY <1>1 DEF ExitTyped
    <2>2. PICK n0 \in Int : n0 = c
      BY <1>4
    <2>3. 1..n0 \subseteq 1..Len(chain) /\ 1 \in Int
      BY <1>2, <1>4, <2>2
    <2>4. /\ SubSeq(chain, 1, n0) \in Seq(Addr)
          /\ Len(SubSeq(chain, 1, n0)) = IF 1 <= n0 THEN n0 - 1 + 1 ELSE 0
          /\ \A n \in 1..n0 - 1 + 1 : SubSeq(chain, 1, n0)[n] = chain[1 + n - 1]
      BY <2>1, <2>3, SubSeqProperties
    <2>5. Len(chain') = c
      BY <1>4, <1>5, <2>2, <2>4
    <2>6. ASSUME NEW n \in 1..c PROVE chain'[n] = chain[n]
      <3>1. n \in 1..n0 - 1 + 1 /\ 1 + n - 1 = n
        BY <1>4, <2>2
      <3> QED BY <1>5, <2>2, <2>4, <3>1
    <2> QED BY <1>5, <2>2, <2>4, <2>5, <2>6
  <1>7. DOMAIN chain' = 1..c /\ 1..c \subseteq 1..Len(chain)
    BY <1>2, <1>4, <1>6, LenProperties
  <1>8. f \in WalkFrame /\ (f.exit => f.handle = NULL)
    BY DEF Walking
  <1>9. /\ usedCnt' \in 0..AtexitMax
        /\ c # 0 => \A j \in Slots : usedCnt' < j => slot[chain[c]][j] = NULL
    <2> DEFINE S == {0} \cup {j \in 1..AtexitMax : slot[chain[c]][j] # NULL}
    <2>1. S \in SUBSET (0..AtexitMax) /\ S # {}
      BY <1>2
    <2>2. \A j \in Slots : j \in S \/ slot[chain[c]][j] = NULL
      BY DEF Slots
    <2>3. usedCnt' = IF c = 0 THEN 0 ELSE Max(S)
      BY <1>5
    <2> HIDE DEF S
    <2>4. Max(S) \in S /\ \A j \in S : j <= Max(S)
      BY <1>2, <2>1, GreatestOf
    <2>5. PICK g \in 0..AtexitMax : g = Max(S) /\ \A j \in S : j <= g
      BY <2>1, <2>4
    <2>6. ASSUME NEW j \in Slots, g < j PROVE slot[chain[c]][j] = NULL
      <3>1. j \in Nat /\ ~ (j <= g)
        BY <1>2, <2>5, <2>6
      <3> QED BY <2>2, <2>5, <3>1
    <2> QED BY <1>2, <2>3, <2>5, <2>6
  <1>10. ExitTyped'
    <2>1. IsInjective(chain')
      BY <1>2, <1>6, <1>7 DEF IsInjective
    <2>2. modCnt' \in Nat
      BY <1>1, <1>2, <1>4, <1>5 DEF ExitTyped
    <2>3. over' \in BOOLEAN
      BY <1>5, <1>8 DEF WalkFrame
    <2> QED BY <1>1, <1>5, <1>6, <1>9, <2>1, <2>2, <2>3 DEF ExitTyped
  <1>11. Pending' = Pending
    <2>1. Pending' = {slot[chain'[m]][j] : m \in 1..c, j \in Slots} \ {NULL}
      <3>1. slot' = slot /\ DOMAIN chain' = 1..c
        BY <1>5, <1>7
      <3> QED BY <3>1 DEF Pending, Slots
    <2>2. ASSUME NEW e, e \in Pending' PROVE e \in Pending
      <3>1. PICK m \in 1..c, j \in Slots : slot[chain'[m]][j] = e /\ e # NULL
        BY <2>1, <2>2
      <3>2. m \in 1..Len(chain) /\ Holding(m, j) = e
        BY <1>6, <1>7, <3>1 DEF Holding
      <3> QED BY <1>2, <3>1, <3>2
    <2>3. ASSUME NEW e \in Pending PROVE e \in Pending'
      <3>1. PICK m \in 1..Len(chain), j \in Slots : Holding(m, j) = e /\ e # NULL
        BY <1>2
      <3>2. ~ (c < m)
        BY <1>4, <3>1
      <3>3. m \in 1..c
        BY <1>2, <1>4, <3>2
      <3>4. slot[chain'[m]][j] = e
        BY <1>6, <3>1, <3>3 DEF Holding
      <3> QED BY <2>1, <3>1, <3>3, <3>4
    <2> QED BY <2>2, <2>3
  <1>12. InOrder'
    <2>1. static' => chain' # <<>> /\ chain'[1] = 1
      <3> SUFFICES ASSUME static PROVE chain' # <<>> /\ chain'[1] = 1
        BY <1>5
      <3>1. chain # <<>> /\ chain[1] = 1
        BY <1>1 DEF InOrder
      <3>2. 1 \in 1..c
        BY <1>4, <3>1
      <3> QED BY <1>6, <1>7, <3>1, <3>2
    <2>2. chain' # <<>> => \A j \in Slots : usedCnt' < j => slot'[chain'[Len(chain')]][j] = NULL
      <3> SUFFICES ASSUME chain' # <<>>
                   PROVE  \A j \in Slots : usedCnt' < j => slot[chain'[c]][j] = NULL
        BY <1>5, <1>6
      <3>1. c # 0
        BY <1>6, EmptySeq
      <3>2. chain'[c] = chain[c]
        BY <1>4, <1>6, <3>1
      <3> QED BY <1>9, <3>1, <3>2
    <2>3. \A m, n \in 1..Len(chain'), j, l \in Slots :
             Above(n, l, m, j) /\ slot'[chain'[m]][j] # NULL /\ slot'[chain'[n]][l] # NULL =>
                slot'[chain'[m]][j] < slot'[chain'[n]][l]
      <3> SUFFICES ASSUME NEW m \in 1..c, NEW n \in 1..c, NEW j \in Slots, NEW l \in Slots,
                          Above(n, l, m, j), slot[chain'[m]][j] # NULL, slot[chain'[n]][l] # NULL
                   PROVE  slot[chain'[m]][j] < slot[chain'[n]][l]
        BY <1>5, <1>6
      <3>1. m \in 1..Len(chain) /\ n \in 1..Len(chain)
        BY <1>7
      <3>2. slot[chain'[m]][j] = Holding(m, j) /\ slot[chain'[n]][l] = Holding(n, l)
        BY <1>6 DEF Holding
      <3> QED BY <1>1, <3>1, <3>2 DEF InOrder
    <2> QED BY <2>1, <2>2, <2>3 DEF InOrder, Holding
  <1>13. Counted'
    <2>1. over' => Pending' = {}
      <3> SUFFICES ASSUME f.exit, NEW e \in Pending PROVE FALSE
        BY <1>5, <1>11
      <3>1. PICK m \in 1..Len(chain), j \in Slots : Holding(m, j) = e /\ e # NULL
        BY <1>2
      <3>2. Matches(f.handle, Holding(m, j))
        BY <1>8 DEF Matches
      <3> QED BY <1>1, <3>1, <3>2, PlacesAre
    <2>2. \A d \in 1..MaxReg : called'[d] = IF d \in Reg /\ d \notin Pending' THEN 1 ELSE 0
      BY <1>1, <1>5, <1>11 DEF Counted
    <2> QED BY <1>5, <2>1, <2>2 DEF Counted, Reg
  <1>14. ASSUME NEW x \in FineFrame PROVE x \in FineFrame'
    <2>1. /\ x \in ExitFrame /\ x.mod <= modCnt /\ (x.exit => x.handle = NULL)
          /\ x.mod \in Nat
      BY DEF FineFrame, ExitFrame
    <2>2. x.mod <= modCnt' /\ (x.mod = modCnt' => x.mod = modCnt /\ c = Len(chain))
      <3>1. modCnt \in Nat /\ Len(chain) \in Nat /\ c \in Nat /\ c <= Len(chain)
        BY <1>1, <1>2, <1>4 DEF ExitTyped
      <3>2. modCnt' = modCnt + Len(chain) - c
        BY <1>5
      <3> QED BY <2>1, <3>1, <3>2
    <2>3. ASSUME x.mod = modCnt'
          PROVE  \E n \in 1..Len(chain') : chain'[n] = x.node /\ Left(x.handle, n, x.i)'
      <3>1. PICK n \in 1..Len(chain) : chain[n] = x.node /\ Left(x.handle, n, x.i)
        BY <2>2, <2>3 DEF FineFrame
      <3>2. c = Len(chain) /\ \A m \in 1..Len(chain) : chain'[m] = chain[m]
        BY <1>6, <2>2, <2>3
      <3>3. Left(x.handle, n, x.i)'
        BY <1>5, <1>6, <3>1, <3>2 DEF Left, Holding, Matches
      <3> QED BY <1>6, <3>1, <3>2, <3>3
    <2> QED BY <2>1, <2>2, <2>3 DEF FineFrame, Left, Holding, Matches
  <1>15. WalksFine'
    <2>1. frames \in [ExitThreads -> Seq(FineFrame)]
      BY <1>1 DEF WalksFine
    <2>2. FineFrame \subseteq FineFrame'
      BY <1>14
    <2>3. below \in Seq(FineFrame')
      BY <2>2, SeqDef
    <2>4. frames' \in [ExitThreads -> Seq(FineFrame')]
      BY <1>5, <2>1, <2>2, <2>3, FramesStep
    <2> QED BY <2>4 DEF WalksFine
  <1>16. LatestFirst
    <2> SUFFICES ASSUME NEW u \in ExitThreads, frames'[u] # <<>>,
                        called'[Last(frames'[u]).runs] > called[Last(frames'[u]).runs]
                 PROVE  FALSE
      BY DEF LatestFirst
    <2>1. frames'[u] \in Seq(FineFrame')
      BY <1>15 DEF WalksFine
    <2>2. Len(frames'[u]) \in 1..Len(frames'[u])
      BY <2>1, EmptySeq, LenProperties
    <2>3. Last(frames'[u]) \in FineFrame'
      BY <2>1, <2>2, ElementOfSeq DEF Last
    <2>4. PICK r \in 1..MaxReg : r = Last(frames'[u]).runs
      BY <2>3 DEF FineFrame, ExitFrame
    <2>5. called'[r] = called[r] /\ called[r] \in Nat
      BY <1>1, <1>5 DEF ExitTyped
    <2> QED BY <2>4, <2>5
  <1> QED BY <1>10, <1>12, <1>13, <1>15, <1>16 DEF ExitInv

LEMMA WalkKeeps ==
    ASSUME ExitAssumption, ExitInv, NEW t \in ExitThreads, NEW below \in Seq(FineFrame),
           NEW f, NEW k, NEW i, Walking(f, k, i), Walk(t, below, f, k, i)
    PROVE  ExitInv' /\ LatestFirst
  <1>1. ExitTyped /\ k \in 0..Len(chain) /\ Len(chain) \in Nat
    BY LenProperties DEF ExitInv, ExitTyped, Walking
  <1>2. CASE Places(k, i, f.handle) = {}
    BY <1>2, ReleaseNodesKeeps DEF Walk
  <1>3. CASE Places(k, i, f.handle) # {}
    <2>1. PICK P : P = Places(k, i, f.handle)
      OBVIOUS
    <2>2. P \in SUBSET ((1..k) \X Slots) /\ k \in Nat
      BY <1>1, <2>1, PlacesAre
    <2>3. PICK p \in P : p = Uppermost(P) /\ \A q \in P : ~ Above(q[1], q[2], p[1], p[2])
      BY <1>3, <2>1, <2>2, UppermostIs
    <2>4. TakeHandler(t, below, f, p)
      BY <1>3, <2>1, <2>3 DEF Walk
    <2> QED BY <2>1, <2>3, <2>4, TakeKeeps
  <1> QED BY <1>2, <1>3

\* Nothing is above the top: where a walk starts
LEMMA TopLeft ==
    ASSUME ExitAssumption, ExitInv, NEW h
    PROVE  /\ Len(chain) \in 0..Len(chain) /\ usedCnt \in 0..AtexitMax
           /\ Left(h, Len(chain), usedCnt)
  <1>1. ExitTyped /\ InOrder
    BY DEF ExitInv
  <1>2. Len(chain) \in Nat /\ usedCnt \in 0..AtexitMax
    BY <1>1, LenProperties DEF ExitTyped
  <1>3. ASSUME NEW m \in 1..Len(chain), NEW j \in Slots, Above(m, j, Len(chain), usedCnt)
        PROVE  Holding(m, j) = NULL
    <2>1. m = Len(chain) /\ usedCnt < j /\ chain # <<>>
      BY <1>2, <1>3, EmptySeq DEF Above
    <2> QED BY <1>1, <2>1 DEF InOrder
  <1> QED BY <1>2, <1>3 DEF Left

LEMMA FinalizeKeeps ==
    ASSUME ExitAssumption, ExitInv, NEW t \in ExitThreads, NEW h \in Handle \cup {NULL},
           NEW exit \in BOOLEAN, Finalize(t, h, exit)
    PROVE  ExitInv' /\ LatestFirst
  <1>1. PICK f : f = [handle |-> h, exit |-> exit, mod |-> modCnt, node |-> NULL, i |-> 0,
                      runs |-> NULL]
    OBVIOUS
  <1>2. ExitTyped /\ WalksFine
    BY DEF ExitInv
  <1>3. (exit => h = NULL) /\ Walk(t, frames[t], f, Len(chain), usedCnt)
    BY <1>1 DEF Finalize
  <1>4. f \in WalkFrame /\ f.mod = modCnt /\ (f.exit => f.handle = NULL)
    <2>1. modCnt \in Nat /\ 0 \in 0..AtexitMax /\ 0 \in 0..MaxReg
      BY <1>2 DEF ExitTyped, ExitAssumption
    <2> QED BY <1>1, <1>3, <2>1 DEF WalkFrame, NULL
  <1>5. PICK k, i : k = Len(chain) /\ i = usedCnt
    OBVIOUS
  <1>6. Walking(f, k, i)
    BY <1>4, <1>5, TopLeft DEF Walking
  <1>7. frames[t] \in Seq(FineFrame)
    BY <1>2 DEF WalksFine
  <1>8. PICK below \in Seq(FineFrame) : below = frames[t]
    BY <1>7
  <1>9. Walk(t, below, f, k, i)
    BY <1>3, <1>5, <1>8
  <1> QED BY <1>6, <1>9, WalkKeeps

LEMMA HandlerReturnsKeeps ==
    ASSUME ExitAssumption, ExitInv, NEW t \in ExitThreads, HandlerReturns(t)
    PROVE  ExitInv' /\ LatestFirst
  <1>1. ExitTyped /\ WalksFine /\ modCnt \in Nat /\ frames[t] \in Seq(FineFrame)
    BY DEF ExitInv, ExitTyped, WalksFine
  <1>2. PICK s \in Seq(FineFrame) : s = frames[t] /\ s # <<>>
    BY <1>1 DEF HandlerReturns
  <1>3. PICK below, f : below = Front(s) /\ f = Last(s)
    OBVIOUS
  <1>4. Len(s) \in 1..Len(s) /\ Len(s) \in Nat
    BY EmptySeq, LenProperties, <1>2
  <1>5. f \in FineFrame /\ below \in Seq(FineFrame)
    <2>1. f \in FineFrame
      BY <1>3, <1>4, ElementOfSeq DEF Last
    <2>2. PICK n0 \in Int : n0 = Len(s) - 1
      BY <1>4
    <2>3. 1..n0 \subseteq 1..Len(s) /\ 1 \in Int
      BY <1>4, <2>2
    <2>4. SubSeq(s, 1, n0) \in Seq(FineFrame)
      <3>1. PICK Fine : Fine = FineFrame
        OBVIOUS
      <3>2. \A n \in 1..n0 : s[n] \in Fine
        BY <2>3, <3>1, ElementOfSeq
      <3>3. s \in Seq(Fine)
        BY <3>1
      <3> QED BY <2>2, <2>3, <3>1, <3>2, <3>3, SubSeqProperties
    <2> QED BY <1>3, <2>1, <2>2, <2>4 DEF Front
  <1>6. /\ f \in ExitFrame /\ f.mod <= modCnt /\ (f.exit => f.handle = NULL)
        /\ f.mod = modCnt => \E k \in 1..Len(chain) : chain[k] = f.node /\ Left(f.handle, k, f.i)
    BY <1>5 DEF FineFrame
  <1>7. CASE modCnt # f.mod
    <2>1. PICK g : g = [f EXCEPT !.mod = modCnt]
      OBVIOUS
    <2>2. g \in WalkFrame /\ g.mod = modCnt /\ (g.exit => g.handle = NULL)
      <3>1. f \in WalkFrame
        BY <1>6 DEF ExitFrame, WalkFrame
      <3> QED BY <1>1, <1>6, <2>1, <3>1 DEF WalkFrame
    <2>3. PICK k, i : k = Len(chain) /\ i = usedCnt
      OBVIOUS
    <2>4. Walking(g, k, i)
      BY <2>2, <2>3, TopLeft DEF Walking
    <2>5. Walk(t, below, g, k, i)
      BY <1>2, <1>3, <1>7, <2>1, <2>3 DEF HandlerReturns
    <2> QED BY <1>5, <2>4, <2>5, WalkKeeps
  <1>8. CASE modCnt = f.mod
    <2>1. PICK k \in 1..Len(chain) : chain[k] = f.node /\ Left(f.handle, k, f.i)
      BY <1>6, <1>8
    <2>2. DOMAIN chain = 1..Len(chain) /\ Len(chain) \in Nat
          /\ \A m, n \in 1..Len(chain) : chain[m] = chain[n] => m = n
      BY <1>1, PlaceIs
    <2>3. f.node \in ToSet(chain)
      BY <2>1, <2>2 DEF ToSet
    <2>4. \A n \in DOMAIN chain : chain[n] = f.node => n = k
      BY <2>1, <2>2
    <2>5. Cursor(f) = k
      BY <2>1, <2>2, <2>3, <2>4 DEF Cursor
    <2>6. PICK i : i = f.i
      OBVIOUS
    <2>7. Walking(f, k, i)
      <3>1. f \in WalkFrame /\ i \in 0..AtexitMax /\ k \in 0..Len(chain)
        BY <1>6, <2>2, <2>6 DEF ExitFrame, WalkFrame
      <3> QED BY <1>6, <1>8, <2>1, <2>6, <3>1 DEF Walking
    <2>8. Walk(t, below, f, k, i)
      BY <1>2, <1>3, <1>8, <2>5, <2>6 DEF HandlerReturns
    <2> QED BY <1>5, <2>7, <2>8, WalkKeeps
  <1> QED BY <1>7, <1>8

LEMMA RegisterKeeps ==
    ASSUME ExitAssumption, ExitInv, NEW t \in ExitThreads, NEW h \in Handle \cup {NULL},
           Register(t, h)
    PROVE  ExitInv' /\ LatestFirst
  <1>1. ExitTyped /\ InOrder /\ Counted /\ WalksFine
    BY DEF ExitInv
  <1>2. /\ Len(chain) \in Nat /\ AtexitMax \in Nat /\ Slots \subseteq Nat /\ Len(handles) \in Nat
        /\ DOMAIN chain = 1..Len(chain)
        /\ \A m \in 1..Len(chain), j \in Slots :
              chain[m] \in Addr /\ Holding(m, j) \in 0..Len(handles)
        /\ \A m, n \in 1..Len(chain) : chain[m] = chain[n] => m = n
        /\ \A d : d \in Pending <=>
              d # NULL /\ \E m \in 1..Len(chain), j \in Slots : Holding(m, j) = d
        /\ Reg \subseteq 1..MaxReg
    BY <1>1, PlaceIs
  <1>3. PICK full \in BOOLEAN, at \in Nat, new \in Nat :
           /\ full <=> (chain = <<>> \/ usedCnt >= AtexitMax)
           /\ at = (IF full THEN 1 ELSE usedCnt + 1)
           /\ new = Len(handles) + 1
    <2>1. PICK full \in BOOLEAN : full <=> (chain = <<>> \/ usedCnt >= AtexitMax)
      OBVIOUS
    <2>2. usedCnt \in Nat
      BY <1>1, <1>2 DEF ExitTyped
    <2>3. (IF full THEN 1 ELSE usedCnt + 1) \in Nat /\ Len(handles) + 1 \in Nat
      BY <1>2, <2>2
    <2> QED BY <2>1, <2>3
  <1>4. /\ ~ over /\ Len(handles) < MaxReg
        /\ \E a \in IF full THEN Addr \ (ToSet(chain) \cup {1}) ELSE {Last(chain)} :
              /\ chain' = IF full THEN Append(chain, a) ELSE chain
              /\ slot' = [slot EXCEPT ![a] = [(IF full THEN Empty ELSE @) EXCEPT ![at] = new]]
        /\ usedCnt' = at /\ modCnt' = modCnt + 1 /\ handles' = Append(handles, h)
        /\ static' = static /\ frames' = frames /\ called' = called /\ over' = over
    <2>1. full => chain = <<>> \/ usedCnt >= AtexitMax
      BY <1>3
    <2>2. ~ full => ~ (chain = <<>> \/ usedCnt >= AtexitMax)
      BY <1>3
    <2>3. CASE full
      BY <1>3, <2>1, <2>3 DEF Register
    <2>4. CASE ~ full
      BY <1>3, <2>2, <2>4 DEF Register
    <2> QED BY <2>3, <2>4
  <1>5. /\ handles' \in Seq(Handle \cup {NULL}) /\ Len(handles') = new /\ new \in 1..MaxReg
        /\ new = Len(handles) + 1 /\ 0..Len(handles) \subseteq 0..new
        /\ new \in 0..new /\ new # NULL /\ NULL \in 0..new
        /\ \A d \in 1..Len(handles) : handles'[d] = handles[d]
    <2>1. handles \in Seq(Handle \cup {NULL})
      BY <1>1 DEF ExitTyped
    <2>2. /\ handles' \in Seq(Handle \cup {NULL}) /\ Len(handles') = Len(handles) + 1
          /\ \A d \in 1..Len(handles) : handles'[d] = handles[d]
      BY <1>4, <2>1, AppendProperties
    <2>3. MaxReg \in Nat
      BY DEF ExitAssumption
    <2>4. new = Len(handles) + 1 /\ Len(handles) < MaxReg
      BY <1>3, <1>4
    <2> QED BY <1>2, <2>2, <2>3, <2>4 DEF NULL
  <1>6. at \in Slots /\ at \in Nat /\ at \in 0..AtexitMax
    <2>1. usedCnt \in Nat /\ AtexitMax >= 1 /\ AtexitMax \in Nat
      BY <1>1, <1>2 DEF ExitTyped, ExitAssumption
    <2>2. ~ full => usedCnt < AtexitMax
      BY <1>1, <1>2, <1>3, <2>1 DEF ExitTyped
    <2>3. at \in 1..AtexitMax
      BY <1>3, <2>1, <2>2
    <2> QED BY <2>1, <2>3 DEF Slots
  \* The new place is above all that are taken, which stay as they are
  <1>7. PICK c \in Nat :
           /\ chain' \in Seq(Addr) /\ IsInjective(chain') /\ chain' # <<>>
           /\ Len(chain') = c /\ DOMAIN chain' = 1..c /\ 1..Len(chain) \subseteq 1..c /\ c \in 1..c
           /\ chain # <<>> => chain'[1] = chain[1]
           /\ slot' \in [Addr -> [Slots -> 0..new]]
           /\ slot'[chain'[c]][at] = new
           /\ \A j \in Slots : at < j => slot'[chain'[c]][j] = NULL
           /\ \A m \in 1..c, j \in Slots :
                 slot'[chain'[m]][j] # NULL /\ ~ (m = c /\ j = at) =>
                    /\ m \in 1..Len(chain) /\ slot'[chain'[m]][j] = Holding(m, j)
                    /\ Above(c, at, m, j)
           /\ \A m \in 1..Len(chain), j \in Slots :
                 Holding(m, j) # NULL => slot'[chain'[m]][j] = Holding(m, j)
    <2>1. slot \in [Addr -> [Slots -> 0..Len(handles)]] /\ chain \in Seq(Addr)
      BY <1>1 DEF ExitTyped
    <2>2. PICK a \in Addr, r \in [Slots -> 0..new] :
             /\ slot' = [slot EXCEPT ![a] = r] /\ r[at] = new
             /\ \A j \in Slots : j # at =>
                   r[j] = IF full THEN NULL ELSE slot[a][j]
             /\ chain' = (IF full THEN Append(chain, a) ELSE chain)
             /\ a \in (IF full THEN Addr \ (ToSet(chain) \cup {1}) ELSE {Last(chain)})
             /\ ~ full => chain # <<>> /\ a = chain[Len(chain)] /\ Len(chain) \in 1..Len(chain)
      <3>1. PICK a \in IF full THEN Addr \ (ToSet(chain) \cup {1}) ELSE {Last(chain)} :
               /\ chain' = IF full THEN Append(chain, a) ELSE chain
               /\ slot' = [slot EXCEPT ![a] = [(IF full THEN Empty ELSE @) EXCEPT ![at] = new]]
        BY <1>4
      <3>2. ~ full => chain # <<>> /\ a = chain[Len(chain)] /\ Len(chain) \in 1..Len(chain)
        <4> SUFFICES ASSUME ~ full
                     PROVE  chain # <<>> /\ a = chain[Len(chain)] /\ Len(chain) \in 1..Len(chain)
          OBVIOUS
        <4>1. chain # <<>>
          BY <1>3
        <4>2. Len(chain) \in 1..Len(chain)
          BY <1>2, <2>1, <4>1, EmptySeq
        <4>3. a = chain[Len(chain)]
          BY DEF Last
        <4> QED BY <4>1, <4>2, <4>3
      <3>3. a \in Addr
        <4>1. CASE full
          BY <4>1
        <4>2. CASE ~ full
          <5>1. chain[Len(chain)] \in Addr
            BY <2>1, <3>2, <4>2, ElementOfSeq
          <5> QED BY <3>2, <4>2, <5>1
        <4> QED BY <4>1, <4>2
      <3> DEFINE was == IF full THEN Empty ELSE slot[a]
                 r == [was EXCEPT ![at] = new]
      <3>4. was \in [Slots -> 0..new] /\ \A j \in Slots : was[j] = IF full THEN NULL ELSE slot[a][j]
        <4>1. Empty \in [Slots -> 0..new] /\ \A j \in Slots : Empty[j] = NULL
          BY <1>5 DEF Empty, Slots
        <4>2. slot[a] \in [Slots -> 0..new]
          BY <1>5, <2>1, <3>3
        <4> QED BY <4>1, <4>2
      <3>5. slot' = [slot EXCEPT ![a] = r]
        BY <2>1, <3>1, <3>3
      <3> HIDE DEF was
      <3>6. /\ r \in [Slots -> 0..new] /\ r[at] = new
            /\ \A j \in Slots : j # at => r[j] = was[j]
        BY <1>5, <1>6, <3>4
      <3> HIDE DEF r
      <3>7. \A j \in Slots : j # at => r[j] = IF full THEN NULL ELSE slot[a][j]
        BY <3>4, <3>6
      <3>8. PICK r2 \in [Slots -> 0..new] : r2 = r
        BY <3>6
      <3>9. /\ slot' = [slot EXCEPT ![a] = r2] /\ r2[at] = new
            /\ \A j \in Slots : j # at => r2[j] = IF full THEN NULL ELSE slot[a][j]
        BY <3>5, <3>6, <3>7, <3>8
      <3> QED BY <3>1, <3>2, <3>3, <3>9
    <2>3. /\ slot' \in [Addr -> [Slots -> 0..new]] /\ slot'[a] = r
          /\ \A x \in Addr : x # a => slot'[x] = slot[x]
      <3>1. slot \in [Addr -> [Slots -> 0..new]]
        BY <1>5, <2>1
      <3> QED BY <2>2, <3>1
    <2>4. CASE full
      <3>1. /\ chain' \in Seq(Addr) /\ Len(chain') = Len(chain) + 1 /\ chain'[Len(chain) + 1] = a
            /\ \A n \in 1..Len(chain) : chain'[n] = chain[n]
        BY <2>1, <2>2, <2>4, AppendProperties
      <3>2. at = 1 /\ DOMAIN chain' = 1..Len(chain) + 1 /\ Len(chain) + 1 \in Nat
            /\ Len(chain) + 1 \in 1..Len(chain) + 1 /\ Len(chain) <= Len(chain) + 1
        BY <1>2, <1>3, <2>4, <3>1, LenProperties
      <3>3. \A n \in 1..Len(chain) : chain[n] # a
        BY <1>2, <2>2, <2>4 DEF ToSet
      <3>4. \A n \in 1..Len(chain) + 1 : n \in 1..Len(chain) \/ n = Len(chain) + 1
        BY <1>2
      <3>5. IsInjective(chain')
        BY <1>2, <3>1, <3>2, <3>3, <3>4 DEF IsInjective
      <3>6. chain # <<>> => chain'[1] = chain[1]
        <4>1. chain # <<>> => 1 \in 1..Len(chain)
          BY <1>2, <2>1, EmptySeq
        <4> QED BY <3>1, <4>1
      <3>7. chain' # <<>>
        BY <3>1, <3>2, EmptySeq
      <3>8. \A j \in Slots : j # at => r[j] = NULL
        BY <2>2, <2>4
      <3>9. ASSUME NEW m \in 1..Len(chain), NEW j \in Slots
            PROVE  slot'[chain'[m]][j] = Holding(m, j) /\ Above(Len(chain) + 1, at, m, j)
        <4>1. slot'[chain'[m]] = slot[chain[m]]
          BY <1>2, <2>3, <3>1, <3>3
        <4>2. m < Len(chain) + 1
          BY <1>2
        <4> QED BY <4>1, <4>2 DEF Holding, Above
      <3>10. ASSUME NEW m \in 1..Len(chain) + 1, NEW j \in Slots,
                    slot'[chain'[m]][j] # NULL, ~ (m = Len(chain) + 1 /\ j = at)
             PROVE  /\ m \in 1..Len(chain) /\ slot'[chain'[m]][j] = Holding(m, j)
                    /\ Above(Len(chain) + 1, at, m, j)
        <4>1. m \in 1..Len(chain)
          BY <2>3, <3>1, <3>4, <3>8, <3>10
        <4> QED BY <3>9, <4>1
      <3>11. \A j \in Slots : at < j => j # at
        BY <1>2, <1>6
      <3>12. /\ slot'[chain'[Len(chain) + 1]][at] = new
             /\ \A j \in Slots : at < j => slot'[chain'[Len(chain) + 1]][j] = NULL
        BY <2>2, <2>3, <3>1, <3>8, <3>11
      <3>13. PICK c \in Nat : c = Len(chain) + 1
        BY <3>2
      <3>14. 1..Len(chain) \subseteq 1..c
        BY <1>2, <3>13
      <3> QED BY <2>3, <3>1, <3>2, <3>5, <3>6, <3>7, <3>9, <3>10, <3>12, <3>13, <3>14
    <2>5. CASE ~ full
      <3>1. /\ chain' = chain /\ chain # <<>> /\ at = usedCnt + 1 /\ a = chain[Len(chain)]
            /\ Len(chain) \in 1..Len(chain) /\ Len(chain) <= Len(chain) /\ usedCnt \in Nat
        BY <1>1, <1>2, <1>3, <2>2, <2>5 DEF ExitTyped
      <3>2. \A j \in Slots : usedCnt < j => Holding(Len(chain), j) = NULL
        BY <1>1, <3>1 DEF InOrder
      <3>3. ASSUME NEW m \in 1..Len(chain), NEW j \in Slots, ~ (m = Len(chain) /\ j = at)
            PROVE  slot'[chain[m]][j] = Holding(m, j)
        <4>1. CASE m = Len(chain)
          BY <2>2, <2>3, <2>5, <3>1, <3>3, <4>1 DEF Holding
        <4>2. CASE m # Len(chain)
          <5>1. chain[m] \in Addr
            BY <1>2
          <5>2. Len(chain) \in 1..Len(chain)
            BY <3>1
          <5>3. chain[m] # chain[Len(chain)]
            <6>1. \A n1, n2 \in 1..Len(chain) : chain[n1] = chain[n2] => n1 = n2
              BY <1>2
            <6> QED BY <4>2, <5>2, <6>1
          <5> QED BY <2>3, <3>1, <5>1, <5>3 DEF Holding
        <4> QED BY <4>1, <4>2
      <3>4. ASSUME NEW j \in Slots, at <= j PROVE Holding(Len(chain), j) = NULL
        <4>1. usedCnt < j
          BY <1>2, <3>1, <3>4
        <4> QED BY <3>2, <4>1
      <3>5. ASSUME NEW m \in 1..Len(chain), NEW j \in Slots, Holding(m, j) # NULL
            PROVE  ~ (m = Len(chain) /\ j = at) /\ Above(Len(chain), at, m, j)
        <4>1. m = Len(chain) => ~ (at <= j)
          BY <3>4, <3>5
        <4>2. m \in Nat /\ m <= Len(chain) /\ Len(chain) \in Nat /\ j \in Nat /\ at \in Nat
          BY <1>2
        <4>3. ~ (m = Len(chain) /\ j = at)
          BY <4>1, <4>2
        <4>4. m < Len(chain) \/ (m = Len(chain) /\ j < at)
          BY <4>1, <4>2
        <4> QED BY <4>3, <4>4 DEF Above
      <3>6. \A j \in Slots : at < j => at <= j /\ j # at
        BY <1>2, <1>6
      <3>7. \A j \in Slots : at < j => slot'[chain[Len(chain)]][j] = NULL
        BY <3>1, <3>3, <3>4, <3>6
      <3>8. slot'[chain[Len(chain)]][at] = new
        BY <2>2, <2>3, <3>1
      <3>9. IsInjective(chain)
        BY <1>1 DEF ExitTyped
      <3>10. PICK c \in Nat : c = Len(chain)
        BY <2>1, LenProperties
      <3>11. DOMAIN chain = 1..c /\ 1..Len(chain) \subseteq 1..c
        BY <1>2, <3>10
      <3>12. \A m \in 1..c, j \in Slots :
                slot'[chain[m]][j] # NULL /\ ~ (m = c /\ j = at) =>
                   /\ m \in 1..Len(chain) /\ slot'[chain[m]][j] = Holding(m, j)
                   /\ Above(c, at, m, j)
        BY <3>3, <3>5, <3>10
      <3>13. \A m \in 1..Len(chain), j \in Slots :
                Holding(m, j) # NULL => slot'[chain[m]][j] = Holding(m, j)
        BY <3>3, <3>5
      <3> QED BY <2>1, <2>3, <3>1, <3>7, <3>8, <3>9, <3>10, <3>11, <3>12, <3>13
    <2> QED BY <2>4, <2>5
  <1>8. /\ Len(chain') = c /\ c \in 1..c /\ 1..Len(chain) \subseteq 1..c
        /\ slot'[chain'[c]][at] = new
        /\ \A m \in 1..Len(chain), j \in Slots :
              Holding(m, j) # NULL => slot'[chain'[m]][j] = Holding(m, j)
    BY <1>7
  <1>9. ASSUME NEW m \in 1..c, NEW j \in Slots, slot'[chain'[m]][j] # NULL
        PROVE  \/ m = c /\ j = at /\ slot'[chain'[m]][j] = new
               \/ /\ m \in 1..Len(chain) /\ slot'[chain'[m]][j] = Holding(m, j)
                  /\ Above(c, at, m, j) /\ ~ (m = c /\ j = at)
    <2>1. CASE m = c /\ j = at
      BY <1>8, <2>1
    <2>2. CASE ~ (m = c /\ j = at)
      BY <1>7, <1>9, <2>2
    <2> QED BY <2>1, <2>2
  <1>10. ExitTyped'
    <2>1. modCnt' \in Nat
      BY <1>1, <1>4 DEF ExitTyped
    <2>2. /\ static' \in BOOLEAN /\ over' \in BOOLEAN /\ called' \in [1..MaxReg -> Nat]
          /\ usedCnt' \in 0..AtexitMax
      BY <1>1, <1>4, <1>6 DEF ExitTyped
    <2>3. handles' \in Seq(Handle \cup {NULL}) /\ Len(handles') = new /\ new <= MaxReg
      BY <1>5
    <2>4. chain' \in Seq(Addr) /\ IsInjective(chain') /\ slot' \in [Addr -> [Slots -> 0..new]]
      BY <1>7
    <2> QED BY <2>1, <2>2, <2>3, <2>4 DEF ExitTyped
  <1>11. Pending' = Pending \cup {new}
    <2>1. Pending' = {slot'[chain'[m]][j] : m \in 1..c, j \in Slots} \ {NULL}
      <3>1. DOMAIN chain' = 1..c
        BY <1>7
      <3> QED BY <3>1 DEF Pending, Slots
    <2>2. ASSUME NEW e, e \in Pending' PROVE e \in Pending \cup {new}
      <3>1. PICK m \in 1..c, j \in Slots : slot'[chain'[m]][j] = e /\ e # NULL
        BY <2>1, <2>2
      <3> QED BY <1>2, <1>9, <3>1
    <2>3. ASSUME NEW e \in Pending PROVE e \in Pending'
      <3>1. PICK m \in 1..Len(chain), j \in Slots : Holding(m, j) = e /\ e # NULL
        BY <1>2
      <3>2. m \in 1..c
        BY <1>8
      <3>3. slot'[chain'[m]][j] = e
        BY <1>8, <3>1
      <3> QED BY <2>1, <3>1, <3>2, <3>3
    <2>4. new \in Pending'
      <3>1. c \in 1..c /\ slot'[chain'[c]][at] = new
        BY <1>8
      <3> QED BY <1>5, <1>6, <2>1, <3>1
    <2> QED BY <2>2, <2>3, <2>4
  <1>12. InOrder'
    <2>1. static' => chain' # <<>> /\ chain'[1] = 1
      BY <1>1, <1>4, <1>7 DEF InOrder
    <2>2. chain' # <<>> => \A j \in Slots : usedCnt' < j => slot'[chain'[Len(chain')]][j] = NULL
      <3>1. usedCnt' = at /\ Len(chain') = c
        BY <1>4, <1>8
      <3>2. \A j \in Slots : at < j => slot'[chain'[c]][j] = NULL
        BY <1>7
      <3> QED BY <3>1, <3>2
    <2>3. ASSUME NEW m \in 1..c, NEW n \in 1..c, NEW j \in Slots, NEW l \in Slots,
                 Above(n, l, m, j), slot'[chain'[m]][j] # NULL, slot'[chain'[n]][l] # NULL
          PROVE  slot'[chain'[m]][j] < slot'[chain'[n]][l]
      <3>1. m \in Nat /\ n \in Nat /\ j \in Nat /\ l \in Nat /\ c \in Nat
        BY <1>2
      <3>2. ~ (m = c /\ j = at)
        <4> SUFFICES ASSUME m = c, j = at PROVE FALSE
          OBVIOUS
        <4>1. n <= c
          OBVIOUS
        <4>2. n = c /\ at < l
          BY <1>6, <2>3, <3>1, <4>1 DEF Above
        <4> QED BY <1>7, <1>8, <2>3, <4>2
      <3>3. m \in 1..Len(chain) /\ slot'[chain'[m]][j] = Holding(m, j) /\ Holding(m, j) # NULL
        BY <1>9, <2>3, <3>2
      <3>4. CASE n = c /\ l = at
        <4>1. slot'[chain'[n]][l] = new
          BY <1>8, <3>4
        <4>2. Holding(m, j) \in 0..Len(handles)
          BY <1>2, <3>3
        <4>3. Holding(m, j) < new
          BY <1>2, <1>5, <4>2
        <4> QED BY <3>3, <4>1, <4>3
      <3>5. CASE ~ (n = c /\ l = at)
        <4>1. n \in 1..Len(chain) /\ slot'[chain'[n]][l] = Holding(n, l) /\ Holding(n, l) # NULL
          BY <1>9, <2>3, <3>5
        <4>2. Holding(m, j) < Holding(n, l)
          BY <1>1, <2>3, <3>3, <4>1 DEF InOrder
        <4> QED BY <3>3, <4>1, <4>2
      <3> QED BY <3>4, <3>5
    <2>4. \A m, n \in 1..Len(chain'), j, l \in Slots :
             Above(n, l, m, j) /\ slot'[chain'[m]][j] # NULL /\ slot'[chain'[n]][l] # NULL =>
                slot'[chain'[m]][j] < slot'[chain'[n]][l]
      BY <1>8, <2>3
    <2> QED BY <2>1, <2>2, <2>4 DEF InOrder, Holding
  <1>13. Counted'
    <2>1. over' = FALSE
      BY <1>1, <1>4 DEF ExitTyped
    <2>2. ASSUME NEW d \in 1..MaxReg
          PROVE  called'[d] = IF d \in 1..new /\ d \notin Pending' THEN 1 ELSE 0
      <3>1. called'[d] = IF d \in Reg /\ d \notin Pending THEN 1 ELSE 0
        BY <1>1, <1>4 DEF Counted
      <3>2. CASE d = new
        <4>1. d \notin Reg
          BY <1>2, <1>5, <3>2 DEF Reg
        <4> QED BY <1>11, <3>1, <3>2, <4>1
      <3>3. CASE d # new
        <4>1. d \in Reg <=> d \in 1..new
          BY <1>2, <1>5, <3>3 DEF Reg
        <4> QED BY <1>11, <3>1, <3>3, <4>1
      <3> QED BY <3>2, <3>3
    <2>3. Reg' = 1..new
      BY <1>5 DEF Reg
    <2> QED BY <2>1, <2>2, <2>3 DEF Counted
  <1>14. WalksFine'
    <2>1. ASSUME NEW x \in FineFrame PROVE x \in FineFrame'
      <3>1. x \in ExitFrame /\ x.mod <= modCnt /\ (x.exit => x.handle = NULL) /\ x.mod \in Nat
        BY DEF FineFrame, ExitFrame
      <3>2. modCnt \in Nat /\ modCnt' = modCnt + 1
        BY <1>1, <1>4 DEF ExitTyped
      <3>3. x.mod <= modCnt' /\ x.mod # modCnt'
        BY <3>1, <3>2
      <3> QED BY <3>1, <3>3 DEF FineFrame
    <2>2. frames' \in [ExitThreads -> Seq(FineFrame)]
      BY <1>1, <1>4 DEF WalksFine
    <2>3. Seq(FineFrame) \subseteq Seq(FineFrame')
      BY <2>1, SeqDef
    <2>4. frames' \in [ExitThreads -> Seq(FineFrame')]
      BY <2>2, <2>3
    <2> QED BY <2>4 DEF WalksFine
  <1>15. LatestFirst
    BY <1>4 DEF LatestFirst
  <1> QED BY <1>10, <1>12, <1>13, <1>14, <1>15 DEF ExitInv

LEMMA ExitInvariantSound ==
    ASSUME ExitAssumption, ExitInv
    PROVE  WalksSound /\ EachOnce
  <1>1. ExitTyped /\ InOrder /\ Counted /\ WalksFine
    BY DEF ExitInv
  <1>2. /\ Len(chain) \in Nat /\ AtexitMax \in Nat /\ DOMAIN chain = 1..Len(chain)
        /\ Reg \subseteq 1..MaxReg
    BY <1>1, PlaceIs
  <1>3. ASSUME NEW t \in ExitThreads, NEW n \in DOMAIN frames[t], frames[t][n].mod = modCnt
        PROVE  frames[t][n].node \in ToSet(chain)
    <2>1. PICK s \in Seq(FineFrame) : s = frames[t]
      BY <1>1 DEF WalksFine
    <2>2. n \in 1..Len(s)
      BY <2>1, LenProperties
    <2>3. frames[t][n] \in FineFrame
      BY <2>1, <2>2, ElementOfSeq
    <2>4. PICK k \in 1..Len(chain) : chain[k] = frames[t][n].node
      BY <1>3, <2>3 DEF FineFrame
    <2> QED BY <1>2, <2>4 DEF ToSet
  <1>4. usedCnt <= AtexitMax /\ IsInjective(chain) /\ (static => chain # <<>> /\ chain[1] = 1)
    BY <1>1, <1>2 DEF ExitTyped, InOrder
  <1>5. ASSUME chain # <<>>, NEW i \in usedCnt + 1 .. AtexitMax PROVE slot[Last(chain)][i] = NULL
    <2>1. i \in Slots /\ usedCnt < i
      BY <1>1, <1>2 DEF ExitTyped, Slots
    <2> QED BY <1>1, <1>5, <2>1 DEF InOrder, Holding, Last
  <1>6. EachOnce
    <2>1. \A d \in Reg : called[d] = IF d \in Pending THEN 0 ELSE 1
      BY <1>1, <1>2 DEF Counted
    <2> QED BY <1>1, <2>1 DEF EachOnce, Counted
  <1> QED BY <1>3, <1>4, <1>5, <1>6 DEF WalksSound

LEMMA ExitFrameRule ==
    ASSUME ExitInv, UNCHANGED exitVars
    PROVE  ExitInv'
  <1>1. /\ static' = static /\ chain' = chain /\ slot' = slot /\ usedCnt' = usedCnt
        /\ modCnt' = modCnt /\ handles' = handles /\ frames' = frames /\ called' = called
        /\ over' = over
    BY DEF exitVars, exitList
  <1>2. ExitTyped'
    BY <1>1 DEF ExitInv, ExitTyped
  <1>3. InOrder'
    BY <1>1 DEF ExitInv, InOrder, Holding
  <1>4. Counted'
    BY <1>1 DEF ExitInv, Counted, Pending, Reg
  <1>5. WalksFine'
    BY <1>1 DEF ExitInv, WalksFine, FineFrame, Left, Holding, Matches
  <1> QED BY <1>2, <1>3, <1>4, <1>5 DEF ExitInv

\* Every handler registered with atexit(), at_quick_exit() or __cxa_atexit() is
\* called once, the latest of those asked for first, whatever the handlers and
\* other threads register and finalize meanwhile; exit() leaves none, and a walk
\* that goes on from its cursor goes on in a node of the list
THEOREM HandlersCorrect ==
    ASSUME ExitAssumption
    PROVE  ExitSpec => HandlersInOrder
  <1>1. ExitInit => ExitInv
    BY ExitStart
  <1>2. ExitInv /\ [ExitNext]_exitVars => ExitInv' /\ [LatestFirst]_exitVars
    <2> SUFFICES ASSUME ExitInv, [ExitNext]_exitVars
                 PROVE  ExitInv' /\ [LatestFirst]_exitVars
      OBVIOUS
    <2>1. ASSUME NEW t \in ExitThreads, NEW h \in Handle \cup {NULL}, Register(t, h)
          PROVE  ExitInv' /\ LatestFirst
      BY <2>1, RegisterKeeps
    <2>2. ASSUME NEW t \in ExitThreads, NEW h \in Handle \cup {NULL}, NEW exit \in BOOLEAN,
                 Finalize(t, h, exit)
          PROVE  ExitInv' /\ LatestFirst
      BY <2>2, FinalizeKeeps
    <2>3. ASSUME NEW t \in ExitThreads, HandlerReturns(t) PROVE ExitInv' /\ LatestFirst
      BY <2>3, HandlerReturnsKeeps
    <2>4. CASE UNCHANGED exitVars
      BY <2>4, ExitFrameRule
    <2> QED BY <2>1, <2>2, <2>3, <2>4 DEF ExitNext
  <1>3. ExitInv => WalksSound /\ EachOnce
    BY ExitInvariantSound
  <1> QED BY <1>1, <1>2, <1>3, PTL DEF ExitSpec, HandlersInOrder

-----------------------------------------------------------------------------
(* posix_spawn().  What is held at each place of the call, and what the    *)
(* child has done at each of its own: its descriptors are what the actions *)
(* so far ask for.                                                         *)

CallFields == {"at", "program", "attr", "was", "fd", "path", "argv", "old", "ret", "err"}
ProcFields == {"at", "i", "err", "mask", "fds", "handlers", "done", "pending", "sent",
               "haunted", "reaped"}
SpawnAction ==
    {a \in [type : {"close", "dup2", "open"}, fd : Fd, newfd : Fd, path : Files \cup {NoFile}] :
        a.type # "dup2" => a.newfd = a.fd}

Preparing == {"find", "shebang", "read", "canonical", "opens", "block"}
CallPlaces == Preparing \cup {"none", "fork", "suspended", "restore", "wait", "cleanup",
                              "returned", "destroyed"}
ChildPlaces == {"reset", "attributes", "actions", "exec", "image", "exit", "dead"}

SpawnTyped ==
    /\ fa \in [size : Nat, actions : Seq(SpawnAction)]
    /\ call.at \in CallPlaces
    /\ IF call.at = "none" THEN call = NoCall ELSE DOMAIN call = CallFields
    /\ \/ proc = NoProc
       \/ proc.at \in ChildPlaces /\ DOMAIN proc = ProcFields

\* The blocks that the object of actions holds
Own ==
    {Block("name", i) : i \in {j \in DOMAIN fa.actions : fa.actions[j].type = "open"}}
        \cup (IF fa.actions = <<>> THEN {} ELSE {Block("actions", 0)})
Line == Block("line", 0)
Argv == Block("argv", 0)
HeapHeld ==
    /\ call.at \in {"none", "find", "returned"} => heap = Own
    /\ call.at = "destroyed" => heap = {}
    /\ call.at # "destroyed" =>
          /\ Own \subseteq heap
          /\ \A b \in heap : b \in Own \cup {Line, Argv}
                             \/ b.what \in {"exe", "canonical", "paths", "path"}
    /\ call.at \in {"none", "find", "shebang", "read"} => Argv \notin heap
    /\ IF call.at = "read" THEN Line \in heap ELSE (Line \in heap <=> Argv \in heap)

Resources ==
    /\ IF call.at = "read"
       THEN call.fd \in Fd \ DOMAIN Inherited /\ table = Put(Inherited, call.fd, "script")
       ELSE table = Inherited
    /\ call.at \in Preparing \cup {"wait", "cleanup", "returned"} => mask = call.was
    /\ call.at = "fork" => mask = Signal
    /\ call.at \in {"fork", "suspended", "restore"} => call.old = call.was

Ended ==
    /\ ~ proc.reaped
    /\ \/ proc.at = "image" /\ call.err = "ok"
       \/ proc.at = "dead" /\ (call.err = "ok" => proc.sent > 0)
Outcome ==
    /\ call.at \in Preparing \cup {"fork"} => call.ret = "ok" /\ call.err = "ok" /\ proc = NoProc
    /\ call.at = "none" => proc = NoProc
    /\ call.at = "suspended" =>
          /\ call.ret = "ok" /\ proc # NoProc /\ ~ proc.reaped
          /\ proc.at # "dead" => call.err = "ok"
          /\ proc.at = "dead" => Ended
    /\ call.at = "restore" =>
          \/ proc = NoProc /\ call.ret = "EAGAIN" /\ call.err = "ok"
          \/ proc # NoProc /\ call.ret = "ok" /\ Ended
    /\ call.at = "wait" => call.ret # "ok" /\ proc # NoProc /\ proc.at = "dead"
    /\ call.at \in {"cleanup", "returned"} =>
          IF call.ret = "ok"
          THEN proc # NoProc /\ (proc.at = "image" \/ (proc.at = "dead" /\ ~ proc.reaped /\ proc.sent > 0))
          ELSE proc = NoProc \/ (proc.at = "dead" /\ proc.reaped)

\* The descriptors are what the first n actions ask for
Shows(fds, n) ==
    /\ DOMAIN fds \subseteq Fd
    /\ \A d \in Fd : After[n][d] = IF d \in DOMAIN fds THEN fds[d] ELSE Closed

Asked(sig) ==
    /\ Disposition[sig] = "ignored"
    /\ ~ ("setsigdef" \in call.attr.flags /\ sig \in call.attr.sigdefault)
HandlersReset(h) ==
    \A sig \in Signal : h[sig] \in {"default", "ignored"} /\ (h[sig] = "ignored" <=> Asked(sig))

\* The child, at each of its places
ChildIs(c) ==
    /\ ~ c.haunted
    /\ c.sent \in Nat /\ c.pending \subseteq Signal
    /\ c.pending # {} => c.sent > 0
    /\ call.at = "suspended" =>
          /\ c.at = "reset" => c.handlers = Disposition /\ c.mask = Signal
          /\ c.at \in {"attributes", "actions", "exec", "exit", "image"} =>
                HandlersReset(c.handlers)
          /\ c.at \in {"reset", "attributes", "actions"} =>
                c.i \in 1..Len(fa.actions) + 1 /\ Shows(c.fds, c.i - 1)
          /\ c.at = "exec" => Shows(c.fds, Len(fa.actions))
          /\ c.at \in {"reset", "attributes", "actions", "exec"} => c.err = "ok"
          /\ c.at \in {"exec", "image"} => c.mask = ExecMask
          /\ c.at = "exit" => c.err # "ok"
          /\ c.at = "image" =>
                {<<d, c.fds[d].file>> : d \in DOMAIN c.fds} = Expected
ChildSound == proc # NoProc => ChildIs(proc)

SpawnInv == SpawnTyped /\ HeapHeld /\ Resources /\ Outcome /\ ChildSound

\* What the recursive function After is
LEMMA AfterIs ==
    ASSUME SpawnTyped
    PROVE  /\ After[0] = Before
           /\ \A n \in 1..Len(fa.actions) : After[n] = Changed(After[n - 1], fa.actions[n])
  <1> DEFINE E(g, n) == IF n = 0 THEN Before ELSE Changed(g[n - 1], fa.actions[n])
             Upto(n) == \E g : g = [j \in 0..n |-> E(g, j)]
             Missing == {n \in 0..Len(fa.actions) : ~ Upto(n)}
  <1>1. Len(fa.actions) \in Nat
    BY LenProperties DEF SpawnTyped
  <1>2. Upto(0)
    <2>1. [j \in 0..0 |-> Before] = [j \in 0..0 |-> E([n \in 0..0 |-> Before], j)]
      OBVIOUS
    <2> QED BY <2>1
  <1>3. ASSUME NEW n \in 0..Len(fa.actions), n # 0, Upto(n - 1) PROVE Upto(n)
    <2>1. PICK g : g = [j \in 0..n - 1 |-> E(g, j)]
      BY <1>3
    <2> DEFINE h == [j \in 0..n |-> IF j < n THEN g[j] ELSE Changed(g[n - 1], fa.actions[n])]
    <2>2. ASSUME NEW j \in 0..n PROVE h[j] = E(h, j)
      <3>1. CASE j = 0
        <4>1. h[j] = g[j] /\ g[j] = E(g, j)
          BY <1>3, <2>1, <3>1
        <4> QED BY <3>1, <4>1
      <3>2. CASE j # 0
        <4>1. j - 1 \in 0..n /\ j - 1 < n /\ j \in Nat /\ n \in Nat
          BY <1>1, <3>2
        <4>2. h[j - 1] = g[j - 1]
          BY <4>1
        <4>3. h[j] = Changed(g[j - 1], fa.actions[j])
          <5>1. CASE j = n
            BY <5>1
          <5>2. CASE j # n
            <6>1. j \in 0..n - 1 /\ j < n
              BY <4>1, <5>2
            <6>2. h[j] = g[j] /\ g[j] = E(g, j)
              BY <2>1, <6>1
            <6> QED BY <3>2, <6>2
          <5> QED BY <5>1, <5>2
        <4> HIDE DEF h
        <4> QED BY <3>2, <4>2, <4>3
      <3> QED BY <3>1, <3>2
    <2>3. h = [j \in 0..n |-> h[j]]
      OBVIOUS
    <2>4. h = [j \in 0..n |-> E(h, j)]
      <3> HIDE DEF h
      <3> QED BY <2>2, <2>3
    <2> QED BY <2>4
  <1>4. Missing = {}
    <2> SUFFICES ASSUME Missing # {} PROVE FALSE
      OBVIOUS
    <2>1. Missing \in SUBSET Nat
      BY <1>1
    <2> HIDE DEF Upto
    <2>2. PICK n \in Missing : \A j \in Missing : n <= j
      <3> HIDE DEF Missing
      <3> QED BY <2>1, LeastOf
    <2>3. n \in 0..Len(fa.actions) /\ ~ Upto(n) /\ n # 0
      BY <1>2
    <2>4. n - 1 \in 0..Len(fa.actions) /\ ~ (n <= n - 1)
      BY <1>1, <2>3
    <2>5. Upto(n - 1)
      BY <2>2, <2>4
    <2> QED BY <1>3, <2>3, <2>5
  <1>5. Upto(Len(fa.actions))
    <2> HIDE DEF Upto
    <2> QED BY <1>1, <1>4
  <1>6. After = [n \in 0..Len(fa.actions) |-> E(After, n)]
    BY <1>5 DEF After
  <1>7. After[0] = E(After, 0)
    BY <1>1, <1>6
  <1>8. ASSUME NEW n \in 1..Len(fa.actions)
        PROVE  After[n] = Changed(After[n - 1], fa.actions[n])
    <2>1. n \in 0..Len(fa.actions) /\ n # 0
      BY <1>1
    <2>2. After[n] = E(After, n)
      BY <1>6, <2>1
    <2> QED BY <2>1, <2>2
  <1> QED BY <1>7, <1>8

\* An action does to a table of descriptors what is asked for
LEMMA AppliedIs ==
    ASSUME SpawnAssumption, NEW t, DOMAIN t \subseteq Fd, NEW act \in SpawnAction, ~ Refused(t, act),
           NEW was, \A d \in Fd : was[d] = IF d \in DOMAIN t THEN t[d] ELSE Closed
    PROVE  /\ DOMAIN Applied(t, act) \subseteq Fd
           /\ \A d \in Fd : Changed(was, act)[d] =
                 IF d \in DOMAIN Applied(t, act) THEN Applied(t, act)[d] ELSE Closed
  <1>1. act.fd \in Fd /\ act.newfd \in Fd /\ act.type \in {"close", "dup2", "open"}
        /\ (act.type # "dup2" => act.newfd = act.fd)
    BY DEF SpawnAction
  <1>3. CASE act.type = "close"
    <2>1. Applied(t, act) = Without(t, act.fd)
      BY <1>3 DEF Applied
    <2>2. ASSUME NEW d \in Fd
          PROVE  Changed(was, act)[d] = IF d = act.fd THEN Closed ELSE was[d]
      BY <1>1, <1>3 DEF Changed
    <2> QED BY <2>1, <2>2 DEF Without
  <1>4. CASE act.type = "dup2"
    <2>1. act.fd \in DOMAIN t
      BY <1>4 DEF Refused
    <2>2. Applied(t, act) = Put(t, act.newfd, t[act.fd].file)
      BY <1>4 DEF Applied, Dup2
    <2>3. ASSUME NEW d \in Fd
          PROVE  Changed(was, act)[d] =
                    IF d = act.newfd THEN [file |-> t[act.fd].file, cloexec |-> FALSE] ELSE was[d]
      BY <1>1, <1>4, <2>1 DEF Changed
    <2>4. PICK u : u = Put(t, act.newfd, t[act.fd].file)
      OBVIOUS
    <2>5. /\ DOMAIN u = DOMAIN t \cup {act.newfd}
          /\ u[act.newfd] = [file |-> t[act.fd].file, cloexec |-> FALSE]
          /\ \A d \in DOMAIN t : d # act.newfd => u[d] = t[d]
      BY <2>4 DEF Put
    <2> QED BY <1>1, <2>2, <2>3, <2>4, <2>5
  <1>5. CASE act.type = "open"
    <2>1. Free(t) # {} /\ Free(t) \subseteq Nat
      BY <1>5 DEF Refused, Free, SpawnAssumption
    <2>2. PICK new : new = Lowest(Free(t))
      OBVIOUS
    <2>3. new \in Fd /\ new \notin DOMAIN t
      <3>1. \E x \in Free(t) : \A other \in Free(t) : x <= other
        BY <2>1, LeastOf
      <3>2. new \in Free(t)
        BY <2>2, <3>1 DEF Lowest
      <3> QED BY <3>2 DEF Free
    <2>4. PICK u : u = Put(t, new, act.path)
      OBVIOUS
    <2>5. /\ DOMAIN u = DOMAIN t \cup {new}
          /\ u[new] = [file |-> act.path, cloexec |-> FALSE]
          /\ \A d \in DOMAIN t : d # new => u[d] = t[d]
      BY <2>4 DEF Put
    <2>6. Applied(t, act) = IF new = act.fd THEN u ELSE Without(Dup2(u, new, act.fd), new)
      BY <1>5, <2>2, <2>4 DEF Applied, OpenAt
    <2>7. PICK v : v = Applied(t, act)
      OBVIOUS
    <2>8. /\ DOMAIN v = DOMAIN t \cup {act.fd}
          /\ v[act.fd] = [file |-> act.path, cloexec |-> FALSE]
          /\ \A d \in DOMAIN t : d # act.fd => v[d] = t[d]
      <3>1. CASE new = act.fd
        BY <2>5, <2>6, <2>7, <3>1
      <3>2. CASE new # act.fd
        <4>1. PICK w : w = Dup2(u, new, act.fd)
          OBVIOUS
        <4>2. /\ DOMAIN w = DOMAIN t \cup {new, act.fd}
              /\ w[act.fd] = [file |-> act.path, cloexec |-> FALSE]
              /\ \A d \in DOMAIN t : d # act.fd => w[d] = t[d]
          BY <2>3, <2>5, <3>2, <4>1 DEF Dup2, Put
        <4>3. v = [d \in DOMAIN w \ {new} |-> w[d]]
          BY <2>6, <2>7, <3>2, <4>1 DEF Without
        <4> QED BY <2>3, <3>2, <4>2, <4>3
      <3> QED BY <3>1, <3>2
    <2>9. ASSUME NEW d \in Fd
          PROVE  Changed(was, act)[d] =
                    IF d = act.fd THEN [file |-> act.path, cloexec |-> FALSE] ELSE was[d]
      BY <1>1, <1>5 DEF Changed
    <2>10. DOMAIN v \subseteq Fd
      BY <1>1, <2>8
    <2>11. ASSUME NEW d \in Fd PROVE Changed(was, act)[d] = IF d \in DOMAIN v THEN v[d] ELSE Closed
      BY <2>8, <2>9
    <2> QED BY <2>7, <2>10, <2>11
  <1> QED BY <1>1, <1>3, <1>4, <1>5

\* A step that leaves the actions alone asks for the same descriptors
LEMMA ActionsStay ==
    ASSUME fa' = fa PROVE Own' = Own /\ After' = After /\ Expected' = Expected
  <1>1. Own' = Own
    BY DEF Own
  <1>2. After' = After
    BY DEF After
  <1>3. Expected' = Expected
    BY <1>2 DEF Expected
  <1> QED BY <1>1, <1>2, <1>3

LEMMA SpawnStart == ASSUME SpawnAssumption, SpawnInit PROVE SpawnInv
  <1>1. /\ fa.size = 0 /\ fa.actions = <<>> /\ DOMAIN fa.actions = {}
        /\ heap = {} /\ table = Inherited /\ call = NoCall /\ proc = NoProc
        /\ call.at = "none"
    BY DEF SpawnInit, NoCall
  <1>2. SpawnTyped
    <2>1. fa \in [size : Nat, actions : Seq(SpawnAction)]
      BY DEF SpawnInit
    <2> QED BY <1>1, <2>1 DEF SpawnTyped, CallPlaces
  <1>3. HeapHeld
    BY <1>1 DEF HeapHeld, Own
  <1>4. Resources /\ Outcome /\ ChildSound
    BY <1>1 DEF Resources, Outcome, ChildSound, Preparing
  <1> QED BY <1>2, <1>3, <1>4 DEF SpawnInv

\* The child stays sound while it is not the child's turn
LEMMA ChildWaits ==
    ASSUME ChildSound, proc' = proc, call'.at # "suspended" PROVE ChildSound'
  BY DEF ChildSound, ChildIs

LEMMA SpawnStutters == ASSUME SpawnInv, UNCHANGED spawnVars PROVE SpawnInv'
  <1>1. fa' = fa /\ heap' = heap /\ table' = table /\ mask' = mask /\ call' = call /\ proc' = proc
    BY DEF spawnVars
  <1>2. Own' = Own /\ After' = After /\ Expected' = Expected
    BY <1>1, ActionsStay
  <1>3. SpawnTyped' /\ Resources' /\ Outcome'
    BY <1>1 DEF SpawnInv, SpawnTyped, Resources, Outcome, Ended
  <1>4. HeapHeld'
    BY <1>1, <1>2 DEF SpawnInv, HeapHeld
  <1>5. ChildSound'
    <2>1. \A f, n : Shows(f, n)' <=> Shows(f, n)
      BY <1>2 DEF Shows
    <2>2. \A h : HandlersReset(h)' <=> HandlersReset(h)
      BY <1>1 DEF HandlersReset, Asked
    <2>3. ExecMask' = ExecMask
      BY <1>1 DEF ExecMask
    <2> QED BY <1>1, <1>2, <2>1, <2>2, <2>3 DEF SpawnInv, ChildSound, ChildIs
  <1> QED BY <1>3, <1>4, <1>5 DEF SpawnInv

\* The file actions are added before the call
LEMMA AddKeeps ==
    ASSUME SpawnAssumption, SpawnInv, NEW act \in SpawnAction, Add(act)
    PROVE  SpawnInv'
  <1>1. /\ call.at = "none" /\ call = NoCall /\ proc = NoProc /\ heap = Own /\ table = Inherited
        /\ fa \in [size : Nat, actions : Seq(SpawnAction)]
    BY DEF SpawnInv, SpawnTyped, Outcome, Resources, HeapHeld, Add
  <1>2. /\ table' = table /\ mask' = mask /\ call' = call /\ proc' = proc
        /\ fa' = Added(fa, act)
        /\ heap' = heap \cup {Block("actions", 0)}
                        \cup (IF act.type = "open" THEN {Block("name", Len(fa'.actions))} ELSE {})
    BY DEF Add
  <1>3. PICK old, n : old = fa.actions /\ n = Len(fa.actions)
    OBVIOUS
  <1>4. old \in Seq(SpawnAction) /\ n \in Nat /\ n = Len(old) /\ DOMAIN old = 1..n
    BY <1>1, <1>3, LenProperties
  <1>5. WithRoom(fa) \in [size : Nat, actions : Seq(SpawnAction)] /\ WithRoom(fa).actions = old
    <2>1. FirstSize \in Nat /\ fa.size \in Nat /\ 2 * fa.size \in Nat
      BY <1>1 DEF SpawnAssumption
    <2> QED BY <1>1, <1>3, <2>1 DEF WithRoom
  <1>6. fa'.actions = Append(old, act) /\ fa'.size = WithRoom(fa).size
        /\ fa' \in [size : Nat, actions : Seq(SpawnAction)]
    <2>1. Append(old, act) \in Seq(SpawnAction)
      BY <1>4, AppendProperties
    <2> HIDE DEF WithRoom
    <2>2. PICK f : f = WithRoom(fa)
      OBVIOUS
    <2>3. fa' = [f EXCEPT !.actions = Append(old, act)]
      BY <1>2, <1>5, <2>2 DEF Added
    <2> QED BY <1>5, <2>1, <2>2, <2>3
  <1>7. PICK new : new = fa'.actions
    OBVIOUS
  <1>8. /\ Len(new) = n + 1 /\ DOMAIN new = 1..n + 1 /\ new[n + 1] = act
        /\ \A i \in 1..n : new[i] = old[i]
        /\ new # <<>>
    BY <1>4, <1>6, <1>7, AppendProperties, LenProperties
  <1>9. heap' = Own'
    <2>1. {j \in DOMAIN new : new[j].type = "open"} =
            {j \in DOMAIN old : old[j].type = "open"} \cup (IF act.type = "open" THEN {n + 1} ELSE {})
      BY <1>4, <1>8
    <2>2. Own' = {Block("name", i) : i \in {j \in DOMAIN new : new[j].type = "open"}}
                    \cup {Block("actions", 0)}
      BY <1>7, <1>8 DEF Own
    <2>3. Own = {Block("name", i) : i \in {j \in DOMAIN old : old[j].type = "open"}}
                    \cup (IF old = <<>> THEN {} ELSE {Block("actions", 0)})
      BY <1>3 DEF Own
    <2>4. heap' = Own \cup {Block("actions", 0)}
                    \cup (IF act.type = "open" THEN {Block("name", n + 1)} ELSE {})
      BY <1>1, <1>2, <1>7, <1>8
    <2> QED BY <2>1, <2>2, <2>3, <2>4
  <1>10. SpawnTyped'
    BY <1>1, <1>2, <1>6 DEF SpawnInv, SpawnTyped
  <1>11. HeapHeld'
    <2>1. Line \notin Own' /\ Argv \notin Own'
      BY DEF Own, Line, Argv, Block
    <2> QED BY <1>1, <1>2, <1>9, <2>1 DEF HeapHeld
  <1>12. Resources' /\ Outcome' /\ ChildSound'
    BY <1>1, <1>2 DEF SpawnInv, Resources, Outcome, ChildSound, Preparing
  <1> QED BY <1>10, <1>11, <1>12 DEF SpawnInv

LEMMA ObjectKeeps ==
    ASSUME SpawnAssumption, SpawnInv, AddOpen \/ AddClose \/ AddDup2 \/ AddFails \/ Destroy
    PROVE  SpawnInv'
  <1>1. CASE AddOpen
    <2>1. PICK d \in Fd, path \in Files \cup {NoFile} : Add(OpenAction(d, path))
      BY <1>1 DEF AddOpen
    <2>2. OpenAction(d, path) \in SpawnAction
      BY DEF OpenAction, SpawnAction
    <2> QED BY <2>1, <2>2, AddKeeps
  <1>2. CASE AddClose
    <2>1. PICK d \in Fd : Add(CloseAction(d))
      BY <1>2 DEF AddClose
    <2>2. CloseAction(d) \in SpawnAction
      BY DEF CloseAction, SpawnAction
    <2> QED BY <2>1, <2>2, AddKeeps
  <1>3. CASE AddDup2
    <2>1. PICK d \in Fd, new \in Fd : Add(DupAction(d, new))
      BY <1>3 DEF AddDup2
    <2>2. DupAction(d, new) \in SpawnAction
      BY DEF DupAction, SpawnAction
    <2> QED BY <2>1, <2>2, AddKeeps
  <1>4. CASE AddFails
    BY <1>4, SpawnStutters DEF AddFails, spawnVars
  <1>5. CASE Destroy
    <2>1. /\ call.at = "returned" /\ heap = Own /\ table = Inherited /\ DOMAIN call = CallFields
          /\ heap' = heap \ ({Block("actions", 0)} \cup {Block("name", i) : i \in DOMAIN fa.actions})
          /\ fa' = [size |-> 0, actions |-> <<>>] /\ call' = [call EXCEPT !.at = "destroyed"]
          /\ table' = table /\ mask' = mask /\ proc' = proc
      BY <1>5 DEF Destroy, SpawnInv, SpawnTyped, HeapHeld, Resources
    <2>2. call'.at = "destroyed" /\ DOMAIN call' = CallFields
      BY <2>1 DEF CallFields
    <2>3. heap' = {}
      BY <2>1 DEF Own
    <2>4. SpawnTyped'
      <3>1. fa' \in [size : Nat, actions : Seq(SpawnAction)]
        BY <2>1
      <3> QED BY <2>1, <2>2, <3>1 DEF SpawnInv, SpawnTyped, CallPlaces
    <2>5. HeapHeld'
      BY <2>2, <2>3 DEF HeapHeld
    <2>6. Resources' /\ Outcome'
      BY <2>1, <2>2 DEF Resources, Outcome, Preparing
    <2>7. ChildSound'
      BY <2>1, <2>2, ChildWaits DEF SpawnInv
    <2> QED BY <2>4, <2>5, <2>6, <2>7 DEF SpawnInv
  <1> QED BY <1>1, <1>2, <1>3, <1>4, <1>5

\* What is known before vfork()
LEMMA PreparingIs ==
    ASSUME SpawnInv, call.at \in Preparing
    PROVE  /\ DOMAIN call = CallFields /\ call.ret = "ok" /\ call.err = "ok"
           /\ proc = NoProc /\ mask = call.was
           /\ Own \subseteq heap /\ (call.at \in {"find", "shebang", "read"} => Argv \notin heap)
           /\ \A b \in heap : b \in Own \cup {Line, Argv}
                              \/ b.what \in {"exe", "canonical", "paths", "path"}
           /\ IF call.at = "read" THEN Line \in heap
              ELSE table = Inherited /\ (Line \in heap <=> Argv \in heap)
  BY DEF SpawnInv, SpawnTyped, HeapHeld, Resources, Outcome, Preparing

\* A step of the caller's before vfork(): it holds what was held and blocks of its own
LEMMA PreparingKeeps ==
    ASSUME SpawnInv, call.at \in Preparing,
           call'.at \in {"shebang", "read", "canonical", "opens", "block", "fork", "cleanup"},
           DOMAIN call' = CallFields, fa' = fa, proc' = proc,
           IF call'.at = "fork" THEN mask' = Signal /\ call'.old = mask ELSE mask' = mask,
           call'.was = call.was, call'.err = call.err,
           IF call'.at = "cleanup" THEN call'.ret # "ok" ELSE call'.ret = call.ret,
           IF call'.at = "read"
           THEN call'.fd \in Fd \ DOMAIN Inherited /\ table' = Put(Inherited, call'.fd, "script")
           ELSE table' = Inherited,
           Own \subseteq heap',
           \A b \in heap' : b \in Own \cup {Line, Argv}
                            \/ b.what \in {"exe", "canonical", "paths", "path"},
           call'.at \in {"shebang", "read"} => Argv \notin heap',
           IF call'.at = "read" THEN Line \in heap' ELSE (Line \in heap' <=> Argv \in heap')
    PROVE  SpawnInv'
  <1>1. Own' = Own
    BY ActionsStay
  <1>2. /\ call.ret = "ok" /\ call.err = "ok" /\ proc = NoProc /\ mask = call.was
    BY PreparingIs
  <1>3. SpawnTyped'
    BY <1>2 DEF SpawnInv, SpawnTyped, CallPlaces, Preparing
  <1>4. HeapHeld'
    <2>1. Line' = Line /\ Argv' = Argv
      BY DEF Line, Argv
    <2> QED BY <1>1, <1>2, <2>1 DEF HeapHeld
  <1>5. Resources'
    BY <1>2 DEF Resources, Preparing
  <1>6. Outcome'
    BY <1>2 DEF Outcome, Preparing
  <1>7. ChildSound'
    BY <1>2 DEF ChildSound
  <1> QED BY <1>3, <1>4, <1>5, <1>6, <1>7 DEF SpawnInv

LEMMA FailsKeeps ==
    ASSUME SpawnInv, call.at \in Preparing, NEW err, err # "ok", Fail(err), fa' = fa, proc' = proc,
           mask' = mask, table' = Inherited, heap' \subseteq heap, Own \subseteq heap',
           Line \in heap' <=> Argv \in heap'
    PROVE  SpawnInv'
  <1>1. DOMAIN call = CallFields
    BY PreparingIs
  <1>2. /\ call'.at = "cleanup" /\ call'.ret = err /\ DOMAIN call' = CallFields
        /\ call'.was = call.was /\ call'.err = call.err
    BY <1>1 DEF Fail, CallFields
  <1>3. \A b \in heap' : b \in Own \cup {Line, Argv} \/ b.what \in {"exe", "canonical", "paths", "path"}
    BY PreparingIs
  <1> QED BY <1>2, <1>3, PreparingKeeps DEF Preparing

LEMMA NamesDiffer ==
    /\ Argv \notin Own /\ Line \notin Own /\ Argv # Line
    /\ Argv.what = "argv" /\ Line.what = "line" /\ Argv.i = 0 /\ Line.i = 0
  BY DEF Own, Argv, Line, Block

LEMMA BeginKeeps == ASSUME SpawnInv, Begin PROVE SpawnInv'
  <1>1. PICK request : call' = [at |-> "find", program |-> request.program, attr |-> request.attr,
                 was |-> mask, fd |-> 0, path |-> 0, argv |-> request.program.argv,
                 old |-> {}, ret |-> "ok", err |-> "ok"]
    BY DEF Begin
  <1>2. /\ call.at = "none" /\ heap = Own /\ table = Inherited /\ proc = NoProc
        /\ fa' = fa /\ heap' = heap /\ table' = table /\ mask' = mask /\ proc' = proc
    BY DEF Begin, SpawnInv, SpawnTyped, HeapHeld, Resources, Outcome
  <1>3. /\ call'.at = "find" /\ DOMAIN call' = CallFields /\ call'.was = mask
        /\ call'.ret = "ok" /\ call'.err = "ok"
    BY <1>1 DEF CallFields
  <1>4. Own' = Own
    BY <1>2, ActionsStay
  <1>5. SpawnTyped'
    BY <1>2, <1>3 DEF SpawnInv, SpawnTyped, CallPlaces, Preparing
  <1>6. HeapHeld'
    <2>1. Line' \notin heap' /\ Argv' \notin heap'
      BY <1>2, NamesDiffer DEF Line, Argv
    <2> QED BY <1>2, <1>3, <1>4, <2>1 DEF HeapHeld
  <1>7. Resources' /\ Outcome' /\ ChildSound'
    BY <1>2, <1>3 DEF Resources, Outcome, ChildSound, Preparing
  <1> QED BY <1>5, <1>6, <1>7 DEF SpawnInv

LEMMA FindFileKeeps == ASSUME SpawnInv, FindFile PROVE SpawnInv'
  <1>1. /\ call.at = "find" /\ call.at \in Preparing /\ fa' = fa /\ table' = table /\ mask' = mask
        /\ proc' = proc
    BY DEF FindFile, Preparing
  <1>2. /\ DOMAIN call = CallFields /\ table = Inherited /\ Own \subseteq heap
        /\ (Line \in heap <=> Argv \in heap) /\ Argv \notin heap
        /\ \A b \in heap : b \in Own \cup {Line, Argv}
                           \/ b.what \in {"exe", "canonical", "paths", "path"}
    BY <1>1, PreparingIs
  <1>3. ASSUME NEW path, call' = [call EXCEPT !.at = "shebang", !.path = path],
               heap' = heap \cup {Block("exe", 0)}
        PROVE  SpawnInv'
    <2>2. /\ call'.at = "shebang" /\ DOMAIN call' = CallFields
          /\ call'.was = call.was /\ call'.err = call.err /\ call'.ret = call.ret
      BY <1>2, <1>3 DEF CallFields
    <2>3. Block("exe", 0) # Line /\ Block("exe", 0) # Argv /\ Block("exe", 0).what = "exe"
      BY NamesDiffer DEF Block
    <2>4. heap' = heap \cup {Block("exe", 0)}
      BY <1>3
    <2>5. /\ \A b \in heap' : b \in Own \cup {Line, Argv}
                              \/ b.what \in {"exe", "canonical", "paths", "path"}
          /\ Own \subseteq heap' /\ Argv \notin heap' /\ (Line \in heap' <=> Argv \in heap')
      BY <1>2, <2>3, <2>4
    <2> QED BY <1>1, <1>2, <2>2, <2>5, PreparingKeeps DEF Preparing
  <1>4. ASSUME NEW err \in {"EACCES", "ENOENT", "ENOMEM"}, Fail(err), heap' = heap
        PROVE  SpawnInv'
    BY <1>1, <1>2, <1>4, FailsKeeps
  <1>5. \/ \E path : /\ call' = [call EXCEPT !.at = "shebang", !.path = path]
                      /\ heap' = heap \cup {Block("exe", 0)}
        \/ \E err \in {"EACCES", "ENOENT", "ENOMEM"} : Fail(err) /\ heap' = heap
    BY Zenon DEF FindFile, NoMemory
  <1> QED BY <1>3, <1>4, <1>5, Zenon

LEMMA OpenScriptKeeps == ASSUME SpawnAssumption, SpawnInv, OpenScript PROVE SpawnInv'
  <1>1. /\ call.at = "shebang" /\ call.at \in Preparing /\ fa' = fa /\ mask' = mask /\ proc' = proc
    BY DEF OpenScript, Preparing
  <1>2. /\ DOMAIN call = CallFields /\ table = Inherited /\ Own \subseteq heap
        /\ (Line \in heap <=> Argv \in heap) /\ Argv \notin heap
        /\ \A b \in heap : b \in Own \cup {Line, Argv}
                           \/ b.what \in {"exe", "canonical", "paths", "path"}
    BY <1>1, PreparingIs
  <1>3. CASE /\ Free(table) # {}
             /\ table' = Put(table, Lowest(Free(table)), "script")
             /\ heap' = heap \cup {Block("line", 0)}
             /\ call' = [call EXCEPT !.at = "read", !.fd = Lowest(Free(table))]
    <2>1. PICK d : d = Lowest(Free(table))
      OBVIOUS
    <2>2. d \in Fd \ DOMAIN Inherited
      <3>1. \E x \in Free(table) : \A other \in Free(table) : x <= other
        BY <1>3, LeastOf DEF Free, SpawnAssumption
      <3>2. d \in Free(table)
        BY <2>1, <3>1 DEF Lowest
      <3> QED BY <1>2, <3>2 DEF Free
    <2>3. /\ call'.at = "read" /\ call'.fd = d /\ DOMAIN call' = CallFields
          /\ call'.was = call.was /\ call'.err = call.err /\ call'.ret = call.ret
      BY <1>2, <1>3, <2>1 DEF CallFields
    <2>4. heap' = heap \cup {Line}
      BY <1>3 DEF Line
    <2>5. /\ \A b \in heap' : b \in Own \cup {Line, Argv}
                              \/ b.what \in {"exe", "canonical", "paths", "path"}
          /\ Own \subseteq heap' /\ Argv \notin heap' /\ Line \in heap'
      BY <1>2, <2>4, NamesDiffer
    <2>6. table' = Put(Inherited, call'.fd, "script")
      BY <1>2, <1>3, <2>1, <2>3
    <2> QED BY <1>1, <2>2, <2>3, <2>5, <2>6, PreparingKeeps DEF Preparing
  <1>4. ASSUME NEW err \in {"EACCES", "ENOMEM"}, Fail(err), heap' = heap, table' = table
        PROVE  SpawnInv'
    BY <1>1, <1>2, <1>4, FailsKeeps
  <1>5. \/ /\ Free(table) # {}
           /\ table' = Put(table, Lowest(Free(table)), "script")
           /\ heap' = heap \cup {Block("line", 0)}
           /\ call' = [call EXCEPT !.at = "read", !.fd = Lowest(Free(table))]
        \/ \E err \in {"EACCES", "ENOMEM"} : Fail(err) /\ heap' = heap /\ table' = table
    BY Zenon DEF OpenScript, NoMemory
  <1> QED BY <1>3, <1>4, <1>5, Zenon

LEMMA ReadScriptKeeps == ASSUME SpawnAssumption, SpawnInv, ReadScript PROVE SpawnInv'
  <1>1. /\ call.at = "read" /\ call.at \in Preparing /\ fa' = fa /\ mask' = mask /\ proc' = proc
        /\ table' = Without(table, call.fd)
    <2>1. /\ call.at = "read" /\ fa' = fa /\ mask' = mask /\ proc' = proc
          /\ table' = Without(table, call.fd)
      BY Zenon DEF ReadScript
    <2> QED BY <2>1 DEF Preparing
  <1>2. /\ DOMAIN call = CallFields /\ Own \subseteq heap /\ Argv \notin heap /\ Line \in heap
        /\ \A b \in heap : b \in Own \cup {Line, Argv}
                           \/ b.what \in {"exe", "canonical", "paths", "path"}
    BY <1>1, PreparingIs
  <1>3. table' = Inherited
    <2>1. PICK d : d = call.fd
      OBVIOUS
    <2>2. d \in Fd \ DOMAIN Inherited /\ table = Put(Inherited, d, "script")
      BY <1>1, <2>1 DEF SpawnInv, Resources
    <2>3. DOMAIN table \ {d} = DOMAIN Inherited
      BY <2>2 DEF Put
    <2>4. table' = [x \in DOMAIN Inherited |-> table[x]]
      BY <1>1, <2>1, <2>3 DEF Without
    <2>5. \A x \in DOMAIN Inherited : table[x] = Inherited[x]
      BY <2>2 DEF Put
    <2>6. Inherited = [x \in DOMAIN Inherited |-> Inherited[x]]
      BY DEF SpawnAssumption
    <2> QED BY <2>4, <2>5, <2>6
  <1>4. PICK rest : rest = heap \ {Line}
    OBVIOUS
  <1>5. /\ Own \subseteq rest /\ Line \notin rest /\ Argv \notin rest /\ rest \subseteq heap
        /\ \A b \in rest : b \in Own \cup {Line, Argv}
                           \/ b.what \in {"exe", "canonical", "paths", "path"}
    BY <1>2, <1>4, NamesDiffer
  <1>6. CASE call' = [call EXCEPT !.at = "canonical"] /\ heap' = rest
    <2>1. /\ call'.at = "canonical" /\ DOMAIN call' = CallFields
          /\ call'.was = call.was /\ call'.err = call.err /\ call'.ret = call.ret
      BY <1>2, <1>6 DEF CallFields
    <2> QED BY <1>1, <1>3, <1>5, <1>6, <2>1, PreparingKeeps DEF Preparing
  <1>7. ASSUME NEW err \in {"ENOEXEC", "ENOMEM"}, Fail(err), heap' = rest PROVE SpawnInv'
    BY <1>1, <1>3, <1>5, <1>7, FailsKeeps
  <1>8. CASE /\ heap' = heap \cup {Argv}
             /\ call' = [call EXCEPT !.at = "canonical", !.path = 0,
                                     !.argv = ScriptArgv(call.program, call.path)]
    <2>1. /\ call'.at = "canonical" /\ DOMAIN call' = CallFields
          /\ call'.was = call.was /\ call'.err = call.err /\ call'.ret = call.ret
      BY <1>2, <1>8 DEF CallFields
    <2>2. /\ Own \subseteq heap' /\ (Line \in heap' <=> Argv \in heap')
          /\ \A b \in heap' : b \in Own \cup {Line, Argv}
                              \/ b.what \in {"exe", "canonical", "paths", "path"}
      BY <1>2, <1>8
    <2> QED BY <1>1, <1>3, <2>1, <2>2, PreparingKeeps DEF Preparing
  <1>9. \/ call' = [call EXCEPT !.at = "canonical"] /\ heap' = rest
        \/ \E err \in {"ENOEXEC", "ENOMEM"} : Fail(err) /\ heap' = rest
        \/ /\ heap' = heap \cup {Argv}
           /\ call' = [call EXCEPT !.at = "canonical", !.path = 0,
                                   !.argv = ScriptArgv(call.program, call.path)]
    BY <1>4, Zenon DEF ReadScript, Line, Argv
  <1> QED BY <1>6, <1>7, <1>8, <1>9, Zenon

LEMMA CanonicalKeeps == ASSUME SpawnInv, Canonical PROVE SpawnInv'
  <1>1. /\ call.at = "canonical" /\ call.at \in Preparing /\ fa' = fa /\ table' = table
        /\ mask' = mask /\ proc' = proc
    BY DEF Canonical, Preparing
  <1>2. /\ DOMAIN call = CallFields /\ table = Inherited /\ Own \subseteq heap
        /\ (Line \in heap <=> Argv \in heap)
        /\ \A b \in heap : b \in Own \cup {Line, Argv}
                           \/ b.what \in {"exe", "canonical", "paths", "path"}
    BY <1>1, PreparingIs
  <1>3. CASE call' = [call EXCEPT !.at = "opens"] /\ heap' = heap \cup {Block("canonical", 0)}
    <2>1. /\ call'.at = "opens" /\ DOMAIN call' = CallFields
          /\ call'.was = call.was /\ call'.err = call.err /\ call'.ret = call.ret
      BY <1>2, <1>3 DEF CallFields
    <2>2. Block("canonical", 0).what = "canonical"
      BY DEF Block
    <2>3. Block("canonical", 0) # Line /\ Block("canonical", 0) # Argv
      BY <2>2, NamesDiffer
    <2>4. /\ \A b \in heap' : b \in Own \cup {Line, Argv}
                              \/ b.what \in {"exe", "canonical", "paths", "path"}
          /\ Own \subseteq heap' /\ (Line \in heap' <=> Argv \in heap')
      BY <1>2, <1>3, <2>2, <2>3
    <2> QED BY <1>1, <1>2, <2>1, <2>4, PreparingKeeps DEF Preparing
  <1>4. CASE Fail("EACCES") /\ heap' = heap
    BY <1>1, <1>2, <1>4, FailsKeeps
  <1> QED BY <1>3, <1>4 DEF Canonical

LEMMA PrepareOpensKeeps == ASSUME SpawnInv, PrepareOpens PROVE SpawnInv'
  <1>1. /\ call.at = "opens" /\ call.at \in Preparing /\ fa' = fa /\ table' = table
        /\ mask' = mask /\ proc' = proc
    BY DEF PrepareOpens, Preparing
  <1>2. /\ DOMAIN call = CallFields /\ table = Inherited /\ Own \subseteq heap
        /\ (Line \in heap <=> Argv \in heap)
        /\ \A b \in heap : b \in Own \cup {Line, Argv}
                           \/ b.what \in {"exe", "canonical", "paths", "path"}
    BY <1>1, PreparingIs
  <1>3. ASSUME NEW more, \A b \in more : b.what \in {"paths", "path"},
               call' = [call EXCEPT !.at = "block"], heap' = heap \cup more
        PROVE  SpawnInv'
    <2>1. /\ call'.at = "block" /\ DOMAIN call' = CallFields
          /\ call'.was = call.was /\ call'.err = call.err /\ call'.ret = call.ret
      BY <1>2, <1>3 DEF CallFields
    <2>2. Line \notin more /\ Argv \notin more
      BY <1>3, NamesDiffer
    <2>3. /\ \A b \in heap' : b \in Own \cup {Line, Argv}
                              \/ b.what \in {"exe", "canonical", "paths", "path"}
          /\ Own \subseteq heap' /\ (Line \in heap' <=> Argv \in heap')
      BY <1>2, <1>3, <2>2
    <2> QED BY <1>1, <1>2, <2>1, <2>3, PreparingKeeps DEF Preparing
  <1>4. ASSUME NEW err \in {"ENOMEM", "EISDIR"}, Fail(err), heap' = heap PROVE SpawnInv'
    BY <1>1, <1>2, <1>4, FailsKeeps
  <1>5. PICK opens : opens = {i \in DOMAIN fa.actions : fa.actions[i].type = "open"}
    OBVIOUS
  <1>6. CASE /\ call' = [call EXCEPT !.at = "block"]
             /\ heap' = IF fa.actions = <<>> THEN heap
                        ELSE heap \cup {Block("paths", 0)} \cup {Block("path", i) : i \in opens}
    <2>1. CASE fa.actions = <<>>
      <3>1. heap' = heap \cup {}
        BY <1>6, <2>1
      <3> QED BY <1>3, <1>6, <3>1
    <2>2. CASE fa.actions # <<>>
      <3>1. PICK more : more = {Block("paths", 0)} \cup {Block("path", i) : i \in opens}
        OBVIOUS
      <3>2. \A b \in more : b.what \in {"paths", "path"}
        BY <3>1 DEF Block
      <3>3. heap' = heap \cup more
        BY <1>6, <2>2, <3>1
      <3> QED BY <1>3, <1>6, <3>2, <3>3
    <2> QED BY <2>1, <2>2
  <1>7. \/ /\ call' = [call EXCEPT !.at = "block"]
           /\ heap' = IF fa.actions = <<>> THEN heap
                      ELSE heap \cup {Block("paths", 0)} \cup {Block("path", i) : i \in opens}
        \/ \E err \in {"ENOMEM", "EISDIR"} : Fail(err) /\ heap' = heap
    BY <1>5, Zenon DEF PrepareOpens, NoMemory
  <1> QED BY <1>4, <1>6, <1>7, Zenon

LEMMA MaskSignalsKeeps == ASSUME SpawnInv, MaskSignals PROVE SpawnInv'
  <1>1. /\ call.at = "block" /\ call.at \in Preparing /\ fa' = fa /\ heap' = heap /\ table' = table
        /\ mask' = Signal /\ proc' = proc /\ call' = [call EXCEPT !.at = "fork", !.old = mask]
    BY DEF MaskSignals, Preparing
  <1>2. /\ DOMAIN call = CallFields /\ table = Inherited /\ Own \subseteq heap
        /\ (Line \in heap <=> Argv \in heap)
        /\ \A b \in heap : b \in Own \cup {Line, Argv}
                           \/ b.what \in {"exe", "canonical", "paths", "path"}
    BY <1>1, PreparingIs
  <1>3. /\ call'.at = "fork" /\ DOMAIN call' = CallFields /\ call'.old = mask
        /\ call'.was = call.was /\ call'.err = call.err /\ call'.ret = call.ret
    BY <1>1, <1>2 DEF CallFields
  <1> QED BY <1>1, <1>2, <1>3, PreparingKeeps DEF Preparing

\* vfork(): the child has the caller's descriptors, handlers and mask
LEMMA VforkKeeps == ASSUME SpawnAssumption, SpawnInv, Vfork PROVE SpawnInv'
  <1>1. /\ call.at = "fork" /\ fa' = fa /\ heap' = heap /\ table' = table /\ mask' = mask
    BY DEF Vfork
  <1>2. /\ DOMAIN call = CallFields /\ call.ret = "ok" /\ call.err = "ok" /\ proc = NoProc
        /\ table = Inherited /\ mask = Signal /\ call.old = call.was /\ HeapHeld
        /\ fa \in [size : Nat, actions : Seq(SpawnAction)]
    BY <1>1 DEF SpawnInv, SpawnTyped, Outcome, Resources
  <1>3. Own' = Own /\ Expected' = Expected /\ After' = After
    BY <1>1, ActionsStay
  <1>4. CASE /\ proc' = [at |-> "reset", i |-> 1, err |-> "ok", mask |-> mask, fds |-> table,
                         handlers |-> Disposition, done |-> {}, pending |-> {}, sent |-> 0,
                         haunted |-> FALSE, reaped |-> FALSE]
             /\ call' = [call EXCEPT !.at = "suspended"]
    <2>1. /\ call'.at = "suspended" /\ DOMAIN call' = CallFields /\ call'.old = call.old
          /\ call'.was = call.was /\ call'.err = "ok" /\ call'.ret = "ok"
      BY <1>2, <1>4 DEF CallFields
    <2>2. /\ proc'.at = "reset" /\ proc'.i = 1 /\ proc'.err = "ok" /\ proc'.mask = Signal
          /\ proc'.fds = Inherited /\ proc'.handlers = Disposition /\ proc'.pending = {}
          /\ proc'.sent = 0 /\ ~ proc'.haunted /\ ~ proc'.reaped /\ DOMAIN proc' = ProcFields
      BY <1>2, <1>4 DEF ProcFields
    <2>3. proc' # NoProc
      BY <2>2 DEF NoProc
    <2>4. SpawnTyped'
      BY <1>1, <1>2, <2>1, <2>2 DEF SpawnTyped, CallPlaces, ChildPlaces
    <2>5. HeapHeld'
      BY <1>1, <1>2, <1>3, <2>1 DEF HeapHeld, Line, Argv
    <2>6. Resources' /\ Outcome'
      BY <1>1, <1>2, <2>1, <2>2, <2>3 DEF Resources, Outcome, Preparing
    <2>7. Shows(Inherited, 0)
      <3>1. After[0] = Before
        BY AfterIs DEF SpawnInv
      <3>2. DOMAIN Inherited \subseteq Fd
        BY DEF SpawnAssumption
      <3>3. \A d \in Fd : Before[d] = IF d \in DOMAIN Inherited THEN Inherited[d] ELSE Closed
        BY DEF Before
      <3> QED BY <3>1, <3>2, <3>3 DEF Shows
    <2>8. 1 \in 1..Len(fa'.actions) + 1
      <3>1. Len(fa.actions) \in Nat
        BY <1>2, LenProperties
      <3> QED BY <1>1, <3>1
    <2>9. \A f, n : Shows(f, n)' <=> Shows(f, n)
      BY <1>3 DEF Shows
    <2>10. ChildSound'
      <3>1. proc'.i - 1 = 0
        BY <2>2
      <3> QED BY <2>1, <2>2, <2>7, <2>8, <2>9, <3>1 DEF ChildSound, ChildIs
    <2> QED BY <2>4, <2>5, <2>6, <2>10 DEF SpawnInv
  <1>5. CASE call' = [call EXCEPT !.at = "restore", !.ret = "EAGAIN"] /\ proc' = proc
    <2>1. /\ call'.at = "restore" /\ DOMAIN call' = CallFields /\ call'.old = call.old
          /\ call'.was = call.was /\ call'.err = "ok" /\ call'.ret = "EAGAIN"
      BY <1>2, <1>5 DEF CallFields
    <2>2. SpawnTyped'
      BY <1>1, <1>2, <1>5, <2>1 DEF SpawnTyped, CallPlaces
    <2>3. HeapHeld'
      BY <1>1, <1>2, <1>3, <2>1 DEF HeapHeld, Line, Argv
    <2>4. Resources' /\ Outcome' /\ ChildSound'
      BY <1>1, <1>2, <1>5, <2>1 DEF Resources, Outcome, ChildSound, Preparing
    <2> QED BY <2>2, <2>3, <2>4 DEF SpawnInv
  <1> QED BY <1>4, <1>5 DEF Vfork

\* What is known while the child runs
LEMMA ChildRuns ==
    ASSUME SpawnInv, call.at = "suspended", proc.at \in ChildPlaces \ {"dead"}
    PROVE  /\ proc # NoProc /\ DOMAIN proc = ProcFields /\ ~ proc.reaped /\ ChildIs(proc)
           /\ call.err = "ok" /\ call.ret = "ok" /\ DOMAIN call = CallFields
           /\ fa \in [size : Nat, actions : Seq(SpawnAction)]
  <1>1. proc # NoProc
    BY DEF NoProc, ChildPlaces
  <1> QED BY <1>1 DEF SpawnInv, SpawnTyped, Outcome, ChildSound

\* A step of the child's that leaves it as it should be
LEMMA ChildKeeps ==
    ASSUME SpawnInv, call.at = "suspended", proc.at \in ChildPlaces \ {"dead"}, call' = call, ChildOnly,
           NEW c, proc' = c, c.at \in ChildPlaces, DOMAIN c = ProcFields,
           ~ c.reaped, c.at = "dead" => c.sent > 0, ChildIs(c)
    PROVE  SpawnInv'
  <1>1. fa' = fa /\ heap' = heap /\ table' = table /\ mask' = mask /\ c # NoProc
    BY DEF ChildOnly, NoProc, ChildPlaces
  <1>2. Own' = Own /\ After' = After /\ Expected' = Expected
    BY <1>1, ActionsStay
  <1>3. SpawnTyped'
    BY <1>1 DEF SpawnInv, SpawnTyped
  <1>4. HeapHeld'
    BY <1>1, <1>2 DEF SpawnInv, HeapHeld, Line, Argv
  <1>5. Resources'
    BY <1>1 DEF SpawnInv, Resources
  <1>6. Outcome'
    BY <1>1, ChildRuns DEF Outcome, Ended, Preparing
  <1>7. ChildSound'
    <2>1. \A f, n : Shows(f, n)' <=> Shows(f, n)
      BY <1>2 DEF Shows
    <2>2. \A h : HandlersReset(h)' <=> HandlersReset(h)
      BY DEF HandlersReset, Asked
    <2>3. ExecMask' = ExecMask
      BY DEF ExecMask
    <2> QED BY <1>1, <1>2, <2>1, <2>2, <2>3 DEF ChildSound, ChildIs
  <1> QED BY <1>3, <1>4, <1>5, <1>6, <1>7 DEF SpawnInv

LEMMA ResetHandlersKeeps == ASSUME SpawnAssumption, SpawnInv, ResetHandlers PROVE SpawnInv'
  <1>1. /\ call.at = "suspended" /\ proc.at = "reset" /\ call' = call /\ ChildOnly
        /\ proc.at \in ChildPlaces \ {"dead"}
    BY DEF ResetHandlers, InChild, ChildPlaces
  <1>2. /\ DOMAIN proc = ProcFields /\ ~ proc.reaped /\ ChildIs(proc)
    BY <1>1, ChildRuns
  <1>3. PICK reset : reset =
            [sig \in Signal |->
               CASE proc.handlers[sig] = "caught" -> "default"
                 [] proc.handlers[sig] = "ignored" /\ "setsigdef" \in call.attr.flags
                        /\ sig \in call.attr.sigdefault -> "default"
                 [] OTHER -> proc.handlers[sig]]
    OBVIOUS
  <1>4. PICK c : c = [proc EXCEPT !.at = "attributes", !.handlers = reset]
    OBVIOUS
  <1>5. proc' = c
    BY <1>3, <1>4 DEF ResetHandlers
  <1>6. /\ c.at = "attributes" /\ c.handlers = reset /\ DOMAIN c = ProcFields
        /\ c.reaped = proc.reaped /\ c.haunted = proc.haunted /\ c.sent = proc.sent
        /\ c.pending = proc.pending /\ c.fds = proc.fds /\ c.i = proc.i
        /\ c.err = proc.err
    BY <1>2, <1>4 DEF ProcFields
  <1>7. proc.handlers = Disposition
    BY <1>1, <1>2 DEF ChildIs
  <1>8. HandlersReset(reset)
    <2> SUFFICES ASSUME NEW sig \in Signal
                 PROVE  /\ reset[sig] \in {"default", "ignored"}
                        /\ reset[sig] = "ignored" <=> Asked(sig)
      BY DEF HandlersReset
    <2>1. Disposition[sig] \in {"default", "ignored", "caught"}
      BY DEF SpawnAssumption, Signal
    <2>2. reset[sig] =
            CASE Disposition[sig] = "caught" -> "default"
              [] Disposition[sig] = "ignored" /\ "setsigdef" \in call.attr.flags
                     /\ sig \in call.attr.sigdefault -> "default"
              [] OTHER -> Disposition[sig]
      BY <1>3, <1>7
    <2>3. CASE Asked(sig)
      BY <2>1, <2>2, <2>3 DEF Asked
    <2>4. CASE ~ Asked(sig)
      BY <2>1, <2>2, <2>4 DEF Asked
    <2> QED BY <2>3, <2>4
  <1>9. ChildIs(c)
    BY <1>1, <1>2, <1>6, <1>8 DEF ChildIs
  <1> QED BY <1>1, <1>2, <1>5, <1>6, <1>9, ChildKeeps DEF ChildPlaces

LEMMA SetAttributesKeeps == ASSUME SpawnInv, SetAttributes PROVE SpawnInv'
  <1>1. /\ call.at = "suspended" /\ proc.at = "attributes" /\ call' = call /\ ChildOnly
        /\ proc.at \in ChildPlaces \ {"dead"}
    BY DEF SetAttributes, InChild, ChildPlaces
  <1>2. /\ DOMAIN proc = ProcFields /\ ~ proc.reaped /\ ChildIs(proc)
    BY <1>1, ChildRuns
  <1>3. PICK c : c = proc'
    OBVIOUS
  <1>4. /\ c.reaped = proc.reaped /\ c.haunted = proc.haunted /\ c.sent = proc.sent
        /\ c.pending = proc.pending /\ c.fds = proc.fds /\ c.i = proc.i
        /\ c.handlers = proc.handlers /\ DOMAIN c = ProcFields
        /\ \/ c.at = "actions" /\ c.err = proc.err
           \/ c.at = "exit" /\ c.err = "EPERM"
    <2>1. CASE proc' = [proc EXCEPT !.at = "actions", !.done = Demanded(call.attr.flags)]
      BY <1>2, <1>3, <2>1 DEF ProcFields
    <2>2. CASE proc' = [proc EXCEPT !.at = "exit", !.err = "EPERM"]
      BY <1>2, <1>3, <2>2 DEF ProcFields
    <2> QED BY <2>1, <2>2 DEF SetAttributes
  <1>5. ChildIs(c)
    BY <1>1, <1>2, <1>4 DEF ChildIs
  <1> QED BY <1>1, <1>2, <1>3, <1>4, <1>5, ChildKeeps DEF ChildPlaces

\* An action of the list gives the descriptors that are asked for, or ends the child
LEMMA ApplyActionKeeps == ASSUME SpawnAssumption, SpawnInv, ApplyAction PROVE SpawnInv'
  <1>1. /\ call.at = "suspended" /\ proc.at = "actions" /\ call' = call /\ ChildOnly
        /\ proc.at \in ChildPlaces \ {"dead"} /\ proc.i \in DOMAIN fa.actions
    BY DEF ApplyAction, InChild, ChildPlaces
  <1>2. /\ DOMAIN proc = ProcFields /\ ~ proc.reaped /\ ChildIs(proc)
        /\ fa \in [size : Nat, actions : Seq(SpawnAction)]
    BY <1>1, ChildRuns
  <1>3. PICK act : act = fa.actions[proc.i]
    OBVIOUS
  <1>4. /\ Len(fa.actions) \in Nat /\ proc.i \in 1..Len(fa.actions) /\ act \in SpawnAction
    BY <1>1, <1>2, <1>3, LenProperties, ElementOfSeq
  <1>5. Shows(proc.fds, proc.i - 1)
    BY <1>1, <1>2 DEF ChildIs
  <1>6. CASE Refused(proc.fds, act)
    <2>1. PICK c : c = [proc EXCEPT !.at = "exit", !.err = "EBADF"]
      OBVIOUS
    <2>2. proc' = c
      BY <1>3, <1>6, <2>1 DEF ApplyAction
    <2>3. /\ c.reaped = proc.reaped /\ c.haunted = proc.haunted /\ c.sent = proc.sent
          /\ c.pending = proc.pending /\ c.handlers = proc.handlers
          /\ DOMAIN c = ProcFields /\ c.at = "exit" /\ c.err = "EBADF"
      BY <1>2, <2>1 DEF ProcFields
    <2>4. ChildIs(c)
      BY <1>1, <1>2, <2>3 DEF ChildIs
    <2> QED BY <1>1, <1>2, <2>2, <2>3, <2>4, ChildKeeps DEF ChildPlaces
  <1>7. CASE ~ Refused(proc.fds, act)
    <2>1. PICK fds : fds = Applied(proc.fds, act)
      OBVIOUS
    <2>2. PICK c : c = [proc EXCEPT !.i = @ + 1, !.fds = fds]
      OBVIOUS
    <2>3. proc' = c
      BY <1>3, <1>7, <2>1, <2>2 DEF ApplyAction
    <2>4. /\ c.reaped = proc.reaped /\ c.haunted = proc.haunted /\ c.sent = proc.sent
          /\ c.pending = proc.pending /\ c.handlers = proc.handlers
          /\ DOMAIN c = ProcFields /\ c.at = "actions" /\ c.err = proc.err
          /\ c.i = proc.i + 1 /\ c.fds = fds
      BY <1>1, <1>2, <2>2 DEF ProcFields
    <2>5. Shows(fds, proc.i)
      <3>1. PICK was, old : was = After[proc.i - 1] /\ old = proc.fds
        OBVIOUS
      <3>2. DOMAIN old \subseteq Fd /\ ~ Refused(old, act)
        BY <1>5, <1>7, <3>1 DEF Shows
      <3>3. \A d \in Fd : was[d] = IF d \in DOMAIN old THEN old[d] ELSE Closed
        BY <1>5, <3>1 DEF Shows
      <3>4. /\ DOMAIN Applied(old, act) \subseteq Fd
            /\ \A d \in Fd : Changed(was, act)[d] =
                  IF d \in DOMAIN Applied(old, act) THEN Applied(old, act)[d] ELSE Closed
        BY <1>4, <3>2, <3>3, AppliedIs
      <3>5. After[proc.i] = Changed(was, act)
        BY <1>3, <1>4, <3>1, AfterIs DEF SpawnInv
      <3>6. fds = Applied(old, act)
        BY <2>1, <3>1
      <3> QED BY <3>4, <3>5, <3>6 DEF Shows
    <2>6. c.i \in 1..Len(fa.actions) + 1 /\ c.i - 1 = proc.i
      BY SMTT(30), <1>4, <2>4
    <2>7. ChildIs(c)
      BY <1>1, <1>2, <2>4, <2>5, <2>6 DEF ChildIs
    <2> QED BY <1>1, <1>2, <2>3, <2>4, <2>7, ChildKeeps DEF ChildPlaces
  <1> QED BY <1>6, <1>7

LEMMA UnmaskKeeps == ASSUME SpawnInv, Unmask PROVE SpawnInv'
  <1>1. /\ call.at = "suspended" /\ proc.at = "actions" /\ call' = call /\ ChildOnly
        /\ proc.at \in ChildPlaces \ {"dead"} /\ proc.i \notin DOMAIN fa.actions
    BY DEF Unmask, InChild, ChildPlaces
  <1>2. /\ DOMAIN proc = ProcFields /\ ~ proc.reaped /\ ChildIs(proc)
        /\ fa \in [size : Nat, actions : Seq(SpawnAction)]
    BY <1>1, ChildRuns
  <1>3. PICK c : c = [proc EXCEPT !.at = "exec", !.mask = ExecMask]
    OBVIOUS
  <1>4. proc' = c
    BY <1>3 DEF Unmask
  <1>5. /\ c.reaped = proc.reaped /\ c.haunted = proc.haunted /\ c.sent = proc.sent
        /\ c.pending = proc.pending /\ c.handlers = proc.handlers
        /\ DOMAIN c = ProcFields /\ c.at = "exec" /\ c.err = proc.err
        /\ c.mask = ExecMask /\ c.fds = proc.fds
    BY <1>2, <1>3 DEF ProcFields
  <1>6. Shows(c.fds, Len(fa.actions))
    <2>1. proc.i \in 1..Len(fa.actions) + 1 /\ Shows(proc.fds, proc.i - 1)
      BY <1>1, <1>2 DEF ChildIs
    <2>2. Len(fa.actions) \in Nat /\ proc.i \notin 1..Len(fa.actions)
      BY <1>1, <1>2, LenProperties
    <2>3. proc.i - 1 = Len(fa.actions)
      BY <2>1, <2>2
    <2> QED BY <1>5, <2>1, <2>3
  <1>7. ChildIs(c)
    BY <1>1, <1>2, <1>5, <1>6 DEF ChildIs
  <1> QED BY <1>1, <1>2, <1>4, <1>5, <1>7, ChildKeeps DEF ChildPlaces

LEMMA ExecKeeps == ASSUME SpawnInv, Exec PROVE SpawnInv'
  <1>1. /\ call.at = "suspended" /\ proc.at = "exec" /\ call' = call /\ ChildOnly
        /\ proc.at \in ChildPlaces \ {"dead"}
    BY DEF Exec, InChild, ChildPlaces
  <1>2. /\ DOMAIN proc = ProcFields /\ ~ proc.reaped /\ ChildIs(proc)
    BY <1>1, ChildRuns
  <1>3. PICK fds : fds = [d \in {x \in DOMAIN proc.fds : ~ proc.fds[x].cloexec} |-> proc.fds[d]]
    OBVIOUS
  <1>4. CASE proc' = [proc EXCEPT !.at = "image", !.fds = fds]
    <2>1. PICK c : c = [proc EXCEPT !.at = "image", !.fds = fds]
      OBVIOUS
    <2>2. /\ c.reaped = proc.reaped /\ c.haunted = proc.haunted /\ c.sent = proc.sent
          /\ c.pending = proc.pending /\ c.handlers = proc.handlers
          /\ DOMAIN c = ProcFields /\ c.at = "image" /\ c.mask = proc.mask
          /\ c.fds = fds
      BY <1>2, <2>1 DEF ProcFields
    <2>3. {<<d, fds[d].file>> : d \in DOMAIN fds} = Expected
      <3>1. PICK last, old : last = After[Len(fa.actions)] /\ old = proc.fds
        OBVIOUS
      <3>2. /\ DOMAIN old \subseteq Fd
            /\ \A d \in Fd : last[d] = IF d \in DOMAIN old THEN old[d] ELSE Closed
        BY <1>1, <1>2, <3>1 DEF ChildIs, Shows
      <3>3. Expected = {<<d, last[d].file>> : d \in {x \in Fd : ~ last[x].cloexec}}
        BY <3>1 DEF Expected
      <3>4. Closed.cloexec = TRUE
        BY DEF Closed
      <3>5. {x \in Fd : ~ last[x].cloexec} = {x \in DOMAIN old : ~ old[x].cloexec}
        BY <3>2, <3>4
      <3>6. /\ DOMAIN fds = {x \in DOMAIN old : ~ old[x].cloexec}
            /\ \A d \in DOMAIN fds : fds[d] = last[d]
        BY <1>3, <3>1, <3>2
      <3> QED BY <3>3, <3>5, <3>6
    <2>4. ChildIs(c)
      BY <1>1, <1>2, <2>2, <2>3 DEF ChildIs
    <2> QED BY <1>1, <1>2, <1>4, <2>1, <2>2, <2>4, ChildKeeps DEF ChildPlaces
  <1>5. CASE proc' = [proc EXCEPT !.at = "exit", !.err = "ENOEXEC"]
    <2>1. PICK c : c = [proc EXCEPT !.at = "exit", !.err = "ENOEXEC"]
      OBVIOUS
    <2>2. /\ c.reaped = proc.reaped /\ c.haunted = proc.haunted /\ c.sent = proc.sent
          /\ c.pending = proc.pending /\ c.handlers = proc.handlers
          /\ DOMAIN c = ProcFields /\ c.at = "exit" /\ c.err = "ENOEXEC"
      BY <1>2, <2>1 DEF ProcFields
    <2>3. ChildIs(c)
      BY <1>1, <1>2, <2>2 DEF ChildIs
    <2> QED BY <1>1, <1>2, <1>5, <2>1, <2>2, <2>3, ChildKeeps DEF ChildPlaces
  <1> QED BY <1>3, <1>4, <1>5 DEF Exec

LEMMA SendKeeps == ASSUME SpawnInv, Send PROVE SpawnInv'
  <1>1. /\ call.at = "suspended" /\ proc.at \notin {"image", "dead"} /\ call' = call /\ ChildOnly
    BY DEF Send, Alive
  <1>2. PICK sig \in Signal : proc' = Sent(sig)
    BY DEF Send
  <1>3. proc.at \in ChildPlaces \ {"dead"}
    BY <1>1 DEF SpawnInv, SpawnTyped, Outcome
  <1>4. /\ DOMAIN proc = ProcFields /\ ~ proc.reaped /\ ChildIs(proc)
    BY <1>1, <1>3, ChildRuns
  <1>5. PICK c : c = Sent(sig)
    OBVIOUS
  <1>6. /\ c.at = proc.at /\ c.i = proc.i /\ c.err = proc.err /\ c.mask = proc.mask
        /\ c.fds = proc.fds /\ c.handlers = proc.handlers
        /\ c.haunted = proc.haunted /\ c.reaped = proc.reaped /\ DOMAIN c = ProcFields
        /\ c.sent = proc.sent + 1 /\ c.pending = proc.pending \cup {sig}
    BY <1>4, <1>5 DEF ProcFields, Sent
  <1>7. /\ c.sent \in Nat /\ c.sent > 0 /\ c.pending \subseteq Signal
    BY <1>4, <1>6 DEF ChildIs
  <1>8. ChildIs(c)
    BY <1>4, <1>6, <1>7 DEF ChildIs
  <1> QED BY <1>1, <1>2, <1>3, <1>4, <1>5, <1>6, <1>7, <1>8, ChildKeeps

\* A signal that is delivered finds no handler of the caller's
LEMMA DeliverKeeps == ASSUME SpawnAssumption, SpawnInv, Deliver PROVE SpawnInv'
  <1>1. /\ call.at = "suspended" /\ proc.at \notin {"image", "dead"} /\ call' = call /\ ChildOnly
    BY DEF Deliver, Alive
  <1>2. PICK sig \in proc.pending \ (proc.mask \ {Kill}) : proc' = Received(sig)
    BY DEF Deliver
  <1>3. proc.at \in ChildPlaces \ {"dead"}
    BY <1>1 DEF SpawnInv, SpawnTyped, Outcome
  <1>4. /\ DOMAIN proc = ProcFields /\ ~ proc.reaped /\ ChildIs(proc)
    BY <1>1, <1>3, ChildRuns
  <1>5. sig \in Signal /\ proc.sent > 0 /\ proc.sent \in Nat
    BY <1>4 DEF ChildIs
  <1>6. proc.handlers[sig] \in {"default", "ignored"}
    <2>1. CASE proc.at = "reset"
      <3>1. proc.handlers = Disposition /\ proc.mask = Signal
        BY <1>1, <1>4, <2>1 DEF ChildIs
      <3>2. sig = Kill
        BY <1>5, <3>1
      <3> QED BY <1>5, <3>1, <3>2 DEF SpawnAssumption, Signal
    <2>2. CASE proc.at # "reset"
      <3>1. proc.at \in {"attributes", "actions", "exec", "exit"}
        BY <1>1, <1>3, <2>2 DEF ChildPlaces
      <3>2. HandlersReset(proc.handlers)
        BY <1>1, <1>4, <3>1 DEF ChildIs
      <3> QED BY <1>5, <3>2 DEF HandlersReset
    <2> QED BY <2>1, <2>2
  <1>7. PICK received : received = [proc EXCEPT !.pending = @ \ {sig}]
    OBVIOUS
  <1>8. /\ received.at = proc.at /\ received.i = proc.i /\ received.err = proc.err
        /\ received.mask = proc.mask /\ received.fds = proc.fds /\ received.handlers = proc.handlers
        /\ received.haunted = proc.haunted /\ received.reaped = proc.reaped
        /\ DOMAIN received = ProcFields
        /\ received.sent = proc.sent /\ received.pending = proc.pending \ {sig}
    BY <1>4, <1>7 DEF ProcFields
  <1>9. CASE proc.handlers[sig] = "ignored"
    <2>1. proc' = received
      BY <1>2, <1>7, <1>9 DEF Received
    <2>2. ChildIs(received)
      BY <1>4, <1>5, <1>8 DEF ChildIs
    <2> QED BY <1>1, <1>3, <1>4, <1>8, <2>1, <2>2, ChildKeeps
  <1>10. CASE proc.handlers[sig] = "default"
    <2>1. PICK c : c = [received EXCEPT !.at = "dead"]
      OBVIOUS
    <2>2. proc' = c
      BY <1>2, <1>7, <1>10, <2>1 DEF Received
    <2>3. /\ c.at = "dead" /\ c.haunted = proc.haunted /\ c.reaped = proc.reaped
          /\ DOMAIN c = ProcFields /\ c.sent = proc.sent
          /\ c.pending = proc.pending \ {sig}
      BY <1>8, <2>1 DEF ProcFields
    <2>4. ChildIs(c)
      BY <1>4, <1>5, <2>3 DEF ChildIs
    <2> QED BY <1>1, <1>3, <1>4, <1>5, <2>2, <2>3, <2>4, ChildKeeps DEF ChildPlaces
  <1> QED BY <1>6, <1>9, <1>10

\* The child has said why, before it ends
LEMMA ChildExitsKeeps == ASSUME SpawnInv, ChildExits PROVE SpawnInv'
  <1>1. /\ call.at = "suspended" /\ proc.at = "exit" /\ ChildOnly
        /\ proc.at \in ChildPlaces \ {"dead"}
        /\ call' = [call EXCEPT !.err = proc.err] /\ proc' = [proc EXCEPT !.at = "dead"]
    BY DEF ChildExits, InChild, ChildPlaces
  <1>2. /\ DOMAIN proc = ProcFields /\ ~ proc.reaped /\ ChildIs(proc)
        /\ call.ret = "ok" /\ DOMAIN call = CallFields
    BY <1>1, ChildRuns
  <1>3. fa' = fa /\ heap' = heap /\ table' = table /\ mask' = mask
    BY <1>1 DEF ChildOnly
  <1>4. /\ call'.at = "suspended" /\ call'.err = proc.err /\ call'.ret = "ok"
        /\ call'.old = call.old /\ call'.was = call.was /\ DOMAIN call' = CallFields
    BY <1>1, <1>2 DEF CallFields
  <1>5. /\ proc'.at = "dead" /\ DOMAIN proc' = ProcFields /\ proc'.reaped = proc.reaped
        /\ proc'.haunted = proc.haunted /\ proc'.sent = proc.sent /\ proc'.pending = proc.pending
    BY <1>1, <1>2 DEF ProcFields
  <1>6. proc.err # "ok"
    BY <1>1, <1>2 DEF ChildIs
  <1>7. SpawnTyped'
    BY <1>3, <1>4, <1>5 DEF SpawnInv, SpawnTyped, CallPlaces, ChildPlaces
  <1>8. HeapHeld'
    <2>1. Own' = Own
      BY <1>3, ActionsStay
    <2> QED BY <1>1, <1>3, <1>4, <2>1 DEF SpawnInv, HeapHeld, Line, Argv
  <1>9. Resources'
    BY <1>1, <1>3, <1>4 DEF SpawnInv, Resources, Preparing
  <1>10. Outcome'
    <2>1. proc' # NoProc
      BY <1>5 DEF NoProc
    <2> QED BY <1>2, <1>4, <1>5, <1>6, <2>1 DEF Outcome, Ended, Preparing
  <1>11. ChildSound'
    BY <1>2, <1>5 DEF ChildSound, ChildIs
  <1> QED BY <1>7, <1>8, <1>9, <1>10, <1>11 DEF SpawnInv

LEMMA ResumeKeeps == ASSUME SpawnInv, Resume PROVE SpawnInv'
  <1>1. /\ call.at = "suspended" /\ proc.at \in {"image", "dead"} /\ fa' = fa /\ heap' = heap
        /\ table' = table /\ mask' = mask /\ proc' = proc /\ call' = [call EXCEPT !.at = "restore"]
    BY DEF Resume
  <1>2. DOMAIN call = CallFields /\ call.ret = "ok" /\ proc # NoProc /\ Ended
    BY <1>1 DEF SpawnInv, SpawnTyped, Outcome, Ended
  <1>3. /\ call'.at = "restore" /\ DOMAIN call' = CallFields /\ call'.err = call.err
        /\ call'.ret = call.ret /\ call'.old = call.old /\ call'.was = call.was
    BY <1>1, <1>2 DEF CallFields
  <1>4. SpawnTyped'
    BY <1>1, <1>3 DEF SpawnInv, SpawnTyped, CallPlaces
  <1>5. HeapHeld'
    <2>1. Own' = Own
      BY <1>1, ActionsStay
    <2> QED BY <1>1, <1>3, <2>1 DEF SpawnInv, HeapHeld, Line, Argv
  <1>6. Resources' /\ Outcome'
    BY <1>1, <1>2, <1>3 DEF SpawnInv, Resources, Outcome, Ended, Preparing
  <1>7. ChildSound'
    BY <1>1, <1>3, ChildWaits DEF SpawnInv
  <1> QED BY <1>4, <1>5, <1>6, <1>7 DEF SpawnInv

LEMMA RestoreKeeps == ASSUME SpawnInv, Restore PROVE SpawnInv'
  <1>1. /\ call.at = "restore" /\ mask' = call.old /\ fa' = fa /\ heap' = heap
        /\ table' = table /\ proc' = proc
        /\ call' = IF call.err = "ok" THEN [call EXCEPT !.at = "cleanup"]
                   ELSE [call EXCEPT !.at = "wait", !.ret = call.err]
    BY DEF Restore
  <1>2. /\ DOMAIN call = CallFields /\ call.old = call.was
        /\ \/ proc = NoProc /\ call.ret = "EAGAIN" /\ call.err = "ok"
           \/ proc # NoProc /\ call.ret = "ok" /\ Ended
    BY <1>1 DEF SpawnInv, SpawnTyped, Resources, Outcome
  <1>3. /\ DOMAIN call' = CallFields /\ call'.err = call.err /\ call'.was = call.was
        /\ IF call.err = "ok" THEN call'.at = "cleanup" /\ call'.ret = call.ret
           ELSE call'.at = "wait" /\ call'.ret = call.err
    BY <1>1, <1>2 DEF CallFields
  <1>4. SpawnTyped'
    BY <1>1, <1>3 DEF SpawnInv, SpawnTyped, CallPlaces
  <1>5. HeapHeld'
    <2>1. Own' = Own
      BY <1>1, ActionsStay
    <2> QED BY <1>1, <1>3, <2>1 DEF SpawnInv, HeapHeld, Line, Argv
  <1>6. Resources'
    BY <1>1, <1>2, <1>3 DEF SpawnInv, Resources, Preparing
  <1>7. Outcome'
    BY <1>1, <1>2, <1>3 DEF Outcome, Ended, Preparing
  <1>8. ChildSound'
    BY <1>1, <1>3, ChildWaits DEF SpawnInv
  <1> QED BY <1>4, <1>5, <1>6, <1>7, <1>8 DEF SpawnInv

LEMMA ReapKeeps == ASSUME SpawnInv, Reap PROVE SpawnInv'
  <1>1. /\ call.at = "wait" /\ mask' = mask /\ fa' = fa /\ heap' = heap /\ table' = table
        /\ proc' = [proc EXCEPT !.reaped = TRUE] /\ call' = [call EXCEPT !.at = "cleanup"]
    BY DEF Reap
  <1>2. /\ DOMAIN call = CallFields /\ call.ret # "ok" /\ proc # NoProc /\ proc.at = "dead"
        /\ DOMAIN proc = ProcFields /\ ChildIs(proc)
    BY <1>1 DEF SpawnInv, SpawnTyped, Outcome, ChildSound
  <1>3. /\ DOMAIN call' = CallFields /\ call'.at = "cleanup" /\ call'.was = call.was
        /\ call'.ret = call.ret
    BY <1>1, <1>2 DEF CallFields
  <1>4. /\ DOMAIN proc' = ProcFields /\ proc'.at = "dead" /\ proc'.reaped
        /\ proc'.haunted = proc.haunted /\ proc'.sent = proc.sent /\ proc'.pending = proc.pending
    BY <1>1, <1>2 DEF ProcFields
  <1>5. SpawnTyped'
    BY <1>1, <1>3, <1>4 DEF SpawnInv, SpawnTyped, CallPlaces, ChildPlaces
  <1>6. HeapHeld'
    <2>1. Own' = Own
      BY <1>1, ActionsStay
    <2> QED BY <1>1, <1>3, <2>1 DEF SpawnInv, HeapHeld, Line, Argv
  <1>7. Resources'
    BY <1>1, <1>3 DEF SpawnInv, Resources, Preparing
  <1>8. Outcome' /\ ChildSound'
    BY <1>2, <1>3, <1>4 DEF Outcome, ChildSound, ChildIs, Preparing
  <1> QED BY <1>5, <1>6, <1>7, <1>8 DEF SpawnInv

\* What is freed at the end leaves the blocks of the object of actions
LEMMA CleanupKeeps == ASSUME SpawnInv, Cleanup PROVE SpawnInv'
  <1>1. /\ call.at = "cleanup" /\ mask' = mask /\ fa' = fa /\ table' = table /\ proc' = proc
        /\ call' = [call EXCEPT !.at = "returned"]
    BY DEF Cleanup
  <1>2. PICK kept : /\ kept = IF Argv \in heap THEN {"argv", "line"} ELSE {}
                    /\ heap' = {b \in heap : b.what \notin {"exe", "canonical", "paths", "path"} \cup kept}
    BY DEF Cleanup, Argv
  <1>3. /\ DOMAIN call = CallFields /\ Own \subseteq heap /\ (Line \in heap <=> Argv \in heap)
        /\ \A b \in heap : b \in Own \cup {Line, Argv}
                           \/ b.what \in {"exe", "canonical", "paths", "path"}
    BY <1>1 DEF SpawnInv, SpawnTyped, HeapHeld
  <1>4. /\ DOMAIN call' = CallFields /\ call'.at = "returned" /\ call'.was = call.was
        /\ call'.ret = call.ret
    BY <1>1, <1>3 DEF CallFields
  <1>5. heap' = Own
    <2>1. \A b \in Own : b.what \in {"name", "actions"}
      BY DEF Own, Block
    <2>2. Own \subseteq heap'
      BY <1>2, <1>3, <2>1
    <2>3. Line \notin heap' /\ Argv \notin heap'
      BY <1>2, <1>3, NamesDiffer
    <2>4. heap' \subseteq Own
      BY <1>2, <1>3, <2>3
    <2> QED BY <2>2, <2>4
  <1>6. Own' = Own
    BY <1>1, ActionsStay
  <1>7. SpawnTyped'
    BY <1>1, <1>4 DEF SpawnInv, SpawnTyped, CallPlaces
  <1>8. HeapHeld'
    <2>1. Line' \notin heap' /\ Argv' \notin heap'
      BY <1>5, NamesDiffer DEF Line, Argv
    <2> QED BY <1>4, <1>5, <1>6, <2>1 DEF HeapHeld
  <1>9. Resources' /\ Outcome'
    BY <1>1, <1>4 DEF SpawnInv, Resources, Outcome, Preparing
  <1>10. ChildSound'
    BY <1>1, <1>4, ChildWaits DEF SpawnInv
  <1> QED BY <1>7, <1>8, <1>9, <1>10 DEF SpawnInv

LEMMA SpawnInvariantSound == ASSUME SpawnInv PROVE SpawnSound
  <1>1. ImageAsAsked
    <2> SUFFICES ASSUME call.at = "suspended", proc.at = "image"
                 PROVE  /\ {<<d, proc.fds[d].file>> : d \in DOMAIN proc.fds} = Expected
                        /\ proc.mask = IF "setsigmask" \in call.attr.flags
                                       THEN call.attr.sigmask ELSE call.was
                        /\ \A sig \in Signal :
                             proc.handlers[sig] = "ignored" <=>
                                 /\ Disposition[sig] = "ignored"
                                 /\ ~("setsigdef" \in call.attr.flags /\ sig \in call.attr.sigdefault)
      BY DEF ImageAsAsked
    <2>1. ChildIs(proc) /\ call.old = call.was
      BY ChildRuns DEF SpawnInv, Resources, ChildPlaces
    <2>2. {<<d, proc.fds[d].file>> : d \in DOMAIN proc.fds} = Expected
      BY <2>1 DEF ChildIs
    <2>3. proc.mask = ExecMask /\ HandlersReset(proc.handlers)
      BY <2>1 DEF ChildIs
    <2> QED BY <2>1, <2>2, <2>3 DEF ExecMask, HandlersReset, Asked
  <1>2. CallerAsBefore
    <2>1. ASSUME call.at = "returned"
          PROVE  /\ mask = call.was /\ table = Inherited /\ heap = Own
                 /\ call.ret # "ok" => proc = NoProc \/ (proc.at = "dead" /\ proc.reaped)
                 /\ call.ret = "ok" =>
                      proc.at = "image" \/ (proc.at = "dead" /\ ~proc.reaped /\ proc.sent > 0)
      BY <2>1 DEF SpawnInv, HeapHeld, Resources, Outcome
    <2>2. call.at = "destroyed" => heap = {}
      BY DEF SpawnInv, HeapHeld
    <2> QED BY <2>1, <2>2 DEF CallerAsBefore, Own
  <1>3. proc # NoProc => ~proc.haunted
    BY DEF SpawnInv, ChildSound, ChildIs
  <1> QED BY <1>1, <1>2, <1>3 DEF SpawnSound

\* What spawn.c promises at its top: a program starts with the descriptors, the mask and the
\* signals that were asked for; a spawn that fails leaves the caller as it was, without a child
\* and without a leak; and no handler of the caller's runs in the child
THEOREM SpawnCorrect == ASSUME SpawnAssumption PROVE SpawnSpec => []SpawnSound
  <1>1. SpawnInit => SpawnInv
    BY SpawnStart
  <1>2. SpawnInv /\ [SpawnNext]_spawnVars => SpawnInv'
    <2> SUFFICES ASSUME SpawnInv, [SpawnNext]_spawnVars PROVE SpawnInv'
      OBVIOUS
    <2>1. CASE AddOpen \/ AddClose \/ AddDup2 \/ AddFails \/ Destroy
      BY <2>1, ObjectKeeps
    <2>2. CASE Begin \/ FindFile \/ OpenScript \/ ReadScript \/ Canonical \/ PrepareOpens
      BY <2>2, BeginKeeps, FindFileKeeps, OpenScriptKeeps, ReadScriptKeeps, CanonicalKeeps,
         PrepareOpensKeeps
    <2>3. CASE MaskSignals \/ Vfork \/ Resume \/ Restore \/ Reap \/ Cleanup
      BY <2>3, MaskSignalsKeeps, VforkKeeps, ResumeKeeps, RestoreKeeps, ReapKeeps, CleanupKeeps
    <2>4. CASE ResetHandlers \/ SetAttributes \/ ApplyAction \/ Unmask \/ Exec
      BY <2>4, ResetHandlersKeeps, SetAttributesKeeps, ApplyActionKeeps, UnmaskKeeps, ExecKeeps
    <2>5. CASE ChildExits \/ Send \/ Deliver
      BY <2>5, ChildExitsKeeps, SendKeeps, DeliverKeeps
    <2>6. CASE UNCHANGED spawnVars
      BY <2>6, SpawnStutters
    <2> QED BY <2>1, <2>2, <2>3, <2>4, <2>5, <2>6 DEF SpawnNext
  <1>3. SpawnInv => SpawnSound
    BY SpawnInvariantSound
  <1> QED BY <1>1, <1>2, <1>3, PTL DEF SpawnSpec
=============================================================================
