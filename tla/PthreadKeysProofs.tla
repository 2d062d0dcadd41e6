-------------------------- MODULE PthreadKeysProofs -------------------------
(***************************************************************************)
(* Theorems about PthreadKeys for any number of threads, keys and nodes: a *)
(* value found belongs to the key it is asked for, no node is freed under  *)
(* a walk, each thread's destructors have one caller and leave nothing.    *)
(***************************************************************************)
EXTENDS PthreadKeys, TLAPS

InScan(t) == pc[t] \in {"scan", "destructor"}

\* Nodes are numbered one after the other, and each is in one place
Linked ==
    /\ freed \subseteq 1..used
    /\ \A t \in Threads : list[t] \subseteq 1..used /\ list[t] \cap freed = {}
    /\ \A t, u \in Threads : t # u => list[t] \cap list[u] = {}

\* A listed thread's nodes name keys that callers may use
Fresh ==
    \A t \in listed : \A n \in list[t] :
        Named(n) => node[n].key \in valid /\ node[n].gen = gen[node[n].key]

\* A key that is being created, set or deleted exists; only a valid one is at
\* work for two threads at once
InUse ==
    /\ valid \subseteq alive
    /\ \A t \in Threads : At(t, "insert") \/ At(t, "free") => key[t] \in alive
    /\ \A t \in Threads : At(t, "free") => key[t] \notin valid
    /\ \A t, u \in Threads : t # u /\ (At(t, "insert") \/ At(t, "free")) /\ key[t] = key[u]
                             /\ (At(u, "insert") \/ At(u, "free")) => key[t] \in valid

\* A walk is claimed, has the list of one thread to itself, and its cursor is in it
Claimed ==
    /\ \A t \in Threads : InScan(t) => obj[t] \in exiting
    /\ \A t, u \in Threads : InScan(t) /\ InScan(u) /\ obj[t] = obj[u] => t = u
    /\ \A t \in Threads : ~InScan(t) \/ ~again[t] => cursor[t] = None
    /\ \A t \in Threads : Runs(t) /\ cursor[t] # None => cursor[t] \in list[obj[t]]

IInv == TypeOK /\ Linked /\ OneNodePerKey /\ Fresh /\ InUse /\ Claimed /\ NoValueLost

-----------------------------------------------------------------------------
LEMMA Numbers ==
    /\ Iterations \in Nat \ {0} /\ MaxGen \in Nat /\ MaxNodes \in Nat /\ MaxSets \in Nat
    /\ NoKey \notin Keys /\ Nodes = 1..MaxNodes /\ None = 0 /\ Some = 1 /\ None \notin Nodes
BY KeysAssumption DEF Nodes, None, Some

\* pthread_keyFind() finds the only node that there is for a key
LEMMA Found ==
    ASSUME IInv, NEW t \in Threads, NEW k \in Keys
    PROVE  /\ keyFind(t, k) = None => \A n \in list[t] : node[n].key # k
           /\ keyFind(t, k) # None =>
                 /\ keyFind(t, k) \in list[t] /\ node[keyFind(t, k)].key = k
                 /\ \A n \in list[t] : node[n].key = k => n = keyFind(t, k)
<1> DEFINE matching == {n \in list[t] : node[n].key = k}
<1>1. matching \subseteq Nodes
    BY DEF IInv, TypeOK
<1>2. \A m, n \in matching : m = n
    BY KeysAssumption DEF IInv, OneNodePerKey, Named
<1>3. CASE matching = {}
    BY <1>3 DEF keyFind
<1>4. ASSUME NEW n \in matching
      PROVE  keyFind(t, k) = n
    <2>1. matching = {n} /\ n <= n
        BY <1>1, <1>2, Numbers
    <2>2. First(matching) = n
        BY <2>1 DEF First
    <2>3. QED
        BY <2>1, <2>2 DEF keyFind
<1>5. CASE matching # {}
    <2>1. PICK n \in matching : TRUE
        BY <1>5
    <2>2. keyFind(t, k) = n
        BY <1>4
    <2>3. n # None
        BY <1>1, Numbers
    <2>4. QED
        BY <1>2, <2>2, <2>3
<1>6. QED
    BY <1>3, <1>5

\* What the nodes are called, which storing and clearing values does not change
SameNames == \A n \in Nodes : node'[n].key = node[n].key /\ node'[n].gen = node[n].gen

NodeType == [Nodes -> [key : Keys \cup {NoKey}, gen : 0 .. MaxGen, value : {None, Some}]]

LEMMA StoreEffect ==
    ASSUME IInv, NEW t \in Threads, NEW k \in Keys, NEW v \in {None, Some}, Store(t, k, v)
    PROVE  node' \in NodeType /\ SameNames /\ keyFind(t, k) \in list[t]
<1>1. keyFind(t, k) \in Nodes /\ keyFind(t, k) \in list[t]
    BY Found DEF Store, IInv, TypeOK
<1>2. node \in NodeType /\ node' = [node EXCEPT ![keyFind(t, k)].value = v]
    BY DEF Store, IInv, TypeOK, NodeType
<1>3. QED
    BY <1>1, <1>2 DEF NodeType, SameNames

\* A call that links a node, or finds that it need not, and reclaims tombstones
LinkDone(t, k) ==
    /\ LockFree
    /\ node' \in NodeType
    /\ list' \in [Threads -> SUBSET Nodes] /\ \A u \in Threads \ {t} : list'[u] = list[u]
    /\ t \in exiting => list[t] \subseteq list'[t]
    /\ freed' = freed \cup (list[t] \ list'[t])
    /\ \/ /\ used' = used /\ list'[t] \subseteq list[t] /\ SameNames
       \/ /\ used' = used + 1 /\ used < MaxNodes
          /\ list'[t] \subseteq list[t] \cup {used + 1}
          /\ keyFind(t, k) = None
          /\ node'[used + 1].key = k /\ node'[used + 1].gen = gen[k]
          /\ \A n \in Nodes \ {used + 1} : node'[n] = node[n]

LEMMA LinkEffect ==
    ASSUME IInv, NEW t \in Threads, NEW k \in Keys, NEW v \in {None, Some},
           NEW fresh \in BOOLEAN, Link(t, k, v, fresh)
    PROVE  LinkDone(t, k)
<1>1. /\ list \in [Threads -> SUBSET Nodes] /\ node \in NodeType /\ used \in 0..MaxNodes
      /\ gen \in [Keys -> 0..MaxGen]
    BY DEF IInv, TypeOK, NodeType
<1>2. Kept(t) \subseteq list[t] /\ (t \in exiting => Kept(t) = list[t])
    BY DEF Kept
<1>3. LockFree /\ freed' = freed \cup (list[t] \ Kept(t))
    BY DEF Link
<1>4. CASE Links(t, k, fresh)
    <2>1. /\ used < MaxNodes /\ used' = used + 1 /\ list' = [list EXCEPT ![t] = Kept(t) \cup {used + 1}]
          /\ node' = [node EXCEPT ![used + 1] = [key |-> k, gen |-> gen[k], value |-> v]]
        BY <1>4 DEF Link
    <2>2. used + 1 \in Nodes
        BY <1>1, <2>1, Numbers
    <2>3. used + 1 \notin list[t]
        BY <1>1 DEF IInv, Linked
    <2>4. node' \in NodeType
        BY <1>1, <2>1, <2>2 DEF NodeType
    <2>5. /\ node'[used + 1] = [key |-> k, gen |-> gen[k], value |-> v]
          /\ \A n \in Nodes \ {used + 1} : node'[n] = node[n]
        BY <1>1, <2>1, <2>2 DEF NodeType
    <2>6. /\ list' \in [Threads -> SUBSET Nodes] /\ \A u \in Threads \ {t} : list'[u] = list[u]
          /\ list'[t] = Kept(t) \cup {used + 1}
        BY <1>1, <1>2, <2>1, <2>2
    <2>7. list[t] \ Kept(t) = list[t] \ list'[t]
        BY <2>3, <2>6
    <2>8. keyFind(t, k) = None
        BY <1>4 DEF Links
    <2>9. QED
        BY <1>2, <1>3, <2>1, <2>4, <2>5, <2>6, <2>7, <2>8 DEF LinkDone
<1>5. CASE ~Links(t, k, fresh)
    <2>1. /\ used' = used /\ list' = [list EXCEPT ![t] = Kept(t)]
          /\ Store(t, k, v) \/ UNCHANGED node
        BY <1>5 DEF Link
    <2>2. /\ list' \in [Threads -> SUBSET Nodes] /\ \A u \in Threads \ {t} : list'[u] = list[u]
          /\ list'[t] = Kept(t)
        BY <1>1, <1>2, <2>1
    <2>3. node' \in NodeType /\ SameNames
        BY <1>1, <2>1, StoreEffect DEF SameNames
    <2>4. QED
        BY <1>2, <1>3, <2>1, <2>2, <2>3 DEF LinkDone
<1>6. QED
    BY <1>4, <1>5

\* Both calls that link nodes
LEMMA Linking ==
    ASSUME IInv, NEW t \in Threads, Insert(t) \/ SetNested(t)
    PROVE  \/ /\ UNCHANGED <<used, freed, list>> /\ node' \in NodeType /\ SameNames
              /\ SetNested(t)
           \/ \E k \in valid' : LinkDone(t, k) /\ (Insert(t) => k = key[t])
           \/ /\ Insert(t) /\ LinkDone(t, key[t]) /\ used' = used /\ keyFind(t, key[t]) = None
              /\ alive' = alive \ {key[t]} /\ valid' = valid /\ key[t] \notin valid
<1>1. CASE Insert(t)
    <2>1. key[t] \in Keys /\ value[t] \in {None, Some}
        BY <1>1 DEF Insert, IInv, InUse, TypeOK
    <2>2. PICK fresh \in BOOLEAN :
             /\ Link(t, key[t], value[t], fresh)
             /\ IF key[t] \in valid \/ fresh \/ keyFind(t, key[t]) # None
                  THEN valid' = valid \cup {key[t]} /\ UNCHANGED alive
                  ELSE alive' = alive \ {key[t]} /\ UNCHANGED valid
        BY <1>1 DEF Insert
    <2>3. LinkDone(t, key[t])
        BY <2>1, <2>2, LinkEffect
    <2>4. CASE key[t] \in valid \/ fresh \/ keyFind(t, key[t]) # None
        BY <2>2, <2>3, <2>4
    <2>5. CASE ~(key[t] \in valid \/ fresh \/ keyFind(t, key[t]) # None)
        <3>1. used' = used
            BY <2>2, <2>5 DEF Link, Links
        <3>2. QED
            BY <1>1, <2>2, <2>3, <2>5, <3>1
    <2>6. QED
        BY <2>4, <2>5
<1>2. CASE SetNested(t)
    <2>1. valid \subseteq Keys /\ UNCHANGED keyVars
        BY <1>2 DEF SetNested, IInv, TypeOK
    <2>2. PICK k \in valid, v \in {None, Some} :
             \/ Store(t, k, v) /\ UNCHANGED <<used, freed, list>>
             \/ keyFind(t, k) = None /\ Link(t, k, v, TRUE)
        BY <1>2 DEF SetNested, Value
    <2>3. CASE Store(t, k, v) /\ UNCHANGED <<used, freed, list>>
        BY <1>2, <2>1, <2>3, StoreEffect
    <2>4. CASE Link(t, k, v, TRUE)
        <3>1. LinkDone(t, k) /\ valid' = valid
            BY <2>1, <2>4, LinkEffect DEF keyVars
        <3>2. ~Insert(t)
            BY <1>2 DEF SetNested, Insert, Return, GoTo, At, IInv, TypeOK
        <3>3. QED
            BY <3>1, <3>2
    <2>5. QED
        BY <2>2, <2>3, <2>4
<1>3. QED
    BY <1>1, <1>2

-----------------------------------------------------------------------------
(* Types                                                                   *)

LEMMA SettingTyped ==
    ASSUME IInv, NEW t \in Threads, Setting(t)
    PROVE  TypeOK'
<1>1. sets \in 0..MaxSets /\ \A v \in Value : v \in {None, Some} /\ sets + v \in 0..MaxSets
    BY Numbers DEF IInv, TypeOK, Value
<1>2. \A v \in Value \ {None} : v = 1
    BY Numbers DEF Value
<1>3. CASE SetKnown(t)
    <2>1. PICK k \in valid, v \in Value : Store(t, k, v) /\ sets' = sets + v
        BY <1>3 DEF SetKnown
    <2>2. node' \in NodeType
        BY <1>1, <2>1, StoreEffect DEF IInv, TypeOK
    <2>3. sets' \in 0..MaxSets
        BY <1>1, <2>1
    <2>4. QED
        BY <1>3, <2>2, <2>3 DEF SetKnown, IInv, TypeOK, NodeType, keyVars, lifeVars, walkVars
<1>4. CASE SetFresh(t)
    <2>1. PICK k \in valid, v \in Value \ {None} :
             key' = [key EXCEPT ![t] = k] /\ value' = [value EXCEPT ![t] = v] /\ sets' = sets + 1
        BY <1>4 DEF SetFresh
    <2>2. key' \in [Threads -> Keys \cup {NoKey}]
        BY <2>1 DEF IInv, TypeOK
    <2>3. value' \in [Threads -> {None, Some}]
        BY <1>1, <2>1 DEF IInv, TypeOK
    <2>4. sets' \in 0..MaxSets
        BY <1>1, <1>2, <2>1
    <2>5. pc' \in [Threads -> Places]
        BY <1>4 DEF SetFresh, GoTo, IInv, TypeOK, Places
    <2>6. QED
        BY <1>4, <2>2, <2>3, <2>4, <2>5 DEF SetFresh, IInv, TypeOK, keyVars, lifeVars, walkVars
<1>5. CASE Insert(t) \/ SetNested(t)
    <2>1. node' \in NodeType
        BY <1>5, Linking DEF LinkDone
    <2>2. list' \in [Threads -> SUBSET Nodes] /\ list \in [Threads -> SUBSET Nodes]
        BY <1>5, Linking DEF LinkDone, IInv, TypeOK
    <2>3. used' \in 0..MaxNodes
        <3>1. used \in 0..MaxNodes /\ MaxNodes \in Nat
            BY Numbers DEF IInv, TypeOK
        <3>2. used' = used \/ (used' = used + 1 /\ used < MaxNodes)
            BY <1>5, Linking DEF LinkDone
        <3>3. QED
            BY <3>1, <3>2
    <2>4. freed' \subseteq Nodes
        BY <1>5, <2>2, Linking DEF LinkDone, IInv, TypeOK
    <2>5. CASE Insert(t)
        <3>1. key[t] \in Keys
            BY <2>5 DEF Insert, IInv, InUse, TypeOK
        <3>2. alive' \subseteq Keys /\ valid' \subseteq Keys
            BY <2>5, <3>1 DEF Insert, IInv, TypeOK
        <3>3. pc' \in [Threads -> Places]
            BY <2>5 DEF Insert, Return, GoTo, IInv, TypeOK, Places
        <3>4. key' \in [Threads -> Keys \cup {NoKey}] /\ value' \in [Threads -> {None, Some}]
            BY <2>5 DEF Insert, Return, IInv, TypeOK
        <3>5. QED
            BY <2>1, <2>2, <2>3, <2>4, <2>5, <3>2, <3>3, <3>4
               DEF Insert, IInv, TypeOK, NodeType, lifeVars, walkVars
    <2>6. CASE SetNested(t)
        <3>1. sets' \in 0..MaxSets
            BY <1>1, <1>2, <2>6 DEF SetNested
        <3>2. QED
            BY <2>1, <2>2, <2>3, <2>4, <2>6, <3>1
               DEF SetNested, IInv, TypeOK, NodeType, keyVars, lifeVars, walkVars
    <2>7. QED
        BY <1>5, <2>5, <2>6
<1>6. QED
    BY <1>3, <1>4, <1>5 DEF Setting

LEMMA OnKeysTyped ==
    ASSUME IInv, NEW t \in Threads, OnKeys(t)
    PROVE  TypeOK'
<1>1. CASE KeyCreate(t)
    <2>1. PICK k \in Keys \ alive : /\ gen[k] < MaxGen /\ alive' = alive \cup {k}
                                     /\ gen' = [gen EXCEPT ![k] = @ + 1] /\ key' = [key EXCEPT ![t] = k]
        BY <1>1 DEF KeyCreate
    <2>2. gen' \in [Keys -> 0..MaxGen]
        BY <2>1, Numbers DEF IInv, TypeOK
    <2>3. alive' \subseteq Keys /\ key' \in [Threads -> Keys \cup {NoKey}]
        BY <2>1 DEF IInv, TypeOK
    <2>4. pc' \in [Threads -> Places]
        BY <1>1 DEF KeyCreate, GoTo, IInv, TypeOK, Places
    <2>5. QED
        BY <1>1, <2>2, <2>3, <2>4 DEF KeyCreate, IInv, TypeOK, nodeVars, lifeVars, walkVars
<1>2. CASE KeyDelete(t)
    <2>1. PICK k \in valid :
             /\ valid' = valid \ {k} /\ key' = [key EXCEPT ![t] = k]
             /\ node' = [n \in Nodes |->
                           IF \E u \in listed : n = keyFind(u, k)
                           THEN [node[n] EXCEPT !.key = NoKey] ELSE node[n]]
        BY <1>2 DEF KeyDelete
    <2>2. node' \in NodeType
        BY <2>1 DEF IInv, TypeOK, NodeType
    <2>3. valid' \subseteq Keys /\ key' \in [Threads -> Keys \cup {NoKey}]
        BY <2>1 DEF IInv, TypeOK
    <2>4. pc' \in [Threads -> Places]
        BY <1>2 DEF KeyDelete, GoTo, IInv, TypeOK, Places
    <2>5. QED
        BY <1>2, <2>2, <2>3, <2>4 DEF KeyDelete, IInv, TypeOK, NodeType, lifeVars, walkVars
<1>3. CASE KeyFree(t)
    BY <1>3 DEF KeyFree, Return, GoTo, IInv, TypeOK, Places, nodeVars, lifeVars, walkVars
<1>4. QED
    BY <1>1, <1>2, <1>3 DEF OnKeys

LEMMA CleaningTyped ==
    ASSUME IInv, NEW t \in Threads, Cleaning(t)
    PROVE  TypeOK'
<1>1. CASE Exit(t) \/ Cancel(t)
    <2>1. PICK x \in Threads : CleanupCall(t, x)
        BY <1>1 DEF Exit, Cancel, IInv, TypeOK
    <2>2. QED
        BY <2>1 DEF CleanupCall, GoTo, IInv, TypeOK, Places, keyVars, nodeVars, lifeVars
<1>2. CASE Claim(t)
    BY <1>2 DEF Claim, After, GoTo, IInv, TypeOK, Places, keyVars, nodeVars, lifeVars
<1>3. CASE ScanFinds(t)
    <2>1. PICK n \in Ahead(t) : /\ cursor' = [cursor EXCEPT ![t] = n]
                                /\ node' = [node EXCEPT ![n].value = None]
        BY <1>3 DEF ScanFinds
    <2>2. n \in Nodes
        BY DEF Ahead, IInv, TypeOK
    <2>3. node' \in NodeType
        BY ZenonT(60), <2>1, <2>2 DEF IInv, TypeOK, NodeType
    <2>4. cursor' \in [Threads -> Nodes \cup {None}]
        BY <2>1, <2>2 DEF IInv, TypeOK
    <2>5. QED
        BY <1>3, <2>3, <2>4 DEF ScanFinds, GoTo, IInv, TypeOK, NodeType, Places, keyVars, lifeVars
<1>4. CASE DestructorReturns(t)
    BY <1>4
       DEF DestructorReturns, GoTo, IInv, TypeOK, Places, keyVars, nodeVars, lifeVars, walkVars
<1>5. CASE ScanEnds(t)
    <2>1. pass' \in [Threads -> 0..Iterations - 1]
        <3>1. pass \in [Threads -> 0..Iterations - 1] /\ 0 \in 0..Iterations - 1
            BY Numbers DEF IInv, TypeOK
        <3>2. ~LastPass(t) => pass[t] + 1 \in 0..Iterations - 1
            BY <3>1, Numbers DEF LastPass
        <3>3. QED
            BY <1>5, <3>1, <3>2 DEF ScanEnds
    <2>2. list' \in [Threads -> SUBSET Nodes] /\ freed' \subseteq Nodes
        BY <1>5 DEF ScanEnds, IInv, TypeOK
    <2>3. pc' \in [Threads -> Places]
        BY <1>5 DEF ScanEnds, After, GoTo, IInv, TypeOK, Places
    <2>4. cursor' \in [Threads -> Nodes \cup {None}] /\ again' \in [Threads -> BOOLEAN]
        BY <1>5 DEF ScanEnds, IInv, TypeOK
    <2>5. lost' \in BOOLEAN
        BY <1>5 DEF ScanEnds, IInv, TypeOK
    <2>6. QED
        BY <1>5, <2>1, <2>2, <2>3, <2>4, <2>5 DEF ScanEnds, IInv, TypeOK, keyVars, lifeVars
<1>6. QED
    BY <1>1, <1>2, <1>3, <1>4, <1>5 DEF Cleaning

LEMMA LivingTyped ==
    ASSUME IInv, NEW t \in Threads, Living(t)
    PROVE  TypeOK'
<1>1. CASE Finish(t)
    BY <1>1 DEF Finish, IInv, TypeOK, keyVars, nodeVars, walkVars
<1>2. CASE Kill(t)
    BY <1>2 DEF Kill, GoTo, IInv, TypeOK, Places, keyVars, nodeVars
<1>3. CASE Die(t)
    BY <1>3 DEF Die, IInv, TypeOK, keyVars, nodeVars, walkVars
<1>4. CASE Join(t)
    BY <1>4 DEF Join, IInv, TypeOK, keyVars, nodeVars, walkVars
<1>5. CASE Reclaim(t)
    BY <1>5 DEF Reclaim, IInv, TypeOK, keyVars, walkVars
<1>6. QED
    BY <1>1, <1>2, <1>3, <1>4, <1>5 DEF Living

-----------------------------------------------------------------------------
(* What a step leaves alone                                                *)

Step(t) == Setting(t) \/ OnKeys(t) \/ Cleaning(t) \/ Living(t)

LinkingStep(t) == Insert(t) \/ SetNested(t)

LEMMA StepTyped ==
    ASSUME IInv, NEW t \in Threads, Step(t)
    PROVE  TypeOK'
BY SettingTyped, OnKeysTyped, CleaningTyped, LivingTyped DEF Step

LEMMA ListFrame ==
    ASSUME NEW t \in Threads, Step(t)
    PROVE  LinkingStep(t) \/ ScanEnds(t) \/ Reclaim(t) \/ UNCHANGED <<used, freed, list>>
<1>1. CASE SetKnown(t) \/ SetFresh(t)
    BY <1>1 DEF SetKnown, SetFresh
<1>2. CASE OnKeys(t)
    BY <1>2 DEF OnKeys, KeyCreate, KeyDelete, KeyFree, nodeVars
<1>3. CASE Exit(t) \/ Cancel(t)
    BY <1>3 DEF Exit, Cancel, CleanupCall, nodeVars
<1>4. CASE Claim(t)
    BY <1>4 DEF Claim, nodeVars
<1>5. CASE ScanFinds(t)
    BY <1>5 DEF ScanFinds
<1>6. CASE DestructorReturns(t)
    BY <1>6 DEF DestructorReturns, nodeVars
<1>7. CASE Finish(t) \/ Kill(t) \/ Die(t) \/ Join(t)
    BY <1>7 DEF Finish, Kill, Die, Join, nodeVars
<1>8. QED
    BY <1>1, <1>2, <1>3, <1>4, <1>5, <1>6, <1>7 DEF Step, Setting, Cleaning, Living, LinkingStep

LEMMA NodeFrame ==
    ASSUME NEW t \in Threads, Step(t)
    PROVE  LinkingStep(t) \/ SetKnown(t) \/ KeyDelete(t) \/ ScanFinds(t) \/ UNCHANGED node
<1>1. CASE SetFresh(t) \/ KeyCreate(t) \/ KeyFree(t)
    BY <1>1 DEF SetFresh, KeyCreate, KeyFree, nodeVars
<1>2. CASE Exit(t) \/ Cancel(t)
    BY <1>2 DEF Exit, Cancel, CleanupCall, nodeVars
<1>3. CASE Claim(t) \/ DestructorReturns(t)
    BY <1>3 DEF Claim, DestructorReturns, nodeVars
<1>4. CASE ScanEnds(t)
    BY <1>4 DEF ScanEnds
<1>5. CASE Finish(t) \/ Kill(t) \/ Die(t) \/ Join(t) \/ Reclaim(t)
    BY <1>5 DEF Finish, Kill, Die, Join, Reclaim, nodeVars
<1>6. QED
    BY <1>1, <1>2, <1>3, <1>4, <1>5 DEF Step, Setting, OnKeys, Cleaning, Living, LinkingStep

LEMMA KeyFrame ==
    ASSUME NEW t \in Threads, Step(t)
    PROVE  Insert(t) \/ OnKeys(t) \/ UNCHANGED keyVars
<1>1. CASE SetKnown(t) \/ SetFresh(t) \/ SetNested(t)
    BY <1>1 DEF SetKnown, SetFresh, SetNested
<1>2. CASE Exit(t) \/ Cancel(t)
    BY <1>2 DEF Exit, Cancel, CleanupCall
<1>3. CASE Claim(t) \/ ScanFinds(t) \/ DestructorReturns(t) \/ ScanEnds(t)
    BY <1>3 DEF Claim, ScanFinds, DestructorReturns, ScanEnds
<1>4. CASE Living(t)
    BY <1>4 DEF Living, Finish, Kill, Die, Join, Reclaim
<1>5. QED
    BY <1>1, <1>2, <1>3, <1>4 DEF Step, Setting, Cleaning

LEMMA LifeFrame ==
    ASSUME NEW t \in Threads, Step(t)
    PROVE  listed' \subseteq listed /\ (Living(t) \/ UNCHANGED kernel)
<1>1. CASE Setting(t)
    BY <1>1 DEF Setting, SetKnown, SetFresh, SetNested, Insert, lifeVars
<1>2. CASE OnKeys(t)
    BY <1>2 DEF OnKeys, KeyCreate, KeyDelete, KeyFree, lifeVars
<1>3. CASE Exit(t) \/ Cancel(t)
    BY <1>3 DEF Exit, Cancel, CleanupCall, lifeVars
<1>4. CASE Claim(t) \/ ScanFinds(t) \/ DestructorReturns(t) \/ ScanEnds(t)
    BY <1>4 DEF Claim, ScanFinds, DestructorReturns, ScanEnds, lifeVars
<1>5. CASE Living(t)
    BY <1>5 DEF Living, Finish, Kill, Die, Join, Reclaim
<1>6. QED
    BY <1>1, <1>2, <1>3, <1>4, <1>5 DEF Step, Cleaning

LEMMA WalkFrame ==
    ASSUME NEW t \in Threads, Step(t)
    PROVE  Cleaning(t) \/ Kill(t) \/ UNCHANGED <<exiting, obj, cursor, again, lost>>
<1>1. CASE Setting(t)
    BY <1>1 DEF Setting, SetKnown, SetFresh, SetNested, Insert, walkVars
<1>2. CASE OnKeys(t)
    BY <1>2 DEF OnKeys, KeyCreate, KeyDelete, KeyFree, walkVars
<1>3. CASE Finish(t) \/ Die(t) \/ Join(t) \/ Reclaim(t)
    BY <1>3 DEF Finish, Die, Join, Reclaim, walkVars
<1>4. QED
    BY <1>1, <1>2, <1>3 DEF Step, Living

-----------------------------------------------------------------------------
(* Where the nodes are                                                     *)

LEMMA LinkedStep ==
    ASSUME IInv, NEW t \in Threads, Step(t)
    PROVE  Linked'
<1>1. used \in Nat /\ list \in [Threads -> SUBSET Nodes] /\ Linked
    BY Numbers DEF IInv, TypeOK
<1>2. CASE UNCHANGED <<used, freed, list>>
    BY <1>1, <1>2 DEF Linked
<1>3. CASE LinkingStep(t)
    <2>1. CASE UNCHANGED <<used, freed, list>>
        BY <1>1, <2>1 DEF Linked
    <2>2. ASSUME NEW k, LinkDone(t, k)
          PROVE  Linked'
        <3>1. /\ used' \in {used, used + 1} /\ 1..used \subseteq 1..used' /\ used + 1 \notin 1..used
              /\ list'[t] \subseteq list[t] \cup (1..used' \ 1..used)
            BY <1>1, <2>2 DEF LinkDone
        <3>2. list'[t] \subseteq 1..used' /\ freed' \subseteq 1..used'
            BY <1>1, <2>2, <3>1 DEF LinkDone, Linked
        <3>3. list'[t] \cap freed' = {}
            BY <1>1, <2>2, <3>1 DEF LinkDone, Linked
        <3>4. ASSUME NEW u \in Threads \ {t}
              PROVE  /\ list'[u] \subseteq 1..used' /\ list'[u] \cap freed' = {}
                     /\ list'[u] \cap list'[t] = {}
            <4>1. /\ list'[u] = list[u] /\ list[u] \subseteq 1..used /\ list[u] \cap freed = {}
                  /\ list[u] \cap list[t] = {}
                BY <1>1, <2>2 DEF LinkDone, Linked
            <4>2. freed' \subseteq freed \cup list[t]
                BY <2>2 DEF LinkDone
            <4>3. QED
                BY <3>1, <4>1, <4>2
        <3>5. \A u, w \in Threads \ {t} : u # w => list'[u] \cap list'[w] = {}
            BY <1>1, <2>2 DEF LinkDone, Linked
        <3>6. QED
            BY <3>2, <3>3, <3>4, <3>5 DEF Linked
    <2>3. QED
        BY <1>3, <2>1, <2>2, Linking DEF LinkingStep
<1>4. CASE ScanEnds(t)
    <2>1. /\ used' = used
          /\ \/ UNCHANGED <<freed, list>>
             \/ list' = [list EXCEPT ![t] = {}] /\ freed' = freed \cup list[t]
        BY <1>4 DEF ScanEnds
    <2>2. QED
        BY <1>1, <2>1 DEF Linked
<1>5. CASE Reclaim(t)
    <2>1. used' = used /\ list' = [list EXCEPT ![t] = {}] /\ freed' = freed \cup list[t]
        BY <1>5 DEF Reclaim
    <2>2. QED
        BY <1>1, <2>1 DEF Linked
<1>6. QED
    BY <1>2, <1>3, <1>4, <1>5, ListFrame

\* A step that links nothing: lists and names only get fewer
OnlyLess ==
    /\ \A u \in Threads : list'[u] \subseteq list[u]
    /\ \A n \in Nodes : \/ node'[n].key = node[n].key /\ node'[n].gen = node[n].gen
                        \/ node'[n].key = NoKey

\* A step that links a node for a key to the thread's list
OneMore(t, k) ==
    /\ LinkDone(t, k) /\ used' = used + 1 /\ used + 1 \in Nodes
    /\ list'[t] \subseteq list[t] \cup {used + 1}
    /\ keyFind(t, k) = None
    /\ node'[used + 1].key = k /\ node'[used + 1].gen = gen[k]
    /\ \A n \in Nodes \ {used + 1} : node'[n] = node[n]

LEMMA Less ==
    ASSUME IInv, NEW t \in Threads, Step(t), ~LinkingStep(t)
    PROVE  OnlyLess
<1>1. list \in [Threads -> SUBSET Nodes] /\ node \in NodeType /\ valid \subseteq Keys
    BY DEF IInv, TypeOK, NodeType
<1>2. \A u \in Threads : list'[u] \subseteq list[u]
    BY <1>1, ListFrame DEF ScanEnds, Reclaim
<1>3. CASE UNCHANGED node
    BY <1>2, <1>3 DEF OnlyLess
<1>4. CASE SetKnown(t)
    <2>1. PICK k \in valid, v \in Value : Store(t, k, v)
        BY <1>4 DEF SetKnown
    <2>2. SameNames
        BY <1>1, <2>1, StoreEffect DEF Value
    <2>3. QED
        BY <1>2, <2>2 DEF OnlyLess, SameNames
<1>5. CASE KeyDelete(t)
    <2>1. PICK k \in valid :
             node' = [n \in Nodes |->
                        IF \E u \in listed : n = keyFind(u, k)
                        THEN [node[n] EXCEPT !.key = NoKey] ELSE node[n]]
        BY <1>5 DEF KeyDelete
    <2>2. QED
        BY <1>1, <1>2, <2>1 DEF OnlyLess, NodeType
<1>6. CASE ScanFinds(t)
    <2>1. PICK n \in Ahead(t) : node' = [node EXCEPT ![n].value = None]
        BY <1>6 DEF ScanFinds
    <2>2. QED
        BY <1>1, <1>2, <2>1 DEF OnlyLess, NodeType
<1>7. QED
    BY <1>3, <1>4, <1>5, <1>6, NodeFrame

LEMMA LessOrMore ==
    ASSUME IInv, NEW t \in Threads, LinkingStep(t)
    PROVE  \/ OnlyLess
           \/ \E k \in valid' : OneMore(t, k)
<1>1. /\ list \in [Threads -> SUBSET Nodes] /\ used \in 0..MaxNodes /\ MaxNodes \in Nat
      /\ Nodes = 1..MaxNodes
    BY Numbers DEF IInv, TypeOK
<1>2. CASE UNCHANGED <<used, freed, list>> /\ SameNames
    BY <1>1, <1>2 DEF OnlyLess, SameNames
<1>3. ASSUME NEW k, LinkDone(t, k), used' = used
      PROVE  OnlyLess
    <2>1. used' # used + 1
        BY <1>1, <1>3
    <2>2. list'[t] \subseteq list[t] /\ SameNames
        BY <1>3, <2>1 DEF LinkDone
    <2>3. QED
        BY <1>3, <2>2 DEF LinkDone, OnlyLess, SameNames
<1>4. ASSUME NEW k \in valid', LinkDone(t, k), used' # used
      PROVE  OneMore(t, k)
    BY <1>1, <1>4 DEF LinkDone, OneMore
<1>5. QED
    BY <1>2, <1>3, <1>4, Linking DEF LinkingStep

LEMMA OneNodePerKeyStep ==
    ASSUME IInv, NEW t \in Threads, Step(t)
    PROVE  OneNodePerKey'
<1>1. list \in [Threads -> SUBSET Nodes] /\ OneNodePerKey
    BY DEF IInv, TypeOK
<1>2. CASE OnlyLess
    <2> SUFFICES ASSUME NEW u \in Threads, NEW m \in list'[u], NEW n \in list'[u],
                        node'[m].key = node'[n].key, node'[m].key # NoKey
                 PROVE  m = n
        BY DEF OneNodePerKey, Named
    <2>1. m \in list[u] /\ n \in list[u] /\ m \in Nodes /\ n \in Nodes
        BY <1>1, <1>2 DEF OnlyLess
    <2>2. node[m].key = node[n].key /\ node[m].key # NoKey
        BY <1>2, <2>1 DEF OnlyLess
    <2>3. QED
        BY <1>1, <2>1, <2>2 DEF OneNodePerKey, Named
<1>3. ASSUME NEW k \in valid', OneMore(t, k)
      PROVE  OneNodePerKey'
    <2>1. k \in Keys
        BY StepTyped DEF TypeOK
    <2>2. \A n \in list[t] : node[n].key # k
        BY <1>3, <2>1, Found DEF OneMore
    <2>3. \A u \in Threads : used + 1 \notin list[u]
        BY Numbers DEF IInv, Linked, TypeOK
    <2>4. \A u \in Threads : \A n \in list'[u] \ {used + 1} :
             n \in list[u] /\ n \in Nodes /\ node'[n] = node[n]
        BY <1>1, <1>3 DEF OneMore, LinkDone
    <2>5. \A u \in Threads : used + 1 \in list'[u] => u = t
        BY <1>3, <2>3 DEF OneMore, LinkDone
    <2> SUFFICES ASSUME NEW u \in Threads, NEW m \in list'[u], NEW n \in list'[u],
                        node'[m].key = node'[n].key, node'[m].key # NoKey
                 PROVE  m = n
        BY DEF OneNodePerKey, Named
    <2>6. CASE m # used + 1 /\ n # used + 1
        BY <1>1, <2>4, <2>6 DEF OneNodePerKey, Named
    <2>7. CASE m = used + 1 \/ n = used + 1
        BY <1>3, <2>2, <2>4, <2>5, <2>7 DEF OneMore
    <2>8. QED
        BY <2>6, <2>7
<1>4. QED
    BY <1>2, <1>3, Less, LessOrMore

LEMMA FreshStep ==
    ASSUME IInv, NEW t \in Threads, Step(t)
    PROVE  Fresh'
<1>1. /\ list \in [Threads -> SUBSET Nodes] /\ listed \subseteq Threads /\ listed' \subseteq listed
      /\ valid \subseteq Keys /\ NoKey \notin Keys /\ gen \in [Keys -> 0..MaxGen]
      /\ Fresh /\ valid \subseteq alive
    BY LifeFrame, Numbers DEF IInv, TypeOK, InUse
<1>2. ASSUME ~KeyDelete(t)
      PROVE  valid \subseteq valid' /\ \A k \in valid : gen'[k] = gen[k]
    <2>1. CASE UNCHANGED keyVars
        BY <2>1 DEF keyVars
    <2>2. CASE Insert(t)
        BY <2>2 DEF Insert
    <2>3. CASE KeyCreate(t)
        BY <1>1, <2>3 DEF KeyCreate
    <2>4. CASE KeyFree(t)
        BY <2>4 DEF KeyFree
    <2>5. QED
        BY <1>2, <2>1, <2>2, <2>3, <2>4, KeyFrame DEF OnKeys
<1>3. CASE KeyDelete(t)
    <2>1. PICK k \in valid :
             /\ valid' = valid \ {k}
             /\ node' = [n \in Nodes |->
                           IF \E u \in listed : n = keyFind(u, k)
                           THEN [node[n] EXCEPT !.key = NoKey] ELSE node[n]]
        BY <1>3 DEF KeyDelete
    <2>2. UNCHANGED <<gen, list, listed>> /\ node \in NodeType
        BY <1>3 DEF KeyDelete, lifeVars, IInv, TypeOK, NodeType
    <2> SUFFICES ASSUME NEW u \in listed, NEW n \in list[u], node'[n].key # NoKey
                 PROVE  node'[n].key \in valid' /\ node'[n].gen = gen[node'[n].key]
        BY <2>2 DEF Fresh, Named
    <2>3. n \in Nodes
        BY <1>1
    <2>4. node'[n] = node[n] /\ n # keyFind(u, k)
        BY <2>1, <2>2, <2>3 DEF NodeType
    <2>5. node[n].key # k
        BY <1>1, <2>4, Found
    <2>6. QED
        BY <1>1, <2>1, <2>4, <2>5 DEF Fresh, Named
<1>4. CASE OnlyLess /\ ~KeyDelete(t)
    <2> SUFFICES ASSUME NEW u \in listed, NEW n \in list'[u], node'[n].key # NoKey
                 PROVE  node'[n].key \in valid' /\ node'[n].gen = gen'[node'[n].key]
        BY <1>1 DEF Fresh, Named
    <2>1. /\ n \in list[u] /\ n \in Nodes
          /\ node'[n].key = node[n].key /\ node'[n].gen = node[n].gen
        BY <1>1, <1>4 DEF OnlyLess
    <2>2. QED
        BY <1>1, <1>2, <1>4, <2>1 DEF Fresh, Named
<1>5. ASSUME NEW k \in valid', OneMore(t, k), LinkingStep(t)
      PROVE  Fresh'
    <2>1. UNCHANGED gen /\ valid \subseteq valid'
        BY <1>5 DEF LinkingStep, Insert, SetNested, keyVars
    <2> SUFFICES ASSUME NEW u \in listed, NEW n \in list'[u], node'[n].key # NoKey
                 PROVE  node'[n].key \in valid' /\ node'[n].gen = gen[node'[n].key]
        BY <1>1, <2>1 DEF Fresh, Named
    <2>2. CASE n = used + 1
        BY <1>5, <2>2 DEF OneMore
    <2>3. CASE n # used + 1
        <3>1. n \in list[u] /\ n \in Nodes /\ node'[n] = node[n]
            BY <1>1, <1>5, <2>3 DEF OneMore, LinkDone
        <3>2. QED
            BY <1>1, <2>1, <3>1 DEF Fresh, Named
    <2>4. QED
        BY <2>2, <2>3
<1>6. ~(LinkingStep(t) /\ KeyDelete(t))
    BY DEF LinkingStep, Insert, SetNested, KeyDelete, At
<1>7. QED
    BY <1>3, <1>4, <1>5, <1>6, Less, LessOrMore

-----------------------------------------------------------------------------
(* The keys at work                                                        *)

Uses(t) == At(t, "insert") \/ At(t, "free")

\* A step in which no thread begins to work on a key, and no key changes
LEMMA InUseKept ==
    ASSUME IInv, UNCHANGED <<alive, valid, key>>,
           \A u \in Threads : \A p \in {"insert", "free"} : At(u, p)' => At(u, p)
    PROVE  InUse'
BY DEF IInv, InUse

LEMMA InUseStep ==
    ASSUME IInv, NEW t \in Threads, Step(t)
    PROVE  InUse'
<1>1. /\ InUse /\ alive \subseteq Keys /\ valid \subseteq Keys
      /\ pc \in [Threads -> Places] /\ key \in [Threads -> Keys \cup {NoKey}]
      /\ kernel \in [Threads -> {"running", "dying", "ghost", "reclaimed"}]
    BY DEF IInv, TypeOK
<1>2. CASE SetKnown(t) \/ SetNested(t)
    BY <1>2, InUseKept DEF SetKnown, SetNested, keyVars, lifeVars, At, Runs
<1>3. CASE SetFresh(t)
    <2>1. PICK k \in valid : key' = [key EXCEPT ![t] = k]
        BY <1>3 DEF SetFresh
    <2>2. UNCHANGED <<alive, valid, kernel>> /\ At(t, "out") /\ pc' = [pc EXCEPT ![t] = "insert"]
        BY <1>3 DEF SetFresh, keyVars, lifeVars, GoTo
    <2>3. QED
        BY <1>1, <2>1, <2>2 DEF InUse, At, Runs
<1>4. CASE Insert(t)
    <2>1. /\ kernel' = kernel /\ pc' = [pc EXCEPT ![t] = "out"] /\ key' = [key EXCEPT ![t] = NoKey]
          /\ At(t, "insert")
        BY <1>4 DEF Insert, lifeVars, Return, GoTo
    <2>2. \/ valid' = valid \cup {key[t]} /\ alive' = alive
          \/ valid' = valid /\ alive' = alive \ {key[t]} /\ key[t] \notin valid
        BY <1>4 DEF Insert
    <2>3. \A u \in Threads \ {t} : /\ \A p \in Places : At(u, p)' <=> At(u, p)
                                  /\ key'[u] = key[u]
        BY <1>1, <2>1 DEF At, Runs
    <2>4. ~At(t, "insert")' /\ ~At(t, "free")'
        BY <1>1, <2>1 DEF At
    <2>5. key[t] \in alive
        BY <1>1, <2>1 DEF InUse
    <2>6. \A u \in Threads \ {t} : Uses(u) => key[u] # key[t] \/ key[t] \in valid
        BY <1>1, <2>1 DEF InUse, Uses
    <2>7. \A u \in Threads \ {t} : At(u, "free") => key[u] # key[t]
        BY <1>1, <2>1, <2>6 DEF InUse, Uses
    <2>8. valid' \subseteq alive'
        BY <1>1, <2>2, <2>5 DEF InUse
    <2>9. \A u \in Threads : At(u, "insert")' \/ At(u, "free")' => key'[u] \in alive'
        BY <1>1, <2>2, <2>3, <2>4, <2>6 DEF InUse, Uses, Places
    <2>10. \A u \in Threads : At(u, "free")' => key'[u] \notin valid'
        BY <1>1, <2>2, <2>3, <2>4, <2>7 DEF InUse, Places
    <2>11. \A u, w \in Threads :
              /\ u # w /\ (At(u, "insert")' \/ At(u, "free")') /\ key'[u] = key'[w]
              /\ At(w, "insert")' \/ At(w, "free")'
              => key'[u] \in valid'
        BY <1>1, <2>2, <2>3, <2>4 DEF InUse, Places
    <2>12. QED
        BY <2>8, <2>9, <2>10, <2>11 DEF InUse
<1>5. CASE KeyCreate(t)
    <2>1. PICK k \in Keys \ alive : alive' = alive \cup {k} /\ key' = [key EXCEPT ![t] = k]
        BY <1>5 DEF KeyCreate
    <2>2. UNCHANGED <<valid, kernel>> /\ At(t, "out") /\ pc' = [pc EXCEPT ![t] = "insert"]
        BY <1>5 DEF KeyCreate, lifeVars, GoTo
    <2>3. QED
        BY <1>1, <2>1, <2>2 DEF InUse, At, Runs
<1>6. CASE KeyDelete(t)
    <2>1. PICK k \in valid :
             /\ \A u \in Threads : At(u, "insert") => key[u] # k
             /\ valid' = valid \ {k} /\ key' = [key EXCEPT ![t] = k]
        BY <1>6 DEF KeyDelete
    <2>2. UNCHANGED <<alive, kernel>> /\ At(t, "out") /\ pc' = [pc EXCEPT ![t] = "free"]
        BY <1>6 DEF KeyDelete, lifeVars, GoTo
    <2>3. \A u \in Threads : Uses(u) => key[u] # k
        BY <1>1, <2>1 DEF InUse, Uses
    <2>4. QED
        BY <1>1, <2>1, <2>2, <2>3 DEF InUse, At, Runs, Uses
<1>7. CASE KeyFree(t)
    <2>1. /\ kernel' = kernel /\ pc' = [pc EXCEPT ![t] = "out"] /\ key' = [key EXCEPT ![t] = NoKey]
          /\ At(t, "free") /\ valid' = valid /\ alive' = alive \ {key[t]}
        BY <1>7 DEF KeyFree, lifeVars, Return, GoTo
    <2>2. key[t] \notin valid /\ \A u \in Threads \ {t} : Uses(u) => key[u] # key[t]
        BY <1>1, <2>1 DEF InUse, Uses
    <2>3. QED
        BY <1>1, <2>1, <2>2 DEF InUse, At, Runs, Uses
<1>8. CASE Exit(t) \/ Cancel(t)
    <2>1. UNCHANGED <<alive, valid, key, kernel>> /\ pc' = [pc EXCEPT ![t] = "claim"]
        BY <1>8 DEF Exit, Cancel, CleanupCall, keyVars, lifeVars, GoTo
    <2>2. QED
        BY <1>1, <2>1, InUseKept DEF At, Runs
<1>9. CASE Claim(t)
    <2>1. UNCHANGED <<alive, valid, key, kernel>>
          /\ pc' = [pc EXCEPT ![t] = IF obj[t] \in exiting THEN After(t) ELSE "scan"]
        BY <1>9 DEF Claim, keyVars, lifeVars, GoTo
    <2>2. QED
        BY <1>1, <2>1, InUseKept DEF At, Runs, After
<1>10. CASE ScanFinds(t)
    <2>1. UNCHANGED <<alive, valid, key, kernel>> /\ pc' = [pc EXCEPT ![t] = "destructor"]
        BY <1>10 DEF ScanFinds, keyVars, lifeVars, GoTo
    <2>2. QED
        BY <1>1, <2>1, InUseKept DEF At, Runs
<1>11. CASE DestructorReturns(t)
    <2>1. UNCHANGED <<alive, valid, key, kernel>> /\ pc' = [pc EXCEPT ![t] = "scan"]
        BY <1>11 DEF DestructorReturns, keyVars, lifeVars, GoTo
    <2>2. QED
        BY <1>1, <2>1, InUseKept DEF At, Runs
<1>12. CASE ScanEnds(t)
    <2>1. UNCHANGED <<alive, valid, key, kernel>>
          /\ pc' = [pc EXCEPT ![t] = IF LastPass(t) THEN After(t) ELSE "scan"]
        BY <1>12 DEF ScanEnds, keyVars, lifeVars, GoTo
    <2>2. QED
        BY <1>1, <2>1, InUseKept DEF At, Runs, After
<1>13. CASE Finish(t) \/ Die(t) \/ Reclaim(t)
    <2>1. UNCHANGED <<alive, valid, key, pc>>
          /\ \E s \in {"ghost", "reclaimed"} : kernel' = [kernel EXCEPT ![t] = s]
        BY <1>13 DEF Finish, Die, Reclaim, keyVars
    <2>2. QED
        BY <1>1, <2>1, InUseKept DEF At, Runs
<1>14. CASE Join(t)
    BY <1>14, InUseKept DEF Join, keyVars, At, Runs
<1>15. CASE Kill(t)
    <2>1. UNCHANGED <<alive, valid, key>> /\ pc' = [pc EXCEPT ![t] = "out"]
        BY <1>15 DEF Kill, keyVars, GoTo
    <2>2. \A u \in Threads : Runs(u)' => Runs(u)
        BY <1>1, <1>15 DEF Kill, Runs
    <2>3. QED
        BY <1>1, <2>1, <2>2, InUseKept DEF At
<1>16. QED
    BY <1>2, <1>3, <1>4, <1>5, <1>6, <1>7, <1>8, <1>9, <1>10, <1>11, <1>12, <1>13, <1>14, <1>15
       DEF Step, Setting, OnKeys, Cleaning, Living

-----------------------------------------------------------------------------
(* The walks                                                               *)

\* A step that moves no walk, and takes no node from the list of one
LEMMA ClaimedKept ==
    ASSUME IInv, UNCHANGED <<exiting, obj, cursor, again>>,
           \A u \in Threads : (InScan(u)' <=> InScan(u)) /\ (Runs(u)' => Runs(u)),
           \A u \in Threads : InScan(u) /\ Runs(u)' => list[obj[u]] \subseteq list'[obj[u]]
    PROVE  Claimed'
BY DEF IInv, Claimed

LEMMA ClaimedStep ==
    ASSUME IInv, NEW t \in Threads, Step(t)
    PROVE  Claimed'
<1>1. /\ Claimed /\ pc \in [Threads -> Places] /\ obj \in [Threads -> Threads]
      /\ cursor \in [Threads -> Nodes \cup {None}] /\ again \in [Threads -> BOOLEAN]
      /\ list \in [Threads -> SUBSET Nodes] /\ exiting \subseteq Threads
      /\ kernel \in [Threads -> {"running", "dying", "ghost", "reclaimed"}]
      /\ None \notin Nodes
    BY Numbers DEF IInv, TypeOK
<1>2. \A u \in Threads : InScan(u) => obj[u] \in exiting
    BY <1>1 DEF Claimed
<1>3. CASE Setting(t) \/ OnKeys(t)
    <2>1. UNCHANGED <<exiting, obj, cursor, again, kernel>>
        BY <1>3
           DEF Setting, OnKeys, SetKnown, SetFresh, SetNested, Insert, KeyCreate, KeyDelete, KeyFree,
               walkVars, lifeVars
    <2>2. \/ pc' = pc
          \/ pc[t] \in {"out", "insert", "free"}
             /\ \E p \in {"out", "insert", "free"} : pc' = [pc EXCEPT ![t] = p]
        <3>1. CASE SetKnown(t) \/ SetNested(t)
            BY <3>1 DEF SetKnown, SetNested
        <3>2. CASE SetFresh(t) \/ Insert(t)
            BY <3>2 DEF SetFresh, Insert, At, Return, GoTo
        <3>3. CASE OnKeys(t)
            BY <3>3 DEF OnKeys, KeyCreate, KeyDelete, KeyFree, At, Return, GoTo
        <3>4. QED
            BY <1>3, <3>1, <3>2, <3>3 DEF Setting
    <2>3. \A u \in Threads : InScan(u)' <=> InScan(u)
        BY <1>1, <2>2 DEF InScan
    <2>4. \A u \in exiting : list[u] \subseteq list'[u]
        <3>1. ~ScanEnds(t) /\ ~Reclaim(t)
            BY <1>1, <1>3, <2>1 DEF ScanEnds, Reclaim, GoTo, At, Setting, OnKeys, SetKnown, SetFresh,
               SetNested, Insert, KeyCreate, KeyDelete, KeyFree
        <3>2. ASSUME NEW k, LinkDone(t, k)
              PROVE  \A u \in exiting : list[u] \subseteq list'[u]
            BY <1>1, <3>2 DEF LinkDone
        <3>3. QED
            BY <3>1, <3>2, ListFrame, Linking DEF LinkingStep
    <2>5. QED
        BY <1>2, <2>1, <2>3, <2>4, ClaimedKept DEF Runs
<1>4. CASE Finish(t) \/ Die(t) \/ Join(t)
    <2>1. /\ UNCHANGED <<exiting, obj, cursor, again, pc, list>>
          /\ kernel' = kernel \/ kernel' = [kernel EXCEPT ![t] = "ghost"]
        BY <1>4 DEF Finish, Die, Join, walkVars, nodeVars
    <2>2. QED
        BY <1>1, <2>1, ClaimedKept DEF InScan, Runs
<1>5. CASE Reclaim(t)
    <2>1. /\ UNCHANGED <<exiting, obj, cursor, again, pc>>
          /\ kernel' = [kernel EXCEPT ![t] = "reclaimed"] /\ list' = [list EXCEPT ![t] = {}]
          /\ \A u \in Threads \ {t} : InScan(u) => obj[u] # t
        BY <1>5 DEF Reclaim, walkVars, InScan
    <2>2. ~Runs(t)' /\ \A u \in Threads : Runs(u)' => Runs(u)
        BY <1>1, <2>1 DEF Runs
    <2>3. QED
        BY <1>1, <2>1, <2>2, ClaimedKept DEF InScan
<1>6. CASE Exit(t) \/ Cancel(t) \/ Kill(t)
    <2>1. /\ UNCHANGED <<exiting, cursor, again, list>> /\ ~InScan(t)
          /\ \E x \in Threads : obj' = [obj EXCEPT ![t] = x]
          /\ \E p \in {"out", "claim"} : pc' = [pc EXCEPT ![t] = p]
        BY <1>6 DEF Exit, Cancel, Kill, CleanupCall, nodeVars, InScan, At, GoTo, IInv, TypeOK
    <2>2. \A u \in Threads : Runs(u)' => Runs(u)
        BY <1>1, <1>6 DEF Exit, Cancel, Kill, CleanupCall, lifeVars, Runs
    <2>3. cursor[t] = None
        BY <1>1, <2>1 DEF Claimed
    <2>4. \A u \in Threads \ {t} : (InScan(u)' <=> InScan(u)) /\ obj'[u] = obj[u]
        BY <1>1, <2>1 DEF InScan
    <2>5. ~InScan(t)'
        BY <1>1, <2>1 DEF InScan
    <2>6. QED
        BY <1>1, <2>1, <2>2, <2>3, <2>4, <2>5 DEF Claimed
<1>7. CASE Claim(t)
    <2>1. /\ UNCHANGED <<obj, cursor, again, list, kernel>> /\ ~InScan(t)
          /\ exiting' = exiting \cup {obj[t]}
          /\ pc' = [pc EXCEPT ![t] = IF obj[t] \in exiting THEN After(t) ELSE "scan"]
        BY <1>7 DEF Claim, nodeVars, lifeVars, InScan, At, GoTo
    <2>2. cursor[t] = None
        BY <1>1, <2>1 DEF Claimed
    <2>3. /\ \A u \in Threads \ {t} : InScan(u)' <=> InScan(u)
          /\ InScan(t)' => obj[t] \notin exiting
        BY <1>1, <2>1 DEF InScan, After
    <2>4. QED
        BY <1>1, <2>1, <2>2, <2>3 DEF Claimed, Runs
<1>8. CASE ScanFinds(t)
    <2>1. PICK n \in Ahead(t) : cursor' = [cursor EXCEPT ![t] = n]
        BY <1>8 DEF ScanFinds
    <2>2. /\ UNCHANGED <<exiting, obj, list, kernel>> /\ InScan(t)
          /\ again' = [again EXCEPT ![t] = TRUE] /\ pc' = [pc EXCEPT ![t] = "destructor"]
        BY <1>8 DEF ScanFinds, InScan, At, GoTo, lifeVars
    <2>3. n \in list[obj[t]]
        BY DEF Ahead
    <2>4. \A u \in Threads : InScan(u)' <=> InScan(u)
        BY <1>1, <2>2 DEF InScan
    <2>5. QED
        BY <1>1, <2>1, <2>2, <2>3, <2>4 DEF Claimed, Runs
<1>9. CASE DestructorReturns(t)
    <2>1. /\ UNCHANGED <<exiting, obj, cursor, again, list, kernel>> /\ InScan(t)
          /\ pc' = [pc EXCEPT ![t] = "scan"]
        BY <1>9 DEF DestructorReturns, walkVars, nodeVars, lifeVars, InScan, At, GoTo
    <2>2. \A u \in Threads : InScan(u)' <=> InScan(u)
        BY <1>1, <2>1 DEF InScan
    <2>3. QED
        BY <1>1, <2>1, <2>2, ClaimedKept DEF Runs
<1>10. CASE ScanEnds(t)
    <2>1. /\ UNCHANGED <<exiting, obj, kernel>> /\ InScan(t)
          /\ cursor' = [cursor EXCEPT ![t] = None] /\ again' = [again EXCEPT ![t] = FALSE]
          /\ pc' = [pc EXCEPT ![t] = IF LastPass(t) THEN After(t) ELSE "scan"]
          /\ list' = list \/ (obj[t] = t /\ list' = [list EXCEPT ![t] = {}])
        BY <1>10 DEF ScanEnds, InScan, At, GoTo, lifeVars
    <2>2. \A u \in Threads \ {t} : /\ InScan(u)' <=> InScan(u)
                                  /\ cursor'[u] = cursor[u] /\ again'[u] = again[u]
        BY <1>1, <2>1 DEF InScan
    <2>3. InScan(t)' => InScan(t)
        BY <2>1
    <2>4. \A u \in Threads \ {t} : InScan(u) => list'[obj[u]] = list[obj[u]]
        BY <1>1, <2>1 DEF Claimed
    <2>5. cursor'[t] = None /\ ~again'[t]
        BY <1>1, <2>1
    <2>6. \A u \in Threads : InScan(u)' => InScan(u)
        BY <2>2, <2>3
    <2>7. \A u, w \in Threads : InScan(u)' /\ InScan(w)' /\ obj'[u] = obj'[w] => u = w
        BY <1>1, <2>1, <2>6 DEF Claimed
    <2>8. \A u \in Threads : ~InScan(u)' \/ ~again'[u] => cursor'[u] = None
        BY <1>1, <2>2, <2>5 DEF Claimed
    <2>9. ASSUME NEW u \in Threads, Runs(u)', cursor'[u] # None
          PROVE  cursor'[u] \in list'[obj'[u]]
        <3>1. u \in Threads \ {t} /\ Runs(u) /\ cursor'[u] = cursor[u] /\ obj'[u] = obj[u]
            BY <2>1, <2>2, <2>5, <2>9 DEF Runs
        <3>2. InScan(u) /\ cursor[u] \in list[obj[u]]
            BY <1>1, <2>9, <3>1 DEF Claimed
        <3>3. QED
            BY <2>4, <3>1, <3>2
    <2>10. QED
        BY <1>2, <2>1, <2>6, <2>7, <2>8, <2>9 DEF Claimed
<1>11. QED
    BY <1>3, <1>4, <1>5, <1>6, <1>7, <1>8, <1>9, <1>10 DEF Step, Cleaning, Living

\* The last pass of a walk that stops early found nothing, and nothing was set
\* behind it: it never let go of the lock
LEMMA NoValueLostStep ==
    ASSUME IInv, NEW t \in Threads, Step(t)
    PROVE  NoValueLost'
<1>1. NoValueLost /\ Claimed
    BY DEF IInv
<1>2. CASE UNCHANGED lost
    BY <1>1, <1>2 DEF NoValueLost
<1>3. CASE ScanEnds(t)
    <2>1. SUFFICES ASSUME LastPass(t), obj[t] = t, pass[t] + 1 < Iterations,
                          NEW n \in list[t], Named(n), node[n].value # None
                   PROVE  FALSE
        BY <1>1, <1>3 DEF ScanEnds, NoValueLost
    <2>2. pass[t] \in Nat /\ Iterations \in Nat
        BY Numbers DEF IInv, TypeOK
    <2>3. ~again[t]
        BY <2>1, <2>2 DEF LastPass
    <2>4. cursor[t] = None
        BY <1>1, <2>3 DEF Claimed
    <2>5. n \in Ahead(t)
        BY <2>1, <2>4 DEF Ahead
    <2>6. QED
        BY <1>3, <2>5 DEF ScanEnds
<1>4. CASE Cleaning(t) /\ ~ScanEnds(t)
    <2>1. lost' = lost
        BY <1>4
           DEF Cleaning, Exit, Cancel, CleanupCall, Claim, ScanFinds, DestructorReturns, walkVars
    <2>2. QED
        BY <1>2, <2>1
<1>5. CASE Kill(t)
    BY <1>2, <1>5 DEF Kill
<1>6. QED
    BY <1>2, <1>3, <1>4, <1>5, WalkFrame

-----------------------------------------------------------------------------
(* Theorems                                                                *)

LEMMA InitRight == Init => IInv
<1> SUFFICES ASSUME Init PROVE IInv
    OBVIOUS
<1>1. TypeOK
    <2>1. 0 \in 0..MaxGen /\ 0 \in 0..MaxNodes /\ 0 \in 0..MaxSets /\ 0 \in 0..Iterations - 1
        BY Numbers
    <2>2. gen \in [Keys -> 0..MaxGen] /\ node \in NodeType /\ pass \in [Threads -> 0..Iterations - 1]
        BY <2>1 DEF Init, NodeType
    <2>3. detached \subseteq Threads
        BY KeysAssumption DEF Init
    <2>4. QED
        BY <2>1, <2>2, <2>3 DEF Init, TypeOK, NodeType, Places
<1>2. Linked /\ OneNodePerKey /\ Fresh /\ InUse /\ NoValueLost
    BY DEF Init, Linked, OneNodePerKey, Fresh, InUse, NoValueLost, At
<1>3. Claimed
    BY DEF Init, Claimed, InScan
<1>4. QED
    BY <1>1, <1>2, <1>3 DEF IInv

LEMMA NextRight == IInv /\ [Next]_vars => IInv'
<1> SUFFICES ASSUME IInv, [Next]_vars PROVE IInv'
    OBVIOUS
<1>1. CASE UNCHANGED vars
    <2>1. TypeOK' /\ Linked'
        BY <1>1 DEF IInv, vars, TypeOK, Linked
    <2>2. OneNodePerKey' /\ Fresh' /\ NoValueLost'
        BY <1>1 DEF IInv, vars, OneNodePerKey, Fresh, Named, NoValueLost
    <2>3. InUse' /\ Claimed'
        BY <1>1 DEF IInv, vars, InUse, Claimed, InScan, At, Runs
    <2>4. QED
        BY <2>1, <2>2, <2>3 DEF IInv
<1>2. ASSUME NEW t \in Threads, Step(t)
      PROVE  IInv'
    BY <1>2, StepTyped, LinkedStep, OneNodePerKeyStep, FreshStep, InUseStep, ClaimedStep,
       NoValueLostStep DEF IInv
<1>3. QED
    BY <1>1, <1>2 DEF Next, Step

LEMMA Invariance == Spec => []IInv
BY InitRight, NextRight, PTL DEF Spec

\* pthread_setspecific(), pthread_getspecific(), pthread_key_delete(): whatever
\* a thread finds in its list, no lock taken, is its value of a key that exists,
\* under the generation it exists in, and its only one.
THEOREM ValuesFresh == Spec => []NoStaleValue
<1>1. IInv => NoStaleValue
    BY DEF IInv, NoStaleValue, Fresh, InUse
<1>2. QED
    BY <1>1, Invariance, PTL

\* pthread_key_cleanup(), _pthread_keyUnlinkDead(): the node a cleanup goes on
\* from after a destructor is still in the list it walks, and no list holds a
\* freed node.
THEOREM WalksSafe == Spec => []NodesOutliveWalks
<1>1. IInv => NodesOutliveWalks
    BY DEF IInv, NodesOutliveWalks, Linked, Claimed, Walks
<1>2. QED
    BY <1>1, Invariance, PTL

\* pthread_key_cleanup(): a thread that exits while others cancel it has its
\* destructors run by one of them.
THEOREM CleanupClaimed == Spec => []OneCleanup
<1>1. IInv => OneCleanup
    BY DEF IInv, OneCleanup, Claimed, Walks, InScan
<1>2. QED
    BY <1>1, Invariance, PTL

\* pthread_key_cleanup(): the passes of a thread that exits by itself end with
\* a value left only when PTHREAD_DESTRUCTOR_ITERATIONS of them were made.
THEOREM ValuesDestroyed == Spec => []NoValueLost
<1>1. IInv => NoValueLost
    BY DEF IInv
<1>2. QED
    BY <1>1, Invariance, PTL
=============================================================================
