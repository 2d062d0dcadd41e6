--------------------------------- MODULE Env --------------------------------
(***************************************************************************)
(* The environment, stdlib/env.c: an array of strings of which some are    *)
(* the library's own, said by a second array that exists only once there   *)
(* is such a string.  Every allocation may fail.  One thread at a time     *)
(* calls, as POSIX asks.                                                   *)
(*                                                                         *)
(* A string is a name and a value, a value is its length.  After setenv()  *)
(* has freed a string and found no memory for the longer one, the array    *)
(* still holds the freed string (torn): what follows is not modelled.      *)
(***************************************************************************)
EXTENDS Naturals, Sequences, SequencesExt

CONSTANTS
    Name,
    Lengths,        \* lengths of values
    MaxStart,       \* variables the process may start with
    MaxStrings,     \* bound: strings ever made
    MaxFailures     \* bound: allocations that fail

ASSUME EnvAssumption == Lengths \subseteq Nat

VARIABLES
    environ,    \* the strings in the array's slots, without the NULLs
    size,       \* _size: slots of the array
    owned,      \* _string_allocated: <<>> for NULL, else one flag for each slot
    string,     \* every string made: its name, value, maker, and if it was freed
    failures,
    expected,   \* history: what each name was last set to, 0 for unset
    torn,
    wild        \* history: free() of what is not the library's, or free already

envVars == <<environ, size, owned, string, failures, expected, torn, wild>>

Made(by, n, v) == [by |-> by, name |-> n, value |-> v, freed |-> FALSE]

\* Slots the array does not use yet hold any flag
Unknown == "unknown"

\* environ is NULL, or the array the process was started with
EnvInit ==
    /\ \E names \in UNION {[1..k -> Name] : k \in 0..MaxStart} :
          /\ IsInjective(names)
          /\ string = [i \in DOMAIN names |-> Made("start", names[i], 1)]
          /\ expected = [n \in Name |-> IF n \in Range(names) THEN 1 ELSE 0]
          /\ environ = [i \in DOMAIN names |-> i]
    /\ size \in IF environ = <<>> THEN {0, 1} ELSE {Len(environ) + 1}
    /\ owned = <<>>
    /\ failures = 0 /\ torn = FALSE /\ wild = FALSE

\* _env_find(): the slot of the name, 0 if there is none
Find(n) ==
    LET at == {i \in DOMAIN environ : string[environ[i]].name = n}
    IN  IF at = {} THEN 0 ELSE CHOOSE i \in at : \A j \in at : i <= j

Owns(i) == owned # <<>> /\ owned[i] # FALSE

FreedIn(strings, p) == [strings EXCEPT ![p].freed = TRUE]
Bad(p) == string[p].by # "setenv" \/ string[p].freed

Fails == failures < MaxFailures /\ failures' = failures + 1

-----------------------------------------------------------------------------
(* _env_insert() *)

GrownSize == LET more == IF size \div 2 < 1 THEN 1 ELSE size \div 2
         IN  IF size + more < 2 THEN 2 ELSE size + more

NewSize(i) == IF i = 0 /\ Len(environ) + 1 >= size THEN GrownSize ELSE size

\* _string_allocated once it is as long as the array and, for a string of the
\* library's, exists: realloc() leaves what it adds unknown, malloc() is cleared
Flags(i, allocated) ==
    LET new == NewSize(i)
    IN  CASE owned # <<>> -> [j \in 1..new |-> IF j <= size THEN owned[j] ELSE Unknown]
          [] owned = <<>> /\ allocated -> [j \in 1..new |-> FALSE]
          [] OTHER -> <<>>

Insert(i, p, allocated) ==
    LET at == IF i = 0 THEN Len(environ) + 1 ELSE i
        flags == Flags(i, allocated)
    IN  /\ environ' = IF i = 0 THEN Append(environ, p) ELSE [environ EXCEPT ![i] = p]
        /\ size' = NewSize(i)
        /\ owned' = IF flags = <<>> THEN flags ELSE [flags EXCEPT ![at] = allocated]

\* One of its allocations fails: the array, grown or not, looks as before; when
\* only the flags could not be made the larger array is kept
InsertFails(i, allocated) ==
    /\ \/ NewSize(i) # size /\ UNCHANGED size
       \/ allocated /\ owned = <<>> /\ size' = NewSize(i)
    /\ Fails
    /\ UNCHANGED <<environ, owned>>

-----------------------------------------------------------------------------
More == ~ torn /\ Len(string) < MaxStrings

\* setenv() of a name that is set, with a value that fits in the string there,
\* whoever made it; or without `overwrite`
SetInPlace(n, v) ==
    /\ ~ torn /\ Find(n) # 0
    /\ string[environ[Find(n)]].value >= v
    /\ string' = [string EXCEPT ![environ[Find(n)]].value = v]
    /\ expected' = [expected EXCEPT ![n] = v]
    /\ wild' = (wild \/ string[environ[Find(n)]].freed)
    /\ UNCHANGED <<environ, size, owned, failures, torn>>

\* What setenv() frees before it makes the longer string
Dropped(i) == IF i # 0 /\ Owns(i) THEN FreedIn(string, environ[i]) ELSE string
FreesBadly(i) == i # 0 /\ Owns(i) /\ Bad(environ[i])

TooShort(n, v) == IF Find(n) = 0 THEN TRUE ELSE string[environ[Find(n)]].value < v

SetNew(n, v) ==
    /\ More /\ TooShort(n, v)
    /\ Insert(Find(n), Len(string) + 1, TRUE)
    /\ string' = Append(Dropped(Find(n)), Made("setenv", n, v))
    /\ expected' = [expected EXCEPT ![n] = v]
    /\ wild' = (wild \/ FreesBadly(Find(n)))
    /\ UNCHANGED <<failures, torn>>

\* No memory for the string, after the old one was freed
SetNoMemory(n, v) ==
    /\ More /\ TooShort(n, v) /\ Fails
    /\ string' = Dropped(Find(n))
    /\ torn' = (Find(n) # 0 /\ Owns(Find(n)))
    /\ wild' = (wild \/ FreesBadly(Find(n)))
    /\ UNCHANGED <<environ, size, owned, expected>>

\* No memory for the array or the flags: the new string is freed again
SetNoSlot(n, v) ==
    /\ More /\ TooShort(n, v)
    /\ InsertFails(Find(n), TRUE)
    /\ string' = Append(string, [Made("setenv", n, v) EXCEPT !.freed = TRUE])
    /\ UNCHANGED <<expected, torn, wild>>

\* A string of the library's in the slot is not freed
PutEnv(n, v) ==
    /\ More
    /\ Insert(Find(n), Len(string) + 1, FALSE)
    /\ string' = Append(string, Made("caller", n, v))
    /\ expected' = [expected EXCEPT ![n] = v]
    /\ UNCHANGED <<failures, torn, wild>>

PutNoSlot(n) ==
    /\ More
    /\ InsertFails(Find(n), FALSE)
    /\ UNCHANGED <<string, expected, torn, wild>>

\* Mutant: the string moves into the slot without its flag
UnsetEnv_FlagStays(n) ==
    /\ ~ torn /\ Find(n) # 0
    /\ LET i == Find(n)
       IN  /\ string' = Dropped(i)
           /\ wild' = (wild \/ FreesBadly(i))
           /\ environ' = Front([environ EXCEPT ![i] = Last(environ)])
    /\ expected' = [expected EXCEPT ![n] = 0]
    /\ UNCHANGED <<size, failures, torn, owned>>

UnsetEnv(n) ==
    /\ ~ torn /\ Find(n) # 0
    /\ LET i == Find(n)
       IN  /\ string' = Dropped(i)
           /\ wild' = (wild \/ FreesBadly(i))
           /\ environ' = Front([environ EXCEPT ![i] = Last(environ)])
           /\ owned' = IF owned = <<>> THEN owned
                       ELSE [owned EXCEPT ![i] = owned[Len(environ)]]
    /\ expected' = [expected EXCEPT ![n] = 0]
    /\ UNCHANGED <<size, failures, torn>>

ClearEnv ==
    /\ ~ torn
    /\ LET mine == {environ[i] : i \in {j \in DOMAIN environ : Owns(j)}}
       IN  /\ string' = [p \in DOMAIN string |->
                            [string[p] EXCEPT !.freed = @ \/ p \in mine]]
           /\ wild' = (wild \/ \E p \in mine : Bad(p))
    /\ environ' = <<>>
    /\ owned' = <<>>
    /\ expected' = [n \in Name |-> 0]
    /\ UNCHANGED <<size, failures, torn>>

-----------------------------------------------------------------------------
EnvNext ==
    \/ \E n \in Name, v \in Lengths :
          \/ SetInPlace(n, v) \/ SetNew(n, v) \/ SetNoMemory(n, v) \/ SetNoSlot(n, v)
          \/ PutEnv(n, v)
    \/ \E n \in Name : PutNoSlot(n) \/ UnsetEnv(n)
    \/ ClearEnv

EnvSpec == EnvInit /\ [][EnvNext]_envVars

-----------------------------------------------------------------------------
\* getenv() finds what was last set, whosever memory it is in, also after a
\* call that failed halfway; each name is in the array once; free() gets strings
\* the library made, each once, and none of them is still in the array; and the
\* array has room for its NULL.
EnvSound ==
    /\ ~ wild
    /\ environ # <<>> => Len(environ) < size
    /\ ~ torn =>
          /\ \A i \in DOMAIN environ : ~ string[environ[i]].freed
          /\ \A i \in DOMAIN environ :
                Owns(i) => owned[i] = TRUE /\ string[environ[i]].by = "setenv"
          /\ \A n \in Name :
                LET i == Find(n)
                IN  expected[n] = (IF i = 0 THEN 0 ELSE string[environ[i]].value)
          /\ \A i, j \in DOMAIN environ :
                i # j => string[environ[i]].name # string[environ[j]].name
=============================================================================
