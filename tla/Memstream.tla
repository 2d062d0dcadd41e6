----------------------------- MODULE Memstream ------------------------------
(***************************************************************************)
(* The files in memory of stdio/memstream.c, below the FILE's own buffer:  *)
(* open_memstream(), whose memory grows and whose owner is told where it   *)
(* is and how long its text is, and fmemopen() over memory of fixed size.  *)
(*                                                                         *)
(* Offsets are small; the limits at SSIZE_MAX are not reached.  A realloc  *)
(* may fail.  Memory is a sequence of bytes, 0 ending a string.            *)
(***************************************************************************)
EXTENDS Integers, Sequences, SequencesExt

CONSTANTS
    Cap,        \* what open_memstream() begins with
    MemSize,    \* of the memory given to fmemopen()
    MemTexts,   \* what may be written at once
    MemOffsets, \* what may be asked of a seek
    Given,      \* contents the caller's memory may have
    MaxPos,     \* bound: no call goes beyond
    Junk        \* what realloc() leaves in the memory it adds

ASSUME MemoryAssumption ==
    /\ Cap \in Nat \ {0} /\ MemSize \in Nat \ {0} /\ MaxPos \in Nat
    /\ MemTexts \subseteq Seq(Int) /\ Given \subseteq [1..MemSize -> Int] /\ MemOffsets \subseteq Int

VARIABLES
    kind,       \* "memstream", or the mode of fmemopen()
    buf,        \* the memory; cap and size are its length
    len, pos,
    published,  \* *sizep
    put,        \* history: the bytes that were written, by offset
    memOpen

memoryVars == <<kind, buf, len, pos, published, put, memOpen>>

Zeros(n) == [i \in 1..n |-> 0]
MemOverlay(s, at, text) ==
    [i \in 1..Len(s) |-> IF i > at /\ i <= at + Len(text) THEN text[i - at] ELSE s[i]]
\* Nothing is at the offsets that were never written
Wrote(at, text) ==
    put' = [i \in DOMAIN put \cup at+1..at+Len(text) |->
               IF i \in at+1..at+Len(text) THEN text[i - at] ELSE put[i]]

Smaller(a, b) == IF a < b THEN a ELSE b

\* strnlen()
Text(s) == LET zero == {i \in 1..Len(s) : s[i] = 0}
           IN  IF zero = {} THEN Len(s) ELSE (CHOOSE i \in zero : \A j \in zero : i <= j) - 1

Modes == {"r", "r+", "w", "w+", "a", "a+"}
MemReadable == kind \in {"r", "r+", "w+", "a+"}
Appends == kind \in {"a", "a+"}

-----------------------------------------------------------------------------
OpenMemstream ==
    /\ kind = "memstream"
    /\ buf = Zeros(Cap)
    /\ len = 0 /\ pos = 0

Fmemopen ==
    /\ kind \in Modes
    /\ \E given \in Given : buf = IF kind = "w+" THEN [given EXCEPT ![1] = 0] ELSE given
    /\ len = CASE kind \in {"r", "r+"} -> MemSize
               [] kind \in {"w", "w+"} -> 0
               [] OTHER -> Text(buf)
    /\ pos = IF Appends THEN len ELSE 0

MemoryInit ==
    /\ OpenMemstream \/ Fmemopen
    /\ published = 0
    /\ put = <<>>
    /\ memOpen = TRUE

-----------------------------------------------------------------------------
(* The operations of open_memstream() *)

\* memstream_publish()
Publish(p, l) == published' = Smaller(p, l)

Room(end) ==
    IF end < Len(buf) THEN Len(buf)
    ELSE IF 2 * Len(buf) <= end THEN end + 1 ELSE 2 * Len(buf)

\* Mutant: the memory that realloc() adds is not cleared
GrownBuf_Junk(n) == buf \o [i \in 1..(n - Len(buf)) |-> Junk]

GrownBuf(n) == buf \o Zeros(n - Len(buf))

Write(text) ==
    LET end == pos + Len(text)
    IN  /\ memOpen /\ kind = "memstream" /\ end <= MaxPos
        /\ buf' = MemOverlay(GrownBuf(Room(end)), pos, text)
        /\ pos' = end
        /\ len' = IF end > len THEN end ELSE len
        /\ Publish(end, len')
        /\ Wrote(pos, text)
        /\ UNCHANGED <<kind, memOpen>>

\* ENOMEM: nothing has changed
WriteFails(text) ==
    /\ memOpen /\ kind = "memstream" /\ pos + Len(text) >= Len(buf)
    /\ UNCHANGED memoryVars

\* memstream_seekTo()
MemTarget(offset, whence) ==
    offset + (CASE whence = "set" -> 0 [] whence = "cur" -> pos [] whence = "end" -> len)

Seek(offset, whence) ==
    LET to == MemTarget(offset, whence)
    IN  /\ memOpen
        /\ to >= 0 /\ to <= IF kind = "memstream" THEN MaxPos ELSE MemSize
        /\ pos' = to
        /\ IF kind = "memstream" THEN Publish(to, len) ELSE UNCHANGED published
        /\ UNCHANGED <<kind, buf, len, put, memOpen>>

\* fclose(): the text ends where *sizep says
MemClose ==
    /\ memOpen
    /\ memOpen' = FALSE
    /\ IF kind = "memstream"
         THEN Publish(pos, len) /\ buf' = [buf EXCEPT ![published' + 1] = 0]
         ELSE UNCHANGED <<published, buf>>
    /\ UNCHANGED <<kind, len, pos, put>>

-----------------------------------------------------------------------------
(* The operations of fmemopen() *)

\* fmem_read(): the caller gets what is from pos to len, as much as it asked
Read(n) ==
    /\ memOpen /\ MemReadable
    /\ pos' = IF pos >= len THEN pos ELSE pos + Smaller(n, len - pos)
    /\ UNCHANGED <<kind, buf, len, published, put, memOpen>>

\* fmem_write(): as much as fits, or nothing when it is full
FmemWrite(text) ==
    LET from == IF Appends THEN len ELSE pos
        n == Smaller(Len(text), IF from < MemSize THEN MemSize - from ELSE 0)
        to == from + n
        stored == MemOverlay(buf, from, SubSeq(text, 1, n))
        longer == n > 0 /\ to > len
    IN  /\ memOpen /\ kind \in Modes \ {"r"}
        /\ pos' = to
        /\ len' = IF longer THEN to ELSE len
        /\ buf' = CASE longer /\ to < MemSize -> [stored EXCEPT ![to + 1] = 0]
                    [] longer /\ to = MemSize /\ ~ MemReadable -> [stored EXCEPT ![MemSize] = 0]
                    [] OTHER -> stored
        /\ Wrote(from, SubSeq(text, 1, n))
        /\ UNCHANGED <<kind, published, memOpen>>

-----------------------------------------------------------------------------
MemoryNext ==
    \/ \E text \in MemTexts : Write(text) \/ WriteFails(text) \/ FmemWrite(text)
    \/ \E o \in MemOffsets, whence \in {"set", "cur", "end"} : Seek(o, whence)
    \/ \E n \in 1..2 : Read(n)
    \/ MemClose

MemorySpec == MemoryInit /\ [][MemoryNext]_memoryVars

-----------------------------------------------------------------------------
\* What was written stays where it was put, through growth, gaps and the NULs
\* that are added: in a growing file the rest is zeros, a gap too, there is
\* always one after the text, the owner is told the length that ends at the
\* position, and after fclose() a string of that length; over fixed memory a NUL
\* follows what grew if it fits, and takes a written byte's place only at the
\* end of a file that cannot be read.
MemorySound ==
    /\ pos >= 0 /\ DOMAIN put \subseteq 1..len
    /\ kind = "memstream" =>
          /\ len < Len(buf)
          /\ published = Smaller(pos, len)
          /\ \A i \in DOMAIN buf :
                \/ buf[i] = (IF i \in DOMAIN put THEN put[i] ELSE 0)
                \/ ~ memOpen /\ i > published
          /\ ~ memOpen => buf[published + 1] = 0
    /\ kind \in Modes =>
          /\ len <= MemSize /\ pos <= MemSize
          /\ \A i \in DOMAIN put : buf[i] = put[i] \/ (i = MemSize /\ ~ MemReadable /\ buf[i] = 0)
          /\ DOMAIN put # {} /\ len < MemSize => buf[len + 1] = 0
=============================================================================
