------------------------------- MODULE Stream -------------------------------
(***************************************************************************)
(* One buffered stream, stdio/file.c: the buffer, its two cursors and its  *)
(* direction, over a descriptor that may transfer less than it was asked   *)
(* for, ask to try again, or fail.  A call holds the stream's lock from    *)
(* beginning to end and is one action.                                     *)
(*                                                                         *)
(* s collects the FILE and what the kernel knows of the descriptor.  A     *)
(* stream that is not seekable is read or written, not both.               *)
(***************************************************************************)
EXTENDS Integers, Sequences, FiniteSets, SequencesExt, FiniteSetsExt

CONSTANTS BufSize,      \* BUFSIZ
          NewLine, Hole,
          Texts,        \* what the callers write, and what a file may hold at first
          Offsets,      \* where the callers seek to
          MaxFile,      \* bound: length of the file
          MaxCall       \* bound: bytes read by one call

VARIABLES s,
          pushed,       \* history: unread bytes that were pushed back
          res           \* history: what the last call returned
fileVars == <<s, pushed, res>>

Unbuffered == <<>>                              \* stream->buffer == NULL
Staged == SubSeq(s.buffer, 1, s.bufpos)         \* bytes to be written
Unread == SubSeq(s.buffer, s.bufpos + 1, s.bufeof)

Readable(f) == f.mode # "w"
Writable(f) == f.mode # "r"

Drop(q, k) == SubSeq(q, k + 1, Len(q))
Overlay(c, at, b) ==
    IF b = <<>> THEN c
    ELSE [i \in 1 .. Max({Len(c), at + Len(b)}) |->
            IF i \in at + 1 .. at + Len(b) THEN b[i - at] ELSE IF i <= Len(c) THEN c[i] ELSE Hole]

-----------------------------------------------------------------------------
(* The descriptor.  Outcomes <<f, n>>: n bytes, or -1 although some may have gone *)

PutOut(f, b) == [f EXCEPT !.file = Overlay(@, f.off, b), !.off = @ + Len(b)]

\* full_write(): all of b; a part, the descriptor would block; or an error, perhaps after a part
FullWrite(f, b) ==
    IF ~ Writable(f) THEN {<<f, -1>>}
    ELSE {<<PutOut(f, b), Len(b)>>}
         \cup {<<PutOut(f, SubSeq(b, 1, k)), k>> : k \in 0 .. Len(b) - 1}
         \cup {<<[PutOut(f, SubSeq(b, 1, k)) EXCEPT !.torn = @ \/ k > 0], -1>> : k \in 0 .. Len(b) - 1}

\* The reading loops: at least `need' bytes and at most `room', unless the file
\* ends, the descriptor would block, or an error ends the call with its bytes lost
ReadLoop(f, need, room) ==
    LET left == Drop(f.file, f.off)
        Got(k) == [f EXCEPT !.off = @ + k]
        Some(k) == SubSeq(left, 1, k)
        most == Min({room, Len(left)})
    IN  IF ~ Readable(f) THEN {<<[f EXCEPT !.error = TRUE], <<>>, -1>>}
        ELSE {<<Got(k), Some(k), k>> : k \in need .. most}
             \cup {<<[Got(k) EXCEPT !.eof = TRUE], Some(k), k>> :
                      k \in {x \in {Len(left), room} : x < need /\ x <= most}}
             \cup {<<[Got(k) EXCEPT !.error = TRUE], Some(k), k>> : k \in 0 .. Min({most, need - 1})}
             \cup {<<[Got(k) EXCEPT !.error = TRUE, !.torn = @ \/ k > 0], <<>>, -1>> :
                      k \in 0 .. Min({most, need - 1})}
ReadData(f, n) == ReadLoop(f, n, n)

-----------------------------------------------------------------------------
(* Flushing.  Outcomes <<f, ok>> *)

Consume(f, k) ==    \* the first k staged bytes went out: bufpos, memmove()
    [f EXCEPT !.bufpos = @ - k,
              !.buffer = Drop(SubSeq(@, 1, f.bufpos), k) \o SubSeq(@, f.bufpos - k + 1, f.bufsz)]

\* Mutant: a short write leaves all of it to be written again
FlushOutput_Whole(f) ==
    {IF r[2] = f.bufpos THEN <<Consume(r[1], r[2]), TRUE>>
     ELSE <<[r[1] EXCEPT !.error = TRUE], FALSE>> : r \in FullWrite(f, SubSeq(f.buffer, 1, f.bufpos))}

FlushOutput(f) ==
    {IF r[2] = f.bufpos THEN <<Consume(r[1], r[2]), TRUE>>
     ELSE <<[IF r[2] > 0 THEN Consume(r[1], r[2]) ELSE r[1] EXCEPT !.error = TRUE], FALSE>> :
        r \in FullWrite(f, SubSeq(f.buffer, 1, f.bufpos))}

\* What was read ahead goes back to the file, if it can be sought in
FlushInput(f) ==
    LET to == f.off + f.bufpos - f.bufeof
    IN  IF f.bufpos = f.bufeof \/ ~ f.seekable THEN {<<f, TRUE>>}
        ELSE IF to < 0 THEN {<<[f EXCEPT !.error = TRUE], FALSE>>}
        ELSE {<<[f EXCEPT !.off = to, !.bufpos = f.bufsz, !.bufeof = f.bufsz], TRUE>>}

FlushOne(f) ==
    IF f.buffer = Unbuffered THEN {<<f, TRUE>>}
    ELSE IF f.writing THEN FlushOutput(f) ELSE FlushInput(f)

-----------------------------------------------------------------------------
(* fread_unlocked().  A job: the stream, what was read, what is still asked for *)

StartReading(f) ==
    IF ~ f.writing THEN {<<f, TRUE>>}
    ELSE {IF r[2] THEN <<[r[1] EXCEPT !.writing = FALSE, !.bufpos = f.bufsz, !.bufeof = f.bufsz], TRUE>>
          ELSE r : r \in FlushOne(f)}

Unbuffer(j) ==
    LET k == Min({j.f.bufeof - j.f.bufpos, j.n})
    IN  [f |-> [j.f EXCEPT !.bufpos = @ + k], n |-> j.n - k, stop |-> j.stop,
         got |-> j.got \o SubSeq(j.f.buffer, j.f.bufpos + 1, j.f.bufpos + k)]

\* Whole blocks are read past the buffer.  After an error the call goes on: -1,
\* compared as an unsigned number, is not less than the bytes asked for.
ReadBlocks(j) ==
    IF j.n < j.f.bufsz THEN {j}
    ELSE LET bytes == (j.n \div j.f.bufsz) * j.f.bufsz
         IN  {[f |-> r[1], got |-> j.got \o r[2], n |-> j.n - Len(r[2]),
               stop |-> r[3] \in 0 .. bytes - 1] : r \in ReadData(j.f, bytes)}

Refilled(f, b) ==
    IF b = <<>> THEN f
    ELSE [f EXCEPT !.bufpos = 0, !.bufeof = Len(b), !.buffer = b \o Drop(@, Len(b))]
ReadRest(j) ==
    IF j.stop \/ j.n = 0 THEN {j}
    ELSE {IF r[3] < 0 THEN [j EXCEPT !.f = r[1]] ELSE Unbuffer([j EXCEPT !.f = Refilled(r[1], r[2])]) :
            r \in ReadLoop(j.f, j.n, j.f.bufsz)}

FreadBuffered(f, n) ==
    UNION {IF ~ r[2] THEN {[f |-> r[1], got |-> <<>>]}
           ELSE UNION {ReadRest(j) : j \in
                   ReadBlocks(Unbuffer([f |-> r[1], got |-> <<>>, n |-> n, stop |-> FALSE]))} :
              r \in StartReading(f)}

FreadOutcomes(f, n) ==
    IF f.buffer = Unbuffered THEN {[f |-> r[1], got |-> r[2]] : r \in ReadData(f, n)}
    ELSE IF f.mode = "w" THEN {[f |-> [f EXCEPT !.error = TRUE], got |-> <<>>]}
    ELSE FreadBuffered(f, n)

-----------------------------------------------------------------------------
(* fwrite_unlocked().  A job: the stream, and what has not been accepted *)

StartWriting(f) ==
    IF f.writing THEN {<<f, TRUE>>}
    ELSE {IF r[2] /\ r[1].bufpos = r[1].bufeof
          THEN <<[r[1] EXCEPT !.writing = TRUE, !.bufpos = 0], TRUE>>
          ELSE <<r[1], FALSE>> : r \in FlushOne(f)}

\* buffer_data()
Fill(j) ==
    LET k == Min({j.f.bufsz - j.f.bufpos, Len(j.rest)})
        b == SubSeq(j.rest, 1, k)
    IN  [f |-> [j.f EXCEPT !.bufpos = @ + k,
                           !.buffer = SubSeq(@, 1, j.f.bufpos) \o b \o Drop(@, j.f.bufpos + k)],
         rest |-> Drop(j.rest, k), stop |-> j.stop]

\* write_buffer(), write_data(): a short write sets the error indicator
WriteBuffer(f, n) ==
    {<<[IF r[2] > 0 THEN Consume(r[1], r[2]) ELSE r[1] EXCEPT !.error = @ \/ r[2] < n], r[2]>> :
        r \in FullWrite(f, SubSeq(f.buffer, 1, n))}
WriteData(f, b) ==
    {<<[r[1] EXCEPT !.error = @ \/ r[2] < Len(b)], r[2]>> : r \in FullWrite(f, b)}

\* n bytes were offered and r taken, of the rest if it is written directly.  What
\* was not taken at once is buffered and ends the call.  An error does not: -1,
\* compared as an unsigned number, is not less than n.
Offered(j, r, n, direct) ==
    LET short == r[2] \in 0 .. n - 1
        next  == [j EXCEPT !.f = r[1], !.stop = short,
                           !.rest = IF direct THEN Drop(@, Max({r[2], 0})) ELSE @]
    IN  IF short /\ r[2] > 0 THEN Fill(next) ELSE next

FlushFull(j) ==
    IF j.f.bufpos # j.f.bufsz THEN {j}
    ELSE {Offered(j, r, j.f.bufsz, FALSE) : r \in WriteBuffer(j.f, j.f.bufsz)}

Straight(j, n) ==
    IF j.stop \/ n = 0 THEN {j}
    ELSE {Offered(j, r, n, TRUE) : r \in WriteData(j.f, SubSeq(j.rest, 1, n))}

LastLine(b) == Max({0} \cup {i \in 1 .. Len(b) : b[i] = NewLine})

WriteLines(j)  == Straight(j, IF j.f.line THEN LastLine(j.rest) ELSE 0)
WriteBlocks(j) == Straight(j, (Len(j.rest) \div j.f.bufsz) * j.f.bufsz)

FlushLines(j) ==
    LET n == IF j.f.line THEN LastLine(SubSeq(j.f.buffer, 1, j.f.bufpos)) ELSE 0
    IN  IF n = 0 THEN {j} ELSE {[j EXCEPT !.f = r[1]] : r \in WriteBuffer(j.f, n)}

WriteRest(j) ==
    IF j.stop THEN {j}
    ELSE IF j.f.bufpos = 0
    THEN {IF k.stop THEN k ELSE Fill(k) : k \in UNION {WriteLines(k) : k \in WriteBlocks(j)}}
    ELSE FlushLines(j)

FwriteBuffered(f, b) ==
    UNION {IF ~ r[2] THEN {[f |-> r[1], rest |-> b, stop |-> TRUE]}
           ELSE LET j == [f |-> r[1], rest |-> b, stop |-> FALSE]
                IN  UNION {WriteRest(k) : k \in
                        FlushFull(IF r[1].bufpos \in 1 .. r[1].bufsz - 1 THEN Fill(j) ELSE j)} :
              r \in StartWriting(f)}

FwriteOutcomes(f, b) ==
    IF f.buffer = Unbuffered
    THEN {[f |-> r[1], rest |-> Drop(b, Max({r[2], 0}))] : r \in WriteData(f, b)}
    ELSE IF f.mode = "r" THEN {[f |-> [f EXCEPT !.error = TRUE], rest |-> b]}
    ELSE FwriteBuffered(f, b)

-----------------------------------------------------------------------------
(* The calls *)

UnreadOf(f) == IF f.writing \/ f.buffer = Unbuffered THEN 0 ELSE f.bufeof - f.bufpos
\* Bytes outside the cursors are not remembered: to read one would show
Cleaned(f) ==
    [f EXCEPT !.buffer = [i \in DOMAIN @ |->
        IF i \in (IF f.writing THEN 1 ELSE f.bufpos + 1) .. (IF f.writing THEN f.bufpos ELSE f.bufeof)
        THEN @[i] ELSE Hole]]
Done(f, back, r) ==
    /\ s' = Cleaned(f) /\ res' = r
    /\ pushed' = Min({back, UnreadOf(f)})
    /\ Len(f.file) <= MaxFile /\ f.off <= MaxFile

Fread(n) == \E o \in FreadOutcomes(s, n) :
    Done(o.f, Max({0, pushed - Len(o.got)}), [op |-> "read", asked |-> n, bytes |-> o.got])

\* The end-of-file indicator is sticky for the functions that read characters
Fgetc ==
    IF s.eof THEN Done(s, pushed, [op |-> "read", asked |-> 1, bytes |-> <<>>]) ELSE Fread(1)

Fwrite(b) == \E o \in FwriteOutcomes(s, b) :
    Done(o.f, pushed, [op |-> "write", asked |-> b, done |-> Len(b) - Len(o.rest)])

Fflush == \E r \in FlushOne(s) : Done(r[1], pushed, [op |-> "flush", ok |-> r[2]])

\* lseek() to an absolute position, a distance from here, or the end
Target(f, whence, d) ==
    CASE whence = "set" -> d [] whence = "cur" -> f.off + d [] whence = "end" -> Len(f.file)
Fseek(whence, d) == \E r \in FlushOne(s) :
    LET to == Target(r[1], whence, d)
        ok == r[2] /\ s.seekable /\ to >= 0
    IN  Done(IF ok THEN [r[1] EXCEPT !.off = to, !.eof = FALSE] ELSE r[1], pushed,
             IF ok THEN [op |-> "seek", ok |-> TRUE, to |-> to] ELSE [op |-> "seek", ok |-> FALSE])

Ftell ==
    Done(s, pushed, IF ~ s.seekable THEN [op |-> "tell", ok |-> FALSE]
                    ELSE [op |-> "tell", ok |-> TRUE,
                          to |-> IF s.buffer = Unbuffered THEN s.off
                                 ELSE IF s.writing THEN s.off + s.bufpos
                                 ELSE s.off - (s.bufeof - s.bufpos)])

\* There is room for a character when some were read or the stream was flushed
Ungetc(c) ==
    IF s.buffer = Unbuffered
    THEN Done(s, pushed, [op |-> "unread", ok |-> FALSE])
    ELSE \E r \in StartReading(s) :
        IF r[2] /\ r[1].bufpos > 0
        THEN Done([r[1] EXCEPT !.buffer[r[1].bufpos] = c, !.bufpos = @ - 1, !.eof = FALSE],
                  pushed + 1, [op |-> "unread", ok |-> TRUE, byte |-> c])
        ELSE Done(r[1], pushed, [op |-> "unread", ok |-> FALSE])

Clearerr == Done([s EXCEPT !.error = FALSE, !.eof = FALSE], pushed, [op |-> "other"])

\* setvbuf(), as long as nothing is in the buffer.  A buffer of the size the
\* stream has is kept, its cursors too.
Setvbuf(mode) ==
    /\ s.buffer = Unbuffered \/ (IF s.writing THEN s.bufpos = 0 ELSE s.bufpos = s.bufeof)
    /\ LET keep == mode # "none" /\ s.buffer # Unbuffered
           f == [s EXCEPT !.line = mode = "line",
                          !.buffer = IF mode = "none" THEN Unbuffered
                                     ELSE IF keep THEN @ ELSE [i \in 1 .. BufSize |-> Hole]]
       IN  Done(IF keep THEN f ELSE [f EXCEPT !.bufpos = 0, !.bufeof = 0], pushed, [op |-> "other"])

\* A stream opened by fopen(), or stdin and stdout as _file_init() makes them
Opened(mode, seekable, file) ==
    [buffer |-> [i \in 1 .. BufSize |-> Hole], bufsz |-> BufSize, bufpos |-> 0, bufeof |-> 0,
     writing |-> FALSE, line |-> FALSE, error |-> FALSE, eof |-> FALSE,
     mode |-> mode, seekable |-> seekable, file |-> file, off |-> 0, torn |-> FALSE]
Standard(f) ==
    IF f.mode = "r" THEN [f EXCEPT !.bufpos = BufSize, !.bufeof = BufSize]
    ELSE [f EXCEPT !.writing = TRUE]

Bytes == UNION {ToSet(b) : b \in Texts}

StreamAssumption ==
    BufSize \in Nat \ {0} /\ Texts \subseteq Seq(Bytes) /\ Offsets \subseteq Int /\ MaxCall \in Nat

FileInit ==
    /\ \E mode \in {"r", "w", "rw"}, seekable \in BOOLEAN, file \in Texts \cup {<<>>} :
          /\ mode = "rw" => seekable
          /\ mode = "w" => file = <<>>
          /\ LET f == Opened(mode, seekable, file)
             IN  s \in {f} \cup (IF mode = "rw" THEN {} ELSE {Standard(f)})
    /\ pushed = 0
    /\ res = [op |-> "other"]

Calls ==
    \/ \E n \in 1 .. MaxCall : Fread(n)
    \/ Fgetc
    \/ \E b \in Texts : Fwrite(b)
    \/ Fflush
    \/ \E d \in Offsets : Fseek("set", d)
    \/ \E d \in {-1, 1} : Fseek("cur", d)
    \/ Fseek("end", 0)
    \/ Ftell
    \/ Readable(s) /\ \E c \in Bytes : Ungetc(c)
    \/ Clearerr
    \/ \E mode \in {"none", "line", "full"} : Setvbuf(mode)

\* Nothing is promised after an error in the middle of a transfer
FileNext == ~ s.torn /\ Calls

FileSpec == FileInit /\ [][FileNext]_fileVars

-----------------------------------------------------------------------------
(* Properties *)

Buffering == s.buffer # Unbuffered
Abstract == INSTANCE AbstractFile WITH
    store   <- s.file,
    content <- IF Buffering /\ s.writing THEN Overlay(s.file, s.off, Staged) ELSE s.file,
    base    <- IF ~ Buffering THEN s.off
               ELSE IF s.writing THEN s.off + s.bufpos ELSE s.off - (Len(Unread) - pushed),
    back    <- IF Buffering /\ ~ s.writing THEN SubSeq(Unread, 1, pushed) ELSE <<>>,
    error <- s.error, eof <- s.eof, torn <- s.torn, seekable <- s.seekable

\* Whatever the sizes of the calls and of the descriptor's answers, and whatever
\* the calls' order, the stream is a file with one position: every byte accepted
\* is written once, in order and at its place, every byte of the file is read
\* once, a short count has a reason the caller can see, and a flush or a seek
\* that succeeds leaves nothing behind.
ImplementsFile == Abstract!Spec
=============================================================================
