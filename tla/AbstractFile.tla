---------------------------- MODULE AbstractFile ----------------------------
(***************************************************************************)
(* What a stream promises: a file, a position in it, and characters pushed *)
(* back before that position.  `store' is what has reached the file, which *)
(* may lag behind `content', what the callers wrote.  Short counts come    *)
(* with the error or the end-of-file indicator.                            *)
(***************************************************************************)
EXTENDS Naturals, Sequences

CONSTANTS Hole          \* what a file holds between its end and a write beyond it

VARIABLES store, content,
          base,         \* where reading goes on after the pushed back characters
          back,         \* the pushed back characters
          error, eof,   \* the two indicators
          torn,         \* a transfer failed half way: nothing is promised any more
          seekable,     \* FALSE: a pipe or the like
          res           \* what the last call returned

vars == <<store, content, base, back, error, eof, torn, seekable, res>>

Overlay(c, at, b) ==
    IF b = <<>> THEN c
    ELSE [i \in 1 .. IF at + Len(b) > Len(c) THEN at + Len(b) ELSE Len(c) |->
            IF i > at /\ i <= at + Len(b) THEN b[i - at] ELSE IF i <= Len(c) THEN c[i] ELSE Hole]

Tell  == base - Len(back)
Ahead == back \o SubSeq(content, base + 1, Len(content))
Drop(s, k) == SubSeq(s, k + 1, Len(s))

Read ==
    /\ res'.op = "read"
    /\ LET k == Len(res'.bytes)
       IN  /\ k <= Len(Ahead) /\ res'.bytes = SubSeq(Ahead, 1, k)
           /\ k < res'.asked => eof' \/ error'
           /\ back' = Drop(back, k)
           /\ base' = IF k > Len(back) THEN base + k - Len(back) ELSE base
           /\ eof' /\ ~ eof => k = Len(Ahead) \/ error'
    /\ UNCHANGED content

\* The position is settled first: what was pushed back is forgotten
Write ==
    /\ res'.op = "write" /\ Tell >= 0
    /\ content' = Overlay(content, Tell, SubSeq(res'.asked, 1, res'.done))
    /\ base' = Tell + res'.done /\ back' = <<>>
    /\ res'.done < Len(res'.asked) => error'
    /\ UNCHANGED eof

Settled == Tell >= 0 /\ base' = Tell /\ back' = <<>> /\ UNCHANGED content

Flush ==
    /\ res'.op = "flush" /\ (res'.ok => store' = content')
    /\ IF seekable THEN Settled ELSE UNCHANGED <<content, base, back>>
    /\ UNCHANGED eof

Seek ==
    /\ res'.op = "seek" /\ seekable /\ back' = <<>>
    /\ IF res'.ok THEN base' = res'.to /\ ~ eof' /\ store' = content' ELSE Settled /\ UNCHANGED eof
    /\ UNCHANGED content

Unread ==
    /\ res'.op = "unread" /\ res'.ok
    /\ back' = <<res'.byte>> \o back
    /\ ~ eof'
    /\ UNCHANGED <<content, base>>

Position ==
    /\ res'.op = "tell" /\ res'.ok = seekable /\ (res'.ok => res'.to = Tell)
    /\ UNCHANGED <<content, base, back, eof>>

\* The call failed and says so, or is none of these: nothing is lost
Nothing ==
    /\ res'.op \in {"write", "seek", "flush", "unread", "other"}
    /\ res'.op = "write" => res'.done = 0 /\ error'
    /\ res'.op \in {"seek", "flush", "unread"} => ~ res'.ok
    /\ eof' => eof
    /\ UNCHANGED <<content, base, back>>

Next == UNCHANGED seekable /\ (torn' \/ Read \/ Write \/ Flush \/ Seek \/ Unread \/ Position \/ Nothing)

Init == store = content /\ back = <<>>

Spec == Init /\ [][Next]_vars
=============================================================================
