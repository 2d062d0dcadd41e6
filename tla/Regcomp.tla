------------------------------ MODULE Regcomp -------------------------------
(***************************************************************************)
(* regex/regcomp.c: from the text of a regular expression to a strip, the  *)
(* sequence of operators whose operands are distances to other operators.  *)
(* Insertions move what was already emitted, so that distances are wrong   *)
(* until they are fixed, and parentheses are remembered by position.       *)
(*                                                                         *)
(* A text is a sequence of tokens: characters, and the name of a class     *)
(* between colons as one token.  The operand of OANYOF is the set itself.  *)
(* An error empties the rest of the text, after which the parser comes to  *)
(* its end without emitting anything.                                      *)
(***************************************************************************)
EXTENDS Integers, Sequences, SequencesExt

CONSTANTS
    Char,       \* a sequence of all characters, in the order ranges use
    Class,      \* name of a class of characters |-> its characters
    Othercase,  \* letter |-> its counterpart
    Newline,
    DupMax,     \* DUPMAX
    NoLimit     \* INFINITY, more than DupMax

Alphabet == Range(Char)
Code(c) == CHOOSE i \in DOMAIN Char : Char[i] = c

Digit == [d \in {"0", "1", "2", "3", "4", "5", "6", "7", "8", "9"} |->
            CHOOSE n \in 0..9 : ToString(n) = d]
IsDigit(c) == c \in DOMAIN Digit

\* Parentheses that back references can name
Parens == 1..9

-----------------------------------------------------------------------------
(* struct parse *)

Parse(text, flags) ==
    [rest |-> text, error |-> "ok", strip |-> <<>>, nsub |-> 0, flags |-> flags,
     pbegin |-> [i \in Parens |-> 0], pend |-> [i \in Parens |-> 0],
     nbol |-> 0, neol |-> 0, backrefs |-> FALSE]

More(p) == p.rest # <<>>
See(p, c) == More(p) /\ Head(p.rest) = c
SeeTwo(p, c, d) == Len(p.rest) > 1 /\ p.rest[1] = c /\ p.rest[2] = d
SeeDigit(p, i) == Len(p.rest) >= i /\ IsDigit(p.rest[i])
Skip(p, n) == [p EXCEPT !.rest = SubSeq(@, n + 1, Len(@))]

seterr(p, e) == [p EXCEPT !.error = IF @ = "ok" THEN e ELSE @, !.rest = <<>>]
Require(p, holds, e) == IF holds THEN p ELSE seterr(p, e)
MustEat(p, c, e) == IF See(p, c) THEN Skip(p, 1) ELSE seterr(p, e)
MustEatTwo(p, c, d, e) == IF SeeTwo(p, c, d) THEN Skip(p, 2) ELSE seterr(p, e)

\* Operators count from 0
Here(p) == Len(p.strip)
There(p) == Here(p) - 1

doemit(p, op, opnd) ==
    IF p.error # "ok" THEN p ELSE [p EXCEPT !.strip = Append(@, [op |-> op, n |-> opnd])]

doinsert(p, op, pos) ==
    LET Moved(where) == [i \in Parens |-> IF where[i] >= pos THEN where[i] + 1 ELSE where[i]]
    IN  IF p.error # "ok" THEN p
        ELSE [p EXCEPT !.strip = InsertAt(@, pos + 1, [op |-> op, n |-> Here(p) - pos + 1]),
                       !.pbegin = Moved(@), !.pend = Moved(@)]

Ahead(p, pos) ==
    IF p.error # "ok" THEN p ELSE [p EXCEPT !.strip[pos + 1].n = Here(p) - pos]
Astern(p, op, pos) == doemit(p, op, Here(p) - pos)

dupl(p, start, finish) == [p EXCEPT !.strip = @ \o SubSeq(@, start + 1, finish)]

\* The second branch of a choice, empty, and the end of the choice
Empty(p) ==
    LET q == doemit(p, "OOR2", 0)
    IN  Astern(Ahead(q, There(q)), "O_CH", There(q) - 1)

\* y? is made as (y|)
Optional(p, pos) ==
    Empty(Ahead(Astern(doinsert(p, "OCH_", pos), "OOR1", pos), pos))

Plus(p, pos) == Astern(doinsert(p, "OPLUS_", pos), "O_PLUS", pos)
Star(p, pos) == Astern(doinsert(Plus(p, pos), "OQUEST_", pos), "O_QUEST", pos)

-----------------------------------------------------------------------------
(* Sets of characters *)

RECURSIVE p_b_terms(_, _)
RECURSIVE p_bracket(_)
RECURSIVE ordinary(_, _)

p_b_symbol(p) ==
    IF ~SeeTwo(p, "[", ".") THEN [p |-> Skip(p, 1), c |-> Head(p.rest)]
    ELSE IF Len(p.rest) < 3 THEN [p |-> seterr(p, "EBRACK"), c |-> Char[1]]
    ELSE [p |-> MustEatTwo(Skip(p, 3), ".", "]", "ECOLLATE"), c |-> p.rest[3]]

\* [:name:]
p_b_cclass(p) ==
    LET name == p.rest[3]
    IN  IF Len(p.rest) < 3 THEN [p |-> seterr(p, "EBRACK"), set |-> {}]
        ELSE IF name \notin DOMAIN Class THEN [p |-> seterr(p, "ECTYPE"), set |-> {}]
        ELSE [p |-> MustEatTwo(Skip(p, 3), ":", "]", "ECTYPE"), set |-> Class[name]]

\* [=c=]
p_b_eclass(p) ==
    IF Len(p.rest) < 3 THEN [p |-> seterr(p, "EBRACK"), set |-> {}]
    ELSE [p |-> MustEatTwo(Skip(p, 3), "=", "]", "ECOLLATE"), set |-> {p.rest[3]}]

\* A character, or a range of them
Span(p, start, finish) ==
    LET set == {c \in Alphabet : Code(start) <= Code(c) /\ Code(c) <= Code(finish)}
    IN  [p |-> Require(p, set # {}, "ERANGE"), set |-> set]
SpanTo(start, finish) == Span(finish.p, start, finish.c)
SpanFrom(start) ==
    IF See(start.p, "-") /\ Len(start.p.rest) > 1 /\ start.p.rest[2] # "]"
      THEN SpanTo(start.c, p_b_symbol(Skip(start.p, 1)))
      ELSE SpanTo(start.c, start)
Characters(p) == SpanFrom(p_b_symbol(p))

p_b_term(p) ==
    CASE SeeTwo(p, "[", ":") -> p_b_cclass(p)
      [] SeeTwo(p, "[", "=") -> p_b_eclass(p)
      [] See(p, "-") -> [p |-> seterr(p, "ERANGE"), set |-> {}]
      [] OTHER -> Characters(p)

p_b_terms(p, set) ==
    IF More(p) /\ ~See(p, "]") /\ ~SeeTwo(p, "-", "]")
      THEN LET term == p_b_term(p) IN p_b_terms(term.p, set \cup term.set)
      ELSE [p |-> p, set |-> set]

\* An ordinary character; with REG_ICASE a letter is a bracket of its own
ordinary(p, c) ==
    IF p.flags.icase /\ c \in DOMAIN Othercase
      THEN [p_bracket([p EXCEPT !.rest = <<c, "]">>]) EXCEPT !.rest = p.rest]
      ELSE doemit(p, "OCHAR", c)

Listed(p) ==
    IF See(p, "]") \/ See(p, "-") THEN p_b_terms(Skip(p, 1), {Head(p.rest)}) ELSE p_b_terms(p, {})
WithDash(term) ==
    IF See(term.p, "-") THEN [p |-> Skip(term.p, 1), set |-> term.set \cup {"-"}] ELSE term

BothCases(p, set) ==
    IF p.flags.icase THEN set \cup {Othercase[c] : c \in set \cap DOMAIN Othercase} ELSE set
Inverted(p, set) == (Alphabet \ set) \ (IF p.flags.newline THEN {Newline} ELSE {})

EmitSet(p, set) ==
    IF p.error # "ok" THEN p
    ELSE IF \E c \in set : set = {c} THEN ordinary(p, CHOOSE c \in set : TRUE)
    ELSE doemit(p, "OANYOF", set)

p_bracket(p) ==
    LET Set(list) == EmitSet(MustEat(list.p, "]", "EBRACK"), BothCases(list.p, list.set))
        Complement(list) ==
            EmitSet(MustEat(list.p, "]", "EBRACK"), Inverted(list.p, BothCases(list.p, list.set)))
    IN  IF IsPrefix(<<"[", ":", "<", ":", "]", "]">>, p.rest) THEN doemit(Skip(p, 6), "OBOW", 0)
        ELSE IF IsPrefix(<<"[", ":", ">", ":", "]", "]">>, p.rest) THEN doemit(Skip(p, 6), "OEOW", 0)
        ELSE IF See(p, "^") THEN Complement(WithDash(Listed(Skip(p, 1))))
        ELSE Set(WithDash(Listed(p)))

Anything(p) ==
    IF p.flags.newline
      THEN [p_bracket([p EXCEPT !.rest = <<"^", Newline, "]">>]) EXCEPT !.rest = p.rest]
      ELSE doemit(p, "OANY", 0)

Quoted(p) ==
    IF More(p) THEN ordinary(Skip(p, 1), Head(p.rest)) ELSE seterr(p, "EESCAPE")

-----------------------------------------------------------------------------
(* Repetition *)

RECURSIVE repeat(_, _, _, _)
RECURSIVE p_counted(_, _)

\* The operand is what was emitted from start on
repeat(p, start, from, to) ==
    LET finish == Here(p)
        twice == Optional(p, start)
        once == repeat(doinsert(p, "OCH_", start), start + 1, 1, to)
    IN  IF p.error # "ok" THEN p
        ELSE CASE to = 0 -> [p EXCEPT !.strip = SubSeq(@, 1, start)]
               [] from = 0 /\ to > 0 -> Empty(Ahead(Astern(once, "OOR1", start), start))
               [] from = 1 /\ to = 1 -> p
               [] from = 1 /\ to = NoLimit -> Plus(p, start)
               [] from = 1 /\ to \in 2..DupMax ->
                    repeat(dupl(twice, start + 1, finish + 1), Here(twice), 1, to - 1)
               [] from > 1 ->
                    repeat(dupl(p, start, finish), finish, from - 1,
                           IF to = NoLimit THEN to ELSE to - 1)

p_counted(p, n) ==
    IF SeeDigit(p, 1) /\ n <= DupMax
      THEN p_counted(Skip(p, 1), n * 10 + Digit[Head(p.rest)])
      ELSE [p |-> p, n |-> n]

p_count(p) ==
    LET q == p_counted(p, 0)
    IN  [q EXCEPT !.p = Require(@, SeeDigit(p, 1) /\ q.n <= DupMax, "BADBR")]

\* The number behind a comma, or none; or else the first one again
Upper(from) ==
    LET q == Skip(from.p, 1)
    IN  IF ~See(from.p, ",") THEN from
        ELSE IF SeeDigit(q, 1) THEN p_count(q)
        ELSE [p |-> q, n |-> NoLimit]

\* The brace, the token or the two tokens `close', must follow
MustClose(p, close) ==
    IF IsPrefix(close, p.rest) THEN Skip(p, Len(close))
    ELSE seterr(p, IF \E i \in DOMAIN p.rest : IsPrefix(close, SubSeq(p.rest, i, Len(p.rest)))
                     THEN "BADBR" ELSE "EBRACE")

\* From behind the brace to its end
Bounds(p, pos, close) ==
    LET UpTo(from, to) == repeat(Require(to.p, from <= to.n, "BADBR"), pos, from, to.n)
        From(from) == UpTo(from.n, Upper(from))
    IN  MustClose(From(p_count(p)), close)

-----------------------------------------------------------------------------
(* Extended expressions *)

RECURSIVE p_ere(_, _)
RECURSIVE p_ere_concat(_, _)
RECURSIVE p_ere_branches(_, _, _, _)

Repetition(p) ==
    \/ See(p, "*") \/ See(p, "+") \/ See(p, "?")
    \/ See(p, "{") /\ SeeDigit(p, 2)

\* The number of a parenthesis that opens here, and of one that closes
Opened(p) ==
    LET n == p.nsub + 1
        q == [p EXCEPT !.nsub = n, !.pbegin = IF n \in Parens THEN [@ EXCEPT ![n] = Here(p)] ELSE @]
    IN  doemit(q, "OLPAREN", n)
Closed(p, n) ==
    doemit([p EXCEPT !.pend = IF n \in Parens THEN [@ EXCEPT ![n] = Here(p)] ELSE @], "ORPAREN", n)

Bol(p) == [doemit(p, "OBOL", 0) EXCEPT !.nbol = @ + 1]
Eol(p) == [doemit(p, "OEOL", 0) EXCEPT !.neol = @ + 1]

p_ere_atom(p) ==
    LET c == Head(p.rest)
        q == Skip(p, 1)
        o == Opened(Require(q, More(q), "EPAREN"))
    IN  CASE c = "(" -> MustEat(Closed(IF See(o, ")") THEN o ELSE p_ere(o, ")"), p.nsub + 1),
                                ")", "EPAREN")
          [] c = ")" -> seterr(q, "EPAREN")
          [] c = "^" -> Bol(q)
          [] c = "$" -> Eol(q)
          [] c \in {"*", "+", "?"} -> seterr(q, "BADRPT")
          [] c = "." -> Anything(q)
          [] c = "[" -> p_bracket(q)
          [] c = "\\" -> Quoted(q)
          [] c = "{" -> ordinary(Require(q, ~SeeDigit(q, 1), "BADRPT"), c)
          [] OTHER -> ordinary(q, c)

p_ere_exp(p) ==
    LET pos == Here(p)
        Repeated(c, q) == CASE c = "*" -> Star(q, pos)
                            [] c = "+" -> Plus(q, pos)
                            [] c = "?" -> Optional(q, pos)
                            [] c = "{" -> Bounds(q, pos, <<"}">>)
        Once(q) == Require(q, ~Repetition(q), "BADRPT")
        Suffix(q) ==
            IF ~Repetition(q) THEN q
            ELSE Once(Repeated(Head(q.rest), Require(Skip(q, 1), Head(p.rest) # "^", "BADRPT")))
    IN  Suffix(p_ere_atom(p))

p_ere_concat(p, stop) ==
    IF More(p) /\ Head(p.rest) \notin {"|", stop} THEN p_ere_concat(p_ere_exp(p), stop) ELSE p

NotEmpty(q, from) == Require(q, Here(q) # from, "EMPTY")

\* `back' and `fwd' are the operators whose distances lead back from and on to this branch
p_ere_branches(p, stop, back, fwd) ==
    LET conc == Here(p)
        first == back = 0
        Opening(q) == IF first THEN doinsert(q, "OCH_", conc) ELSE q
        Linked(q) == Ahead(Astern(q, "OOR1", IF first THEN conc ELSE back),
                           IF first THEN conc ELSE fwd)
        Further(q) == p_ere_branches(doemit(q, "OOR2", 0), stop, There(q), Here(q))
        Branch(q) ==
            IF See(q, "|") THEN Further(Linked(Opening(Skip(q, 1))))
            ELSE IF first THEN q
            ELSE Astern(Ahead(q, fwd), "O_CH", back)
    IN  Branch(NotEmpty(p_ere_concat(p, stop), conc))

p_ere(p, stop) == p_ere_branches(p, stop, 0, 0)

-----------------------------------------------------------------------------
(* Basic expressions *)

RECURSIVE p_bre(_, _)
RECURSIVE p_bre_concat(_, _, _, _)

BackReference(p, i) ==
    IF p.pend[i] = 0 THEN seterr(p, "ESUBREG")
    ELSE LET q == doemit(p, "OBACK_", i)
         IN  [doemit(dupl(q, p.pbegin[i] + 1, p.pend[i]), "O_BACK", i) EXCEPT !.backrefs = TRUE]

p_simp_atom(p, starordinary) ==
    LET quoted == See(p, "\\")
        q == IF quoted THEN Skip(p, 2) ELSE Skip(p, 1)
        c == IF quoted THEN p.rest[2] ELSE p.rest[1]
        o == Opened(q)
    IN  IF quoted /\ Len(p.rest) = 1 THEN seterr(p, "EESCAPE")
        ELSE IF quoted
          THEN CASE c = "{" -> seterr(q, "BADRPT")
                 [] c = "(" ->
                      MustEatTwo(Closed(IF More(o) /\ ~SeeTwo(o, "\\", ")") THEN p_bre(o, TRUE)
                                        ELSE o, p.nsub + 1),
                                 "\\", ")", "EPAREN")
                 [] c \in {")", "}"} -> seterr(q, "EPAREN")
                 [] c \in DOMAIN Digit \ {"0"} -> BackReference(q, Digit[c])
                 [] OTHER -> ordinary(q, c)
          ELSE CASE c = "." -> Anything(q)
                 [] c = "[" -> p_bracket(q)
                 [] c = "*" -> ordinary(Require(q, starordinary, "BADRPT"), c)
                 [] OTHER -> ordinary(q, c)

\* Together with whether it was a $ that may turn out to be an anchor
p_simp_re(p, starordinary) ==
    LET Suffix(q) ==
            CASE See(q, "*") -> [p |-> Star(Skip(q, 1), Here(p)), dollar |-> FALSE]
              [] SeeTwo(q, "\\", "{") ->
                   [p |-> Bounds(Skip(q, 2), Here(p), <<"\\", "}">>), dollar |-> FALSE]
              [] OTHER -> [p |-> q, dollar |-> See(p, "$")]
    IN  Suffix(p_simp_atom(p, starordinary))

p_bre_concat(p, nested, first, dollar) ==
    LET Further(simple) == p_bre_concat(simple.p, nested, FALSE, simple.dollar)
    IN  IF More(p) /\ ~(nested /\ SeeTwo(p, "\\", ")")) THEN Further(p_simp_re(p, first))
        ELSE IF dollar THEN Eol([p EXCEPT !.strip = Front(@)])
        ELSE p

p_bre(p, nested) ==
    NotEmpty(p_bre_concat(IF See(p, "^") THEN Bol(Skip(p, 1)) ELSE p, nested, TRUE, FALSE), Here(p))

\* REG_NOSPEC: every character is an ordinary one
RECURSIVE p_str(_)
p_str(p) == IF More(p) THEN p_str(ordinary(Skip(p, 1), Head(p.rest))) ELSE p

-----------------------------------------------------------------------------
(* findmust(): the longest string every match contains, and moffset, the   *)
(* furthest from the start of a match it can be; -1 when nothing is known  *)

RECURSIVE EndOfChoice(_, _)
RECURSIVE altoffset(_, _, _, _)
RECURSIVE Scan(_, _, _)

\* From the operator that opens a choice, or one of its OOR2, to the end of the choice
EndOfChoice(strip, k) ==
    LET next == k + strip[k].n
    IN  IF strip[next].op \in {"O_QUEST", "O_CH"} THEN next ELSE EndOfChoice(strip, next)

\* The longest of the branches from operator k on, `try' the length of this one
altoffset(strip, k, largest, try) ==
    LET op == strip[k].op
        longer == IF try > largest THEN try ELSE largest
        inner == altoffset(strip, k + 1, 0, 0)
    IN  CASE op \in {"O_QUEST", "O_CH"} -> longer
          [] op = "OOR1" -> altoffset(strip, k + 1, longer, 0)
          [] op \in {"OQUEST_", "OCH_"} ->
               IF inner = -1 THEN -1
               ELSE altoffset(strip, EndOfChoice(strip, k) + 1, largest, try + inner)
          [] op \in {"OANYOF", "OCHAR", "OANY"} -> altoffset(strip, k + 1, largest, try + 1)
          [] op \in {"OBOW", "OEOW", "OLPAREN", "ORPAREN", "OOR2"} ->
               altoffset(strip, k + 1, largest, try)
          [] OTHER -> -1

\* The end of a run of mandatory characters
EndRun(f) ==
    LET known == f.offset > -1
        n == Len(f.run)
    IN  IF n > Len(f.must)
          THEN [f EXCEPT !.must = f.run, !.run = <<>>,
                         !.moffset = IF known THEN @ + f.offset ELSE -1,
                         !.offset = IF known THEN n ELSE @]
          ELSE [f EXCEPT !.run = <<>>, !.offset = IF known THEN @ + n ELSE @]

Scan(strip, k, f) ==
    LET s == strip[k]
        ended == EndRun(f)
        branch == altoffset(strip, k + 1, 0, 0)
        chosen == [f EXCEPT !.offset = IF @ = -1 \/ branch = -1 THEN -1 ELSE @ + branch]
    IN  CASE s.op = "OCHAR" -> Scan(strip, k + 1, [f EXCEPT !.run = Append(@, s.n)])
          [] s.op \in {"OPLUS_", "OLPAREN", "ORPAREN"} -> Scan(strip, k + 1, f)
          [] s.op \in {"OQUEST_", "OCH_"} -> Scan(strip, EndOfChoice(strip, k), EndRun(chosen))
          [] s.op \in {"OBOW", "OEOW", "OBOL", "OEOL", "O_QUEST", "O_CH"} ->
               Scan(strip, k + 1, ended)
          [] s.op \in {"OANY", "OANYOF"} ->
               Scan(strip, k + 1, [ended EXCEPT !.offset = IF @ > -1 THEN @ + 1 ELSE @])
          [] s.op = "OEND" -> ended
          [] OTHER -> Scan(strip, k + 1, [ended EXCEPT !.offset = -1])

findmust(strip) ==
    LET f == Scan(strip, 2, [must |-> <<>>, run |-> <<>>, offset |-> 0, moffset |-> 0])
    IN  IF f.must = <<>> THEN [must |-> <<>>, moffset |-> -1]
        ELSE [must |-> f.must, moffset |-> f.moffset]

-----------------------------------------------------------------------------
(* computejumps(), computematchjumps(): tables of the Boyer-Moore search,  *)
(* indexed from 0 as in the code                                           *)

Least(a, b) == IF a < b THEN a ELSE b

computejumps(must) ==
    [c \in Alphabet |->
        LET last == SelectLastInSeq(must, LAMBDA d : d = c)
        IN  Len(must) - last]

RECURSIVE Suffixed(_, _, _, _)
RECURSIVE Mismatched(_, _, _, _)
RECURSIVE Shifted(_, _, _, _, _)

\* A character in front of a suffix that differs from the one the suffix repeats
Mismatched(must, mindex, suffix, t) ==
    IF suffix < Len(must) /\ must[mindex + 1] # must[suffix + 1]
      THEN Mismatched(must, mindex, t.pmatches[suffix],
                      [t EXCEPT !.jump[suffix] = Least(@, Len(must) - mindex - 1)])
      ELSE [t EXCEPT !.suffix = suffix]

Suffixed(must, mindex, suffix, t) ==
    IF mindex < 0 THEN [t EXCEPT !.suffix = suffix]
    ELSE LET u == Mismatched(must, mindex, suffix, [t EXCEPT !.pmatches[mindex] = suffix])
         IN  Suffixed(must, mindex - 1, u.suffix - 1, u)

Shifted(must, suffix, ssuffix, pmatches, jump) ==
    IF suffix >= Len(must) THEN jump
    ELSE IF suffix <= ssuffix
      THEN Shifted(must, suffix + 1, ssuffix, pmatches,
                   [jump EXCEPT ![suffix] = Least(@, Len(must) + ssuffix - suffix)])
      ELSE Shifted(must, suffix, pmatches[ssuffix], pmatches, jump)

computematchjumps(must) ==
    LET n == Len(must)
        t == Suffixed(must, n - 1, n, [suffix |-> n, pmatches |-> [i \in 0..n - 1 |-> 0],
                                       jump |-> [i \in 0..n - 1 |-> 2 * n - i - 1]])
        prefix == [i \in 0..n - 1 |->
                     IF i <= t.suffix THEN Least(t.jump[i], n + t.suffix - i) ELSE t.jump[i]]
    IN  Shifted(must, t.suffix, t.pmatches[t.suffix], t.pmatches, prefix)

-----------------------------------------------------------------------------
(* regcomp() *)

\* How many loops are open before operator k
Depth(strip, k) ==
    Len(SelectSeq(SubSeq(strip, 1, k), LAMBDA s : s.op = "OPLUS_"))
    - Len(SelectSeq(SubSeq(strip, 1, k), LAMBDA s : s.op = "O_PLUS"))

pluscount(strip) == Max({Depth(strip, k) : k \in DOMAIN strip})

\* What is kept of the parse: the strip between two OENDs and what the search uses
Guts(p, mandatory) ==
    LET must == mandatory.must
    IN  [error |-> "ok", strip |-> p.strip, flags |-> p.flags, nsub |-> p.nsub,
         nbol |-> p.nbol, neol |-> p.neol, nplus |-> pluscount(p.strip), backrefs |-> p.backrefs,
         must |-> must, moffset |-> mandatory.moffset,
         charjump |-> IF Len(must) > 3 THEN computejumps(must) ELSE <<>>,
         matchjump |-> IF Len(must) > 3 THEN computematchjumps(must) ELSE <<>>]

Parsed(p) ==
    IF p.flags.extended THEN p_ere(p, "")
    ELSE IF p.flags.nospec THEN p_str(Require(p, More(p), "EMPTY"))
    ELSE p_bre(p, FALSE)

regcomp(text, flags) ==
    LET Compiled(p) ==
            IF p.error # "ok" THEN [error |-> p.error] ELSE Guts(p, findmust(p.strip))
    IN  Compiled(doemit(Parsed(doemit(Parse(text, flags), "OEND", 0)), "OEND", 0))

\* Every distance leads where the operators of the other end say: loops to their
\* beginning, bypasses over their operand, choices from branch to branch and back
StripWellFormed(strip) ==
    /\ strip[1].op = "OEND" /\ strip[Len(strip)].op = "OEND" /\ Depth(strip, Len(strip)) = 0
    /\ \A k \in DOMAIN strip :
         LET s == strip[k]
             on == k + s.n
             back == k - s.n
         IN  CASE s.op = "OPLUS_" -> strip[on].op = "O_PLUS" /\ strip[on].n = s.n
               [] s.op = "O_PLUS" -> strip[back].op = "OPLUS_" /\ strip[back].n = s.n
               [] s.op = "OQUEST_" -> strip[on].op = "O_QUEST" /\ strip[on].n = s.n
               [] s.op = "O_QUEST" -> strip[back].op = "OQUEST_" /\ strip[back].n = s.n
               [] s.op = "OCH_" -> strip[on].op = "OOR2" /\ strip[on - 1].op = "OOR1"
               [] s.op = "OOR1" -> strip[back].op \in {"OOR1", "OCH_"} /\ strip[k + 1].op = "OOR2"
               [] s.op = "OOR2" ->
                    \/ strip[on].op = "O_CH"
                    \/ strip[on].op = "OOR2" /\ strip[on - 1].op = "OOR1"
               [] s.op = "O_CH" -> strip[back].op = "OOR1"
               [] OTHER -> TRUE
=============================================================================
