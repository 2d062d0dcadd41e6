------------------------------ MODULE Regexec -------------------------------
(***************************************************************************)
(* regex/engine.c, regexec.c: matching a text against the strip that       *)
(* regcomp() made.  fast() and slow() follow all ways through the strip at *)
(* once, as a set of operators; dissect() and backref() find out which     *)
(* part of the text belongs to which parenthesis.                          *)
(*                                                                         *)
(* Places in a text count from 0 and operators from 1; Nowhere is NULL.    *)
(***************************************************************************)
EXTENDS Regcomp

CONSTANT Cases      \* [x, flags, texts, eflags]: expressions, and what is matched against each

VARIABLES
    expr,       \* one of Cases
    preg,       \* what regcomp() made of it
    found       \* the last call of regexec(), and what it gave

vars == <<expr, preg, found>>

Nowhere == -1
Unset == <<Nowhere, Nowhere>>
Word == Class["alnum"] \cup {"_"}

\* The character behind place p, and in front of it
CharAt(m, p) == IF p = Len(m.text) THEN "OUT" ELSE m.text[p + 1]
CharBefore(m, p) == IF p = 0 THEN "OUT" ELSE m.text[p]

-----------------------------------------------------------------------------
(* step(), fast() and slow() *)

\* The operator is passed by the character or by what lies between two of them
Passes(s, ch) ==
    CASE s.op = "OCHAR" -> ch = s.n
      [] s.op = "OANY" -> ch \in Alphabet
      [] s.op = "OANYOF" -> ch \in s.n
      [] s.op = "OBOL" -> ch \in {"BOL", "BOLEOL"}
      [] s.op = "OEOL" -> ch \in {"EOL", "BOLEOL"}
      [] s.op \in {"OBOW", "OEOW"} -> ch = (IF s.op = "OBOW" THEN "BOW" ELSE "EOW")
      [] OTHER -> FALSE

Consuming == {"OCHAR", "OANY", "OANYOF", "OBOL", "OEOL", "OBOW", "OEOW", "OEND"}

\* Where an operator that consumes nothing leads, but for the way back of O_PLUS
Onward(strip, pc) ==
    LET s == strip[pc]
    IN  CASE s.op = "OOR1" -> {EndOfChoice(strip, pc + 1)}
          [] s.op \in {"OQUEST_", "OCH_"} -> {pc + 1, pc + s.n}
          [] s.op = "OOR2" -> {pc + 1} \cup
                 (IF strip[pc + s.n].op # "O_CH" THEN {pc + s.n} ELSE {})
          [] OTHER -> {pc + 1}

RECURSIVE step(_, _, _, _, _, _)
step(strip, pc, stop, bef, ch, aft) ==
    LET s == strip[pc]
        on == IF pc \in aft THEN aft \cup Onward(strip, pc) ELSE aft
        again == s.op = "O_PLUS" /\ pc \in aft /\ pc - s.n \notin on
    IN  IF pc = stop THEN aft
        ELSE IF s.op \in Consuming
          THEN step(strip, pc + 1, stop, bef, ch,
                    IF pc \in bef /\ Passes(s, ch) THEN aft \cup {pc + 1} ELSE aft)
        ELSE IF again THEN step(strip, pc - s.n, stop, bef, ch, on \cup {pc - s.n})
        ELSE step(strip, pc + 1, stop, bef, ch, on)

RECURSIVE Anchored(_, _, _, _, _)
Anchored(m, from, to, st, line) ==
    IF line.times = 0 THEN st
    ELSE Anchored(m, from, to, step(m.g.strip, from, to, st, line.flag, st),
                  [line EXCEPT !.times = @ - 1])

\* What a word boundary adds
Worded(m, from, to, st, flag, lastc, c) ==
    LET Outside(ch) == ch # "OUT" /\ ch \notin Word
        bow == (flag = "BOL" \/ Outside(lastc)) /\ c \in Word
        eow == lastc \in Word /\ (flag = "EOL" \/ Outside(c))
    IN  IF eow \/ bow
          THEN step(m.g.strip, from, to, st, IF eow THEN "EOW" ELSE "BOW", st)
          ELSE st

\* The states after what lies between two characters: ends of lines and of words
Between(m, from, to, st, lastc, c) ==
    LET bol == (lastc = Newline /\ m.g.flags.newline) \/ (lastc = "OUT" /\ ~m.eflags.notbol)
        eol == (c = Newline /\ m.g.flags.newline) \/ (c = "OUT" /\ ~m.eflags.noteol)
        flag == CASE bol /\ eol -> "BOLEOL"
                  [] bol /\ ~eol -> "BOL"
                  [] ~bol /\ eol -> "EOL"
                  [] OTHER -> "none"
        times == (IF bol THEN m.g.nbol ELSE 0) + (IF eol THEN m.g.neol ELSE 0)
    IN  Worded(m, from, to, Anchored(m, from, to, st, [flag |-> flag, times |-> times]),
               flag, lastc, c)

Entry(m, from, to) == step(m.g.strip, from, to, {from}, "NOTHING", {from})

RECURSIVE Fast(_, _, _, _, _, _)
Fast(m, p, from, to, st, coldp) ==
    LET Arrived(here, fresh, cold) ==
            IF to \in here THEN [match |-> TRUE, coldp |-> cold]
            ELSE IF p = Len(m.text) THEN [match |-> FALSE, coldp |-> cold]
            ELSE Fast(m, p + 1, from, to,
                      step(m.g.strip, from, to, here, CharAt(m, p), fresh), cold)
        Cold(fresh) ==
            Arrived(Between(m, from, to, st, CharBefore(m, p), CharAt(m, p)), fresh,
                    IF st = fresh THEN p ELSE coldp)
    IN  Cold(Entry(m, from, to))

\* Whether a match begins at start or later, and the last place none was under way
fast(m, start, from, to) == Fast(m, start, from, to, Entry(m, from, to), Nowhere)

RECURSIVE Slow(_, _, _, _, _, _, _)
Slow(m, p, stop, from, to, st, matchp) ==
    LET Arrived(here, last) ==
            IF here = {} \/ p = stop THEN last
            ELSE Slow(m, p + 1, stop, from, to,
                      step(m.g.strip, from, to, here, CharAt(m, p), {}), last)
        At(here) == Arrived(here, IF to \in here THEN p ELSE matchp)
    IN  At(Between(m, from, to, st, CharBefore(m, p), CharAt(m, p)))

\* The end of the longest match that begins at start and ends at stop or before
slow(m, start, stop, from, to) == Slow(m, start, stop, from, to, Entry(m, from, to), Nowhere)

-----------------------------------------------------------------------------
(* dissect(): the parentheses of an expression without back references *)

RECURSIVE Share(_, _, _, _, _, _, _)
RECURSIVE Iterated(_, _, _, _, _, _)
RECURSIVE Chosen(_, _, _, _, _)
RECURSIVE dissect(_, _, _, _, _, _)

\* The end of the longest share of ss..es such that the rest can match the rest
Share(m, sp, stp, stop, ss, es, stopst) ==
    LET Or(rest) == IF slow(m, rest, stop, es, stopst) = stop THEN rest
                    ELSE Share(m, sp, rest - 1, stop, ss, es, stopst)
    IN  Or(slow(m, sp, stp, ss, es))

\* The last pass through a loop: each takes as much as it can
Iterated(m, ssp, oldssp, rest, ssub, esub) ==
    LET Pass(sep) == IF sep = Nowhere THEN [ssp |-> oldssp, sep |-> ssp]
                     ELSE IF sep = ssp THEN [ssp |-> ssp, sep |-> sep]
                     ELSE Iterated(m, sep, ssp, rest, ssub, esub)
    IN  Pass(slow(m, ssp, rest, ssub, esub))

\* The end of a branch that begins behind `at', its OCH_ or OOR2
BranchEnd(strip, at) ==
    LET next == at + strip[at].n IN IF strip[next].op = "O_CH" THEN next ELSE next - 1

\* The first branch that matches the whole share
Chosen(m, sp, rest, ssub, esub) ==
    IF slow(m, sp, rest, ssub, esub) = rest THEN [from |-> ssub, to |-> esub]
    ELSE Chosen(m, sp, rest, esub + 2, BranchEnd(m.g.strip, esub + 1))

\* The first operator behind the one at ss and all it contains
EndOfOperator(strip, ss) ==
    CASE strip[ss].op \in {"OPLUS_", "OQUEST_"} -> ss + strip[ss].n + 1
      [] strip[ss].op = "OCH_" -> EndOfChoice(strip, ss) + 1
      [] OTHER -> ss + 1

\* pm holds the parentheses, and whether all loops came out even
dissect(m, pm, sp, stop, ss, stopst) ==
    LET s == m.g.strip[ss]
        es == EndOfOperator(m.g.strip, ss)
        On(now, p) == dissect(m, now, p, stop, es, stopst)
        Bypass(rest) ==
            IF slow(m, sp, rest, ss + 1, es - 1) = Nowhere THEN pm
            ELSE dissect(m, pm, sp, rest, ss + 1, es - 1)
        Loop(pass, rest) ==
            dissect(m, [pm EXCEPT !.even = @ /\ pass.sep = rest], pass.ssp, pass.sep,
                    ss + 1, es - 1)
        Branch(b, rest) == dissect(m, pm, sp, rest, b.from, b.to)
        Inside(rest) ==
            CASE s.op = "OQUEST_" -> Bypass(rest)
              [] s.op = "OPLUS_" -> Loop(Iterated(m, sp, sp, rest, ss + 1, es - 1), rest)
              [] s.op = "OCH_" ->
                   Branch(Chosen(m, sp, rest, ss + 1, BranchEnd(m.g.strip, ss)), rest)
        Behind(rest) == On(Inside(rest), rest)
    IN  IF ss = stopst THEN pm
        ELSE CASE s.op \in {"OCHAR", "OANY", "OANYOF"} -> On(pm, sp + 1)
               [] s.op \in {"OBOL", "OEOL", "OBOW", "OEOW"} -> On(pm, sp)
               [] s.op = "OLPAREN" -> On([pm EXCEPT !.at[s.n][1] = sp], sp)
               [] s.op = "ORPAREN" -> On([pm EXCEPT !.at[s.n][2] = sp], sp)
               [] OTHER -> Behind(Share(m, sp, stop, stop, ss, es, stopst))

-----------------------------------------------------------------------------
(* backref(): one way after another, with the parentheses of that way.     *)
(* `last' is lastpos, which a way that fails leaves as it is               *)

RECURSIVE Easy(_, _, _, _, _)
RECURSIVE Branches(_, _, _, _, _, _, _, _)
RECURSIVE Hard(_, _, _, _, _, _, _, _)
RECURSIVE backref(_, _, _, _, _, _, _, _)

LineBegins(m, p) ==
    \/ p = 0 /\ ~m.eflags.notbol
    \/ p < Len(m.text) /\ CharBefore(m, p) = Newline /\ m.g.flags.newline
LineEnds(m, p) ==
    \/ p = Len(m.text) /\ ~m.eflags.noteol
    \/ p < Len(m.text) /\ CharAt(m, p) = Newline /\ m.g.flags.newline

Holds(m, op, p) ==
    CASE op = "OBOL" -> LineBegins(m, p)
      [] op = "OEOL" -> LineEnds(m, p)
      [] op = "OBOW" -> /\ LineBegins(m, p) \/ (p > 0 /\ CharBefore(m, p) \notin Word)
                        /\ CharAt(m, p) \in Word
      [] op = "OEOW" -> /\ LineEnds(m, p) \/ (p < Len(m.text) /\ CharAt(m, p) \notin Word)
                        /\ CharBefore(m, p) \in Word

\* As far as there is nothing to choose; Nowhere when the text is another
Easy(m, sp, stop, ss, stopst) ==
    LET s == m.g.strip[ss]
        stuck == [sp |-> Nowhere, ss |-> ss]
    IN  IF ss = stopst THEN [sp |-> sp, ss |-> ss]
        ELSE CASE s.op \in {"OCHAR", "OANY", "OANYOF"} ->
                    IF sp = stop \/ ~Passes(s, m.text[sp + 1]) THEN stuck
                    ELSE Easy(m, sp + 1, stop, ss + 1, stopst)
               [] s.op \in {"OBOL", "OEOL", "OBOW", "OEOW"} ->
                    IF Holds(m, s.op, sp) THEN Easy(m, sp, stop, ss + 1, stopst) ELSE stuck
               [] s.op = "O_QUEST" -> Easy(m, sp, stop, ss + 1, stopst)
               [] s.op = "OOR1" -> Easy(m, sp, stop, EndOfChoice(m.g.strip, ss + 1) + 1, stopst)
               [] OTHER -> [sp |-> sp, ss |-> ss]

\* The branches are tried against all of the text up to stop
Branches(m, pm, last, sp, stop, ssub, esub, lev) ==
    LET Or(dp) ==
            IF dp.end # Nowhere \/ m.g.strip[esub].op = "O_CH" THEN dp
            ELSE Branches(m, pm, dp.last, sp, stop, esub + 2, BranchEnd(m.g.strip, esub + 1), lev)
    IN  Or(backref(m, pm, last, sp, stop, ssub, esub, lev))

\* What O_BACK of the same parenthesis closes
EndOfBack(strip, ss) ==
    Min({k \in ss..Len(strip) : strip[k].op = "O_BACK" /\ strip[k].n = strip[ss].n})

\* The hard stuff, from place sp and operator ss on
Hard(m, pm, last, sp, stop, ss, stopst, lev) ==
    LET s == m.g.strip[ss]
        part == pm[s.n]
        len == part[2] - part[1]
        fail == [end |-> Nowhere, pm |-> pm, last |-> last]
        Same == /\ part[2] # Nowhere
                /\ sp + len <= stop
                /\ SubSeq(m.text, sp + 1, sp + len) = SubSeq(m.text, part[1] + 1, part[2])
        On(l, p, n, level) == backref(m, pm, l, p, stop, n, stopst, level)
        Else(dp, n, level) == IF dp.end # Nowhere THEN dp ELSE On(dp.last, sp, n, level)
        Undo(dp) == IF dp.end # Nowhere THEN dp ELSE [dp EXCEPT !.pm = pm]
        Note(side) ==
            Undo(backref(m, [pm EXCEPT ![s.n][side] = sp], last, sp, stop, ss + 1, stopst, lev))
    IN  IF ss = stopst THEN IF sp = stop THEN [fail EXCEPT !.end = sp] ELSE fail
        ELSE CASE s.op = "OBACK_" ->
                    IF Same THEN On(last, sp + len, EndOfBack(m.g.strip, ss) + 1, lev) ELSE fail
               [] s.op = "OQUEST_" -> Else(On(last, sp, ss + 1, lev), ss + s.n + 1, lev)
               [] s.op = "OPLUS_" -> On([last EXCEPT ![lev + 1] = sp], sp, ss + 1, lev + 1)
               [] s.op = "O_PLUS" ->
                    IF sp = last[lev] THEN On(last, sp, ss + 1, lev - 1)
                    ELSE Else(On([last EXCEPT ![lev] = sp], sp, ss - s.n + 1, lev), ss + 1, lev - 1)
               [] s.op = "OCH_" ->
                    Branches(m, pm, last, sp, stop, ss + 1, BranchEnd(m.g.strip, ss), lev)
               [] s.op = "OLPAREN" -> Note(1)
               [] s.op = "ORPAREN" -> Note(2)

backref(m, pm, last, start, stop, startst, stopst, lev) ==
    LET From(easy) ==
            IF easy.sp = Nowhere THEN [end |-> Nowhere, pm |-> pm, last |-> last]
            ELSE Hard(m, pm, last, easy.sp, stop, easy.ss, stopst, lev)
    IN  From(Easy(m, start, stop, startst, stopst))

-----------------------------------------------------------------------------
(* matcher() *)

Greatest(a, b) == IF a > b THEN a ELSE b

RECURSIVE Skipped(_, _, _)
RECURSIVE Compared(_, _, _, _)
RECURSIVE Search(_, _, _)

\* Over characters that must[] cannot end in
Skipped(g, text, dp) ==
    IF dp < Len(text) /\ g.charjump[text[dp + 1]] # 0
      THEN Skipped(g, text, dp + g.charjump[text[dp + 1]])
      ELSE dp

\* Backwards to the first character that differs, or to the beginning of must[]
Compared(g, text, dp, pp) ==
    IF text[dp] = g.must[pp] /\ pp > 1
      THEN Compared(g, text, dp - 1, pp - 1)
      ELSE [dp |-> dp, pp |-> pp]

\* Where must[] is, by Boyer and Moore; the tables are indexed from 0
Search(g, text, dp) ==
    LET Jump(c) == Greatest(g.charjump[text[c.dp]], g.matchjump[c.pp - 1])
        Or(c) == IF text[c.dp] = g.must[c.pp] THEN c.dp - 1 ELSE Search(g, text, c.dp - 1 + Jump(c))
        Match(last) ==
            IF last >= Len(text) THEN Nowhere ELSE Or(Compared(g, text, last, Len(g.must) - 1))
    IN  Match(Skipped(g, text, dp))

Sought(g, text) ==
    LET at == {p \in 0..Len(text) - Len(g.must) :
                  SubSeq(text, p + 1, p + Len(g.must)) = g.must}
    IN  IF Len(g.must) > 3 THEN Search(g, text, Len(g.must) - 1)
        ELSE IF at = {} THEN Nowhere ELSE Min(at)

\* Mutant: off by one
Start_OneTooLate(g, dp) == IF g.moffset > -1 THEN Greatest(0, dp - g.moffset + 1) ELSE 0

\* Latest first place of a match that contains must[] at dp
Start(g, dp) == IF g.moffset > -1 THEN Greatest(0, dp - g.moffset) ELSE 0

NoMatch == [matched |-> FALSE]
Matched(m, start, end, at, even) ==
    [matched |-> TRUE, span |-> <<start, end>>, even |-> even,
     at |-> [i \in 1..m.g.nsub |-> at[i]]]

RECURSIVE Began(_, _)
RECURSIVE Shorter(_, _, _)
RECURSIVE Attempt(_, _, _)

AllUnset(m) == [i \in 1..m.g.nsub |-> Unset]

\* The first place from coldp on where something matches, and how far
Began(m, coldp) ==
    LET Or(end) == IF end # Nowhere THEN <<coldp, end>> ELSE Began(m, coldp + 1)
    IN  Or(slow(m, coldp, Len(m.text), 2, Len(m.g.strip)))

\* The parentheses of the longest match that the back references allow
Shorter(m, coldp, end) ==
    LET Backoff(dp, next) == IF next = Nowhere THEN dp ELSE Shorter(m, coldp, next)
        Or(dp) == IF dp.end # Nowhere \/ end <= coldp THEN dp
                  ELSE Backoff(dp, slow(m, coldp, end - 1, 2, Len(m.g.strip)))
    IN  Or(backref(m, AllUnset(m), [lev \in 1..m.g.nplus |-> Nowhere], coldp, end,
                   2, Len(m.g.strip), 0))

Attempt(m, start, nmatch) ==
    LET Again(b, way) ==
            IF way.end # Nowhere THEN Matched(m, b[1], way.end, way.pm, TRUE)
            ELSE Attempt(m, b[1] + 1, nmatch)
        Dissected(b, d) == Matched(m, b[1], b[2], d.at, d.even)
        Where(b) ==
            IF m.g.backrefs THEN Again(b, Shorter(m, b[1], b[2]))
            ELSE IF nmatch = 1 THEN Matched(m, b[1], b[2], AllUnset(m), TRUE)
            ELSE Dissected(b, dissect(m, [at |-> AllUnset(m), even |-> TRUE], b[1], b[2],
                                      2, Len(m.g.strip)))
        Fasted(f) ==
            IF ~f.match THEN NoMatch
            ELSE IF nmatch = 0 /\ ~m.g.backrefs THEN [matched |-> TRUE]
            ELSE Where(Began(m, f.coldp))
    IN  Fasted(fast(m, start, 2, Len(m.g.strip)))

regexec(g, text, nmatch, eflags) ==
    LET dp == Sought(g, text)
    IN  IF g.must # <<>> /\ dp = Nowhere THEN NoMatch
        ELSE Attempt([g |-> g, text |-> text, eflags |-> eflags],
                     IF g.must = <<>> THEN 0 ELSE Start(g, dp), nmatch)

-----------------------------------------------------------------------------
(* Expressions, and how they are written *)

\* An expression is a record: [k |-> "chr", c], "any", "nil"; "set" with how it is
\* written and the characters it names; "anchor" with its operator; "cat", "alt" of x
\* and y; "rep" of x, from..to times; "grp" and "back" with the number of the group
Written == "0" :> 0 @@ "1" :> 1 @@ "2" :> 2 @@ "3" :> 3 @@ "4" :> 4
Figure(n) == CHOOSE d \in DOMAIN Written : Written[d] = n

Escaped(extended, tokens) == IF extended THEN tokens ELSE <<"\\">> \o tokens

\* The suffix of a repetition
Suffix(from, to, extended) ==
    CASE from = 0 /\ to = NoLimit -> <<"*">>
      [] from = 1 /\ to = NoLimit /\ extended -> <<"+">>
      [] from = 0 /\ to = 1 /\ extended -> <<"?">>
      [] OTHER -> Escaped(extended, <<"{">>) \o <<Figure(from)>>
                  \o (IF to = from THEN <<>>
                      ELSE <<",">> \o (IF to = NoLimit THEN <<>> ELSE <<Figure(to)>>))
                  \o Escaped(extended, <<"}">>)

Mark ==
    [OBOL |-> <<"^">>, OEOL |-> <<"$">>,
     OBOW |-> <<"[", "[", ":", "<", ":", "]", "]">>, OEOW |-> <<"[", "[", ":", ">", ":", "]", "]">>]

RECURSIVE Tokens(_, _)
Tokens(x, extended) ==
    CASE x.k = "chr" -> IF x.c \in {".", "*"} THEN <<"\\", x.c>> ELSE <<x.c>>
      [] x.k = "any" -> <<".">>
      [] x.k = "set" -> x.tokens
      [] x.k = "anchor" -> Mark[x.op]
      [] x.k = "cat" -> Tokens(x.x, extended) \o Tokens(x.y, extended)
      [] x.k = "alt" -> Tokens(x.x, extended) \o <<"|">> \o Tokens(x.y, extended)
      [] x.k = "rep" -> Tokens(x.x, extended) \o Suffix(x.from, x.to, extended)
      [] x.k = "grp" -> Escaped(extended, <<"(">>) \o Tokens(x.x, extended)
                        \o Escaped(extended, <<")">>)
      [] x.k = "nil" -> <<>>
      [] x.k = "back" -> <<"\\", Figure(x.n)>>

-----------------------------------------------------------------------------
(* What an expression means *)

RECURSIVE Groups(_)
Groups(x) ==
    CASE x.k \in {"cat", "alt"} -> Groups(x.x) \cup Groups(x.y)
      [] x.k = "rep" -> Groups(x.x)
      [] x.k = "grp" -> {x.n} \cup Groups(x.x)
      [] OTHER -> {}

Fold(c) == IF c \in DOMAIN Othercase THEN {c, Othercase[c]} ELSE {c}

\* m is the text with its flags, way = <<end, parts>>, where parts holds <<n, so, eo>>
\* for the parentheses passed; what is passed again belongs to the last pass
One(m, set, way) ==
    IF way[1] < Len(m.text) /\ m.text[way[1] + 1] \in set THEN {<<way[1] + 1, way[2]>>} ELSE {}

Cased(m, set) == IF m.g.flags.icase THEN UNION {Fold(c) : c \in set} ELSE set

\* A line also begins behind a newline that ends the text, which backref() does not see
Bounded(m, op, p) ==
    \/ Holds(m, op, p)
    \/ op = "OBOL" /\ CharBefore(m, p) = Newline /\ m.g.flags.newline

\* All ways x can go on from a way, and those of up to `to' passes through x of
\* which all but the first `from' and the last consume something
RECURSIVE Ways(_, _, _)
RECURSIVE Repeated(_, _, _, _, _)

Repeated(m, x, from, to, way) ==
    (IF from = 0 THEN {way} ELSE {})
    \cup IF to = 0 THEN {}
         ELSE LET reset == <<way[1], {part \in way[2] : part[1] \notin Groups(x)}>>
                  next == Ways(m, x, reset)
                  down(n) == IF n = NoLimit \/ n = 0 THEN n ELSE n - 1
              IN  UNION {IF w[1] = way[1] /\ from < 2 THEN {w}
                         ELSE Repeated(m, x, down(from), down(to), w) : w \in next}

Ways(m, x, way) ==
    CASE x.k = "chr" -> One(m, Cased(m, {x.c}), way)
      [] x.k = "any" -> One(m, Alphabet \ (IF m.g.flags.newline THEN {Newline} ELSE {}), way)
      [] x.k = "set" -> One(m, x.set, way)
      [] x.k = "anchor" -> IF Bounded(m, x.op, way[1]) THEN {way} ELSE {}
      [] x.k = "cat" -> UNION {Ways(m, x.y, w) : w \in Ways(m, x.x, way)}
      [] x.k = "alt" -> Ways(m, x.x, way) \cup Ways(m, x.y, way)
      [] x.k = "rep" -> Repeated(m, x.x, x.from, x.to, way)
      [] x.k = "grp" -> {<<w[1], w[2] \cup {<<x.n, way[1], w[1]>>}>> : w \in Ways(m, x.x, way)}
      [] x.k = "nil" -> {way}
      [] x.k = "back" ->
           {<<way[1] + part[3] - part[2], way[2]>> :
              part \in {q \in way[2] :
                          /\ q[1] = x.n
                          /\ way[1] + q[3] - q[2] <= Len(m.text)
                          /\ SubSeq(m.text, way[1] + 1, way[1] + q[3] - q[2])
                             = SubSeq(m.text, q[2] + 1, q[3])}}

-----------------------------------------------------------------------------
Init ==
    /\ expr \in Cases
    /\ preg = <<>>
    /\ found = <<>>

Compile ==
    /\ preg = <<>>
    /\ preg' = regcomp(Tokens(expr.x, expr.flags.extended), expr.flags)
    /\ UNCHANGED <<expr, found>>

Match(text, nmatch, eflags) ==
    /\ preg # <<>> /\ found = <<>>
    /\ found' = [m |-> [g |-> preg, text |-> text, eflags |-> eflags], nmatch |-> nmatch,
                 gave |-> regexec(preg, text, nmatch, eflags)]
    /\ UNCHANGED <<expr, preg>>

Next ==
    \/ Compile
    \/ \E text \in expr.texts, nmatch \in {0, 1, 9}, eflags \in expr.eflags :
          Match(text, nmatch, eflags)

Spec == Init /\ [][Next]_vars

-----------------------------------------------------------------------------
WaysFrom(m, s) == Ways(m, expr.x, <<s, {}>>)
Starts(m) == {s \in 0..Len(m.text) : WaysFrom(m, s) # {}}
LongestWays(m, s) ==
    LET ways == WaysFrom(m, s)
    IN  {w \in ways : \A v \in ways : v[1] <= w[1]}

\* A call that returned a match, and what the expression means for the same text
Reported(call) == call # <<>> /\ call.gave.matched
SpanExact(call) ==
    LET starts == Starts(call.m)
    IN  /\ call.gave.matched <=> starts # {}
        /\ call.nmatch > 0 /\ call.gave.matched =>
             call.gave.span = <<Min(starts), (CHOOSE w \in LongestWays(call.m, Min(starts)) : TRUE)[1]>>
OneParse(call) ==
    LET at == call.gave.at
    IN  \E w \in LongestWays(call.m, call.gave.span[1]) :
           w[2] = {<<i, at[i][1], at[i][2]>> : i \in {j \in DOMAIN at : at[j] # Unset}}

\* Operands that are repeated, and whether each takes the same part of the text
\* whenever it starts at the same place
RECURSIVE Operands(_)
Operands(x) ==
    CASE x.k \in {"cat", "alt"} -> Operands(x.x) \cup Operands(x.y)
      [] x.k = "rep" -> {x.x} \cup Operands(x.x)
      [] x.k = "grp" -> Operands(x.x)
      [] OTHER -> {}
Steady(m) ==
    \A x \in Operands(expr.x), s \in 0..Len(m.text) :
       \A v, w \in Ways(m, x, <<s, {}>>) : v[1] = w[1]
Inside(call) ==
    \A i \in DOMAIN call.gave.at :
       LET part == call.gave.at[i]
       IN  part = Unset \/ (/\ call.gave.span[1] <= part[1] /\ part[1] <= part[2]
                            /\ part[2] <= call.gave.span[2])

\* The texts one gets by leaving out one token are refused, or make a sound strip
Damaged(tokens) == {RemoveAt(tokens, i) : i \in DOMAIN tokens}
CompilesSoundly(tokens) ==
    LET g == regcomp(tokens, expr.flags) IN g.error = "ok" => StripWellFormed(g.strip)

MatchesExact ==
    /\ preg # <<>> => preg.error = "ok" /\ StripWellFormed(preg.strip)
    /\ preg # <<>> /\ found = <<>> =>
         \A t \in Damaged(Tokens(expr.x, expr.flags.extended)) : CompilesSoundly(t)
    /\ found # <<>> => SpanExact(found)
    /\ Reported(found) /\ found.nmatch > 1 =>
         Inside(found) /\ (Steady(found.m) \/ preg.backrefs => OneParse(found))

\* dissect(): "must exhaust substring".  The passes through a loop, each as long as
\* it can be, together take the whole share of the text that the loop was given.
LoopsExhaust == Reported(found) /\ found.nmatch > 1 => found.gave.even
=============================================================================
