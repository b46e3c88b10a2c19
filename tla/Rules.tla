-------------------------------- MODULE Rules --------------------------------
(***************************************************************************)
(* The forms the scoring code is written in: chains of early returns and   *)
(* of else-ifs, points that add up, and fractions.  Amounts are natural    *)
(* numbers of hundredths of a SOL; a fraction is held in basis points,     *)
(* rounded down, which keeps every threshold of the code an integer.       *)
(***************************************************************************)
EXTENDS Integers, Sequences, FiniteSets, SequencesExt, FiniteSetsExt

\* The outcome of the first <<condition, outcome>> of the chain that applies.
FirstMatch(rules, otherwise) ==
    LET hits == {i \in DOMAIN rules : rules[i][1]}
    IN  IF hits = {} THEN otherwise ELSE rules[Min(hits)][2]

\* The outcomes of all the <<condition, outcome>> pairs that apply.
Matches(rules) == {r[2] : r \in {p \in rules : p[1]}}

\* Bonus points for one reading, from the highest of the steps it reaches:
\* steps is a sequence of <<at least, points>>, highest first.
Step(reading, steps) ==
    FirstMatch([i \in DOMAIN steps |-> <<reading >= steps[i][1], steps[i][2]>>], 0)

\* A record with the fields of `more` added, or replaced where it has them.
more ++ r ==
    [x \in DOMAIN more \cup DOMAIN r |-> IF x \in DOMAIN more THEN more[x] ELSE r[x]]

TotalOf(f(_), xs) == FoldSeq(LAMBDA x, acc : acc + f(x), 0, xs)

Bp(part, whole) == IF whole = 0 THEN 0 ELSE (part * 10000) \div whole

Least(a, b) == IF a < b THEN a ELSE b
Most(a, b) == IF a > b THEN a ELSE b
Clamp(v, lo, hi) == Most(lo, Least(v, hi))
Abs(v) == IF v < 0 THEN -v ELSE v

SOL == 100       \* one SOL in the unit of amounts
Percent == 100   \* one percent in basis points
=============================================================================
