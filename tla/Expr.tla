-------------------------------- MODULE Expr --------------------------------
(***************************************************************************)
(* The expression evaluator of the BASIC interpreter: expr4, expr3, expr2  *)
(* and expression() of basic.c, a recursive descent that reads and         *)
(* evaluates at once, over the globals txtpos, table_index and             *)
(* expression_error.                                                       *)
(*                                                                         *)
(* The text is a sequence of symbols: characters, and the names of the     *)
(* functions as one symbol each.  S_INT has Width bits.  The evaluator is  *)
(* a function of a record S of the globals, of the value returned, of what *)
(* PUTC has shown, and of whether the processor has trapped.  It is set    *)
(* against a reading of the same text that knows no position: the value of *)
(* a text is that of its two sides at the last operator that binds least.  *)
(***************************************************************************)
EXTENDS Integers, Sequences, FiniteSets, FiniteSetsExt, SequencesExt

CONSTANTS
    Width,          \* bits of S_INT
    Symbols,        \* what can be typed
    Openings,       \* bound: texts already there when typing begins
    MaxTyped,       \* bound: symbols typed after the opening
    Variable,       \* contents of the variables A-Z
    Memory(_),      \* PEEK: program[a]
    Key             \* GETC: the key pressed

VARIABLES
    text,           \* the line from txtpos on, without its NL
    typed,          \* symbols typed
    S               \* the evaluator, or << >> while the line is typed

vars == <<text, typed, S>>

NL == "NL"
Digits == {"0", "1", "2", "8"}
Digit(c) == CASE c = "0" -> 0 [] c = "1" -> 1 [] c = "2" -> 2 [] c = "8" -> 8
FunctionNames == {"PEEK", "ABS", "AREAD", "DREAD", "RND", "PUTC", "GETC"}
Letters == FunctionNames \cup {"A"}

At(p) == IF p <= Len(text) THEN text[p] ELSE NL

ignore_blanks(p) == Min({q \in p .. p + Len(text) : At(q) # " "})

\* Signed arithmetic as the build does it: two's complement.
Wrap(n) == ((n + 2^(Width - 1)) % (2^Width)) - 2^(Width - 1)

MinInt == 0 - 2^(Width - 1)

Abs(n) == IF n < 0 THEN 0 - n ELSE n

-----------------------------------------------------------------------------
(* Keyword tables.                                                         *)

func_tab == << <<"PEEK">>, <<"ABS">>, <<"AREAD">>, <<"DREAD">>, <<"RND">>, <<"PUTC">>, <<"GETC">> >>

relop_tab == << <<">", "=">>, <<"<", ">">>, <<">">>, <<"=">>, <<"<", "=">>, <<"<">>, <<"!", "=">> >>

UNKNOWN == << >>

\* The first entry the text begins with, and the blanks behind it.
scantable(T, table) ==
    LET hits == {i \in DOMAIN table : \A k \in DOMAIN table[i] : At(T.txtpos + k - 1) = table[i][k]}
        kw   == table[Min(hits)]
    IN  IF hits = {} THEN [T EXCEPT !.table_index = UNKNOWN]
        ELSE [T EXCEPT !.table_index = kw, !.txtpos = ignore_blanks(T.txtpos + Len(kw))]

Holds(relop, a, b) ==
    CASE relop = <<">", "=">> -> a >= b
      [] relop \in {<<"<", ">">>, <<"!", "=">>} -> a # b
      [] relop = <<">">> -> a > b
      [] relop = <<"=">> -> a = b
      [] relop = <<"<", "=">> -> a <= b
      [] relop = <<"<">> -> a < b

-----------------------------------------------------------------------------
(* The evaluator.                                                          *)

Error(T) == [T EXCEPT !.expression_error = TRUE, !.val = 0]

\* Mutant: the check for 0 is gone, and the processor makes it.
DivideBy(T, a, b) ==
    IF b = 0 \/ (a = MinInt /\ b = -1) THEN [T EXCEPT !.trap = TRUE]
    ELSE [T EXCEPT !.val = IF (a < 0) = (b < 0) THEN Abs(a) \div Abs(b) ELSE 0 - (Abs(a) \div Abs(b))]

\* a / b: 0 is refused; the one quotient that does not fit makes idiv trap.
Divide(T, a, b) ==
    CASE b = 0 -> [T EXCEPT !.val = a, !.expression_error = TRUE]
      [] a = MinInt /\ b = -1 -> [T EXCEPT !.trap = TRUE]
      [] OTHER -> [T EXCEPT !.val = IF (a < 0) = (b < 0) THEN Abs(a) \div Abs(b)
                                    ELSE 0 - (Abs(a) \div Abs(b))]

Arith(T, a, op, b) ==
    CASE op = "+" -> [T EXCEPT !.val = Wrap(a + b)]
      [] op = "-" -> [T EXCEPT !.val = Wrap(a - b)]
      [] op = "*" -> [T EXCEPT !.val = Wrap(a * b)]
      [] op = "/" -> Divide(T, a, b)

\* The loop over the digits.
Number(T) ==
    LET last == Max({q \in T.txtpos .. Len(text) : \A r \in T.txtpos .. q : text[r] \in Digits})
    IN  [T EXCEPT !.val = FoldLeft(LAMBDA a, c : Wrap(a * 10 + Digit(c)), 0, SubSeq(text, T.txtpos, last)),
                  !.txtpos = last + 1]

\* The functions that are implemented.
Apply(T, f) ==
    CASE f = <<"PEEK">> -> [T EXCEPT !.val = Memory(T.val)]
      [] f = <<"ABS">>  -> [T EXCEPT !.val = Wrap(Abs(T.val))]
      [] f = <<"GETC">> -> [T EXCEPT !.val = Key]
      [] f = <<"PUTC">> -> [T EXCEPT !.shown = IF T.trap THEN @ ELSE Append(@, T.val)]
      [] f = <<"RND">>  -> [T EXCEPT !.val = 3]

Implemented == {<<"PEEK">>, <<"ABS">>, <<"GETC">>, <<"PUTC">>, <<"RND">>}

RECURSIVE expression(_), expr4(_), Products(_), Sums(_)

\* Mutant: the closing parenthesis is taken for granted.
CloseUnseen(T) ==
    LET U == expression([T EXCEPT !.txtpos = @ + 1])
    IN  [U EXCEPT !.txtpos = @ + 1, !.closed = TRUE]

\* "(", an expression, ")"; closed says whether the last was there.
Parenthesised(T) ==
    LET U == expression([T EXCEPT !.txtpos = @ + 1])
    IN  IF At(U.txtpos) = ")" THEN [U EXCEPT !.txtpos = @ + 1, !.closed = TRUE]
        ELSE [Error(U) EXCEPT !.closed = FALSE]

Bracket(T) == IF At(T.txtpos) = "(" THEN Parenthesised(T) ELSE Error(T)

\* A function F that scantable found, or did not.  One that is not
\* implemented falls out of the switch, to the test for a parenthesis; f is
\* saved before the argument overwrites table_index.
Call(F) ==
    LET U == Parenthesised(F)
        f == F.table_index
    IN  IF F.table_index = UNKNOWN \/ At(F.txtpos) # "(" THEN Error(F)
        ELSE IF ~U.closed THEN U
        ELSE IF f \in Implemented THEN Apply(U, f) ELSE Bracket(U)

expr4(T0) ==
    LET p == ignore_blanks(T0.txtpos)
        T == [T0 EXCEPT !.txtpos = p]
        c == At(p)
        V == expr4([T EXCEPT !.txtpos = p + 1])
    IN  CASE c = "-" -> [V EXCEPT !.val = Wrap(0 - V.val)]
          [] c = "0" -> [T EXCEPT !.txtpos = p + 1, !.val = 0]
          [] c \in Digits \ {"0"} -> Number(T)
          [] c = "A" /\ At(p + 1) \notin Letters -> [T EXCEPT !.txtpos = p + 1, !.val = Variable]
          [] c \in FunctionNames \/ (c = "A" /\ At(p + 1) \in Letters) -> Call(scantable(T, func_tab))
          [] OTHER -> Bracket(T)

Products(T) ==
    LET op == At(T.txtpos)
        V  == expr4([T EXCEPT !.txtpos = @ + 1])
    IN  IF op \in {"*", "/"} THEN Products(Arith(V, T.val, op, V.val)) ELSE T

\* Only the blanks after the first factor are skipped.
expr3(T) ==
    LET V == expr4(T)
    IN  Products([V EXCEPT !.txtpos = ignore_blanks(V.txtpos)])

\* Mutant: a - b - c is a - (b - c).
RightToLeft(T) ==
    LET op == At(T.txtpos)
        V  == Sums(expr3([T EXCEPT !.txtpos = @ + 1]))
    IN  IF op \in {"+", "-"} THEN Arith(V, T.val, op, V.val) ELSE T

Sums(T) ==
    LET op == At(T.txtpos)
        V  == expr3([T EXCEPT !.txtpos = @ + 1])
    IN  IF op \in {"+", "-"} THEN Sums(Arith(V, T.val, op, V.val)) ELSE T

\* Mutant: no sign before the first term.
NoSign(T) == Sums(expr3(T))

expr2(T) == Sums(IF At(T.txtpos) \in {"+", "-"} THEN [T EXCEPT !.val = 0] ELSE expr3(T))

expression(T) ==
    LET L == expr2(T)
        R == scantable(L, relop_tab)
        V == expr2(R)
    IN  IF L.expression_error THEN L
        ELSE IF R.table_index = UNKNOWN THEN R
        ELSE [V EXCEPT !.val = IF Holds(R.table_index, L.val, V.val) THEN 1 ELSE 0]

-----------------------------------------------------------------------------
Init ==
    /\ text \in Openings
    /\ typed = 0
    /\ S = << >>

Type(c) ==
    /\ S = << >>
    /\ typed < MaxTyped
    /\ typed' = typed + 1
    /\ text' = Append(text, c)
    /\ UNCHANGED S

\* A statement calls expression(): expression_error = 0 first.
Evaluate ==
    /\ S = << >>
    /\ S' = expression([txtpos |-> 1, table_index |-> UNKNOWN, expression_error |-> FALSE,
                        val |-> 0, shown |-> << >>, trap |-> FALSE, closed |-> FALSE])
    /\ UNCHANGED <<text, typed>>

\* The next line; after a trap there is none.
Prompt ==
    /\ S # << >>
    /\ ~S.trap
    /\ text' \in Openings
    /\ typed' = 0
    /\ S' = << >>

Next ==
    \/ \E c \in Symbols : Type(c)
    \/ Evaluate
    \/ Prompt

Spec == Init /\ [][Next]_vars

-----------------------------------------------------------------------------
(* The reference: the set of meanings of the text from i to j, empty when  *)
(* it is not an expression.                                                *)

Depth(i, k) == Cardinality({r \in i .. k : text[r] = "("}) - Cardinality({r \in i .. k : text[r] = ")"})

\* The last symbol of i .. k that is not a blank, or NL.
Before(i, k) ==
    LET seen == {r \in i .. k : text[r] # " "}
    IN  IF seen = {} THEN NL ELSE text[Max(seen)]

\* Operators outside parentheses, with an operand before them.
Operators(i, j, ops) ==
    {k \in i .. j : text[k] \in ops /\ Depth(i, k) = 0 /\ Before(i, k - 1) \in Digits \cup {"A", ")"}}

FirstInk(i, j) == LET seen == {r \in i .. j : text[r] # " "} IN IF seen = {} THEN j + 1 ELSE Min(seen)
LastInk(i, j) == LET seen == {r \in i .. j : text[r] # " "} IN IF seen = {} THEN i - 1 ELSE Max(seen)

Literal(v) == {[v |-> v, zero |-> FALSE, trap |-> FALSE, shown |-> << >>]}

\* a / b, rounded towards 0.
Quotient(a, b) ==
    CHOOSE q \in MinInt .. 0 - MinInt : Abs(q * b) <= Abs(a) /\ Abs(a - q * b) < Abs(b)

Joined(A, op, B) ==
    {[v     |-> CASE op = "+" -> Wrap(a.v + b.v)
                  [] op = "-" -> Wrap(a.v - b.v)
                  [] op = "*" -> Wrap(a.v * b.v)
                  [] op = "/" -> IF b.v = 0 THEN a.v ELSE Quotient(a.v, b.v),
      zero  |-> a.zero \/ b.zero \/ (op = "/" /\ b.v = 0),
      trap  |-> a.trap \/ b.trap \/ (op = "/" /\ a.v = MinInt /\ b.v = -1),
      shown |-> a.shown \o b.shown] : a \in A, b \in B}

RECURSIVE Factor(_, _), Term(_, _), Polynomial(_, _), Meaning(_, _)

\* A function, or a pair of parentheses, that closes at l.
Inner(f, l) ==
    IF f < l /\ text[f] = "(" /\ Depth(f, l) = 0 /\ \A k \in f .. l - 1 : Depth(f, k) > 0
    THEN Meaning(f + 1, l - 1) ELSE {}

Applied(name, A) ==
    {CASE name = "PEEK" -> [a EXCEPT !.v = Memory(a.v)]
       [] name = "ABS"  -> [a EXCEPT !.v = IF a.v < 0 THEN Wrap(0 - a.v) ELSE a.v]
       [] name = "GETC" -> [a EXCEPT !.v = Key]
       [] name = "PUTC" -> [a EXCEPT !.shown = Append(@, a.v)]
       [] name = "RND"  -> [a EXCEPT !.v = 3] : a \in A}

Factor(i, j) ==
    LET f == FirstInk(i, j)
        l == LastInk(i, j)
    IN  CASE f > l -> {}
          [] f <= l /\ text[f] = "-" -> Joined(Literal(0), "-", Factor(f + 1, l))
          [] f <= l /\ (\A r \in f .. l : text[r] \in Digits) /\ (f = l \/ text[f] # "0") ->
                Literal(Wrap(MapThenSumSet(LAMBDA r : Digit(text[r]) * 10^(l - r), f .. l)))
          [] f = l /\ text[f] = "A" -> Literal(Variable)
          [] f < l /\ text[f] \in FunctionNames -> Applied(text[f], Inner(FirstInk(f + 1, l), l))
          [] OTHER -> Inner(f, l)

Term(i, j) ==
    LET ops == Operators(i, j, {"*", "/"})
        k   == Max(ops)
    IN  IF ops = {} THEN Factor(i, j) ELSE Joined(Term(i, k - 1), text[k], Factor(k + 1, j))

Polynomial(i, j) ==
    LET ops == Operators(i, j, {"+", "-"})
        k   == Max(ops)
    IN  IF ops # {} THEN Joined(Polynomial(i, k - 1), text[k], Term(k + 1, j))
        ELSE IF i <= j /\ text[i] \in {"+", "-"} THEN Joined(Literal(0), text[i], Term(i + 1, j))
        ELSE Term(i, j)

\* A relation lists the orders it allows; "!" those it does not.
Says(relop, a, b) ==
    LET order == IF a < b THEN "<" ELSE IF a = b THEN "=" ELSE ">"
    IN  (order \in ToSet(relop)) # ("!" \in ToSet(relop))

Meaning(i, j) ==
    LET rels  == Operators(i, j, {"<", ">", "=", "!"})
        k     == Min(rels)
        long  == k < j /\ <<text[k], text[k + 1]>> \in ToSet(relop_tab)
        relop == IF long THEN <<text[k], text[k + 1]>> ELSE <<text[k]>>
        A     == Polynomial(i, k - 1)
        B     == Polynomial(FirstInk(k + Len(relop), j), j)
    IN  IF rels = {} THEN Polynomial(i, j)
        ELSE {[m EXCEPT !.v = IF \E a \in A, b \in B : Says(relop, a.v, b.v) THEN 1 ELSE 0] :
                 m \in IF relop = <<"!">> THEN {} ELSE Joined(A, "+", B)}

-----------------------------------------------------------------------------
Evaluated == S # << >>
Understood == \A i \in DOMAIN text : <<text[i]>> \in Implemented \/ text[i] \notin FunctionNames

\* Whatever is typed, expression() stops at the end of the line or before it.
StopsAtNL == Evaluated => S.txtpos \in 1 .. Len(text) + 1

\* When expression() reports no error, what it has read is an expression and
\* its value, and what PUTC has shown, are those of the reference.
Sound ==
    Evaluated /\ Understood /\ ~S.expression_error /\ ~S.trap =>
        \E m \in Meaning(1, S.txtpos - 1) : m = [v |-> S.val, zero |-> FALSE, trap |-> FALSE, shown |-> S.shown]

\* An expression without blanks is read to its end, and refused only when it
\* divides by 0.
Complete ==
    Evaluated /\ Understood /\ " " \notin ToSet(text) =>
        \A m \in Meaning(1, Len(text)) :
            ~S.trap => IF m.zero THEN S.expression_error
                       ELSE ~S.expression_error /\ S.txtpos = Len(text) + 1

\* The processor traps on no division but that of the least number by -1.
TrapsOnlyAtMin ==
    Evaluated /\ Understood /\ S.trap => \A m \in Meaning(1, Len(text)) : m.trap
=============================================================================
