----------------------------- MODULE LineEditor -----------------------------
(***************************************************************************)
(* What the line editor of basic.c promises its user: a BASIC program is a *)
(* map from line numbers to texts, and a numbered line replaces, adds or   *)
(* deletes exactly one entry of it, with the text that was typed.          *)
(***************************************************************************)
EXTENDS Integers, Sequences

CONSTANTS
    Keys, SPACE, Quotes, LOWER, UPPER, ZERO,
    LineMod,        \* line numbers are taken modulo LineMod
    MaxUInt         \* and are refused when they do not fit in a U_INT

VARIABLES
    prog,           \* the program: line number -> text
    typed,          \* what has been typed of the current line
    mode            \* "line" (at the prompt), "answer" (to INPUT) or "run"

vars == <<prog, typed, mode>>

\* The line s in upper case outside quotes; quote[i] is the quotation mark that
\* is open before character i.
Upper(s) ==
    LET quote[i \in 1 .. Len(s) + 1] ==
            IF i = 1 \/ s[i - 1] = quote[i - 1] THEN 0
            ELSE IF s[i - 1] \in Quotes THEN s[i - 1] ELSE quote[i - 1]
    IN  [i \in 1 .. Len(s) |-> IF s[i] = LOWER /\ quote[i] = 0 THEN UPPER ELSE s[i]]

\* The first place of s, from i on, without a character of S.
Past(s, i, S) ==
    CHOOSE k \in i .. Len(s) + 1 :
        /\ \A j \in i .. k - 1 : s[j] \in S
        /\ k <= Len(s) => s[k] \notin S

\* The digits a line begins with, after blanks.
DigitsBegin(s) == Past(s, 1, {SPACE})
DigitsEnd(s)   == Past(s, DigitsBegin(s), ZERO .. ZERO + 9)

Value(s) ==
    LET value[i \in DigitsBegin(s) .. DigitsEnd(s)] ==
            IF i = DigitsBegin(s) THEN 0 ELSE 10 * value[i - 1] + (s[i - 1] - ZERO)
    IN  value[DigitsEnd(s)]

\* The number of a line, 0 if there is none, and the text after it.
Number(s) == IF Value(s) \div 10 >= MaxUInt \div 10 THEN LineMod - 1 ELSE Value(s) % LineMod

Text(s) == SubSeq(s, Past(s, DigitsEnd(s), {SPACE}), Len(s))

\* prog with line n replaced by t, or without line n if t is empty.
Stored(n, t) ==
    [k \in (DOMAIN prog \cup (IF t = <<>> THEN {} ELSE {n})) \ (IF t = <<>> THEN {n} ELSE {}) |->
        IF k = n THEN t ELSE prog[k]]

Init == prog = <<>> /\ typed = <<>> /\ mode = "line"

Key(c) == mode # "run" /\ typed' = Append(typed, c) /\ UNCHANGED <<prog, mode>>

Rub ==
    /\ mode # "run"
    /\ typed # <<>>
    /\ typed' = SubSeq(typed, 1, Len(typed) - 1)
    /\ UNCHANGED <<prog, mode>>

\* A line is entered: it is executed, refused or stored.
Enter ==
    LET line == Upper(typed)
    IN  /\ mode = "line"
        /\ typed' = <<>>
        /\ CASE Number(line) = 0           -> mode' \in {"line", "run"} /\ UNCHANGED prog
             [] Number(line) = LineMod - 1 -> UNCHANGED <<prog, mode>>
             [] OTHER -> prog' = Stored(Number(line), Text(line)) /\ UNCHANGED mode

Answer == mode = "answer" /\ mode' = "run" /\ typed' = <<>> /\ UNCHANGED prog

\* A statement stops, clears the program, or asks for a line.
Run ==
    /\ mode = "run"
    /\ typed' = <<>>
    /\ \/ mode' \in {"line", "answer"} /\ UNCHANGED prog
       \/ mode' = "line" /\ prog' = <<>>

Next == (\E c \in Keys : Key(c)) \/ Rub \/ Enter \/ Answer \/ Run

Spec == Init /\ [][Next]_vars
=============================================================================
