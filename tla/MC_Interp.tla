----------------------------- MODULE MC_Interp ------------------------------
(***************************************************************************)
(* Instances of Interp: the statements, programs and lines of its runs.    *)
(***************************************************************************)
EXTENDS Interp

A == 0      \* the first variable, and the last: the one next to the stack
Z == 25

Const(v) == [k |-> "const", v |-> v]
Variable(x) == [k |-> "var", v |-> x]

LetStmt(x, e) == [op |-> "let", var |-> x, e |-> e]
ForStmt(x, i, t, s) ==
    [op |-> "for", var |-> x, initial |-> Const(i), terminal |-> Const(t), step |-> Const(s)]
NextStmt(x) == [op |-> "next", var |-> x]
GosubStmt(n) == [op |-> "gosub", num |-> n]
GotoStmt(n) == [op |-> "goto", num |-> n]
IfStmt(e) == [op |-> "if", e |-> e]
PrintStmt(ok) == [op |-> "print", ok |-> ok]
InputStmt(x) == [op |-> "input", var |-> x]
SaveStmt(b) == [op |-> "save", named |-> b]
ListStmt(n) == [op |-> "list", num |-> n]
Plain(op) == [op |-> op]

\* Programs of at most n lines that have one line of S each.
ProgramsOf(S, n) ==
    UNION {{[i \in 1 .. len |-> [num |-> 10 * i, stmts |-> f[i], nl |-> TRUE, len |-> TRUE]] :
               f \in [1 .. len -> S]} : len \in 0 .. n}

StatementsOf(S) == UNION {{s[i] : i \in 1 .. Len(s)} : s \in S}

Alone(S) == {<<s>> : s \in S}

-----------------------------------------------------------------------------
(* Every statement, in short programs that are changed between direct lines.*)

AnyStatement ==
    {LetStmt(Z, Const(1)), ForStmt(A, 1, 2, 1), NextStmt(A), GosubStmt(20), GotoStmt(10),
     PrintStmt(TRUE), InputStmt(A), SaveStmt(TRUE), SaveStmt(FALSE), Plain("return"),
     Plain("new"), Plain("load"), Plain("end"), Plain("error"), Plain("rem"), Plain("files")}
AnyLines ==
    Alone(AnyStatement) \cup {<<IfStmt(Variable(Z)), Plain("end")>>, <<Plain("end"), Plain("rem")>>}
\* Behind a SAVE without a name: line numbers with bytes that look like a name,
\* 0x0130 and 0x30000000.
SavePrograms ==
    {<<[num |-> 10, stmts |-> <<SaveStmt(FALSE)>>, nl |-> TRUE, len |-> TRUE],
       [num |-> n, stmts |-> <<Plain("rem")>>, nl |-> TRUE, len |-> TRUE]>> : n \in {304, 805306368}}
AnyPrograms == ProgramsOf(AnyLines, 2) \cup SavePrograms
AnyDirect ==
    Alone({Plain("run"), NextStmt(A), NextStmt(BLANK), ListStmt(0), ListStmt(805306369), Plain("bye"), PrintStmt(FALSE),
           ForStmt(A, 1, 5, 1), InputStmt(A), Plain("new"), GosubStmt(20), IfStmt(Const(1))})
    \cup {<<SaveStmt(FALSE), Plain("rem")>>}
AnyNumbered == {[num |-> 20, stmts |-> <<>>], [num |-> 805306369, stmts |-> <<>>], [num |-> 20, stmts |-> <<Plain("return")>>]}
AnyStatements == StatementsOf(AnyLines \cup AnyDirect) \cup {Junk}
AnyAnswers == {0, 1}

-----------------------------------------------------------------------------
(* Loops and calls, as deep as they go.                                    *)

StackStatement ==
    {LetStmt(Z, Const(1)), ForStmt(A, 1, 2, 1), ForStmt(Z, 2, 1, -1), NextStmt(A), NextStmt(Z),
     GosubStmt(20), GosubStmt(30), Plain("return"), Plain("error")}
StackLines == Alone(StackStatement) \cup {<<NextStmt(A), PrintStmt(TRUE)>>}
StackPrograms == ProgramsOf(StackLines, 3)
StackDirect == {<<Plain("run")>>, <<Plain("new")>>, <<ForStmt(A, 1, 2, 1)>>}
StackNumbered == {[num |-> 20, stmts |-> <<>>]}
StackStatements == StatementsOf(StackLines \cup StackDirect) \cup {Junk}

-----------------------------------------------------------------------------
(* Loops only.                                                             *)

\* One terminal is cut to -15 when it is put into its frame.
LoopStatement ==
    {ForStmt(A, 1, 9, 1), ForStmt(A, 1, 2, 1), ForStmt(A, 1, 5, 2), ForStmt(Z, 2, 17, -1), ForStmt(Z, 0, 1, 0),
     NextStmt(A), NextStmt(Z), PrintStmt(TRUE)}
LoopPrograms == ProgramsOf(Alone(LoopStatement), 4)
LoopDirect == {<<Plain("run")>>}
LoopStatements == StatementsOf(Alone(LoopStatement) \cup LoopDirect) \cup {Junk}

None == {}
=============================================================================
