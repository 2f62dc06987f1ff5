------------------------------- MODULE Interp -------------------------------
(***************************************************************************)
(* The interpreter of basic.c: the part of basic_main() from `warmstart'   *)
(* and `run_next_statement' on, with its handlers for the statements.      *)
(*                                                                         *)
(* The stack grows down from the end of `program' towards stack_limit, and *)
(* the 27 variables lie right below stack_limit.  `mem' is that area in    *)
(* words of 8 bytes: word 0 is variables_begin, word VarArea stack_limit,  *)
(* and Top the end of `program'.  A word remembers what was stored in it,  *)
(* so that a frame read as a variable, or a variable as a frame, is seen.  *)
(*                                                                         *)
(* The program is a sequence of lines of statements (the module LineStore  *)
(* shows how its bytes are kept).  A pointer into it, or into the buffer   *)
(* of the line typed last, remembers when it was taken: what it leads to   *)
(* after the bytes have been rewritten is unknown, and the model "lost".   *)
(***************************************************************************)
EXTENDS Integers, Sequences

CONSTANTS
    Programs,       \* the programs a session may start with
    DirectLines,    \* lines of statements the user may type without a number
    NumberedLines,  \* lines the user may type with a number: [num, stmts]
    Statements,     \* the statements of all of these
    Answers,        \* values the user may give to INPUT
    FOR_WORDS,      \* sizeof(struct stack_for_frame) / 8, 4 in the code
    GOSUB_WORDS,    \* sizeof(struct stack_gosub_frame) / 8, 3 in the code
    VarArea,        \* words of variables, 27 in the code
    StackWords,     \* STACK_SIZE / 8, 256 in the code
    PrintWords,     \* words printnum may need for its digits, 3 in the code
    IntHalf,        \* an int is in -IntHalf .. IntHalf - 1
    LongHalf,       \* a S_INT is in -LongHalf .. LongHalf - 1
    MaxEdits,       \* bound: changes of the program in a session
    MaxTyped        \* bound: lines typed in a session

stack_limit == VarArea
Top == VarArea + StackWords
Words == 0 .. Top - 1
Ints == -IntHalf .. IntHalf - 1
Longs == -LongHalf .. LongHalf - 1
Vars == 0 .. VarArea - 2

\* What NEXT and RETURN look for when it is not the loop over a variable.
RETURN == -1    \* the frame of a GOSUB
BLANK == -2     \* NEXT, with a blank after the name: the loop over ' '
NOTHING == -3

\* nl: is its NL there; len: is its length, a NUL otherwise.
Line == [num : Nat, stmts : Seq(Statements), nl : BOOLEAN, len : BOOLEAN]

\* A statement that something has been written into.
Junk == [op |-> "junk"]

ASSUME InterpConstants ==
    /\ GOSUB_WORDS \in Nat \ {0} /\ FOR_WORDS \in Nat /\ GOSUB_WORDS <= FOR_WORDS
    /\ 3 <= GOSUB_WORDS /\ 4 <= FOR_WORDS
    /\ PrintWords \in Nat
    /\ StackWords \in Nat
    /\ VarArea \in Nat /\ 2 * FOR_WORDS + PrintWords <= VarArea
    /\ IntHalf \in Nat \ {0} /\ LongHalf \in Nat /\ IntHalf <= LongHalf
    /\ MaxEdits \in Nat /\ MaxTyped \in Nat
    /\ Answers \subseteq Longs

\* What the parser makes of a statement: an expression is a constant or a variable.
Expr == [k : {"const"}, v : Longs] \cup [k : {"var"}, v : Vars]

ASSUME InterpPrograms ==
    /\ Junk \in Statements
    /\ \A s \in Statements :
          /\ s.op \in {"let", "if"} => s.e \in Expr
          /\ s.op \in {"let", "input", "for"} => s.var \in Vars
          /\ s.op = "for" => {s.initial, s.terminal, s.step} \subseteq Expr
          /\ s.op = "next" => s.var \in Vars \cup {BLANK}
          /\ s.op \in {"goto", "gosub", "list"} => s.num \in Nat
          /\ s.op = "print" => s.ok \in BOOLEAN
          /\ s.op = "save" => s.named \in BOOLEAN
    /\ Programs \subseteq Seq(Line)
    /\ \A p \in Programs : \A i \in 1 .. Len(p) : p[i].stmts # <<>>
    /\ DirectLines \subseteq Seq(Statements) \ {<<>>}
    /\ NumberedLines \subseteq [num : Nat, stmts : Seq(Statements)]

\* Nobody types or loads a damaged statement: only SAVE makes them.
ASSUME InterpNoJunk ==
    /\ \A p \in Programs : \A i \in 1 .. Len(p) : \A k \in 1 .. Len(p[i].stmts) :
          p[i].stmts[k].op # "junk"
    /\ \A d \in DirectLines : \A k \in 1 .. Len(d) : d[k].op # "junk"
    /\ \A l \in NumberedLines : \A k \in 1 .. Len(l.stmts) : l.stmts[k].op # "junk"

\* A frame pushed where printnum still had its room ends above the 26 variables.
ASSUME InterpFrameSize == FOR_WORDS <= PrintWords + 1

VARIABLES
    prog,           \* the lines of the program
    edits,          \* how often the program has been changed
    buf,            \* the direct line typed last
    typed,          \* how often the buffer of getln has been written
    current_line,   \* NULL or a line
    txtpos,         \* a place in the program, or in the buffer (line 0)
    mem,            \* variables and stack
    sp,
    tempsp,         \* the frame gosub_return looks at
    want,           \* what it looks for; the variable of an INPUT
    pc

text == <<prog, edits, buf, typed>>
walk == <<tempsp, want>>
vars == <<text, current_line, txtpos, mem, sp, walk, pc>>

PC == {"prompt",    \* waiting for a line
       "run",       \* interperateAtTxtpos
       "walk",      \* in the loop of gosub_return
       "input",     \* waiting for the answer to an INPUT
       "exit",      \* basic_main has returned
       "lost"}      \* following a pointer to what is no longer there

NULL == [line |-> 0, epoch |-> 0]
Nowhere == [line |-> 0, at |-> 0, epoch |-> 0]

-----------------------------------------------------------------------------
(* Words.                                                                  *)

Value(v) == [t |-> "int", v |-> v]
Garbage == [t |-> "garbage"]
Gosub == [t |-> "gosub"]
For(v, terminal) == [t |-> "for", var |-> v, terminal |-> terminal]
Step(v) == [t |-> "step", v |-> v]
LinePtr(p) == [t |-> "line", to |-> p]
TextPtr(p) == [t |-> "text", to |-> p]

\* Mutant: the fields of a frame are as wide as a variable.
NotTruncated(v) == v

\* A value kept in an int, or in a S_INT.
ToInt(v) == ((v + IntHalf) % (2 * IntHalf)) - IntHalf
ToLong(v) == ((v + LongHalf) % (2 * LongHalf)) - LongHalf

\* The values a word may have as a variable, as a step, as a terminal.
ValuesOf(w) == IF w.t = "int" THEN {w.v} ELSE Longs
StepsOf(w) == IF w.t = "step" THEN {w.v} ELSE IF w.t = "int" THEN {ToInt(w.v)} ELSE Ints
TerminalsOf(w) == IF w.t = "for" THEN {w.terminal} ELSE Ints

Eval(e) == IF e.k = "const" THEN {e.v} ELSE ValuesOf(mem[e.v])

\* The store into a variable.
Stored(v, x) == [mem EXCEPT ![v] = Value(x)]

-----------------------------------------------------------------------------
(* Places in the program.                                                  *)

StmtsAt(p) == IF p.line = 0 THEN buf ELSE prog[p.line].stmts

\* Is what p leads to still there?
Valid(p) == p.epoch = (IF p.line = 0 THEN typed ELSE edits)

Here == StmtsAt(txtpos)[txtpos.at]
After == [txtpos EXCEPT !.at = @ + 1]
LastOnLine == txtpos.at = Len(StmtsAt(txtpos))

\* findline: i is the first line with a number from n on, or program_end.
FindLine(n, i) ==
    /\ i <= Len(prog) => prog[i].num >= n
    /\ \A j \in 1 .. (i - 1) : prog[j].num < n /\ prog[j].len

\* findline comes to a line of length 0 and never gets past it.
FindsNoEnd(n) ==
    \E i \in 1 .. Len(prog) : ~prog[i].len /\ \A j \in 1 .. i : prog[j].num < n

LineAt(i) == [line |-> i, epoch |-> edits]

program_end == LineAt(Len(prog) + 1)

-----------------------------------------------------------------------------
(* Where a statement goes on.  s is the stack pointer it leaves.           *)

\* prompt: current_line and sp keep their values.
Prompt(cl, s) ==
    /\ pc' = "prompt"
    /\ current_line' = cl
    /\ txtpos' = Nowhere
    /\ sp' = s

Warmstart == Prompt(NULL, Top)

Run(cl, p, s) ==
    /\ pc' = "run"
    /\ current_line' = cl
    /\ txtpos' = p
    /\ sp' = s

Lost ==
    /\ pc' = "lost"
    /\ UNCHANGED <<current_line, txtpos, sp>>

ExecLine(cl, s) ==
    \/ cl = program_end /\ Warmstart
    \/ cl # program_end /\ Run(cl, [line |-> cl.line, at |-> 1, epoch |-> cl.epoch], s)

ExecNextLine(cl, s) ==
    \/ cl = NULL /\ Prompt(cl, s)
    \/ cl # NULL /\ Valid(cl) /\ ExecLine([cl EXCEPT !.line = IF prog[cl.line].len THEN @ + 1 ELSE @], s)
    \/ cl # NULL /\ ~Valid(cl) /\ Lost

RunNextStatement(cl, p, s) ==
    \/ ~Valid(p) /\ Lost
    \/ Valid(p) /\ p.at <= Len(StmtsAt(p)) /\ Run(cl, p, s)
    \/ Valid(p) /\ p.at > Len(StmtsAt(p)) /\ ExecNextLine(cl, s)

\* printnum pushes its digits below sp.  In the stack they are never read
\* again, below stack_limit they overwrite variables.
Scribble(k) ==
    mem' = [i \in Words |-> IF i \in sp - k .. sp - 1 /\ i < stack_limit THEN Garbage ELSE mem[i]]

\* qhow, and qwhat, which prints the number of the current line if there is one.
Error(what) ==
    /\ \E k \in 0 .. PrintWords : (k > 0 => what /\ current_line # NULL) /\ Scribble(k)
    /\ Prompt(current_line, sp)
    /\ UNCHANGED <<text, walk>>

-----------------------------------------------------------------------------
(* The statements.                                                         *)

At(op) == pc = "run" /\ Here.op = op

\* Mutant: the test lets one more frame in.
NoRoomForTwo(n) == sp + 2 * n < stack_limit

\* Is there no room for a frame of n words?
NoRoom(n) == sp + n < stack_limit

\* Any statement whose handler finds its text wrong, before it does anything;
\* DELAY, which is not implemented, ends in the same way.
Malformed == At("error") /\ \E what \in BOOLEAN : Error(what)

\* Statements that must be the last of their line, and are not.
NotLast ==
    /\ pc = "run"
    /\ Here.op \in {"for", "goto", "gosub", "if", "new", "list", "end"}
    /\ Here.op = "if" => LastOnLine
    /\ Here.op # "if" => ~LastOnLine
    /\ Error(Here.op \in {"new", "list", "end"})

\* What a pointer into rewritten text, or a damaged statement, leads to.
RunsJunk ==
    /\ At("junk")
    /\ Lost
    /\ UNCHANGED <<text, mem, walk>>

\* PRINT, which may find the end of its list wrong when it has printed the rest;
\* MEM; and RSEED, which prints nothing.
PrintNum ==
    /\ At("print")
    /\ \E k \in 0 .. PrintWords : Scribble(k)
    /\ IF Here.ok THEN RunNextStatement(current_line, After, sp) ELSE Prompt(current_line, sp)
    /\ UNCHANGED <<text, walk>>

Assignment ==
    /\ At("let")
    /\ \E v \in Eval(Here.e) : mem' = Stored(Here.var, v)
    /\ RunNextStatement(current_line, After, sp)
    /\ UNCHANGED <<text, walk>>

If ==
    /\ At("if")
    /\ ~LastOnLine
    /\ \E v \in Eval(Here.e) :
          \/ v # 0 /\ Run(current_line, After, sp)
          \/ v = 0 /\ ExecNextLine(current_line, sp)
    /\ UNCHANGED <<text, mem, walk>>

Rem ==
    /\ At("rem")
    /\ ExecNextLine(current_line, sp)
    /\ UNCHANGED <<text, mem, walk>>

Goto ==
    /\ At("goto")
    /\ LastOnLine
    /\ \E i \in 1 .. Len(prog) + 1 : FindLine(Here.num, i) /\ ExecLine(LineAt(i), sp)
    /\ UNCHANGED <<text, mem, walk>>

\* RUN leaves the stack as it is.
RunProgram ==
    /\ At("run")
    /\ ExecLine(LineAt(1), sp)
    /\ UNCHANGED <<text, mem, walk>>

\* findline does not return.
Hangs ==
    /\ \/ At("goto") \/ At("list")
       \/ At("gosub") /\ ~NoRoom(GOSUB_WORDS)
    /\ LastOnLine
    /\ FindsNoEnd(Here.num)
    /\ Lost
    /\ UNCHANGED <<text, mem, walk>>

End ==
    /\ At("end")
    /\ LastOnLine
    /\ ExecLine(program_end, sp)
    /\ UNCHANGED <<text, mem, walk>>

\* printline goes from NL to NL: if that of the last line is missing, it
\* passes program_end and does not stop.
List ==
    /\ At("list")
    /\ LastOnLine
    /\ \E i \in 1 .. Len(prog) + 1, k \in 0 .. PrintWords :
          /\ FindLine(Here.num, i)
          /\ \/ i = Len(prog) + 1 /\ k = 0 /\ Warmstart
             \/ i <= Len(prog) /\ prog[Len(prog)].nl /\ Warmstart
             \/ i <= Len(prog) /\ ~prog[Len(prog)].nl /\ Lost
          /\ Scribble(k)
    /\ UNCHANGED <<text, walk>>

\* FILES and USER.
ToFirmware ==
    /\ At("files")
    /\ Warmstart
    /\ UNCHANGED <<text, mem, walk>>

Bye ==
    /\ At("bye")
    /\ pc' = "exit"
    /\ UNCHANGED <<text, mem, walk, current_line, txtpos, sp>>

\* NEW: current_line and the stack keep pointing to what was the program.
New ==
    /\ At("new")
    /\ LastOnLine
    /\ edits < MaxEdits
    /\ edits' = edits + 1
    /\ prog' = <<>>
    /\ Prompt(current_line, sp)
    /\ UNCHANGED <<buf, typed, mem, walk>>

\* LOAD and CHAIN do the same, wherever they stand.
Load ==
    /\ At("load")
    /\ edits < MaxEdits
    /\ edits' = edits + 1
    /\ prog' = <<>>
    /\ Prompt(current_line, sp)
    /\ UNCHANGED <<buf, typed, mem, walk>>

\* The bytes of a line number, the lowest first, and those that may be part of a
\* file name (isValidFnChar).
Weight == <<1, 256, 65536, 16777216>>
ByteOf(n, k) == (n \div Weight[k]) % 256
NameBytes == {43, 46, 95, 126} \cup (48 .. 57) \cup (65 .. 90) \cup (97 .. 122)

\* The bytes from f to k are what filenameWord reads of a name in the number n.
NameIn(n, f, k) ==
    /\ \A j \in f .. k : ByteOf(n, j) \in NameBytes
    /\ \A j \in 1 .. f - 1 : ByteOf(n, j) \notin NameBytes

\* What a NUL leaves of the line l: behind a name in its number, over its length
\* when the name reaches up to there, or behind the first word of its text, which
\* is its NL when the line ends there.
CutNumber(l) ==
    {[l EXCEPT !.num = @ - ByteOf(@, k) * Weight[k]] :
        k \in {k \in 2 .. 4 : ByteOf(l.num, k) \notin NameBytes /\ \E f \in 1 .. k - 1 : NameIn(l.num, f, k - 1)}}
CutLength(l) == IF \E f \in 1 .. 4 : NameIn(l.num, f, 4) THEN {[l EXCEPT !.len = FALSE]} ELSE {}
Garbled(l, k, nl) ==
    [l EXCEPT !.stmts = [l.stmts EXCEPT ![k] = Junk], !.nl = l.nl /\ nl]
CutText(l) == {Garbled(l, k, nl) : k \in 1 .. Len(l.stmts), nl \in BOOLEAN}
Cut(l) == IF CutNumber(l) # {} THEN CutNumber(l) ELSE CutLength(l) \cup CutText(l)

\* filenameWord ends the file name with a NUL: over the NL that ends the line, or
\* if the name is missing, behind the next word on the line or after it.
Save ==
    /\ At("save")
    /\ \/ /\ Here.named => txtpos.line = 0 \/ ~LastOnLine
          /\ UNCHANGED prog
       \/ /\ Here.named <=> LastOnLine
          /\ txtpos.line # 0
          /\ prog' = [prog EXCEPT ![txtpos.line].nl = FALSE]
       \/ /\ ~Here.named /\ txtpos.line # 0
          /\ \E i \in txtpos.line + 1 .. Len(prog) :
                \E l \in Cut(prog[i]) : prog' = [prog EXCEPT ![i] = l]
    /\ Warmstart
    /\ UNCHANGED <<edits, buf, typed, mem, walk>>

-----------------------------------------------------------------------------
(* Frames.                                                                 *)

ForLoop ==
    /\ At("for")
    /\ LastOnLine
    /\ UNCHANGED <<text, walk>>
    /\ \/ NoRoom(FOR_WORDS) /\ Warmstart /\ UNCHANGED mem
       \/ /\ ~NoRoom(FOR_WORDS)
          /\ \E initial \in Eval(Here.initial), terminal \in Eval(Here.terminal), step \in Eval(Here.step) :
                mem' = [Stored(Here.var, initial) EXCEPT
                          ![sp - FOR_WORDS]     = For(Here.var, ToInt(terminal)),
                          ![sp - FOR_WORDS + 1] = Step(ToInt(step)),
                          ![sp - FOR_WORDS + 2] = LinePtr(current_line),
                          ![sp - FOR_WORDS + 3] = TextPtr(After)]
          /\ RunNextStatement(current_line, After, sp - FOR_WORDS)

GosubLine ==
    /\ At("gosub")
    /\ LastOnLine
    /\ UNCHANGED <<text, walk>>
    /\ \/ NoRoom(GOSUB_WORDS) /\ Warmstart /\ UNCHANGED mem
       \/ /\ ~NoRoom(GOSUB_WORDS)
          /\ mem' = [mem EXCEPT ![sp - GOSUB_WORDS]     = Gosub,
                                ![sp - GOSUB_WORDS + 1] = LinePtr(current_line),
                                ![sp - GOSUB_WORDS + 2] = TextPtr(After)]
          /\ \E i \in 1 .. Len(prog) + 1 :
                FindLine(Here.num, i) /\ ExecLine(LineAt(i), sp - GOSUB_WORDS)

\* Mutant: the walk starts behind the type of the first frame.
WalkFromNext(w) ==
    /\ pc' = "walk"
    /\ tempsp' = IF sp < Top THEN sp + 1 ELSE sp
    /\ want' = w
    /\ txtpos' = After
    /\ UNCHANGED <<text, current_line, mem, sp>>

\* NEXT and RETURN start to look at the frames from sp on.
WalkFrom(w) ==
    /\ pc' = "walk"
    /\ tempsp' = sp
    /\ want' = w
    /\ txtpos' = After
    /\ UNCHANGED <<text, current_line, mem, sp>>

NextVar == At("next") /\ WalkFrom(Here.var)

Return == At("return") /\ WalkFrom(RETURN)

WalkEnds == tempsp' = Top /\ want' = NOTHING

Looking == pc = "walk" /\ tempsp < Top

\* The frame of a FOR or a GOSUB that is not the one.
WalkOn ==
    /\ Looking
    /\ \/ mem[tempsp].t = "gosub" /\ want # RETURN /\ tempsp' = tempsp + GOSUB_WORDS
       \/ mem[tempsp].t = "for" /\ mem[tempsp].var # want /\ tempsp' = tempsp + FOR_WORDS
    /\ UNCHANGED <<text, current_line, txtpos, mem, sp, want, pc>>

\* What lies there is no frame.  It may still look like one.
WalkStuffed ==
    /\ Looking
    /\ mem[tempsp].t \notin {"for", "gosub"}
    /\ Warmstart \/ Lost
    /\ WalkEnds
    /\ UNCHANGED <<text, mem>>

\* No frame is the one: How?
WalkFails ==
    /\ pc = "walk"
    /\ tempsp >= Top
    /\ Prompt(current_line, sp)
    /\ WalkEnds
    /\ UNCHANGED <<text, mem>>

\* Go on behind the FOR or the GOSUB whose pointers are in the words l and p.
ResumeAt(l, p, s) ==
    \/ l.t = "line" /\ p.t = "text" /\ RunNextStatement(l.to, p.to, s)
    \/ ~(l.t = "line" /\ p.t = "text") /\ Lost

\* RETURN: sp goes up by one frame, from where it was.
Returns ==
    /\ Looking
    /\ mem[tempsp].t = "gosub"
    /\ want = RETURN
    /\ ResumeAt(mem[tempsp + 1], mem[tempsp + 2], sp + GOSUB_WORDS)
    /\ WalkEnds
    /\ UNCHANGED <<text, mem>>


\* Does a loop with this step go on?
Loops(v, step, terminal) == (step > 0 /\ v <= terminal) \/ (step < 0 /\ v >= terminal)

\* Mutants: NEXT pops as RETURN does, from sp; it leaves the frame of the loop.
PopsFromSp == sp + FOR_WORDS
PopsToFrame == tempsp

\* The stack when a loop is left: its frame and those above it are popped.
AfterLoop == tempsp + FOR_WORDS

\* NEXT: step the variable, then go round again or leave the loop, and all that
\* was opened in it.
Iterates ==
    /\ Looking
    /\ mem[tempsp].t = "for"
    /\ mem[tempsp].var = want
    /\ \E v \in ValuesOf(mem[want]), step \in StepsOf(mem[tempsp + 1]) :
          mem' = Stored(want, ToLong(v + step))
    /\ \E step \in StepsOf(mem'[tempsp + 1]), terminal \in TerminalsOf(mem'[tempsp]) :
          \/ /\ Loops(mem'[want].v, step, terminal)
             /\ ResumeAt(mem'[tempsp + 2], mem'[tempsp + 3], sp)
          \/ /\ ~Loops(mem'[want].v, step, terminal)
             /\ RunNextStatement(current_line, txtpos, AfterLoop)
    /\ WalkEnds
    /\ UNCHANGED text

-----------------------------------------------------------------------------
(* INPUT, and the lines the user types.                                    *)

Input ==
    /\ At("input")
    /\ pc' = "input"
    /\ txtpos' = After
    /\ want' = Here.var
    /\ UNCHANGED <<text, current_line, mem, sp, tempsp>>

\* The answer is typed over the direct line the INPUT may be part of; what is
\* executed next is what it left of that line.
Answer(v) ==
    /\ pc = "input"
    /\ typed < MaxTyped
    /\ typed' = IF txtpos.line = 0 THEN typed ELSE typed + 1
    /\ mem' = Stored(want, v)
    /\ RunNextStatement(current_line, txtpos, sp) \/ (txtpos.line = 0 /\ Lost)
    /\ WalkEnds
    /\ UNCHANGED <<prog, edits, buf>>

\* A line without number: current_line is whatever it was.
EnterDirect(stmts) ==
    /\ pc = "prompt"
    /\ typed < MaxTyped
    /\ typed' = typed + 1
    /\ buf' = stmts
    /\ Run(current_line, [line |-> 0, at |-> 1, epoch |-> typed'], sp)
    /\ UNCHANGED <<prog, edits, mem, walk>>

\* A line with a number replaces, deletes or is added.  A line of length 0 is not
\* taken out.
EnterNumbered(l) ==
    /\ pc = "prompt"
    /\ typed < MaxTyped /\ edits < MaxEdits
    /\ typed' = typed + 1 /\ edits' = edits + 1
    /\ \E i \in 1 .. Len(prog) + 1 :
          /\ FindLine(l.num, i)
          /\ \E rest \in {i, i + 1} :
                /\ (rest = i + 1) <=> (i <= Len(prog) /\ prog[i].num = l.num /\ prog[i].len)
                /\ prog' = SubSeq(prog, 1, i - 1)
                           \o (IF l.stmts = <<>> THEN <<>>
                               ELSE <<[num |-> l.num, stmts |-> l.stmts, nl |-> TRUE, len |-> TRUE]>>)
                           \o SubSeq(prog, rest, Len(prog))
    /\ buf' = <<>>
    /\ UNCHANGED <<current_line, txtpos, mem, sp, walk, pc>>

\* Its number makes findline hang.
EnterHangs(l) ==
    /\ pc = "prompt"
    /\ FindsNoEnd(l.num)
    /\ Lost
    /\ UNCHANGED <<text, mem, walk>>

Init ==
    /\ prog \in Programs
    /\ edits = 0
    /\ buf = <<>>
    /\ typed = 0
    /\ current_line = NULL
    /\ txtpos = Nowhere
    /\ mem = [i \in Words |-> Value(0)]
    /\ sp = Top
    /\ tempsp = Top
    /\ want = NOTHING
    /\ pc = "prompt"

Statement ==
    \/ Malformed \/ NotLast \/ RunsJunk \/ PrintNum \/ Assignment \/ If \/ Rem
    \/ Goto \/ Hangs \/ RunProgram \/ End \/ List \/ ToFirmware \/ Bye \/ New \/ Load \/ Save
    \/ ForLoop \/ GosubLine \/ NextVar \/ Return \/ Input

Walk == WalkOn \/ WalkStuffed \/ WalkFails \/ Returns \/ Iterates

Interpret == Statement \/ Walk

User ==
    \/ \E v \in Answers : Answer(v)
    \/ \E stmts \in DirectLines : EnterDirect(stmts)
    \/ \E l \in NumberedLines : EnterNumbered(l) \/ EnterHangs(l)

\* basic_main has returned, or the model does not know.
Stopped == pc \in {"exit", "lost"} /\ UNCHANGED vars

Next == Interpret \/ User \/ Stopped

Spec == Init /\ [][Next]_vars

\* The interpreter goes on by itself; nobody has to type.
FairSpec == Spec /\ WF_vars(Interpret)

\* Programs that close the loops of a subroutine before they RETURN from it,
\* and leave printnum its room above stack_limit.
TidyStep ==
    /\ Returns => tempsp = sp
    /\ stack_limit + PrintWords <= sp'

TidySpec == Init /\ [][Next /\ TidyStep]_vars

-----------------------------------------------------------------------------
(* Properties.                                                             *)

Place == [line : Nat, epoch : Nat]
TextPlace == [line : Nat, at : Nat, epoch : Nat]

Word ==
    {Garbage, Gosub} \cup [t : {"int"}, v : Longs]
    \cup [t : {"for"}, var : Vars, terminal : Ints]
    \cup [t : {"step"}, v : Ints]
    \cup [t : {"line"}, to : Place] \cup [t : {"text"}, to : TextPlace]

TypeOK ==
    /\ prog \in Seq(Line)
    /\ edits \in 0 .. MaxEdits
    /\ buf \in Seq(Statements)
    /\ typed \in 0 .. MaxTyped
    /\ current_line \in Place
    /\ txtpos \in TextPlace
    /\ mem \in [Words -> Word]
    /\ sp \in 0 .. Top
    /\ tempsp \in 0 .. Top
    /\ want \in Vars \cup {RETURN, BLANK, NOTHING}
    /\ pc \in PC

\* The tests `sp + sizeof(...) < stack_limit' of FOR and GOSUB let the stack
\* grow below stack_limit, by up to two frames of a FOR: neither a frame nor the
\* digits printnum pushes reach the program below the variables.
StackAboveProgram == stack_limit - 2 * FOR_WORDS <= sp /\ PrintWords <= sp

\* A whole frame of a GOSUB, or of a FOR, starts at the word a.
PointersAt(a) == mem[a].t = "line" /\ mem[a + 1].t = "text"
GosubAt(a) == a + GOSUB_WORDS <= Top /\ mem[a].t = "gosub" /\ PointersAt(a + 1)
ForAt(a) == a + FOR_WORDS <= Top /\ mem[a].t = "for" /\ mem[a + 1].t = "step" /\ PointersAt(a + 2)

\* From the word a on the stack is a chain of whole frames that ends at Top.
Whole[a \in 0 .. Top] ==
    \/ a = Top
    \/ GosubAt(a) /\ Whole[a + GOSUB_WORDS]
    \/ ForAt(a) /\ Whole[a + FOR_WORDS]

\* "Now walk up the stack frames": what lies from sp on is nothing but frames.
StackOfFrames == Whole[sp]

\* A statement that stores into the variable v: an assignment, a FOR, a NEXT or an
\* INPUT.
Names(v) ==
    \/ pc = "run" /\ Here.op \in {"let", "for"} /\ Here.var = v
    \/ pc \in {"walk", "input"} /\ want = v

\* Does a frame or do digits go over the variable v?
Pushes(v) ==
    \/ pc = "run" /\ Here.op = "for" /\ v \in sp - FOR_WORDS .. sp - 1
    \/ pc = "run" /\ Here.op = "gosub" /\ v \in sp - GOSUB_WORDS .. sp - 1
    \/ pc = "run" /\ Here.op \notin {"for", "gosub"} /\ v \in sp - PrintWords .. sp - 1

\* A variable that no statement names changes only under what is pushed onto a
\* stack that has come too close, and that reaches only the last of them: however
\* deep loops and calls are nested, the first ones keep what was stored in them.
VariablesKept ==
    [][\A v \in Vars :
          mem'[v] # mem[v] =>
             \/ Names(v)
             \/ Pushes(v) /\ v >= stack_limit - 2 * FOR_WORDS - PrintWords]_vars

\* A line that SAVE has written its NUL into.
Damaged(l) == ~l.nl \/ ~l.len \/ \E k \in 1 .. Len(l.stmts) : l.stmts[k].op = "junk"

\* The pointers that frames and current_line keep across NEW, LOAD, an edit or
\* the next direct line, and an INPUT typed over its own line, are the only ways
\* to lose the place: a program as it was stored, started by the first line typed,
\* is always executed where its text is, whatever fails in it.
KeepsPlace ==
    pc = "lost" => \/ edits > 0
                   \/ typed > 1
                   \/ \E i \in 1 .. Len(buf) : buf[i].op = "input"
                   \/ \E i \in 1 .. Len(prog) : Damaged(prog[i])

\* The open loop or call that the frame at the word a stands for, and its size.
FrameAt(a) ==
    IF mem[a].t = "gosub"
    THEN [kind |-> "gosub", back |-> <<mem[a + 1], mem[a + 2]>>]
    ELSE [kind |-> "for", var |-> mem[a].var, terminal |-> mem[a].terminal,
          step |-> mem[a + 1], back |-> <<mem[a + 2], mem[a + 3]>>]
SizeAt(a) == IF mem[a].t = "gosub" THEN GOSUB_WORDS ELSE FOR_WORDS

\* The open loops and calls that the words from a on stand for.
OpenFrom[a \in 0 .. Top] ==
    IF GosubAt(a) \/ ForAt(a) THEN <<FrameAt(a)>> \o OpenFrom[a + SizeAt(a)] ELSE <<>>

OpenFrames == OpenFrom[sp]

Stack == INSTANCE BasicStack WITH frames <- OpenFrames

\* The stack of a tidy program is a stack of loops and calls: NEXT and RETURN
\* close the one they find, and every other frame stays as it was pushed.
ImplementsStack == Stack!Spec

\* No two FOR of the program are over the same variable.
OwnVariables ==
    \A i, j \in 1 .. Len(prog) : \A k \in 1 .. Len(prog[i].stmts), l \in 1 .. Len(prog[j].stmts) :
        /\ prog[i].stmts[k].op = "for"
        /\ prog[j].stmts[l].op = "for"
        /\ prog[i].stmts[k].var = prog[j].stmts[l].var
        => i = j /\ k = l


=============================================================================
