---------------------------- MODULE InterpProofs ----------------------------
(***************************************************************************)
(* The stack of Interp stays above the program, for every program and      *)
(* every session.  The bound is not inductive by itself: RETURN moves sp   *)
(* up by what it reads in a word, so the invariant says which words look   *)
(* like frames (WordOK), that the walk along them starts at sp, and that   *)
(* the interpreter is always at a statement (RunInText), because what a    *)
(* statement stores is only known then.                                    *)
(***************************************************************************)
EXTENDS Interp, TLAPS

\* A pointer to a line that can still be followed leads to a line.
SoundLine(p) ==
    /\ p \in Place
    /\ p.line = 0 => p = NULL
    /\ p.line # 0 => p.epoch <= edits /\ (p.epoch = edits => p.line <= Len(prog))

SoundText(p) ==
    /\ p \in TextPlace
    /\ p.line = 0 => p.epoch <= typed
    /\ p.line # 0 => p.epoch <= edits /\ (p.epoch = edits => p.line <= Len(prog))

\* A place where there is a statement.
InText(p) ==
    /\ Valid(p)
    /\ p.line <= Len(prog)
    /\ p.at \in 1 .. Len(StmtsAt(p))

\* A word at i that starts a frame has room for it, and the pointers are sound.
WordOK(i, w) ==
    /\ w \in Word
    /\ w.t = "gosub" => i + GOSUB_WORDS <= Top
    /\ w.t = "for" => i + FOR_WORDS <= Top
    /\ w.t = "line" => SoundLine(w.to)
    /\ w.t = "text" => SoundText(w.to) /\ 1 <= w.to.at

MemOK(m) == m \in [Words -> Word] /\ \A i \in Words : WordOK(i, m[i])

LinesNotEmpty == \A i \in 1 .. Len(prog) : prog[i].stmts # <<>>

WalkAboveSp ==
    /\ pc = "walk" => sp <= tempsp
    /\ pc = "input" => want \in Vars
    /\ pc \in {"walk", "input"} => SoundText(txtpos) /\ 1 <= txtpos.at

IInv ==
    /\ TypeOK
    /\ StackAboveProgram
    /\ MemOK(mem)
    /\ LinesNotEmpty
    /\ WalkAboveSp
    /\ SoundLine(current_line)
    /\ pc = "run" => SoundText(txtpos) /\ InText(txtpos)

-----------------------------------------------------------------------------
LEMMA Sizes ==
    /\ FOR_WORDS \in Nat /\ GOSUB_WORDS \in Nat /\ 3 <= GOSUB_WORDS /\ GOSUB_WORDS <= FOR_WORDS
    /\ 4 <= FOR_WORDS
    /\ PrintWords \in Nat /\ StackWords \in Nat /\ VarArea \in Nat
    /\ 2 * FOR_WORDS + PrintWords <= VarArea
    /\ Top \in Nat /\ stack_limit \in Nat /\ stack_limit <= Top /\ Top = VarArea + StackWords
    /\ stack_limit = VarArea
    /\ MaxEdits \in Nat /\ MaxTyped \in Nat
BY InterpConstants DEF Top, stack_limit

LEMMA VarsAreWords == Vars \subseteq Words
BY Sizes DEF Vars, Words

LEMMA ModBounds ==
    ASSUME NEW n \in Int, NEW m \in Nat \ {0}
    PROVE  n % m \in 0 .. m - 1
OBVIOUS

LEMMA ToIntType ==
    ASSUME NEW v \in Int
    PROVE  ToInt(v) \in Ints
<1>1. PICK m \in Nat \ {0} : m = 2 * IntHalf
  BY InterpConstants
<1>2. IntHalf \in Nat /\ v + IntHalf \in Int
  BY InterpConstants
<1>3. (v + IntHalf) % m \in 0 .. m - 1
  BY <1>2, ModBounds
<1>. QED
  BY <1>1, <1>2, <1>3 DEF ToInt, Ints

LEMMA ToLongType ==
    ASSUME NEW v \in Int
    PROVE  ToLong(v) \in Longs
<1>1. PICK m \in Nat \ {0} : m = 2 * LongHalf
  BY InterpConstants
<1>2. LongHalf \in Nat /\ v + LongHalf \in Int
  BY InterpConstants
<1>3. (v + LongHalf) % m \in 0 .. m - 1
  BY <1>2, ModBounds
<1>. QED
  BY <1>1, <1>2, <1>3 DEF ToLong, Longs

LEMMA Numbers == Longs \subseteq Int /\ Ints \subseteq Longs
BY InterpConstants DEF Longs, Ints

\* What the fields of a word are.
LEMMA WordFields ==
    ASSUME NEW w \in Word
    PROVE  /\ w.t = "int" => w.v \in Longs
           /\ w.t = "for" => w.terminal \in Ints /\ w.var \in Vars
           /\ w.t = "step" => w.v \in Ints
           /\ w.t = "line" => w.to \in Place
           /\ w.t = "text" => w.to \in TextPlace
BY DEF Word, Garbage, Gosub

LEMMA ReadTypes ==
    ASSUME NEW w \in Word
    PROVE  ValuesOf(w) \subseteq Longs /\ StepsOf(w) \subseteq Ints /\ TerminalsOf(w) \subseteq Ints
<1>1. ValuesOf(w) \subseteq Longs
  BY WordFields DEF ValuesOf
<1>2. TerminalsOf(w) \subseteq Ints
  BY WordFields DEF TerminalsOf
<1>3. StepsOf(w) \subseteq Ints
  BY WordFields, ToIntType, Numbers DEF StepsOf
<1>. QED
  BY <1>1, <1>2, <1>3

LEMMA EvalType ==
    ASSUME TypeOK, NEW e \in Expr
    PROVE  Eval(e) \subseteq Longs
<1>1. CASE e.k = "const"
  BY <1>1 DEF Eval, Expr
<1>2. CASE e.k # "const"
  <2>1. e.v \in Vars
    BY <1>2 DEF Expr
  <2>2. mem[e.v] \in Word
    BY <2>1, VarsAreWords DEF TypeOK
  <2>. QED
    BY <1>2, <2>2, ReadTypes DEF Eval
<1>. QED
  BY <1>1, <1>2

-----------------------------------------------------------------------------
(* Where a statement goes on.                                              *)

\* What holds after a step that goes on with the stack pointer s or a warm start.
Goes(s) ==
    /\ pc' \in {"prompt", "run", "lost"}
    /\ sp' \in {s, sp, Top}
    /\ SoundLine(current_line')
    /\ txtpos' \in TextPlace
    /\ pc' = "run" => SoundText(txtpos') /\ InText(txtpos')

LEMMA NullSound == SoundLine(NULL) /\ Nowhere \in TextPlace
BY DEF SoundLine, NULL, Place, Nowhere, TextPlace

LEMMA PromptGoes ==
    ASSUME NEW cl, SoundLine(cl), NEW s, Prompt(cl, s)
    PROVE  Goes(s)
BY NullSound DEF Prompt, Goes

LEMMA WarmstartGoes ==
    ASSUME NEW s, Warmstart
    PROVE  Goes(s)
BY NullSound DEF Warmstart, Prompt, Goes

LEMMA LostGoes ==
    ASSUME IInv, NEW s, Lost
    PROVE  Goes(s)
BY DEF Lost, Goes, IInv, TypeOK

LEMMA ExecLineGoes ==
    ASSUME IInv, NEW n \in Nat, n \in 1 .. Len(prog) + 1, NEW s, ExecLine(LineAt(n), s)
    PROVE  Goes(s)
<1>1. CASE Warmstart
  BY <1>1, WarmstartGoes
<1>2. CASE /\ LineAt(n) # program_end
           /\ Run(LineAt(n), [line |-> n, at |-> 1, epoch |-> edits], s)
  <2>. DEFINE p == [line |-> n, at |-> 1, epoch |-> edits]
  <2>1. Len(prog) \in Nat /\ edits \in Nat /\ prog \in Seq(Line)
    BY Sizes DEF IInv, TypeOK
  <2>2. n # Len(prog) + 1
    BY <1>2 DEF program_end
  <2>3. n \in 1 .. Len(prog)
    BY <2>1, <2>2
  <2>4. SoundLine(LineAt(n))
    BY <2>1, <2>3 DEF SoundLine, LineAt, Place
  <2>5. SoundText(p) /\ p \in TextPlace
    BY <2>1, <2>3 DEF SoundText, TextPlace
  <2>6. prog[n].stmts \in Seq(Statements) /\ prog[n].stmts # <<>>
    <3>1. prog[n] \in Line
      BY <2>1, <2>3
    <3>. QED
      BY <2>3, <3>1 DEF IInv, LinesNotEmpty, Line
  <2>7. InText(p)
    BY <2>1, <2>3, <2>6 DEF InText, Valid, StmtsAt
  <2>. QED
    BY <1>2, <2>4, <2>5, <2>7 DEF Run, Goes
<1>. QED
  BY <1>1, <1>2 DEF ExecLine, LineAt

LEMMA ExecNextLineGoes ==
    ASSUME IInv, NEW cl, SoundLine(cl), NEW s, ExecNextLine(cl, s)
    PROVE  Goes(s)
<1>1. CASE Prompt(cl, s)
  BY <1>1, PromptGoes
<1>2. CASE Lost
  BY <1>2, LostGoes
<1>3. CASE cl # NULL /\ Valid(cl) /\ ExecLine([cl EXCEPT !.line = IF prog[cl.line].len THEN @ + 1 ELSE @], s)
  <2>1. cl.line # 0 /\ cl.line \in Nat /\ cl.epoch = edits /\ cl.line <= Len(prog) /\ Len(prog) \in Nat
    BY <1>3 DEF SoundLine, Valid, Place, IInv, TypeOK
  <2>2. PICK n : n = IF prog[cl.line].len THEN cl.line + 1 ELSE cl.line
    OBVIOUS
  <2>3. [cl EXCEPT !.line = IF prog[cl.line].len THEN @ + 1 ELSE @] = LineAt(n)
    BY <2>1, <2>2 DEF SoundLine, Place, LineAt
  <2>4. n \in Nat /\ n \in 1 .. Len(prog) + 1
    BY <2>1, <2>2
  <2>. QED
    BY <1>3, <2>3, <2>4, ExecLineGoes
<1>. QED
  BY <1>1, <1>2, <1>3 DEF ExecNextLine

LEMMA RunNextGoes ==
    ASSUME IInv, NEW cl, SoundLine(cl), NEW p, SoundText(p), 1 <= p.at, NEW s,
           RunNextStatement(cl, p, s)
    PROVE  Goes(s)
<1>1. CASE Lost
  BY <1>1, LostGoes
<1>2. CASE Valid(p) /\ ExecNextLine(cl, s)
  BY <1>2, ExecNextLineGoes
<1>3. CASE Valid(p) /\ p.at <= Len(StmtsAt(p)) /\ Run(cl, p, s)
  <2>1. p.line \in Nat /\ p.at \in Nat /\ p \in TextPlace
    BY DEF SoundText, TextPlace
  <2>2. p.line <= Len(prog) /\ Len(prog) \in Nat
    BY <1>3, <2>1 DEF SoundText, Valid, IInv, TypeOK
  <2>3. StmtsAt(p) \in Seq(Statements)
    <3>1. CASE p.line = 0
      BY <3>1 DEF StmtsAt, IInv, TypeOK
    <3>2. CASE p.line # 0
      <4>1. prog[p.line] \in Line
        BY <2>1, <2>2, <3>2 DEF IInv, TypeOK
      <4>. QED
        BY <3>2, <4>1 DEF StmtsAt, Line
    <3>. QED
      BY <3>1, <3>2
  <2>4. InText(p)
    BY <1>3, <2>1, <2>2, <2>3 DEF InText
  <2>. QED
    BY <1>3, <2>1, <2>4 DEF Run, Goes
<1>. QED
  BY <1>1, <1>2, <1>3 DEF RunNextStatement

-----------------------------------------------------------------------------
(* What a statement stores.                                                *)

LEMMA StoredOK ==
    ASSUME IInv, NEW v \in Vars, NEW x \in Longs
    PROVE  MemOK(Stored(v, x))
<1>1. Value(x) \in Word /\ Value(x).t = "int"
  BY DEF Value, Word
<1>2. mem \in [Words -> Word] /\ \A i \in Words : WordOK(i, mem[i])
  BY DEF IInv, MemOK
<1>3. \A i \in Words : WordOK(i, Value(x))
  BY <1>1 DEF WordOK
<1>4. v \in Words
  BY VarsAreWords
<1>. QED
  BY <1>1, <1>2, <1>3, <1>4 DEF Stored, MemOK

LEMMA ScribbleOK ==
    ASSUME IInv, NEW k, Scribble(k)
    PROVE  MemOK(mem')
<1>1. Garbage \in Word /\ Garbage.t = "garbage"
  BY DEF Garbage, Word
<1>2. mem \in [Words -> Word] /\ \A i \in Words : WordOK(i, mem[i])
  BY DEF IInv, MemOK
<1>3. \A i \in Words : WordOK(i, Garbage)
  BY <1>1 DEF WordOK
<1>. QED
  BY <1>1, <1>2, <1>3 DEF Scribble, MemOK

\* The step of a statement that leaves the program alone.
LEMMA StepKeeps ==
    ASSUME IInv, NEW s \in Int, stack_limit - 2 * FOR_WORDS <= s, s <= Top, Goes(s),
           MemOK(mem'), UNCHANGED text,
           tempsp' \in 0 .. Top, want' \in Vars \cup {RETURN, BLANK, NOTHING}
    PROVE  IInv'
<1>1. sp' \in 0 .. Top /\ StackAboveProgram'
  BY Sizes DEF Goes, IInv, TypeOK, StackAboveProgram
<1>2. prog' = prog /\ edits' = edits /\ buf' = buf /\ typed' = typed
  BY DEF text
<1>3. SoundLine(current_line)' /\ (pc' = "run" => SoundText(txtpos)' /\ InText(txtpos)')
  BY <1>2 DEF Goes, SoundLine, SoundText, InText, Valid, StmtsAt
<1>4. MemOK(mem)'
  <2>1. \A i \in Words : WordOK(i, mem[i])'
    BY <1>2 DEF MemOK, WordOK, SoundLine, SoundText
  <2>. QED
    BY <2>1 DEF MemOK
<1>5. LinesNotEmpty'
  BY <1>2 DEF IInv, LinesNotEmpty
<1>6. WalkAboveSp'
  BY DEF Goes, WalkAboveSp
<1>7. TypeOK'
  BY <1>1, <1>2 DEF TypeOK, IInv, Goes, MemOK, SoundLine, PC
<1>. QED
  BY <1>1, <1>3, <1>4, <1>5, <1>6, <1>7 DEF IInv

\* Facts about the statement that is executed.
LEMMA AtStatement ==
    ASSUME IInv, pc = "run"
    PROVE  /\ Here \in Statements
           /\ SoundText(After) /\ 1 <= After.at
           /\ SoundLine(current_line)
           /\ sp \in Nat /\ stack_limit - 2 * FOR_WORDS <= sp /\ sp <= Top
           /\ MemOK(mem)
           /\ tempsp \in 0 .. Top /\ want \in Vars \cup {RETURN, BLANK, NOTHING}
<1>1. SoundText(txtpos) /\ InText(txtpos)
  BY DEF IInv
<1>2. txtpos \in TextPlace /\ txtpos.line \in Nat /\ txtpos.at \in Nat
  BY <1>1 DEF SoundText, TextPlace
<1>3. StmtsAt(txtpos) \in Seq(Statements)
  <2>1. CASE txtpos.line = 0
    BY <2>1 DEF StmtsAt, IInv, TypeOK
  <2>2. CASE txtpos.line # 0
    <3>1. prog[txtpos.line] \in Line
      BY <1>1, <1>2, <2>2 DEF IInv, TypeOK, InText
    <3>. QED
      BY <2>2, <3>1 DEF StmtsAt, Line
  <2>. QED
    BY <2>1, <2>2
<1>4. Here \in Statements
  BY <1>1, <1>3 DEF InText, Here
<1>5. SoundText(After) /\ 1 <= After.at
  BY <1>1, <1>2 DEF SoundText, After, TextPlace
<1>. QED
  BY <1>4, <1>5, Sizes DEF IInv, TypeOK, StackAboveProgram


-----------------------------------------------------------------------------
(* The statements that leave stack and program alone.                      *)

LEMMA ErrorKeeps ==
    ASSUME IInv, pc = "run", NEW what, Error(what)
    PROVE  IInv'
<1>1. MemOK(mem')
  BY ScribbleOK DEF Error
<1>2. Goes(sp)
  BY AtStatement, PromptGoes DEF Error
<1>3. UNCHANGED <<text, walk>>
  BY DEF Error
<1>. QED
  BY <1>1, <1>2, <1>3, AtStatement, StepKeeps DEF walk

LEMMA SimpleKeeps ==
    ASSUME IInv, pc = "run", Goes(sp), UNCHANGED <<text, mem, walk>>
    PROVE  IInv'
BY AtStatement, StepKeeps DEF walk

LEMMA PrintNumKeeps ==
    ASSUME IInv, PrintNum
    PROVE  IInv'
<1>1. pc = "run"
  BY DEF PrintNum, At
<1>2. MemOK(mem')
  BY ScribbleOK DEF PrintNum
<1>3. Goes(sp)
  BY <1>1, AtStatement, PromptGoes, RunNextGoes DEF PrintNum
<1>. QED
  BY <1>1, <1>2, <1>3, AtStatement, StepKeeps DEF walk, PrintNum

LEMMA AssignmentKeeps ==
    ASSUME IInv, Assignment
    PROVE  IInv'
<1>1. pc = "run" /\ Here.op = "let"
  BY DEF Assignment, At
<1>2. Here.var \in Vars /\ Here.e \in Expr
  BY <1>1, AtStatement, InterpPrograms
<1>3. MemOK(mem')
  <2>1. PICK v \in Eval(Here.e) : mem' = Stored(Here.var, v)
    BY DEF Assignment
  <2>2. v \in Longs
    BY <1>2, <2>1, EvalType DEF IInv
  <2>. QED
    BY <1>2, <2>1, <2>2, StoredOK
<1>4. Goes(sp)
  BY <1>1, AtStatement, RunNextGoes DEF Assignment
<1>. QED
  BY <1>1, <1>3, <1>4, AtStatement, StepKeeps DEF walk, Assignment

LEMMA IfGoes ==
    ASSUME IInv, If
    PROVE  Goes(sp)
<1>1. pc = "run" /\ ~LastOnLine
  BY DEF If, At
<1>2. CASE ExecNextLine(current_line, sp)
  BY <1>1, <1>2, AtStatement, ExecNextLineGoes
<1>3. CASE Run(current_line, After, sp)
  <2>1. SoundText(txtpos) /\ InText(txtpos) /\ txtpos \in TextPlace
    BY <1>1 DEF IInv, SoundText
  <2>2. After = [txtpos EXCEPT !.at = txtpos.at + 1] /\ After.line = txtpos.line
        /\ After.at = txtpos.at + 1 /\ After.epoch = txtpos.epoch /\ After \in TextPlace
    BY <2>1 DEF After, TextPlace
  <2>3. InText(After)
    <3>1. StmtsAt(After) = StmtsAt(txtpos)
      BY <2>2 DEF StmtsAt
    <3>2. txtpos.at # Len(StmtsAt(txtpos))
      BY <1>1 DEF LastOnLine
    <3>. QED
      BY <2>1, <2>2, <3>1, <3>2 DEF InText, Valid
  <2>. QED
    BY <1>1, <1>3, <2>2, <2>3, AtStatement DEF Run, Goes
<1>. QED
  BY <1>2, <1>3 DEF If

LEMMA GotoGoes ==
    ASSUME IInv, Goto \/ RunProgram \/ End
    PROVE  Goes(sp)
<1>1. Len(prog) \in Nat
  BY DEF IInv, TypeOK
<1>2. PICK n \in 1 .. Len(prog) + 1 : ExecLine(LineAt(n), sp)
  BY <1>1 DEF Goto, RunProgram, End, program_end
<1>3. n \in Nat
  BY <1>1
<1>. QED
  BY <1>2, <1>3, ExecLineGoes

LEMMA ListKeeps ==
    ASSUME IInv, List
    PROVE  IInv'
<1>1. pc = "run" /\ UNCHANGED <<text, walk>>
  BY DEF List, At
<1>2. MemOK(mem')
  BY ScribbleOK DEF List
<1>3. Goes(sp)
  BY WarmstartGoes, LostGoes DEF List
<1>. QED
  BY <1>1, <1>2, <1>3, AtStatement, StepKeeps DEF walk

-----------------------------------------------------------------------------
(* The statements that push a frame.                                       *)

LEMMA ForLoopKeeps ==
    ASSUME IInv, ForLoop
    PROVE  IInv'
<1>1. pc = "run" /\ Here.op = "for" /\ UNCHANGED <<text, walk>>
  BY DEF ForLoop, At
<1>2. /\ Here.var \in Vars
      /\ Here.initial \in Expr /\ Here.terminal \in Expr /\ Here.step \in Expr
  BY <1>1, AtStatement, InterpPrograms
<1>3. CASE NoRoom(FOR_WORDS)
  BY <1>1, <1>3, WarmstartGoes, SimpleKeeps DEF ForLoop
<1>4. CASE ~NoRoom(FOR_WORDS)
  <2>. DEFINE b == sp - FOR_WORDS
  <2>1. sp \in Nat /\ stack_limit - FOR_WORDS <= sp /\ sp <= Top
    BY <1>1, <1>4, AtStatement, Sizes DEF NoRoom
  <2>2. /\ b \in Int /\ stack_limit - 2 * FOR_WORDS <= b /\ b + FOR_WORDS <= Top /\ b <= Top
        /\ b \in Words /\ b + 1 \in Words /\ b + 2 \in Words /\ b + 3 \in Words
    BY <2>1, Sizes DEF Words
  <2>3. PICK initial \in Eval(Here.initial), terminal \in Eval(Here.terminal), step \in Eval(Here.step) :
           mem' = [Stored(Here.var, initial) EXCEPT
                     ![b]     = For(Here.var, ToInt(terminal)),
                     ![b + 1] = Step(ToInt(step)),
                     ![b + 2] = LinePtr(current_line),
                     ![b + 3] = TextPtr(After)]
    BY <1>4 DEF ForLoop
  <2>4. initial \in Longs /\ terminal \in Longs /\ step \in Longs
    BY <1>2, <2>3, EvalType DEF IInv
  <2>5. PICK m : m = Stored(Here.var, initial)
    OBVIOUS
  <2>6. MemOK(m)
    BY <1>2, <2>4, <2>5, StoredOK
  <2>7. WordOK(b, For(Here.var, ToInt(terminal)))
    <3>1. ToInt(terminal) \in Ints
      BY <2>4, Numbers, ToIntType
    <3>2. For(Here.var, ToInt(terminal)) \in Word
      BY <1>2, <2>4, <3>1 DEF For, Word
    <3>. QED
      BY <2>2, <3>2 DEF For, WordOK
  <2>8. WordOK(b + 1, Step(ToInt(step)))
    <3>1. ToInt(step) \in Ints
      BY <2>4, Numbers, ToIntType
    <3>. QED
      BY <3>1 DEF WordOK, Step, Word
  <2>9. WordOK(b + 2, LinePtr(current_line))
    BY <1>1, AtStatement DEF WordOK, LinePtr, Word, SoundLine
  <2>10. WordOK(b + 3, TextPtr(After))
    BY <1>1, AtStatement DEF WordOK, TextPtr, Word, SoundText
  <2>11. MemOK(mem')
    <3>. HIDE DEF b
    <3>1. mem' = [m EXCEPT
                     ![b]     = For(Here.var, ToInt(terminal)),
                     ![b + 1] = Step(ToInt(step)),
                     ![b + 2] = LinePtr(current_line),
                     ![b + 3] = TextPtr(After)]
      BY <2>3, <2>5
    <3>2. \A w, j : WordOK(j, w) => w \in Word
      BY DEF WordOK
    <3>3. \A i \in Words : WordOK(i, m[i])
      BY <2>6 DEF MemOK
    <3>. QED
      BY <2>2, <2>6, <2>7, <2>8, <2>9, <2>10, <3>1, <3>2, <3>3 DEF MemOK
  <2>12. Goes(b)
    BY <1>1, <1>4, AtStatement, RunNextGoes DEF ForLoop
  <2>. QED
    BY <1>1, <2>2, <2>11, <2>12, AtStatement, StepKeeps DEF walk
<1>. QED
  BY <1>3, <1>4

LEMMA GosubLineKeeps ==
    ASSUME IInv, GosubLine
    PROVE  IInv'
<1>1. pc = "run" /\ UNCHANGED <<text, walk>>
  BY DEF GosubLine, At
<1>2. CASE NoRoom(GOSUB_WORDS)
  BY <1>1, <1>2, WarmstartGoes, SimpleKeeps DEF GosubLine
<1>3. CASE ~NoRoom(GOSUB_WORDS)
  <2>. DEFINE b == sp - GOSUB_WORDS
  <2>1. sp \in Nat /\ stack_limit - GOSUB_WORDS <= sp /\ sp <= Top
    BY <1>1, <1>3, AtStatement, Sizes DEF NoRoom
  <2>2. /\ b \in Int /\ stack_limit - 2 * FOR_WORDS <= b /\ b + GOSUB_WORDS <= Top /\ b <= Top
        /\ b \in Words /\ b + 1 \in Words /\ b + 2 \in Words
    BY <2>1, Sizes DEF Words
  <2>3. mem' = [mem EXCEPT ![b]     = Gosub,
                           ![b + 1] = LinePtr(current_line),
                           ![b + 2] = TextPtr(After)]
    BY <1>3 DEF GosubLine
  <2>4. WordOK(b, Gosub)
    BY <2>2 DEF WordOK, Gosub, Word
  <2>5. WordOK(b + 1, LinePtr(current_line))
    BY <1>1, AtStatement DEF WordOK, LinePtr, Word, SoundLine
  <2>6. WordOK(b + 2, TextPtr(After))
    BY <1>1, AtStatement DEF WordOK, TextPtr, Word, SoundText
  <2>7. MemOK(mem')
    <3>. HIDE DEF b
    <3>1. \A w, j : WordOK(j, w) => w \in Word
      BY DEF WordOK
    <3>2. mem \in [Words -> Word] /\ \A i \in Words : WordOK(i, mem[i])
      BY DEF IInv, MemOK
    <3>. QED
      BY <2>2, <2>3, <2>4, <2>5, <2>6, <3>1, <3>2 DEF MemOK
  <2>8. Goes(b)
    <3>1. Len(prog) \in Nat
      BY DEF IInv, TypeOK
    <3>2. PICK n \in 1 .. Len(prog) + 1 : ExecLine(LineAt(n), b)
      BY <1>3 DEF GosubLine
    <3>3. n \in Nat
      BY <3>1
    <3>. QED
      BY <3>2, <3>3, ExecLineGoes
  <2>. QED
    BY <1>1, <2>2, <2>7, <2>8, AtStatement, StepKeeps DEF walk
<1>. QED
  BY <1>2, <1>3


-----------------------------------------------------------------------------
(* NEXT and RETURN.                                                        *)

\* What is known while the frames are looked at.
LEMMA AtWalk ==
    ASSUME IInv, pc = "walk"
    PROVE  /\ SoundText(txtpos) /\ 1 <= txtpos.at /\ SoundLine(current_line)
           /\ sp \in Nat /\ stack_limit - 2 * FOR_WORDS <= sp /\ sp <= tempsp
           /\ tempsp \in Nat /\ tempsp <= Top
           /\ MemOK(mem)
           /\ tempsp < Top => tempsp \in Words /\ WordOK(tempsp, mem[tempsp])
BY Sizes DEF IInv, TypeOK, StackAboveProgram, WalkAboveSp, MemOK, Words

LEMMA WalkFromKeeps ==
    ASSUME IInv, pc = "run", NEW w \in Vars \cup {RETURN, BLANK}, WalkFrom(w)
    PROVE  IInv'
<1>1. /\ pc' = "walk" /\ tempsp' = sp /\ want' = w /\ txtpos' = After /\ sp' = sp /\ mem' = mem
      /\ current_line' = current_line /\ prog' = prog /\ edits' = edits /\ buf' = buf /\ typed' = typed
  BY DEF WalkFrom, text
<1>2. SoundText(txtpos)' /\ 1 <= txtpos'.at
  BY <1>1, AtStatement DEF SoundText
<1>3. SoundLine(current_line)' /\ LinesNotEmpty' /\ StackAboveProgram'
  BY <1>1 DEF IInv, SoundLine, LinesNotEmpty, StackAboveProgram
<1>4. MemOK(mem)'
  BY <1>1 DEF IInv, MemOK, WordOK, SoundLine, SoundText
<1>5. TypeOK'
  BY <1>1, <1>2 DEF IInv, TypeOK, SoundText, PC
<1>6. WalkAboveSp'
  BY <1>1, <1>2, AtStatement DEF WalkAboveSp
<1>. QED
  BY <1>1, <1>2, <1>3, <1>4, <1>5, <1>6 DEF IInv

LEMMA NextVarKeeps ==
    ASSUME IInv, NextVar \/ Return
    PROVE  IInv'
<1>1. CASE NextVar
  <2>1. pc = "run" /\ Here.op = "next"
    BY <1>1 DEF NextVar, At
  <2>2. Here.var \in Vars \cup {RETURN, BLANK}
    BY <2>1, AtStatement, InterpPrograms
  <2>. QED
    BY <1>1, <2>1, <2>2, WalkFromKeeps DEF NextVar
<1>2. CASE Return
  BY <1>2, WalkFromKeeps DEF Return, At
<1>. QED
  BY <1>1, <1>2

LEMMA InputKeeps ==
    ASSUME IInv, Input
    PROVE  IInv'
<1>0. pc = "run" /\ Here.op = "input"
  BY DEF Input, At
<1>1. /\ pc' = "input" /\ tempsp' = tempsp /\ want' = Here.var /\ txtpos' = After /\ sp' = sp /\ mem' = mem
      /\ current_line' = current_line /\ prog' = prog /\ edits' = edits /\ buf' = buf /\ typed' = typed
  BY DEF Input, text
<1>2. SoundText(txtpos)' /\ 1 <= txtpos'.at
  BY <1>0, <1>1, AtStatement DEF SoundText
<1>3. SoundLine(current_line)' /\ LinesNotEmpty' /\ StackAboveProgram'
  BY <1>1 DEF IInv, SoundLine, LinesNotEmpty, StackAboveProgram
<1>4. MemOK(mem)'
  BY <1>1 DEF IInv, MemOK, WordOK, SoundLine, SoundText
<1>5. want' \in Vars
  BY <1>0, <1>1, AtStatement, InterpPrograms
<1>6. TypeOK'
  BY <1>1, <1>2, <1>5 DEF IInv, TypeOK, SoundText, PC
<1>7. WalkAboveSp'
  BY <1>1, <1>2, <1>5 DEF WalkAboveSp
<1>. QED
  BY <1>1, <1>2, <1>3, <1>4, <1>6, <1>7 DEF IInv

LEMMA WalkOnKeeps ==
    ASSUME IInv, WalkOn
    PROVE  IInv'
<1>1. /\ pc = "walk" /\ pc' = "walk" /\ tempsp < Top /\ want' = want /\ txtpos' = txtpos /\ sp' = sp /\ mem' = mem
      /\ current_line' = current_line /\ prog' = prog /\ edits' = edits /\ buf' = buf /\ typed' = typed
  BY DEF WalkOn, Looking, text
<1>2. sp <= tempsp' /\ tempsp' \in 0 .. Top
  BY <1>1, AtWalk, Sizes DEF WalkOn, WordOK
<1>3. SoundText(txtpos)' /\ 1 <= txtpos'.at
  BY <1>1, AtWalk DEF SoundText
<1>4. SoundLine(current_line)' /\ LinesNotEmpty' /\ StackAboveProgram'
  BY <1>1 DEF IInv, SoundLine, LinesNotEmpty, StackAboveProgram
<1>5. MemOK(mem)'
  BY <1>1 DEF IInv, MemOK, WordOK, SoundLine, SoundText
<1>6. TypeOK'
  BY <1>1, <1>2, <1>3 DEF IInv, TypeOK, SoundText, PC
<1>7. WalkAboveSp'
  BY <1>1, <1>2, <1>3 DEF WalkAboveSp
<1>. QED
  BY <1>1, <1>3, <1>4, <1>5, <1>6, <1>7 DEF IInv

LEMMA WalkEndType ==
    ASSUME WalkEnds
    PROVE  tempsp' \in 0 .. Top /\ want' \in Vars \cup {RETURN, BLANK, NOTHING}
BY Sizes DEF WalkEnds

\* The walk ends without a frame.
LEMMA WalkGivesUpKeeps ==
    ASSUME IInv, WalkStuffed \/ WalkFails
    PROVE  IInv'
<1>1. pc = "walk" /\ UNCHANGED <<text, mem>> /\ WalkEnds
  BY DEF WalkStuffed, WalkFails, Looking
<1>2. Goes(sp)
  BY <1>1, AtWalk, WarmstartGoes, LostGoes, PromptGoes DEF WalkStuffed, WalkFails
<1>3. MemOK(mem') /\ sp \in Int /\ sp <= Top
  BY <1>1, AtWalk, Sizes
<1>. QED
  BY <1>1, <1>2, <1>3, AtWalk, WalkEndType, StepKeeps

LEMMA ResumeGoes ==
    ASSUME IInv, NEW i, NEW j, NEW l, NEW p, WordOK(i, l), WordOK(j, p), NEW s, ResumeAt(l, p, s)
    PROVE  Goes(s)
<1>1. CASE Lost
  BY <1>1, LostGoes
<1>2. CASE l.t = "line" /\ p.t = "text" /\ RunNextStatement(l.to, p.to, s)
  <2>1. SoundLine(l.to) /\ SoundText(p.to) /\ 1 <= p.to.at
    BY <1>2 DEF WordOK
  <2>. QED
    BY <1>2, <2>1, RunNextGoes
<1>. QED
  BY <1>1, <1>2 DEF ResumeAt

LEMMA ReturnsKeeps ==
    ASSUME IInv, Returns
    PROVE  IInv'
<1>1. /\ pc = "walk" /\ tempsp < Top /\ mem[tempsp].t = "gosub" /\ UNCHANGED <<text, mem>> /\ WalkEnds
      /\ ResumeAt(mem[tempsp + 1], mem[tempsp + 2], sp + GOSUB_WORDS)
  BY DEF Returns, Looking
<1>2. tempsp + GOSUB_WORDS <= Top
  BY <1>1, AtWalk DEF WordOK
<1>3. tempsp + 1 \in Words /\ tempsp + 2 \in Words
  BY <1>1, <1>2, AtWalk, Sizes DEF Words
<1>4. Goes(sp + GOSUB_WORDS)
  <2>1. WordOK(tempsp + 1, mem[tempsp + 1]) /\ WordOK(tempsp + 2, mem[tempsp + 2])
    BY <1>1, <1>3, AtWalk DEF MemOK
  <2>. QED
    BY <1>1, <2>1, ResumeGoes
<1>5. /\ sp + GOSUB_WORDS \in Int /\ sp + GOSUB_WORDS <= Top
      /\ stack_limit - 2 * FOR_WORDS <= sp + GOSUB_WORDS
  BY <1>1, <1>2, AtWalk, Sizes
<1>6. MemOK(mem')
  BY <1>1, AtWalk
<1>. QED
  BY <1>1, <1>4, <1>5, <1>6, WalkEndType, StepKeeps

LEMMA IteratesKeeps ==
    ASSUME IInv, Iterates
    PROVE  IInv'
<1>1. /\ pc = "walk" /\ tempsp < Top /\ mem[tempsp].t = "for" /\ mem[tempsp].var = want
      /\ UNCHANGED text /\ WalkEnds
  BY DEF Iterates, Looking
<1>2. /\ tempsp \in Words /\ mem[tempsp] \in Word /\ tempsp + FOR_WORDS <= Top
  BY <1>1, AtWalk DEF WordOK
<1>3. want \in Vars
  BY <1>1, <1>2, WordFields
<1>4. /\ tempsp + 1 \in Words /\ tempsp + 2 \in Words /\ tempsp + 3 \in Words /\ want \in Words
  BY <1>1, <1>2, <1>3, AtWalk, Sizes, VarsAreWords DEF Words
<1>5. MemOK(mem')
  <2>1. PICK v \in ValuesOf(mem[want]), step \in StepsOf(mem[tempsp + 1]) :
           mem' = Stored(want, ToLong(v + step))
    BY DEF Iterates
  <2>2. mem[want] \in Word /\ mem[tempsp + 1] \in Word
    BY <1>4 DEF IInv, TypeOK
  <2>3. v \in Int /\ step \in Int
    BY <2>1, <2>2, ReadTypes, Numbers
  <2>4. ToLong(v + step) \in Longs
    BY <2>3, ToLongType
  <2>. QED
    BY <1>3, <2>1, <2>4, StoredOK
<1>6. CASE ResumeAt(mem'[tempsp + 2], mem'[tempsp + 3], sp)
  <2>1. WordOK(tempsp + 2, mem'[tempsp + 2]) /\ WordOK(tempsp + 3, mem'[tempsp + 3])
    BY <1>4, <1>5 DEF MemOK
  <2>2. Goes(sp)
    BY <1>6, <2>1, ResumeGoes
  <2>3. sp \in Int /\ sp <= Top
    BY <1>1, AtWalk, Sizes
  <2>. QED
    BY <1>1, <1>5, <2>2, <2>3, AtWalk, WalkEndType, StepKeeps
<1>7. CASE RunNextStatement(current_line, txtpos, AfterLoop)
  <2>1. Goes(AfterLoop)
    BY <1>1, <1>7, AtWalk, RunNextGoes
  <2>2. AfterLoop \in Int /\ AfterLoop <= Top /\ stack_limit - 2 * FOR_WORDS <= AfterLoop
    BY <1>1, <1>2, AtWalk, Sizes DEF AfterLoop
  <2>. QED
    BY <1>1, <1>5, <2>1, <2>2, WalkEndType, StepKeeps
<1>. QED
  BY <1>6, <1>7 DEF Iterates


-----------------------------------------------------------------------------
(* What changes the program or the buffer.                                 *)

\* Pointers stay sound when lines are typed, and when the program is changed:
\* then they can no longer be followed.
LEMMA EditKeeps ==
    ASSUME IInv, pc' = "prompt", prog' \in Seq(Line), LinesNotEmpty',
           edits < MaxEdits, edits' = edits + 1,
           typed' \in 0 .. MaxTyped, typed <= typed', buf' \in Seq(Statements),
           current_line' = current_line, txtpos' \in TextPlace, mem' = mem, sp' = sp,
           UNCHANGED walk
    PROVE  IInv'
<1>1. edits \in Nat /\ typed \in Nat /\ typed' \in Nat /\ edits' \in 0 .. MaxEdits
  BY Sizes DEF IInv, TypeOK
<1>2. ASSUME NEW p, SoundLine(p)
      PROVE  /\ p \in Place /\ (p.line = 0 => p = NULL)
             /\ p.line # 0 => p.epoch <= edits' /\ (p.epoch = edits' => p.line <= Len(prog'))
  BY <1>1, <1>2 DEF SoundLine, Place
<1>3. ASSUME NEW p, SoundText(p)
      PROVE  /\ p \in TextPlace /\ (p.line = 0 => p.epoch <= typed')
             /\ p.line # 0 => p.epoch <= edits' /\ (p.epoch = edits' => p.line <= Len(prog'))
  BY <1>1, <1>3 DEF SoundText, TextPlace
<1>4. SoundLine(current_line)'
  BY <1>2 DEF SoundLine, IInv
<1>5. MemOK(mem)'
  <2>1. ASSUME NEW i \in Words
        PROVE  WordOK(i, mem[i])'
    <3>1. WordOK(i, mem[i])
      BY DEF IInv, MemOK
    <3>2. mem[i].t = "line" => SoundLine(mem[i].to)'
      BY <1>2, <3>1 DEF WordOK, SoundLine
    <3>3. mem[i].t = "text" => SoundText(mem[i].to)'
      BY <1>3, <3>1 DEF WordOK, SoundText
    <3>. QED
      BY <3>1, <3>2, <3>3 DEF WordOK
  <2>. QED
    BY <2>1 DEF IInv, MemOK
<1>6. TypeOK'
  BY <1>1 DEF IInv, TypeOK, walk, PC
<1>7. StackAboveProgram' /\ WalkAboveSp'
  BY DEF IInv, StackAboveProgram, WalkAboveSp
<1>. QED
  BY <1>4, <1>5, <1>6, <1>7 DEF IInv

LEMMA NewKeeps ==
    ASSUME IInv, New \/ Load
    PROVE  IInv'
<1>1. /\ edits < MaxEdits /\ edits' = edits + 1 /\ prog' = <<>> /\ Prompt(current_line, sp)
      /\ buf' = buf /\ typed' = typed /\ mem' = mem /\ UNCHANGED walk
  BY DEF New, Load
<1>2. prog' \in Seq(Line) /\ LinesNotEmpty'
  BY <1>1 DEF LinesNotEmpty
<1>3. typed' \in 0 .. MaxTyped /\ typed <= typed' /\ buf' \in Seq(Statements)
  BY <1>1, Sizes DEF IInv, TypeOK
<1>4. pc' = "prompt" /\ current_line' = current_line /\ txtpos' \in TextPlace /\ sp' = sp
  BY <1>1, NullSound DEF Prompt
<1>. QED
  BY <1>1, <1>2, <1>3, <1>4, EditKeeps

\* Sequences of lines that are not empty.
Lines(q) == q \in Seq(Line) /\ \A k \in 1 .. Len(q) : q[k].stmts # <<>>

LEMMA LinesTogether ==
    ASSUME NEW p, NEW q, Lines(p), Lines(q)
    PROVE  Lines(p \o q)
<1>1. p \in Seq(Line) /\ q \in Seq(Line) /\ Len(p) \in Nat /\ Len(q) \in Nat
  BY DEF Lines
<1>2. p \o q \in Seq(Line) /\ Len(p \o q) = Len(p) + Len(q)
  BY <1>1
<1>3. ASSUME NEW k \in 1 .. Len(p) + Len(q)
      PROVE  (p \o q)[k].stmts # <<>>
  <2>1. CASE k <= Len(p)
    <3>1. (p \o q)[k] = p[k] /\ k \in 1 .. Len(p)
      BY <1>1, <2>1
    <3>. QED
      BY <3>1 DEF Lines
  <2>2. CASE ~(k <= Len(p))
    <3>1. (p \o q)[k] = q[k - Len(p)] /\ k - Len(p) \in 1 .. Len(q)
      BY <1>1, <2>2
    <3>. QED
      BY <3>1 DEF Lines
  <2>. QED
    BY <2>1, <2>2
<1>. QED
  BY <1>2, <1>3 DEF Lines

LEMMA PartOfLines ==
    ASSUME NEW q, Lines(q), NEW m \in 1 .. Len(q) + 1, NEW n \in m - 1 .. Len(q)
    PROVE  Lines(SubSeq(q, m, n))
<1>1. q \in Seq(Line) /\ Len(q) \in Nat /\ m \in Nat /\ n \in Nat
  BY DEF Lines
<1>2. SubSeq(q, m, n) \in Seq(Line) /\ Len(SubSeq(q, m, n)) = n - m + 1
  BY <1>1
<1>3. ASSUME NEW k \in 1 .. n - m + 1
      PROVE  SubSeq(q, m, n)[k].stmts # <<>>
  <2>1. SubSeq(q, m, n)[k] = q[m + k - 1] /\ m + k - 1 \in 1 .. Len(q)
    BY <1>1
  <2>. QED
    BY <2>1 DEF Lines
<1>. QED
  BY <1>2, <1>3 DEF Lines

LEMMA EnterNumberedKeeps ==
    ASSUME IInv, NEW l \in NumberedLines, EnterNumbered(l)
    PROVE  IInv'
<1>1. /\ edits < MaxEdits /\ edits' = edits + 1 /\ typed < MaxTyped /\ typed' = typed + 1
      /\ buf' = <<>> /\ mem' = mem /\ UNCHANGED walk
      /\ pc' = "prompt" /\ current_line' = current_line /\ txtpos' = txtpos /\ sp' = sp
  BY DEF EnterNumbered
<1>2. typed' \in 0 .. MaxTyped /\ typed <= typed' /\ buf' \in Seq(Statements)
  BY <1>1, Sizes DEF IInv, TypeOK
<1>3. l.num \in Nat /\ l.stmts \in Seq(Statements)
  BY InterpPrograms
<1>4. PICK new : new = IF l.stmts = <<>> THEN <<>>
                        ELSE <<[num |-> l.num, stmts |-> l.stmts, nl |-> TRUE, len |-> TRUE]>>
  OBVIOUS
<1>5. Lines(new)
  <2>1. CASE l.stmts = <<>>
    BY <1>4, <2>1 DEF Lines
  <2>2. CASE l.stmts # <<>>
    <3>1. PICK x : x = [num |-> l.num, stmts |-> l.stmts, nl |-> TRUE, len |-> TRUE]
      OBVIOUS
    <3>2. x \in Line /\ x.stmts # <<>>
      BY <1>3, <2>2, <3>1 DEF Line
    <3>3. new = <<x>>
      BY <1>4, <2>2, <3>1
    <3>. QED
      BY <3>2, <3>3 DEF Lines
  <2>. QED
    BY <2>1, <2>2
<1>6. PICK i \in 1 .. Len(prog) + 1 : \E rest \in {i, i + 1} :
         /\ prog' = SubSeq(prog, 1, i - 1) \o new \o SubSeq(prog, rest, Len(prog))
         /\ (rest = i + 1) => i <= Len(prog)
  BY <1>4 DEF EnterNumbered
<1>7. PICK rest \in {i, i + 1} :
         /\ prog' = SubSeq(prog, 1, i - 1) \o new \o SubSeq(prog, rest, Len(prog))
         /\ (rest = i + 1) => i <= Len(prog)
  BY <1>6
<1>8. Lines(prog) /\ Len(prog) \in Nat
  BY DEF IInv, TypeOK, LinesNotEmpty, Lines
<1>9. Lines(SubSeq(prog, 1, i - 1))
  BY <1>6, <1>8, PartOfLines
<1>10. Lines(SubSeq(prog, rest, Len(prog)))
  <2>1. rest \in 1 .. Len(prog) + 1
    BY <1>7, <1>8
  <2>2. Len(prog) \in rest - 1 .. Len(prog)
    BY <1>8, <2>1
  <2>. QED
    BY <1>8, <2>1, <2>2, PartOfLines
<1>11. Lines(prog')
  BY <1>5, <1>7, <1>9, <1>10, LinesTogether
<1>12. prog' \in Seq(Line) /\ LinesNotEmpty'
  BY <1>11 DEF Lines, LinesNotEmpty
<1>. QED
  BY <1>1, <1>2, <1>12, EditKeeps DEF IInv, TypeOK

\* A line with a NUL in it is still a line: a byte less in its number leaves a
\* number, and a statement less in its text a text.
LEMMA LessOneByte ==
    ASSUME NEW n \in Nat, NEW k \in 2 .. 4
    PROVE  n - ByteOf(n, k) * Weight[k] \in Nat
<1>1. CASE k = 2
  BY <1>1 DEF ByteOf, Weight
<1>2. CASE k = 3
  BY <1>2 DEF ByteOf, Weight
<1>3. CASE k = 4
  BY <1>3 DEF ByteOf, Weight
<1>. QED
  BY <1>1, <1>2, <1>3

LEMMA CutIsLine ==
    ASSUME NEW l \in Line, l.stmts # <<>>, NEW c \in Cut(l)
    PROVE  c \in Line /\ c.stmts # <<>>
<1>1. l.num \in Nat /\ l.stmts \in Seq(Statements) /\ l.nl \in BOOLEAN /\ l.len \in BOOLEAN
  BY DEF Line
<1>2. CASE c \in CutNumber(l)
  <2>1. PICK k \in 2 .. 4 : c = [l EXCEPT !.num = @ - ByteOf(@, k) * Weight[k]]
    BY <1>2 DEF CutNumber
  <2>2. PICK n : n = l.num - ByteOf(l.num, k) * Weight[k]
    OBVIOUS
  <2>3. n \in Nat
    BY <1>1, <2>2, LessOneByte
  <2>4. c = [l EXCEPT !.num = n]
    BY <2>1, <2>2
  <2>. QED
    BY ONLY <2>3, <2>4, l \in Line, l.stmts # <<>> DEF Line
<1>3. CASE c \in CutLength(l)
  <2>1. c = [l EXCEPT !.len = FALSE]
    BY <1>3 DEF CutLength
  <2>. QED
    BY <1>1, <2>1 DEF Line
<1>4. CASE c \in CutText(l)
  <2>1a. PICK k \in 1 .. Len(l.stmts), nl \in BOOLEAN : c = Garbled(l, k, nl)
    BY <1>4 DEF CutText
  <2>1. c = [l EXCEPT !.stmts = [l.stmts EXCEPT ![k] = Junk], !.nl = l.nl /\ nl]
    BY <2>1a, Zenon DEF Garbled
  <2>2. PICK st : st = [l.stmts EXCEPT ![k] = Junk]
    OBVIOUS
  <2>3. st \in Seq(Statements) /\ Len(st) = Len(l.stmts)
    BY <1>1, <2>2, InterpPrograms
  <2>4. st # <<>>
    BY <1>1, <2>3
  <2>5. PICK b \in BOOLEAN : b = (l.nl /\ nl)
    BY <1>1
  <2>6. c = [l EXCEPT !.stmts = st, !.nl = b]
    BY <2>1, <2>2, <2>5
  <2>. QED
    BY <2>3, <2>4, <2>6 DEF Line
<1>. QED
  BY <1>2, <1>3, <1>4 DEF Cut

LEMMA SaveKeeps ==
    ASSUME IInv, Save
    PROVE  IInv'
<1>1. /\ pc = "run" /\ Warmstart /\ edits' = edits /\ buf' = buf /\ typed' = typed /\ mem' = mem
      /\ UNCHANGED walk
  BY DEF Save, At
<1>2. prog \in Seq(Line) /\ Len(prog) \in Nat /\ \A k \in 1 .. Len(prog) : prog[k].stmts # <<>>
  BY DEF IInv, TypeOK, LinesNotEmpty
<1>3. txtpos.line \in Nat /\ txtpos.line <= Len(prog)
  BY <1>1 DEF IInv, SoundText, InText, TextPlace
<1>4. prog' \in Seq(Line) /\ Len(prog') = Len(prog) /\ LinesNotEmpty'
  <2>1. CASE UNCHANGED prog
    BY <1>2, <2>1 DEF LinesNotEmpty
  <2>2. CASE txtpos.line # 0 /\ prog' = [prog EXCEPT ![txtpos.line].nl = FALSE]
    <3>1. txtpos.line \in 1 .. Len(prog) /\ prog[txtpos.line] \in Line
      BY <1>2, <1>3, <2>2
    <3>2a. PICK x : x = [prog[txtpos.line] EXCEPT !.nl = FALSE]
      OBVIOUS
    <3>2. x \in Line /\ x = [prog[txtpos.line] EXCEPT !.nl = FALSE] /\ x.stmts = prog[txtpos.line].stmts
      BY <3>1, <3>2a DEF Line
    <3>3. prog' = [prog EXCEPT ![txtpos.line] = x]
      BY <2>2, <3>2
    <3>. QED
      BY <1>2, <3>1, <3>2, <3>3 DEF LinesNotEmpty
  <2>3. CASE txtpos.line # 0 /\ \E i \in txtpos.line + 1 .. Len(prog) :
                \E l \in Cut(prog[i]) : prog' = [prog EXCEPT ![i] = l]
    <3>1. PICK i \in txtpos.line + 1 .. Len(prog) : \E l \in Cut(prog[i]) : prog' = [prog EXCEPT ![i] = l]
      BY <2>3
    <3>2. i \in 1 .. Len(prog) /\ prog[i] \in Line /\ prog[i].stmts # <<>>
      BY <1>2, <1>3
    <3>3. PICK l \in Cut(prog[i]) : prog' = [prog EXCEPT ![i] = l]
      BY <3>1
    <3>4. l \in Line /\ l.stmts # <<>>
      BY <3>2, CutIsLine
    <3>. QED
      BY <1>2, <3>2, <3>3, <3>4 DEF LinesNotEmpty
  <2>. QED
    BY <2>1, <2>2, <2>3 DEF Save
<1>5. pc' = "prompt" /\ current_line' = NULL /\ txtpos' \in TextPlace /\ sp' = Top
  BY <1>1, NullSound DEF Warmstart, Prompt
<1>6. SoundLine(current_line)'
  BY <1>5 DEF SoundLine, NULL, Place
<1>7. MemOK(mem)'
  BY <1>1, <1>4 DEF IInv, MemOK, WordOK, SoundLine, SoundText
<1>8. TypeOK' /\ StackAboveProgram' /\ WalkAboveSp'
  <2>1. current_line' \in Place
    BY <1>6 DEF SoundLine
  <2>. QED
    BY <1>1, <1>4, <1>5, <2>1, Sizes DEF IInv, TypeOK, StackAboveProgram, WalkAboveSp, walk, PC
<1>. QED
  BY <1>4, <1>5, <1>6, <1>7, <1>8 DEF IInv

LEMMA EnterDirectKeeps ==
    ASSUME IInv, NEW stmts \in DirectLines, EnterDirect(stmts)
    PROVE  IInv'
<1>1. /\ typed < MaxTyped /\ typed' = typed + 1 /\ buf' = stmts /\ pc' = "run" /\ pc = "prompt"
      /\ current_line' = current_line /\ sp' = sp /\ txtpos' = [line |-> 0, at |-> 1, epoch |-> typed']
      /\ prog' = prog /\ edits' = edits /\ mem' = mem /\ UNCHANGED walk
  BY DEF EnterDirect, Run
<1>2. typed' \in 0 .. MaxTyped /\ typed \in Nat /\ typed' \in Nat /\ Len(prog) \in Nat
  BY <1>1, Sizes DEF IInv, TypeOK
<1>3. stmts \in Seq(Statements) /\ stmts # <<>>
  BY InterpPrograms
<1>4. txtpos' \in TextPlace /\ SoundText(txtpos)' /\ InText(txtpos)'
  BY <1>1, <1>2, <1>3 DEF TextPlace, SoundText, InText, Valid, StmtsAt
<1>5. SoundLine(current_line)' /\ LinesNotEmpty' /\ StackAboveProgram' /\ WalkAboveSp'
  BY <1>1 DEF IInv, SoundLine, LinesNotEmpty, StackAboveProgram, WalkAboveSp
<1>6. MemOK(mem)'
  <2>1. ASSUME NEW i \in Words
        PROVE  WordOK(i, mem[i])'
    BY <1>1, <1>2 DEF IInv, MemOK, WordOK, SoundLine, SoundText, TextPlace
  <2>. QED
    BY <1>1, <2>1 DEF IInv, MemOK
<1>7. TypeOK'
  BY <1>1, <1>2, <1>3, <1>4 DEF IInv, TypeOK, walk, PC
<1>. QED
  BY <1>4, <1>5, <1>6, <1>7 DEF IInv

LEMMA EnterHangsKeeps ==
    ASSUME IInv, NEW l \in NumberedLines, EnterHangs(l)
    PROVE  IInv'
<1>1. /\ prog' = prog /\ edits' = edits /\ buf' = buf /\ typed' = typed /\ current_line' = current_line
      /\ txtpos' = txtpos /\ mem' = mem /\ sp' = sp /\ tempsp' = tempsp /\ want' = want /\ pc' = "lost"
  BY DEF EnterHangs, Lost, text, walk
<1>2. TypeOK' /\ StackAboveProgram' /\ LinesNotEmpty' /\ SoundLine(current_line)' /\ WalkAboveSp'
  BY <1>1 DEF IInv, TypeOK, StackAboveProgram, LinesNotEmpty, SoundLine, WalkAboveSp, PC
<1>3. MemOK(mem)'
  BY <1>1 DEF IInv, MemOK, WordOK, SoundLine, SoundText
<1>. QED
  BY <1>1, <1>2, <1>3 DEF IInv

LEMMA AnswerKeeps ==
    ASSUME IInv, NEW v \in Answers, Answer(v)
    PROVE  IInv'
<1>1. /\ pc = "input" /\ typed < MaxTyped /\ typed' = (IF txtpos.line = 0 THEN typed ELSE typed + 1)
      /\ mem' = Stored(want, v) /\ prog' = prog /\ edits' = edits /\ buf' = buf /\ WalkEnds
  BY DEF Answer
<1>2. /\ SoundText(txtpos) /\ 1 <= txtpos.at /\ SoundLine(current_line) /\ want \in Vars
      /\ sp \in Nat /\ stack_limit - 2 * FOR_WORDS <= sp /\ sp <= Top
  BY <1>1, Sizes DEF IInv, WalkAboveSp, TypeOK, StackAboveProgram
<1>3. MemOK(mem')
  BY <1>1, <1>2, StoredOK, InterpConstants
<1>4. Goes(sp)
  BY <1>2, RunNextGoes, LostGoes DEF Answer
<1>5. typed \in Nat /\ typed' \in 0 .. MaxTyped /\ typed <= typed'
  BY <1>1, Sizes DEF IInv, TypeOK
<1>6. SoundLine(current_line)' /\ LinesNotEmpty'
  BY <1>1, <1>4 DEF IInv, Goes, SoundLine, LinesNotEmpty
<1>7. pc' = "run" => SoundText(txtpos)' /\ InText(txtpos)'
  <2>1. CASE txtpos.line = 0
    BY <1>1, <1>4, <2>1 DEF Goes, SoundText, InText, Valid, StmtsAt
  <2>2. CASE txtpos.line # 0 /\ pc' = "run"
    <3>1. txtpos'.line # 0
      BY <1>1, <2>2, <1>2 DEF Answer, RunNextStatement, ExecNextLine, ExecLine, Run, Prompt, Warmstart, Lost,
           SoundLine, Place
    <3>. QED
      BY <1>1, <1>4, <1>5, <2>2, <3>1 DEF Goes, SoundText, InText, Valid, StmtsAt
  <2>. QED
    BY <2>1, <2>2
<1>8. MemOK(mem)'
  <2>1. ASSUME NEW i \in Words
        PROVE  WordOK(i, mem[i])'
    BY <1>1, <1>3, <1>5 DEF MemOK, WordOK, SoundLine, SoundText, TextPlace
  <2>. QED
    BY <1>3, <2>1 DEF MemOK
<1>9. TypeOK' /\ StackAboveProgram' /\ WalkAboveSp'
  BY <1>1, <1>2, <1>3, <1>4, <1>5, Sizes, WalkEndType
     DEF IInv, TypeOK, StackAboveProgram, WalkAboveSp, Goes, MemOK, SoundLine, PC
<1>. QED
  BY <1>6, <1>7, <1>8, <1>9 DEF IInv


-----------------------------------------------------------------------------
LEMMA InterpInit ==
    ASSUME Init
    PROVE  IInv
<1>1. prog \in Seq(Line) /\ LinesNotEmpty
  BY InterpPrograms DEF Init, LinesNotEmpty
<1>2. Value(0) \in Word /\ Value(0).t = "int"
  BY InterpConstants DEF Value, Word, Longs
<1>3. MemOK(mem)
  BY <1>2 DEF Init, MemOK, WordOK
<1>4. TypeOK /\ StackAboveProgram
  BY <1>1, <1>3, NullSound, Sizes DEF Init, TypeOK, StackAboveProgram, MemOK, SoundLine, PC
<1>. QED
  BY <1>1, <1>3, <1>4, NullSound DEF Init, IInv, WalkAboveSp

LEMMA InterpNext ==
    ASSUME IInv, [Next]_vars
    PROVE  IInv'
<1>1. CASE UNCHANGED vars
  <2>1. /\ prog' = prog /\ edits' = edits /\ buf' = buf /\ typed' = typed /\ current_line' = current_line
        /\ txtpos' = txtpos /\ mem' = mem /\ sp' = sp /\ tempsp' = tempsp /\ want' = want /\ pc' = pc
    BY <1>1 DEF vars, text, walk
  <2>2. TypeOK' /\ StackAboveProgram' /\ LinesNotEmpty' /\ SoundLine(current_line)'
    BY <2>1 DEF IInv, TypeOK, StackAboveProgram, LinesNotEmpty, SoundLine
  <2>3. MemOK(mem)'
    BY <2>1 DEF IInv, MemOK, WordOK, SoundLine, SoundText
  <2>4. WalkAboveSp' /\ (pc' = "run" => SoundText(txtpos)' /\ InText(txtpos)')
    BY <2>1 DEF IInv, WalkAboveSp, SoundText, InText, Valid, StmtsAt
  <2>. QED
    BY <2>2, <2>3, <2>4 DEF IInv
<1>2. CASE Malformed \/ NotLast
  BY <1>2, ErrorKeeps DEF Malformed, NotLast, At
<1>3. CASE RunsJunk
  BY <1>3, LostGoes, SimpleKeeps DEF RunsJunk, At
<1>4. CASE If
  BY <1>4, IfGoes, SimpleKeeps DEF If, At
<1>5. CASE Rem
  BY <1>5, ExecNextLineGoes, SimpleKeeps DEF Rem, At, IInv
<1>6. CASE Goto \/ RunProgram \/ End
  BY <1>6, GotoGoes, SimpleKeeps DEF Goto, RunProgram, End, At
<1>7. CASE ToFirmware
  BY <1>7, WarmstartGoes, SimpleKeeps DEF ToFirmware, At
<1>8. CASE Bye
  <2>1. /\ prog' = prog /\ edits' = edits /\ buf' = buf /\ typed' = typed /\ current_line' = current_line
        /\ txtpos' = txtpos /\ mem' = mem /\ sp' = sp /\ tempsp' = tempsp /\ want' = want /\ pc' = "exit"
    BY <1>8 DEF Bye, text, walk
  <2>2. TypeOK' /\ StackAboveProgram' /\ LinesNotEmpty' /\ SoundLine(current_line)' /\ WalkAboveSp'
    BY <2>1 DEF IInv, TypeOK, StackAboveProgram, LinesNotEmpty, SoundLine, WalkAboveSp, PC
  <2>3. MemOK(mem)'
    BY <2>1 DEF IInv, MemOK, WordOK, SoundLine, SoundText
  <2>. QED
    BY <2>1, <2>2, <2>3 DEF IInv
<1>9. CASE Walk
  BY <1>9, WalkOnKeeps, WalkGivesUpKeeps, ReturnsKeeps, IteratesKeeps DEF Walk
<1>10. CASE User
  BY <1>10, AnswerKeeps, EnterDirectKeeps, EnterNumberedKeeps, EnterHangsKeeps DEF User
<1>12. CASE Hangs
  BY <1>12, LostGoes, SimpleKeeps DEF Hangs, At
<1>11. CASE Stopped
  BY <1>1, <1>11 DEF Stopped
<1>. QED
  BY <1>1, <1>2, <1>3, <1>4, <1>5, <1>6, <1>7, <1>8, <1>9, <1>10, <1>11, <1>12,
     PrintNumKeeps, AssignmentKeeps, ListKeeps, NewKeeps, SaveKeeps, ForLoopKeeps, GosubLineKeeps,
     NextVarKeeps, InputKeeps
     DEF Next, Interpret, Statement

\* The inductive invariant holds in every session.
THEOREM InterpInvariant == Spec => []IInv
<1>1. Init => IInv
  BY InterpInit
<1>2. IInv /\ [Next]_vars => IInv'
  BY InterpNext
<1>. QED
  BY <1>1, <1>2, PTL DEF Spec

\* Every variable of the interpreter keeps its type: the variables of the BASIC
\* program are S_INTs, the fields of a FOR frame ints, sp stays in the array.
THEOREM InterpTypeOK == Spec => []TypeOK
<1>1. IInv => TypeOK
  BY DEF IInv
<1>. QED
  BY <1>1, InterpInvariant, PTL

\* StackAboveProgram of Interp.tla for every size: however deep a program nests FOR
\* and GOSUB, and whatever order it closes them in, the stack goes no further into
\* the variables than two frames of a FOR, and with the digits printnum pushes on
\* it stays above the program.
THEOREM InterpStackAboveProgram == Spec => []StackAboveProgram
<1>1. IInv => StackAboveProgram
  BY DEF IInv
<1>. QED
  BY <1>1, InterpInvariant, PTL

-----------------------------------------------------------------------------
(* The variables.                                                          *)

\* A store, a frame where there is room for it, or digits.
Touches(v) ==
    \/ Names(v)
    \/ /\ Pushes(v)
       /\ Here.op = "for" => ~NoRoom(FOR_WORDS)
       /\ Here.op = "gosub" => ~NoRoom(GOSUB_WORDS)

LEMMA ScribbleTouches ==
    ASSUME IInv, pc = "run", Here.op \notin {"for", "gosub"}, NEW k \in 0 .. PrintWords, Scribble(k),
           NEW v \in Vars, mem'[v] # mem[v]
    PROVE  Touches(v)
<1>1. v \in sp - k .. sp - 1
  BY VarsAreWords DEF Scribble
<1>2. sp \in Nat /\ k \in Nat /\ PrintWords \in Nat /\ v \in Nat /\ k <= PrintWords
  BY Sizes DEF IInv, TypeOK, Vars
<1>3. v \in sp - PrintWords .. sp - 1
  BY <1>1, <1>2
<1>. QED
  BY <1>3 DEF Touches, Pushes

LEMMA ErrorTouches ==
    ASSUME IInv, pc = "run", Here.op \notin {"for", "gosub"}, NEW what, Error(what), NEW v \in Vars, mem'[v] # mem[v]
    PROVE  Touches(v)
<1>1. PICK k \in 0 .. PrintWords : Scribble(k)
  BY DEF Error
<1>. QED
  BY <1>1, ScribbleTouches

\* A FOR or a GOSUB that is not the last of its line prints no number.
LEMMA QuietError ==
    ASSUME IInv, NEW what, ~what, Error(what)
    PROVE  mem' = mem
<1>1. Scribble(0) /\ sp \in Nat /\ mem \in [Words -> Word]
  BY Sizes DEF Error, IInv, TypeOK
<1>2. mem' = [i \in Words |-> mem[i]]
  BY <1>1 DEF Scribble
<1>. QED
  BY <1>1, <1>2

LEMMA StoredTouches ==
    ASSUME IInv, NEW w \in Vars, NEW x, mem' = Stored(w, x), NEW v \in Vars, mem'[v] # mem[v]
    PROVE  v = w
<1>1. mem \in [Words -> Word] /\ v \in Words /\ w \in Words
  BY VarsAreWords DEF IInv, TypeOK
<1>. QED
  BY <1>1 DEF Stored

LEMMA ForTouches ==
    ASSUME IInv, ForLoop, NEW v \in Vars, mem'[v] # mem[v]
    PROVE  Touches(v)
<1>1. /\ pc = "run" /\ Here.op = "for" /\ Here.var \in Vars
      /\ mem \in [Words -> Word] /\ v \in Words /\ v \in Nat /\ sp \in Nat /\ FOR_WORDS \in Nat /\ 4 <= FOR_WORDS
  BY AtStatement, InterpPrograms, InterpConstants, VarsAreWords, Sizes DEF ForLoop, At, IInv, TypeOK, Vars
<1>0. ~NoRoom(FOR_WORDS)
  BY DEF ForLoop
<1>2. PICK initial, a, b, c, d :
         mem' = [Stored(Here.var, initial) EXCEPT ![sp - FOR_WORDS] = a, ![sp - FOR_WORDS + 1] = b,
                                                  ![sp - FOR_WORDS + 2] = c, ![sp - FOR_WORDS + 3] = d]
  BY DEF ForLoop
<1>3. CASE v \in sp - FOR_WORDS .. sp - 1
  BY <1>0, <1>1, <1>3 DEF Touches, Pushes
<1>4. CASE v \notin sp - FOR_WORDS .. sp - 1
  <2>1. v # sp - FOR_WORDS /\ v # sp - FOR_WORDS + 1 /\ v # sp - FOR_WORDS + 2 /\ v # sp - FOR_WORDS + 3
    BY <1>1, <1>4
  <2>2. mem'[v] = Stored(Here.var, initial)[v]
    BY <1>1, <1>2, <2>1 DEF Stored
  <2>3. v = Here.var
    BY <1>1, <2>2 DEF Stored
  <2>. QED
    BY <1>1, <2>3 DEF Touches, Names
<1>. QED
  BY <1>3, <1>4

LEMMA GosubTouches ==
    ASSUME IInv, GosubLine, NEW v \in Vars, mem'[v] # mem[v]
    PROVE  Touches(v)
<1>1. /\ pc = "run" /\ Here.op = "gosub"
      /\ mem \in [Words -> Word] /\ v \in Words /\ v \in Nat /\ sp \in Nat /\ GOSUB_WORDS \in Nat /\ 3 <= GOSUB_WORDS
  BY InterpConstants, VarsAreWords, Sizes DEF GosubLine, At, IInv, TypeOK, Vars
<1>0. ~NoRoom(GOSUB_WORDS)
  BY DEF GosubLine
<1>2. PICK a, b, c : mem' = [mem EXCEPT ![sp - GOSUB_WORDS] = a, ![sp - GOSUB_WORDS + 1] = b,
                                        ![sp - GOSUB_WORDS + 2] = c]
  BY DEF GosubLine
<1>3. v = sp - GOSUB_WORDS \/ v = sp - GOSUB_WORDS + 1 \/ v = sp - GOSUB_WORDS + 2
  BY <1>1, <1>2
<1>4. v \in sp - GOSUB_WORDS .. sp - 1
  BY <1>1, <1>3
<1>. QED
  BY <1>0, <1>1, <1>4 DEF Touches, Pushes

\* The loop a NEXT has found is one over a variable.
LEMMA IteratesOver ==
    ASSUME IInv, Iterates
    PROVE  want \in Vars
<1>1. pc = "walk" /\ tempsp < Top /\ mem[tempsp].t = "for" /\ mem[tempsp].var = want
  BY DEF Iterates, Looking
<1>2. tempsp \in Words /\ mem[tempsp] \in Word
  BY <1>1, AtWalk DEF WordOK
<1>. QED
  BY <1>1, <1>2, WordFields

LEMMA StepTouches ==
    ASSUME IInv, [Next]_vars, NEW v \in Vars, mem'[v] # mem[v]
    PROVE  Touches(v)
<1>0. mem' # mem
  OBVIOUS
<1>1. CASE PrintNum \/ List
  <2>1. pc = "run" /\ Here.op \in {"print", "list"} /\ \E k \in 0 .. PrintWords : Scribble(k)
    BY <1>1 DEF PrintNum, List, At
  <2>. QED
    BY <2>1, ScribbleTouches
<1>2. CASE Malformed
  BY <1>2, ErrorTouches DEF Malformed, At
<1>3. CASE NotLast
  <2>1. CASE Here.op \in {"for", "gosub"}
    <3>1. PICK what : what = (Here.op \in {"new", "list", "end"})
      OBVIOUS
    <3>2. ~what /\ Error(what)
      BY <1>3, <2>1, <3>1 DEF NotLast
    <3>. QED
      BY <1>0, <3>2, QuietError
  <2>2. CASE Here.op \notin {"for", "gosub"}
    BY <1>3, <2>2, ErrorTouches DEF NotLast
  <2>. QED
    BY <2>1, <2>2
<1>4. CASE Assignment
  <2>1. pc = "run" /\ Here.op = "let" /\ Here.var \in Vars /\ \E x : mem' = Stored(Here.var, x)
    BY <1>4, AtStatement, InterpPrograms DEF Assignment, At
  <2>. QED
    BY <2>1, StoredTouches DEF Touches, Names
<1>5. CASE ForLoop
  BY <1>5, ForTouches
<1>6. CASE GosubLine
  BY <1>6, GosubTouches
<1>7. CASE Iterates
  <2>1. pc = "walk" /\ want \in Vars
    BY <1>7, IteratesOver DEF Iterates, Looking
  <2>2. PICK x : mem' = Stored(want, x)
    BY <1>7 DEF Iterates
  <2>. QED
    BY <2>1, <2>2, StoredTouches DEF Touches, Names
<1>8. ASSUME NEW x \in Answers, Answer(x) PROVE Touches(v)
  <2>1. pc = "input" /\ want \in Vars /\ mem' = Stored(want, x)
    BY <1>8 DEF Answer, IInv, WalkAboveSp
  <2>. QED
    BY <2>1, StoredTouches DEF Touches, Names
<1>9. CASE mem' = mem
  BY <1>9
<1>. QED
  <2>1. (RunsJunk \/ If \/ Rem \/ Goto \/ Hangs \/ RunProgram \/ End \/ ToFirmware \/ Bye \/ New \/ Load \/ Save
         \/ NextVar \/ Return \/ Input) => mem' = mem
    BY DEF RunsJunk, If, Rem, Goto, Hangs, RunProgram, End, ToFirmware, Bye, New, Load, Save, NextVar, Return,
           WalkFrom, Input
  <2>2. (WalkOn \/ WalkStuffed \/ WalkFails \/ Returns \/ Stopped \/ UNCHANGED vars) => mem' = mem
    BY DEF WalkOn, WalkStuffed, WalkFails, Returns, Stopped, vars
  <2>3. \/ \E stmts \in DirectLines : EnterDirect(stmts)
        \/ \E l \in NumberedLines : EnterNumbered(l) \/ EnterHangs(l)
        => mem' = mem
    BY DEF EnterDirect, EnterNumbered, EnterHangs
  <2>. QED
    BY <1>1, <1>2, <1>3, <1>4, <1>5, <1>6, <1>7, <1>8, <1>9, <2>1, <2>2, <2>3
       DEF Next, Interpret, Statement, Walk, User

\* What is pushed where there still is room stays above the first variables.
LEMMA PushedAbove ==
    ASSUME IInv, NEW v \in Vars, Touches(v), ~Names(v)
    PROVE  v >= stack_limit - 2 * FOR_WORDS - PrintWords
<1>1. /\ sp \in Nat /\ v \in Nat /\ stack_limit \in Nat /\ FOR_WORDS \in Nat /\ GOSUB_WORDS \in Nat
      /\ PrintWords \in Nat /\ GOSUB_WORDS <= FOR_WORDS /\ stack_limit - 2 * FOR_WORDS <= sp
  BY Sizes, InterpConstants DEF IInv, TypeOK, StackAboveProgram, Vars, stack_limit
<1>2. CASE Here.op = "for"
  BY <1>1, <1>2 DEF Touches, Pushes, NoRoom
<1>3. CASE Here.op = "gosub"
  BY <1>1, <1>3 DEF Touches, Pushes, NoRoom
<1>4. CASE Here.op \notin {"for", "gosub"}
  BY <1>1, <1>4 DEF Touches, Pushes
<1>. QED
  BY <1>2, <1>3, <1>4

\* VariablesKept of Interp.tla for every size of the stack and of a frame: a variable
\* that no statement names changes only under a frame or under digits, and only if
\* it is one of the last: a frame of a FOR is pushed where the stack has not passed
\* stack_limit by more than one, and digits where it has not by more than two.
THEOREM InterpVariablesKept == Spec => VariablesKept
<1>1. ASSUME IInv, [Next]_vars
      PROVE  [\A v \in Vars :
                 mem'[v] # mem[v] =>
                    \/ Names(v)
                    \/ Pushes(v) /\ v >= stack_limit - 2 * FOR_WORDS - PrintWords]_vars
  <2>. SUFFICES ASSUME NEW v \in Vars, mem'[v] # mem[v], ~Names(v)
                PROVE  Pushes(v) /\ v >= stack_limit - 2 * FOR_WORDS - PrintWords
    OBVIOUS
  <2>1. Touches(v)
    BY <1>1, StepTouches
  <2>. QED
    BY <1>1, <2>1, PushedAbove DEF Touches
<1>. QED
  BY <1>1, InterpInvariant, PTL DEF Spec, VariablesKept

=============================================================================
