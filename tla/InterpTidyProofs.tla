-------------------------- MODULE InterpTidyProofs --------------------------
(***************************************************************************)
(* What Interp keeps for programs that close the loops of a subroutine     *)
(* before they RETURN from it and leave printnum its room (TidySpec).      *)
(*                                                                         *)
(* The chain of frames from sp to Top is given by the set X of the words   *)
(* it goes through (Links): each of them is Top or starts a whole frame    *)
(* that leads to another one.  The invariant is that such a set exists, and *)
(* that sp, and the walk of NEXT and RETURN, are in it.  All of X lies     *)
(* above stack_limit, where no store into a variable reaches.              *)
(***************************************************************************)
EXTENDS InterpProofs, DataInduction, SequenceTheorems

Links(X) ==
    /\ X \subseteq stack_limit .. Top
    /\ Top \in X
    /\ \A x \in X \ {Top} : \/ GosubAt(x) /\ x + GOSUB_WORDS \in X
                            \/ ForAt(x) /\ x + FOR_WORDS \in X

\* Frames, and nothing else, from sp on, and where the walk looks.
Chained ==
    \E X : /\ Links(X) /\ X \subseteq sp .. Top
          /\ sp \in X /\ (pc = "walk" => tempsp \in X)

Roomy == stack_limit + PrintWords <= sp \/ sp = Top

TInv == IInv /\ Roomy /\ Chained

-----------------------------------------------------------------------------
(* The recursive definition of the property, and the set of the words.     *)

\* What the definition of Whole says of a, if g is what it says of the rest.
WholeStep(g, a) ==
    \/ a = Top
    \/ GosubAt(a) /\ g[a + GOSUB_WORDS]
    \/ ForAt(a) /\ g[a + FOR_WORDS]

\* There is a function as Whole is defined: the words that a set of links that
\* may go below stack_limit, too, leads from to Top.
AnyLinks(X) ==
    /\ X \subseteq 0 .. Top
    /\ \A x \in X : \/ x = Top
                    \/ GosubAt(x) /\ x + GOSUB_WORDS \in X
                    \/ ForAt(x) /\ x + FOR_WORDS \in X

Reaches(a) == \E X : AnyLinks(X) /\ a \in X

LEMMA AddLink ==
    ASSUME NEW a \in 0 .. Top, NEW n \in {GOSUB_WORDS, FOR_WORDS}, Reaches(a + n),
           (n = GOSUB_WORDS /\ GosubAt(a)) \/ (n = FOR_WORDS /\ ForAt(a))
    PROVE  Reaches(a)
<1>1. PICK X : AnyLinks(X) /\ a + n \in X
  BY DEF Reaches
<1>2. PICK Y : Y = X \cup {a}
  OBVIOUS
<1>3. Y \subseteq 0 .. Top
  BY <1>1, <1>2 DEF AnyLinks
<1>4. ASSUME NEW x \in Y
      PROVE  x = Top \/ (GosubAt(x) /\ x + GOSUB_WORDS \in Y) \/ (ForAt(x) /\ x + FOR_WORDS \in Y)
  BY <1>1, <1>2 DEF AnyLinks
<1>. QED
  BY <1>2, <1>3, <1>4 DEF AnyLinks, Reaches

LEMMA ReachesSolves ==
    ASSUME NEW a \in 0 .. Top
    PROVE  Reaches(a) <=> \/ a = Top
                          \/ GosubAt(a) /\ Reaches(a + GOSUB_WORDS)
                          \/ ForAt(a) /\ Reaches(a + FOR_WORDS)
<1>1. ASSUME Reaches(a)
      PROVE  a = Top \/ (GosubAt(a) /\ Reaches(a + GOSUB_WORDS)) \/ (ForAt(a) /\ Reaches(a + FOR_WORDS))
  BY <1>1 DEF Reaches, AnyLinks
<1>2. ASSUME a = Top
      PROVE  Reaches(a)
  <2>1. AnyLinks({Top})
    BY <1>2 DEF AnyLinks
  <2>. QED
    BY <1>2, <2>1 DEF Reaches
<1>3. ASSUME GosubAt(a), Reaches(a + GOSUB_WORDS)
      PROVE  Reaches(a)
  BY <1>3, AddLink
<1>4. ASSUME ForAt(a), Reaches(a + FOR_WORDS)
      PROVE  Reaches(a)
  BY <1>4, AddLink
<1>. QED
  BY <1>1, <1>2, <1>3, <1>4

LEMMA WholeDef == Whole = [a \in 0 .. Top |-> WholeStep(Whole, a)]
<1>. DEFINE g == [a \in 0 .. Top |-> Reaches(a)]
<1>1. ASSUME NEW a \in 0 .. Top
      PROVE  g[a] = WholeStep(g, a)
  <2>1. GosubAt(a) => a + GOSUB_WORDS \in 0 .. Top
    BY Sizes DEF GosubAt
  <2>2. ForAt(a) => a + FOR_WORDS \in 0 .. Top
    BY Sizes DEF ForAt
  <2>3. WholeStep(g, a) <=> \/ a = Top
                            \/ GosubAt(a) /\ Reaches(a + GOSUB_WORDS)
                            \/ ForAt(a) /\ Reaches(a + FOR_WORDS)
    BY <2>1, <2>2, Zenon DEF WholeStep
  <2>4. WholeStep(g, a) <=> Reaches(a)
    BY <2>3, ReachesSolves
  <2>5. WholeStep(g, a) = Reaches(a)
    BY <2>4 DEF WholeStep, Reaches
  <2>. QED
    BY <2>5
<1>2. g = [a \in 0 .. Top |-> WholeStep(g, a)]
  BY <1>1, Zenon
<1>3. \E h : h = [a \in 0 .. Top |-> WholeStep(h, a)]
  <2>. HIDE DEF g
  <2>. QED
    BY <1>2
<1>. QED
  BY <1>3, Zenon DEF Whole, WholeStep

\* A word that is in a set of links starts a chain of whole frames.
LEMMA LinksAreWhole ==
    ASSUME NEW X, Links(X), NEW s \in X
    PROVE  Whole[s]
<1>. DEFINE T == {a \in 0 .. Top : a \in X => Whole[a]}
<1>1. ASSUME NEW i \in 0 .. Top, \A j \in i + 1 .. Top : j \in T
      PROVE  i \in T
  <2>. SUFFICES ASSUME i \in X
                PROVE  Whole[i]
    OBVIOUS
  <2>1. WholeStep(Whole, i)
    <3>1. CASE i = Top
      BY <3>1 DEF WholeStep
    <3>2. CASE GosubAt(i) /\ i + GOSUB_WORDS \in X
      <4>1. i + GOSUB_WORDS \in i + 1 .. Top
        BY <3>2, Sizes DEF GosubAt
      <4>. QED
        BY <1>1, <3>2, <4>1 DEF WholeStep
    <3>3. CASE ForAt(i) /\ i + FOR_WORDS \in X
      <4>1. i + FOR_WORDS \in i + 1 .. Top
        BY <3>3, Sizes DEF ForAt
      <4>. QED
        BY <1>1, <3>3, <4>1 DEF WholeStep
    <3>. QED
      BY <3>1, <3>2, <3>3 DEF Links
  <2>2. Whole[i] = WholeStep(Whole, i)
    BY WholeDef, Zenon
  <2>. QED
    BY <2>1, <2>2
<1>2. Top \in Nat /\ s \in 0 .. Top
  BY Sizes DEF Links
<1>. HIDE DEF T
<1>3. 0 .. Top \subseteq T
  BY <1>1, <1>2, DownFrom
<1>4. s \in T
  BY <1>2, <1>3
<1>. QED
  BY <1>4 DEF T

-----------------------------------------------------------------------------
(* What a step stores.                                                     *)

\* The statement that is executed names the variable v and stores into it.
Named(v) ==
    \/ pc = "run" /\ Here.op \in {"let", "for"} /\ Here.var = v
    \/ pc \in {"walk", "input"} /\ want = v

\* A step stores into the variable it names, or below sp where no variable is.
StoresWell ==
    /\ \A v \in Vars : mem'[v] # mem[v] => Named(v)
    /\ \A i \in sp .. Top - 1 : mem'[i] = mem[i]

Tidy == IInv /\ stack_limit + PrintWords <= sp

LEMMA TidyHasRoom ==
    ASSUME IInv, Roomy, IInv', TidyStep
    PROVE  Tidy /\ Roomy'
BY Sizes DEF IInv, TypeOK, Roomy, TidyStep, Tidy

\* Where the words of the stack are.
LEMMA TidySp ==
    ASSUME Tidy
    PROVE  /\ sp \in Nat /\ stack_limit + PrintWords <= sp /\ sp <= Top
           /\ sp .. Top - 1 \subseteq Words
           /\ \A v \in Vars : v \in Words /\ v \notin sp .. Top - 1 /\ v < stack_limit
           /\ mem \in [Words -> Word]
<1>1. sp \in Nat /\ stack_limit + PrintWords <= sp /\ sp <= Top /\ mem \in [Words -> Word]
  BY Sizes DEF Tidy, IInv, TypeOK
<1>. QED
  BY <1>1, Sizes DEF Words, Vars

LEMMA SameStoresWell ==
    ASSUME Tidy, mem' = mem
    PROVE  StoresWell
BY DEF StoresWell

LEMMA ScribbleStoresWell ==
    ASSUME Tidy, NEW k \in 0 .. PrintWords, Scribble(k)
    PROVE  StoresWell /\ mem' = mem
<1>1. \A i \in sp - k .. sp - 1 : ~(i < stack_limit)
  BY TidySp, Sizes
<1>2. mem' = [i \in Words |-> mem[i]]
  BY <1>1 DEF Scribble
<1>3. mem' = mem
  BY <1>2, TidySp
<1>. QED
  BY <1>3, SameStoresWell

LEMMA StoredStoresWell ==
    ASSUME Tidy, NEW v \in Vars, NEW x, mem' = Stored(v, x), Named(v)
    PROVE  StoresWell
<1>1. \A i \in Words : i # v => mem'[i] = mem[i]
  BY TidySp DEF Stored
<1>2. \A u \in Vars : mem'[u] # mem[u] => u = v
  BY <1>1, TidySp
<1>3. \A i \in sp .. Top - 1 : mem'[i] = mem[i]
  BY <1>1, TidySp
<1>. QED
  BY <1>2, <1>3 DEF StoresWell

\* A frame of n words below sp is out of the way of variables and other frames.
LEMMA BelowSp ==
    ASSUME Tidy, NEW n \in Nat, n <= FOR_WORDS
    PROVE  \A i \in Words : i \in Vars \/ i \in sp .. Top - 1 => i \notin sp - n .. sp - 1
BY TidySp, Sizes, InterpFrameSize DEF Vars

LEMMA ForLoopStores ==
    ASSUME Tidy, ForLoop
    PROVE  StoresWell
<1>1. pc = "run" /\ Here.op = "for" /\ Here.var \in Vars
  BY AtStatement, InterpPrograms DEF ForLoop, At, Tidy
<1>2. Named(Here.var)
  BY <1>1 DEF Named
<1>3. CASE NoRoom(FOR_WORDS)
  BY <1>3, SameStoresWell DEF ForLoop
<1>4. CASE ~NoRoom(FOR_WORDS)
  <2>1. PICK b : b = sp - FOR_WORDS
    OBVIOUS
  <2>2. PICK initial, terminal, step :
           mem' = [Stored(Here.var, initial) EXCEPT
                     ![b]     = For(Here.var, ToInt(terminal)),
                     ![b + 1] = Step(ToInt(step)),
                     ![b + 2] = LinePtr(current_line),
                     ![b + 3] = TextPtr(After)]
    BY <1>4, <2>1 DEF ForLoop
  <2>3. PICK m : m = Stored(Here.var, initial)
    OBVIOUS
  <2>4. \A i \in Words : i # Here.var => m[i] = mem[i]
    BY <2>3, TidySp DEF Stored
  <2>5. DOMAIN m = Words
    BY <2>3, TidySp DEF Stored
  <2>6. {b, b + 1, b + 2, b + 3} \subseteq sp - FOR_WORDS .. sp - 1
    BY <2>1, TidySp, Sizes
  <2>7. \A i \in Words : i \notin {b, b + 1, b + 2, b + 3} => mem'[i] = m[i]
    BY <2>2, <2>3, <2>5
  <2>8. FOR_WORDS \in Nat /\ FOR_WORDS <= FOR_WORDS
    BY Sizes
  <2>9. \A i \in Words : (i \in Vars \/ i \in sp .. Top - 1) /\ i # Here.var => mem'[i] = mem[i]
    BY <2>4, <2>6, <2>7, <2>8, BelowSp
  <2>10. \A v \in Vars : mem'[v] # mem[v] => Named(v)
    BY <1>2, <2>9, TidySp
  <2>11. \A i \in sp .. Top - 1 : mem'[i] = mem[i]
    BY <1>1, <2>9, TidySp
  <2>. QED
    BY <2>10, <2>11 DEF StoresWell
<1>. QED
  BY <1>3, <1>4

LEMMA GosubStores ==
    ASSUME Tidy, GosubLine
    PROVE  StoresWell
<1>1. CASE NoRoom(GOSUB_WORDS)
  BY <1>1, SameStoresWell DEF GosubLine
<1>2. CASE ~NoRoom(GOSUB_WORDS)
  <2>1. PICK b : b = sp - GOSUB_WORDS
    OBVIOUS
  <2>2. mem' = [mem EXCEPT ![b]     = Gosub,
                           ![b + 1] = LinePtr(current_line),
                           ![b + 2] = TextPtr(After)]
    BY <1>2, <2>1 DEF GosubLine
  <2>3. {b, b + 1, b + 2} \subseteq sp - GOSUB_WORDS .. sp - 1
    BY <2>1, TidySp, Sizes
  <2>4. \A i \in Words : i \notin {b, b + 1, b + 2} => mem'[i] = mem[i]
    BY <2>2, TidySp
  <2>5. GOSUB_WORDS \in Nat /\ GOSUB_WORDS <= FOR_WORDS
    BY Sizes
  <2>6. \A i \in Words : i \in Vars \/ i \in sp .. Top - 1 => mem'[i] = mem[i]
    BY <2>3, <2>4, <2>5, BelowSp
  <2>. QED
    BY <2>6, TidySp DEF StoresWell
<1>. QED
  BY <1>1, <1>2

LEMMA StepStoresWell ==
    ASSUME Tidy, Next
    PROVE  StoresWell
<1>1. CASE mem' = mem
  BY <1>1, SameStoresWell
<1>2. CASE \E k \in 0 .. PrintWords : Scribble(k)
  BY <1>2, ScribbleStoresWell
<1>3. CASE Assignment
  <2>1. pc = "run" /\ Here.op = "let" /\ Here.var \in Vars
    BY <1>3, AtStatement, InterpPrograms DEF Assignment, At, Tidy
  <2>. QED
    BY <1>3, <2>1, StoredStoresWell DEF Assignment, Named
<1>4. CASE Iterates
  <2>1. pc = "walk" /\ tempsp < Top /\ mem[tempsp].t = "for" /\ mem[tempsp].var = want
    BY <1>4 DEF Iterates, Looking
  <2>2. mem[tempsp] \in Word
    BY <2>1, AtWalk DEF Tidy, WordOK
  <2>3. want \in Vars
    BY <2>1, <2>2, WordFields
  <2>4. PICK x : mem' = Stored(want, x)
    BY <1>4 DEF Iterates
  <2>5. Named(want)
    BY <2>1 DEF Named
  <2>. QED
    BY <2>3, <2>4, <2>5, StoredStoresWell
<1>5. CASE \E v \in Answers : Answer(v)
  <2>1. pc = "input" /\ want \in Vars
    BY <1>5 DEF Answer, Tidy, IInv, WalkAboveSp
  <2>. QED
    BY <1>5, <2>1, StoredStoresWell DEF Answer, Named
<1>6. CASE Malformed \/ NotLast \/ PrintNum \/ List
  BY <1>2, <1>6 DEF Malformed, NotLast, PrintNum, List, Error
<1>7. CASE RunsJunk \/ If \/ Rem \/ Goto \/ Hangs \/ RunProgram \/ End \/ ToFirmware \/ Bye \/ New \/ Load \/ Save
           \/ NextVar \/ Return \/ Input
  BY <1>1, <1>7 DEF RunsJunk, If, Rem, Goto, Hangs, RunProgram, End, ToFirmware, Bye, New, Load, Save, NextVar, Return,
       WalkFrom, Input
<1>8. CASE WalkOn \/ WalkStuffed \/ WalkFails \/ Returns
  BY <1>1, <1>8 DEF WalkOn, WalkStuffed, WalkFails, Returns
<1>9. CASE (\E stmts \in DirectLines : EnterDirect(stmts)) 
           \/ (\E l \in NumberedLines : EnterNumbered(l) \/ EnterHangs(l))
  BY <1>1, <1>9 DEF EnterDirect, EnterNumbered, EnterHangs
<1>10. CASE Stopped
  BY <1>1, <1>10 DEF Stopped, vars
<1>. QED
  BY <1>3, <1>4, <1>5, <1>6, <1>7, <1>8, <1>9, <1>10, ForLoopStores, GosubStores
     DEF Next, Interpret, Statement, Walk, User

-----------------------------------------------------------------------------
(* The frames.                                                             *)

LEMMA FramesKept ==
    ASSUME Tidy, StoresWell, NEW x \in Nat, sp <= x
    PROVE  (GosubAt(x) => GosubAt(x)') /\ (ForAt(x) => ForAt(x)')
<1>1. ASSUME GosubAt(x)
      PROVE  GosubAt(x)'
  <2>1. x \in sp .. Top - 1 /\ x + 1 \in sp .. Top - 1 /\ (x + 1) + 1 \in sp .. Top - 1
    BY <1>1, TidySp, Sizes DEF GosubAt
  <2>. QED
    BY <1>1, <2>1 DEF GosubAt, PointersAt, StoresWell
<1>2. ASSUME ForAt(x)
      PROVE  ForAt(x)'
  <2>1. /\ x \in sp .. Top - 1 /\ x + 1 \in sp .. Top - 1
        /\ x + 2 \in sp .. Top - 1 /\ (x + 2) + 1 \in sp .. Top - 1
    BY <1>2, TidySp, Sizes DEF ForAt
  <2>. QED
    BY <1>2, <2>1 DEF ForAt, PointersAt, StoresWell
<1>. QED
  BY <1>1, <1>2

\* The set of links goes on to be one, from any of its words on.
LEMMA LinksKept ==
    ASSUME Tidy, StoresWell, NEW X, Links(X), X \subseteq sp .. Top, NEW s \in X
    PROVE  /\ Links({x \in X : s <= x})'
           /\ {x \in X : s <= x} \subseteq s .. Top
           /\ s \in {x \in X : s <= x}
<1>1. PICK Y : Y = {x \in X : s <= x}
  OBVIOUS
<1>2. sp \in Nat /\ Top \in Nat /\ s \in sp .. Top /\ stack_limit \in Nat
  BY TidySp, Sizes
<1>3. Y \subseteq s .. Top /\ s \in Y /\ Top \in Y /\ Y \subseteq stack_limit .. Top
  <2>1. X \subseteq stack_limit .. Top /\ Top \in X
    BY DEF Links
  <2>2. s \in Nat /\ s <= Top /\ \A x \in X : x \in Nat /\ x <= Top
    BY <1>2, <2>1
  <2>3. s \in Y /\ Top \in Y /\ Y \subseteq X
    BY <1>1, <2>1, <2>2
  <2>4. ASSUME NEW y \in Y
        PROVE  y \in s .. Top
    <3>1. y \in Nat /\ y <= Top /\ s <= y
      BY <1>1, <2>2
    <3>. QED
      BY <1>2, <2>2, <3>1
  <2>. QED
    BY <2>1, <2>3, <2>4
<1>4. ASSUME NEW x \in Y \ {Top}
      PROVE  (GosubAt(x)' /\ x + GOSUB_WORDS \in Y) \/ (ForAt(x)' /\ x + FOR_WORDS \in Y)
  <2>1. x \in X /\ x \in Nat /\ sp <= x /\ s <= x /\ x # Top /\ s \in Nat
    BY <1>1, <1>2
  <2>2. CASE GosubAt(x) /\ x + GOSUB_WORDS \in X
    BY <1>1, <2>1, <2>2, FramesKept, Sizes
  <2>3. CASE ForAt(x) /\ x + FOR_WORDS \in X
    BY <1>1, <2>1, <2>3, FramesKept, Sizes
  <2>. QED
    BY <2>1, <2>2, <2>3 DEF Links
<1>5. Links(Y)'
  BY <1>3, <1>4 DEF Links
<1>. QED
  BY <1>1, <1>3, <1>5

\* A step that leaves sp in the chain, and the walk too if it goes on.
LEMMA ChainKept ==
    ASSUME Tidy, StoresWell, NEW X, Links(X), X \subseteq sp .. Top, sp' \in X,
           pc' = "walk" => tempsp' \in X /\ sp' <= tempsp'
    PROVE  Chained'
<1>1. PICK Y : Y = {x \in X : sp' <= x}
  OBVIOUS
<1>2. Links(Y)' /\ Y \subseteq sp' .. Top /\ sp' \in Y
  BY <1>1, LinksKept
<1>3. pc' = "walk" => tempsp' \in Y
  BY <1>1
<1>. QED
  BY <1>2, <1>3 DEF Chained

\* A frame pushed on the chain.
LEMMA ChainGrows ==
    ASSUME Tidy, StoresWell, NEW X, Links(X), X \subseteq sp .. Top, sp \in X,
           NEW n \in Nat, sp' = sp - n, stack_limit <= sp',
           \/ GosubAt(sp)'  /\ n = GOSUB_WORDS
           \/ ForAt(sp)' /\ n = FOR_WORDS,
           pc' # "walk"
    PROVE  Chained'
<1>1. PICK Y : Y = {x \in X : sp <= x}
  OBVIOUS
<1>2. Links(Y)' /\ Y \subseteq sp .. Top /\ sp \in Y
  BY <1>1, LinksKept
<1>3. PICK s, Z : s = sp' /\ Z = Y \cup {s}
  OBVIOUS
<1>4. sp \in Nat /\ s \in Nat /\ s <= sp /\ s + n = sp /\ stack_limit \in Nat /\ Top \in Nat /\ sp <= Top
  BY <1>3, TidySp, Sizes
<1>5. Z \subseteq s .. Top /\ s \in Z /\ Top \in Z /\ Z \subseteq stack_limit .. Top
  BY <1>2, <1>3, <1>4 DEF Links
<1>6. ASSUME NEW x \in Z \ {Top}
      PROVE  (GosubAt(x)' /\ x + GOSUB_WORDS \in Z) \/ (ForAt(x)' /\ x + FOR_WORDS \in Z)
  <2>1. CASE x = s
    BY <1>2, <1>3, <1>4, <2>1
  <2>2. CASE x \in Y
    BY <1>2, <1>3, <2>2 DEF Links
  <2>. QED
    BY <1>3, <2>1, <2>2
<1>7. Links(Z)'
  BY <1>5, <1>6 DEF Links
<1>. QED
  BY <1>3, <1>5, <1>7 DEF Chained

-----------------------------------------------------------------------------
(* Where sp goes.                                                          *)

GoesTo(s) == sp' \in {s, sp, Top} /\ pc' \in {"prompt", "run", "lost"}

LEMMA RunNextTo ==
    ASSUME NEW cl, NEW s, ExecLine(cl, s) \/ ExecNextLine(cl, s) \/ \E p : RunNextStatement(cl, p, s)
    PROVE  GoesTo(s)
<1>1. ASSUME NEW c, ExecLine(c, s)
      PROVE  GoesTo(s)
  BY <1>1 DEF ExecLine, Warmstart, Prompt, Run, GoesTo
<1>2. ASSUME ExecNextLine(cl, s)
      PROVE  GoesTo(s)
  BY <1>1, <1>2 DEF ExecNextLine, Prompt, Lost, GoesTo
<1>3. ASSUME NEW p, RunNextStatement(cl, p, s)
      PROVE  GoesTo(s)
  BY <1>2, <1>3 DEF RunNextStatement, Run, Lost, GoesTo
<1>. QED
  BY <1>1, <1>2, <1>3

LEMMA ResumeTo ==
    ASSUME NEW l, NEW p, NEW s, ResumeAt(l, p, s)
    PROVE  GoesTo(s)
BY RunNextTo DEF ResumeAt, Lost, GoesTo

\* A step that pops nothing but, at the most, everything.
LEMMA SameChain ==
    ASSUME Tidy, Chained, StoresWell, GoesTo(sp)
    PROVE  Chained'
<1>1. PICK X : Links(X) /\ X \subseteq sp .. Top /\ sp \in X
  BY DEF Chained
<1>2. sp' \in X /\ pc' # "walk"
  BY <1>1 DEF GoesTo, Links
<1>. QED
  BY <1>1, <1>2, ChainKept

\* The statements that push nothing.
LEMMA StatementTo ==
    ASSUME \/ Malformed \/ NotLast \/ RunsJunk \/ PrintNum \/ Assignment \/ If \/ Rem
           \/ Goto \/ Hangs \/ RunProgram \/ End \/ List \/ ToFirmware \/ New \/ Load \/ Save
    PROVE  GoesTo(sp)
<1>1. CASE Malformed \/ NotLast
  BY <1>1 DEF Malformed, NotLast, Error, Prompt, GoesTo
<1>2. CASE RunsJunk \/ Hangs \/ List \/ ToFirmware
  BY <1>2 DEF RunsJunk, Hangs, List, ToFirmware, Lost, Warmstart, Prompt, GoesTo
<1>3. CASE PrintNum \/ Assignment
  BY <1>3, RunNextTo DEF PrintNum, Assignment, Prompt, GoesTo
<1>4. CASE If \/ Rem
  BY <1>4, RunNextTo DEF If, Rem, Run, GoesTo
<1>5. CASE Goto \/ RunProgram \/ End
  BY <1>5, RunNextTo DEF Goto, RunProgram, End
<1>6. CASE New \/ Load \/ Save
  BY <1>6 DEF New, Load, Save, Warmstart, Prompt, GoesTo
<1>. QED
  BY <1>1, <1>2, <1>3, <1>4, <1>5, <1>6

\* FOR and GOSUB push a whole frame, if they go on with it.
LEMMA ForLoopPushes ==
    ASSUME Tidy, ForLoop, TidyStep
    PROVE  /\ pc' \in {"prompt", "run", "lost"}
           /\ sp' \in {sp, Top} \/ (sp' = sp - FOR_WORDS /\ stack_limit <= sp' /\ ForAt(sp)')
<1>1. CASE NoRoom(FOR_WORDS)
  BY <1>1 DEF ForLoop, Warmstart, Prompt
<1>2. CASE ~NoRoom(FOR_WORDS)
  <2>1. GoesTo(sp - FOR_WORDS)
    BY <1>2, RunNextTo DEF ForLoop
  <2>2. CASE sp' \in {sp, Top}
    BY <2>1, <2>2 DEF GoesTo
  <2>3. CASE sp' = sp - FOR_WORDS
    <3>1. PICK b : b = sp'
      OBVIOUS
    <3>2. PICK initial, terminal, step :
             mem' = [Stored(Here.var, initial) EXCEPT
                       ![b]     = For(Here.var, ToInt(terminal)),
                       ![b + 1] = Step(ToInt(step)),
                       ![b + 2] = LinePtr(current_line),
                       ![b + 3] = TextPtr(After)]
      BY <1>2, <2>3, <3>1 DEF ForLoop
    <3>3. PICK m : m = Stored(Here.var, initial)
      OBVIOUS
    <3>4. DOMAIN m = Words
      BY <3>3, TidySp DEF Stored
    <3>5. /\ stack_limit <= b /\ b \in Nat /\ b + FOR_WORDS = sp /\ b + FOR_WORDS <= Top
          /\ b \in Words /\ b + 1 \in Words /\ b + 2 \in Words /\ b + 3 \in Words
      BY <2>3, <3>1, TidySp, Sizes DEF TidyStep, Words
    <3>6. /\ mem'[b] = For(Here.var, ToInt(terminal)) /\ mem'[b + 1] = Step(ToInt(step))
          /\ mem'[b + 2] = LinePtr(current_line) /\ mem'[b + 3] = TextPtr(After)
      BY <3>2, <3>3, <3>4, <3>5
    <3>7. (b + 2) + 1 = b + 3
      BY <3>5
    <3>8. /\ mem'[b].t = "for" /\ mem'[b + 1].t = "step"
          /\ mem'[b + 2].t = "line" /\ mem'[(b + 2) + 1].t = "text"
      BY <3>6, <3>7 DEF For, Step, LinePtr, TextPtr
    <3>9. ForAt(sp)'
      BY <3>1, <3>5, <3>8 DEF ForAt, PointersAt
    <3>. QED
      BY <2>1, <2>3, <3>1, <3>5, <3>9 DEF GoesTo
  <2>. QED
    BY <2>1, <2>2, <2>3 DEF GoesTo
<1>. QED
  BY <1>1, <1>2

LEMMA ForLoopChained ==
    ASSUME Tidy, Chained, StoresWell, ForLoop, TidyStep
    PROVE  Chained'
<1>1. CASE sp' \in {sp, Top}
  BY <1>1, ForLoopPushes, SameChain DEF GoesTo
<1>2. CASE sp' = sp - FOR_WORDS /\ stack_limit <= sp' /\ ForAt(sp)'
  BY <1>2, ForLoopPushes, ChainGrows, Sizes DEF Chained
<1>. QED
  BY <1>1, <1>2, ForLoopPushes

LEMMA GosubPushes ==
    ASSUME Tidy, GosubLine, TidyStep
    PROVE  /\ pc' \in {"prompt", "run", "lost"}
           /\ sp' \in {sp, Top} \/ (sp' = sp - GOSUB_WORDS /\ stack_limit <= sp' /\ GosubAt(sp)')
<1>1. CASE NoRoom(GOSUB_WORDS)
  BY <1>1 DEF GosubLine, Warmstart, Prompt
<1>2. CASE ~NoRoom(GOSUB_WORDS)
  <2>1. GoesTo(sp - GOSUB_WORDS)
    BY <1>2, RunNextTo DEF GosubLine
  <2>2. CASE sp' \in {sp, Top}
    BY <2>1, <2>2 DEF GoesTo
  <2>3. CASE sp' = sp - GOSUB_WORDS
    <3>1. PICK b : b = sp'
      OBVIOUS
    <3>2. mem' = [mem EXCEPT ![b]     = Gosub,
                             ![b + 1] = LinePtr(current_line),
                             ![b + 2] = TextPtr(After)]
      BY <1>2, <2>3, <3>1 DEF GosubLine
    <3>3. /\ stack_limit <= b /\ b \in Nat /\ b + GOSUB_WORDS = sp /\ b + GOSUB_WORDS <= Top
          /\ b \in Words /\ b + 1 \in Words /\ b + 2 \in Words
      BY <2>3, <3>1, TidySp, Sizes DEF TidyStep, Words
    <3>4. /\ mem'[b] = Gosub /\ mem'[b + 1] = LinePtr(current_line) /\ mem'[b + 2] = TextPtr(After)
      BY <3>2, <3>3, TidySp
    <3>5. (b + 1) + 1 = b + 2
      BY <3>3
    <3>6. mem'[b].t = "gosub" /\ mem'[b + 1].t = "line" /\ mem'[(b + 1) + 1].t = "text"
      BY <3>4, <3>5 DEF Gosub, LinePtr, TextPtr
    <3>7. GosubAt(sp)'
      BY <3>1, <3>3, <3>6 DEF GosubAt, PointersAt
    <3>. QED
      BY <2>1, <2>3, <3>1, <3>3, <3>7 DEF GoesTo
  <2>. QED
    BY <2>1, <2>2, <2>3 DEF GoesTo
<1>. QED
  BY <1>1, <1>2
LEMMA GosubChained ==
    ASSUME Tidy, Chained, StoresWell, GosubLine, TidyStep
    PROVE  Chained'
<1>1. CASE sp' \in {sp, Top}
  BY <1>1, GosubPushes, SameChain DEF GoesTo
<1>2. CASE sp' = sp - GOSUB_WORDS /\ stack_limit <= sp' /\ GosubAt(sp)'
  BY <1>2, GosubPushes, ChainGrows, Sizes DEF Chained
<1>. QED
  BY <1>1, <1>2, GosubPushes

\* NEXT and RETURN start at sp, and walk from frame to frame.
LEMMA WalkChained ==
    ASSUME Tidy, Chained, StoresWell, TidyStep, NextVar \/ Return \/ Walk
    PROVE  Chained'
<1>1. PICK X : Links(X) /\ X \subseteq sp .. Top /\ sp \in X /\ (pc = "walk" => tempsp \in X)
  BY DEF Chained
<1>2. CASE NextVar \/ Return
  <2>1. sp' = sp /\ tempsp' = sp
    BY <1>2 DEF NextVar, Return, WalkFrom
  <2>2. sp' <= tempsp'
    BY <2>1, TidySp
  <2>. QED
    BY <1>1, <2>1, <2>2, ChainKept
<1>3. CASE WalkStuffed \/ WalkFails
  BY <1>3, SameChain DEF WalkStuffed, WalkFails, Lost, Warmstart, Prompt, GoesTo
<1>. DEFINE OnX == /\ pc = "walk" /\ tempsp \in X /\ tempsp # Top /\ tempsp \in Nat
                   /\ \/ GosubAt(tempsp) /\ tempsp + GOSUB_WORDS \in X
                      \/ ForAt(tempsp) /\ tempsp + FOR_WORDS \in X
<1>4. ASSUME Looking
      PROVE  OnX
  <2>1. pc = "walk" /\ tempsp # Top /\ tempsp \in X /\ tempsp \in Nat
    BY <1>1, <1>4, AtWalk, Sizes DEF Looking, Tidy
  <2>. QED
    BY <1>1, <2>1 DEF Links
<1>5. CASE WalkOn
  <2>1. OnX /\ sp' = sp /\ Looking
    BY <1>4, <1>5 DEF WalkOn
  <2>2. tempsp' \in X
    BY <1>5, <2>1 DEF WalkOn, GosubAt, ForAt
  <2>3. sp' <= tempsp'
    BY <1>1, <2>1, <2>2, TidySp
  <2>. QED
    BY <1>1, <2>1, <2>2, <2>3, ChainKept
<1>6. CASE Returns
  <2>1. OnX /\ mem[tempsp].t = "gosub" /\ tempsp = sp
    BY <1>4, <1>6 DEF Returns, TidyStep
  <2>2. sp + GOSUB_WORDS \in X
    BY <2>1 DEF GosubAt, ForAt
  <2>3. GoesTo(sp + GOSUB_WORDS)
    BY <1>6, ResumeTo DEF Returns
  <2>4. sp' \in X /\ pc' # "walk"
    BY <1>1, <2>2, <2>3 DEF GoesTo, Links
  <2>. QED
    BY <1>1, <2>4, ChainKept
<1>7. CASE Iterates
  <2>1. OnX /\ mem[tempsp].t = "for"
    BY <1>4, <1>7 DEF Iterates
  <2>2. AfterLoop \in X
    BY <2>1 DEF GosubAt, ForAt, AfterLoop
  <2>3. GoesTo(sp) \/ GoesTo(AfterLoop)
    BY <1>7, ResumeTo, RunNextTo DEF Iterates
  <2>4. sp' \in X /\ pc' # "walk"
    BY <1>1, <2>2, <2>3 DEF GoesTo, Links
  <2>. QED
    BY <1>1, <2>4, ChainKept
<1>. QED
  BY <1>2, <1>3, <1>5, <1>6, <1>7 DEF Walk

LEMMA NextChained ==
    ASSUME Tidy, Chained, StoresWell, Next, TidyStep
    PROVE  Chained'
<1>1. PICK X : Links(X) /\ X \subseteq sp .. Top /\ sp \in X /\ (pc = "walk" => tempsp \in X)
  BY DEF Chained
<1>2. CASE Bye \/ Input
  <2>1. sp' = sp /\ pc' # "walk"
    BY <1>2 DEF Bye, Input
  <2>. QED
    BY <1>1, <2>1, ChainKept
<1>3. CASE \E v \in Answers : Answer(v)
  <2>1. GoesTo(sp)
    BY <1>3, RunNextTo DEF Answer, Lost, GoesTo
  <2>. QED
    BY <2>1, SameChain
<1>4. CASE \E stmts \in DirectLines : EnterDirect(stmts)
  BY <1>4, SameChain DEF EnterDirect, Run, GoesTo
<1>5. CASE \E l \in NumberedLines : EnterNumbered(l) \/ EnterHangs(l)
  BY <1>5, SameChain DEF EnterNumbered, EnterHangs, Lost, GoesTo
<1>6. CASE Stopped
  <2>1. sp' = sp /\ pc' # "walk"
    BY <1>6 DEF Stopped, vars
  <2>. QED
    BY <1>1, <2>1, ChainKept
<1>. QED
  BY <1>2, <1>3, <1>4, <1>5, <1>6, StatementTo, SameChain, ForLoopChained, GosubChained, WalkChained
     DEF Next, Interpret, Statement, User

-----------------------------------------------------------------------------
LEMMA TidyInit ==
    ASSUME Init
    PROVE  TInv
<1>1. Links({Top}) /\ {Top} \subseteq sp .. Top /\ sp \in {Top} /\ pc # "walk"
  BY Sizes DEF Init, Links
<1>. QED
  BY <1>1, InterpInit DEF TInv, Roomy, Chained, Init

LEMMA TidyNext ==
    ASSUME TInv, [Next /\ TidyStep]_vars
    PROVE  TInv'
<1>1. CASE UNCHANGED vars
  <2>1. IInv'
    BY <1>1, InterpNext DEF TInv
  <2>2. sp' = sp /\ mem' = mem /\ tempsp' = tempsp /\ pc' = pc
    BY <1>1 DEF vars, walk
  <2>. QED
    BY <2>1, <2>2 DEF TInv, Roomy, Chained, Links, GosubAt, ForAt, PointersAt
<1>2. CASE Next /\ TidyStep
  <2>1. IInv'
    BY <1>2, InterpNext DEF TInv
  <2>2. Tidy /\ Roomy'
    BY <1>2, <2>1, TidyHasRoom DEF TInv
  <2>3. Chained'
    BY <1>2, <2>2, StepStoresWell, NextChained DEF TInv
  <2>. QED
    BY <2>1, <2>2, <2>3 DEF TInv
<1>. QED
  BY <1>1, <1>2

\* The inductive invariant holds in every tidy session.
THEOREM TidyInvariant == TidySpec => []TInv
<1>1. Init => TInv
  BY TidyInit
<1>2. TInv /\ [Next /\ TidyStep]_vars => TInv'
  BY TidyNext
<1>. QED
  BY <1>1, <1>2, PTL DEF TidySpec

\* In a tidy session the words from sp to the end of the array are nothing but
\* whole frames of FOR and GOSUB, however deep they nest and whatever fails:
\* the walk of gosub_return never meets anything else.
THEOREM TidyStackOfFrames == TidySpec => []StackOfFrames
<1>1. TInv => StackOfFrames
  BY LinksAreWhole DEF TInv, Chained, StackOfFrames
<1>. QED
  BY <1>1, TidyInvariant, PTL

-----------------------------------------------------------------------------
(* The place in the text.  A pointer into the buffer was taken when a line *)
(* had been typed, so that the only ones there are in the first direct     *)
(* line still hold; and no statement is damaged that was typed.            *)

Taken(p) == p.line = 0 => 1 <= p.epoch

\* What the user has done that may lose the place.
Unsettled ==
    \/ edits > 0
    \/ typed > 1
    \/ \E i \in 1 .. Len(buf) : buf[i].op = "input"
    \/ \E i \in 1 .. Len(prog) : Damaged(prog[i])

TakenIn(m) == \A i \in Words : m[i].t = "text" => Taken(m[i].to)

PlaceInv ==
    /\ TakenIn(mem)
    /\ pc \in {"run", "walk", "input"} => Taken(txtpos)
    /\ pc = "input" /\ txtpos.line = 0 => Unsettled
    /\ \A i \in 1 .. Len(buf) : buf[i].op # "junk"
    /\ pc = "lost" => Unsettled

\* A step finds its place, unless the text has been rewritten.
Finds ==
    /\ pc' \in {"prompt", "run", "lost"}
    /\ pc' = "run" => Taken(txtpos')
    /\ pc' = "lost" => Unsettled

LEMMA ExecLineFinds ==
    ASSUME NEW cl, cl.line # 0, NEW s, ExecLine(cl, s)
    PROVE  Finds
BY DEF ExecLine, Warmstart, Prompt, Run, Finds, Taken

LEMMA ExecNextLineFinds ==
    ASSUME IInv, NEW cl, SoundLine(cl), NEW s, ExecNextLine(cl, s)
    PROVE  Finds
<1>1. CASE Prompt(cl, s)
  BY <1>1 DEF Prompt, Finds
<1>2. CASE cl # NULL /\ ~Valid(cl) /\ Lost
  <2>1. cl.line # 0 /\ cl.epoch \in Nat /\ edits \in Nat /\ cl.epoch <= edits /\ cl.epoch # edits
    BY <1>2, Sizes DEF SoundLine, Valid, Place, IInv, TypeOK
  <2>2. edits > 0
    BY <2>1
  <2>. QED
    BY <1>2, <2>2 DEF Lost, Finds, Unsettled
<1>3. CASE cl # NULL /\ Valid(cl) /\ ExecLine([cl EXCEPT !.line = IF prog[cl.line].len THEN @ + 1 ELSE @], s)
  <2>1. cl \in Place /\ cl.line \in Nat /\ cl.line # 0
    BY <1>3 DEF SoundLine, Place
  <2>2. PICK c : c = [cl EXCEPT !.line = IF prog[cl.line].len THEN @ + 1 ELSE @]
    OBVIOUS
  <2>3. c.line # 0
    BY <2>1, <2>2 DEF Place
  <2>. QED
    BY <1>3, <2>2, <2>3, ExecLineFinds
<1>. QED
  BY <1>1, <1>2, <1>3 DEF ExecNextLine

LEMMA RunNextFinds ==
    ASSUME IInv, NEW cl, SoundLine(cl), NEW p, SoundText(p), Taken(p), NEW s, RunNextStatement(cl, p, s)
    PROVE  Finds
<1>1. CASE ~Valid(p) /\ Lost
  <2>1. p.line \in Nat /\ p.epoch \in Nat /\ edits \in Nat /\ typed \in Nat
    BY Sizes DEF SoundText, TextPlace, IInv, TypeOK
  <2>2. CASE p.line = 0
    <3>1. p.epoch <= typed /\ p.epoch # typed /\ 1 <= p.epoch
      BY <1>1, <2>2 DEF SoundText, Taken, Valid
    <3>2. typed > 1
      BY <2>1, <3>1
    <3>. QED
      BY <1>1, <3>2 DEF Lost, Finds, Unsettled
  <2>3. CASE p.line # 0
    <3>1. p.epoch <= edits /\ p.epoch # edits
      BY <1>1, <2>3 DEF SoundText, Valid
    <3>2. edits > 0
      BY <2>1, <3>1
    <3>. QED
      BY <1>1, <3>2 DEF Lost, Finds, Unsettled
  <2>. QED
    BY <2>2, <2>3
<1>2. CASE Run(cl, p, s)
  BY <1>2 DEF Run, Finds
<1>3. CASE ExecNextLine(cl, s)
  BY <1>3, ExecNextLineFinds
<1>. QED
  BY <1>1, <1>2, <1>3 DEF RunNextStatement

LEMMA StopFinds ==
    ASSUME Warmstart \/ \E cl, s : Prompt(cl, s)
    PROVE  Finds
BY DEF Warmstart, Prompt, Finds

\* A step that leaves the text alone.
LEMMA FindsKeeps ==
    ASSUME PlaceInv, Finds, UNCHANGED text, TakenIn(mem')
    PROVE  PlaceInv'
<1>1. prog' = prog /\ edits' = edits /\ buf' = buf /\ typed' = typed
  BY DEF text
<1>2. Unsettled => Unsettled'
  BY <1>1 DEF Unsettled
<1>3. (\A i \in 1 .. Len(buf) : buf[i].op # "junk")'
  BY <1>1 DEF PlaceInv
<1>4. TakenIn(mem)'
  BY DEF TakenIn
<1>5. pc' \in {"run", "walk", "input"} => Taken(txtpos)'
  BY DEF Finds, Taken
<1>. QED
  BY <1>2, <1>3, <1>4, <1>5 DEF PlaceInv, Finds

LEMMA TakenAfter ==
    ASSUME IInv, PlaceInv, pc = "run"
    PROVE  Taken(After) /\ Taken(txtpos)
BY DEF IInv, TypeOK, TextPlace, PlaceInv, Taken, After

\* What a store into a variable, or a push, leaves of the pointers.
LEMMA TakenStored ==
    ASSUME IInv, PlaceInv, NEW v \in Vars, NEW x
    PROVE  TakenIn(Stored(v, x))
<1>1. mem \in [Words -> Word] /\ v \in Words
  BY VarsAreWords DEF IInv, TypeOK
<1>2. Value(x).t # "text"
  BY DEF Value
<1>. QED
  BY <1>1, <1>2 DEF Stored, PlaceInv, TakenIn

LEMMA SameFinds ==
    ASSUME PlaceInv, Finds, UNCHANGED <<text, mem>>
    PROVE  PlaceInv'
BY FindsKeeps DEF PlaceInv, TakenIn

\* findline only hangs where a length has been overwritten.
LEMMA HangIsDamage ==
    ASSUME NEW n, FindsNoEnd(n)
    PROVE  Unsettled
BY DEF FindsNoEnd, Unsettled, Damaged

\* The statements that store nothing, and the digits of printnum.
LEMMA StatementFinds ==
    ASSUME Tidy, PlaceInv,
           \/ Malformed \/ NotLast \/ RunsJunk \/ PrintNum \/ If \/ Rem
           \/ Goto \/ Hangs \/ RunProgram \/ End \/ List \/ ToFirmware
    PROVE  PlaceInv'
<1>1. IInv /\ pc = "run"
  BY DEF Tidy, Malformed, NotLast, RunsJunk, PrintNum, If, Rem, Goto, Hangs, RunProgram, End, List, ToFirmware, At
<1>2. UNCHANGED text
  BY DEF Malformed, NotLast, RunsJunk, PrintNum, If, Rem, Goto, Hangs, RunProgram, End, List, ToFirmware, Error
<1>3. mem' = mem
  <2>1. ASSUME NEW k \in 0 .. PrintWords, Scribble(k)
        PROVE  mem' = mem
    BY <2>1, ScribbleStoresWell
  <2>. QED
    BY <2>1 DEF Malformed, NotLast, RunsJunk, PrintNum, If, Rem, Goto, Hangs, RunProgram, End, List, ToFirmware, Error
<1>4. SoundLine(current_line) /\ SoundText(After) /\ Taken(After)
  BY <1>1, AtStatement, TakenAfter
<1>5. CASE Malformed \/ NotLast \/ ToFirmware
  BY <1>2, <1>3, <1>5, StopFinds, SameFinds DEF Malformed, NotLast, ToFirmware, Error
<1>6. CASE RunsJunk
  <2>1. Here.op = "junk" /\ Lost
    BY <1>6 DEF RunsJunk, At
  <2>2. SoundText(txtpos) /\ InText(txtpos)
    BY <1>1 DEF IInv
  <2>3. txtpos.line # 0
    BY <2>1, <2>2 DEF Here, StmtsAt, InText, PlaceInv
  <2>4. PICK i : i = txtpos.line
    OBVIOUS
  <2>5. i \in 1 .. Len(prog)
    BY <1>1, <2>2, <2>3, <2>4 DEF InText, SoundText, TextPlace
  <2>7. txtpos.at \in 1 .. Len(prog[i].stmts) /\ prog[i].stmts[txtpos.at].op = "junk"
    BY <2>1, <2>2, <2>3, <2>4 DEF InText, Here, StmtsAt
  <2>9. Finds
    BY <2>1, <2>5, <2>7 DEF Lost, Finds, Unsettled, Damaged
  <2>. QED
    BY <1>2, <1>3, <2>9, SameFinds
<1>7. CASE PrintNum
  <2>1. Finds
    BY <1>1, <1>4, <1>7, StopFinds, RunNextFinds DEF PrintNum
  <2>. QED
    BY <1>2, <1>3, <2>1, SameFinds
<1>8. CASE If \/ Rem
  <2>1. CASE ExecNextLine(current_line, sp)
    BY <1>1, <1>2, <1>3, <1>4, <2>1, ExecNextLineFinds, SameFinds
  <2>2. CASE Run(current_line, After, sp)
    <3>1. Finds
      BY <1>4, <2>2 DEF Run, Finds
    <3>. QED
      BY <1>2, <1>3, <3>1, SameFinds
  <2>. QED
    BY <1>8, <2>1, <2>2 DEF If, Rem
<1>9. CASE Goto \/ RunProgram \/ End
  <2>1. Len(prog) \in Nat
    BY <1>1 DEF IInv, TypeOK
  <2>2. PICK n \in 1 .. Len(prog) + 1 : ExecLine(LineAt(n), sp)
    BY <1>9, <2>1 DEF Goto, RunProgram, End, program_end
  <2>3. LineAt(n).line # 0
    BY <2>1 DEF LineAt
  <2>. QED
    BY <1>2, <1>3, <2>2, <2>3, ExecLineFinds, SameFinds
<1>10. CASE List
  <2>1. CASE Warmstart
    BY <1>2, <1>3, <2>1, StopFinds, SameFinds
  <2>2. CASE Lost /\ \E i \in 1 .. Len(prog) + 1 : i <= Len(prog) /\ ~prog[Len(prog)].nl
    <3>1. Len(prog) \in Nat
      BY <1>1 DEF IInv, TypeOK
    <3>2. Len(prog) \in 1 .. Len(prog)
      BY <2>2, <3>1
    <3>3. Finds
      BY <2>2, <3>2 DEF Lost, Finds, Unsettled, Damaged
    <3>. QED
      BY <1>2, <1>3, <3>3, SameFinds
  <2>. QED
    BY <1>10, <2>1, <2>2 DEF List
<1>11. CASE Hangs
  <2>1. Finds
    BY <1>11, HangIsDamage DEF Hangs, Lost, Finds
  <2>. QED
    BY <1>2, <1>3, <2>1, SameFinds
<1>. QED
  BY <1>5, <1>6, <1>7, <1>8, <1>9, <1>10, <1>11

LEMMA AssignmentFinds ==
    ASSUME Tidy, PlaceInv, Assignment
    PROVE  PlaceInv'
<1>1. IInv /\ pc = "run" /\ Here.op = "let" /\ Here.var \in Vars
  BY AtStatement, InterpPrograms DEF Assignment, At, Tidy
<1>2. TakenIn(mem')
  BY <1>1, TakenStored DEF Assignment
<1>3. Finds
  BY <1>1, AtStatement, TakenAfter, RunNextFinds DEF Assignment
<1>. QED
  BY <1>2, <1>3, FindsKeeps DEF Assignment

LEMMA ForLoopFinds ==
    ASSUME Tidy, PlaceInv, ForLoop
    PROVE  PlaceInv'
<1>1. IInv /\ pc = "run" /\ Here.op = "for" /\ Here.var \in Vars /\ UNCHANGED text
  BY AtStatement, InterpPrograms DEF ForLoop, At, Tidy
<1>2. CASE NoRoom(FOR_WORDS)
  BY <1>1, <1>2, StopFinds, SameFinds DEF ForLoop
<1>3. CASE ~NoRoom(FOR_WORDS)
  <2>1. Finds
    BY <1>1, <1>3, AtStatement, TakenAfter, RunNextFinds DEF ForLoop
  <2>2. PICK b, initial, terminal, step :
           mem' = [Stored(Here.var, initial) EXCEPT
                     ![b]     = For(Here.var, ToInt(terminal)),
                     ![b + 1] = Step(ToInt(step)),
                     ![b + 2] = LinePtr(current_line),
                     ![b + 3] = TextPtr(After)]
    <3>1. PICK b : b = sp - FOR_WORDS
      OBVIOUS
    <3>. QED
      BY <1>3, <3>1 DEF ForLoop
  <2>3. PICK m : m = Stored(Here.var, initial)
    OBVIOUS
  <2>4. TakenIn(m) /\ DOMAIN m = Words
    BY <1>1, <2>3, TakenStored, TidySp DEF Stored
  <2>5. /\ For(Here.var, ToInt(terminal)).t # "text" /\ Step(ToInt(step)).t # "text"
        /\ LinePtr(current_line).t # "text" /\ TextPtr(After).to = After /\ Taken(After)
    BY <1>1, TakenAfter DEF For, Step, LinePtr, TextPtr
  <2>6. TakenIn(mem')
    BY <2>2, <2>3, <2>4, <2>5 DEF TakenIn
  <2>. QED
    BY <1>1, <2>1, <2>6, FindsKeeps
<1>. QED
  BY <1>2, <1>3

LEMMA GosubFinds ==
    ASSUME Tidy, PlaceInv, GosubLine
    PROVE  PlaceInv'
<1>1. IInv /\ pc = "run" /\ UNCHANGED text
  BY DEF GosubLine, At, Tidy
<1>2. CASE NoRoom(GOSUB_WORDS)
  BY <1>1, <1>2, StopFinds, SameFinds DEF GosubLine
<1>3. CASE ~NoRoom(GOSUB_WORDS)
  <2>1. Finds
    <3>1. PICK n \in 1 .. Len(prog) + 1 : ExecLine(LineAt(n), sp - GOSUB_WORDS)
      BY <1>3 DEF GosubLine
    <3>2. LineAt(n).line # 0
      BY <1>1 DEF LineAt, IInv, TypeOK
    <3>. QED
      BY <3>1, <3>2, ExecLineFinds
  <2>2. PICK b : mem' = [mem EXCEPT ![b]     = Gosub,
                                    ![b + 1] = LinePtr(current_line),
                                    ![b + 2] = TextPtr(After)]
    <3>1. PICK b : b = sp - GOSUB_WORDS
      OBVIOUS
    <3>. QED
      BY <1>3, <3>1 DEF GosubLine
  <2>3. /\ Gosub.t # "text" /\ LinePtr(current_line).t # "text"
        /\ TextPtr(After).to = After /\ Taken(After)
    BY <1>1, TakenAfter DEF Gosub, LinePtr, TextPtr
  <2>4. TakenIn(mem) /\ DOMAIN mem = Words
    BY TidySp DEF PlaceInv
  <2>5. TakenIn(mem')
    BY <2>2, <2>3, <2>4 DEF TakenIn
  <2>. QED
    BY <1>1, <2>1, <2>5, FindsKeeps
<1>. QED
  BY <1>2, <1>3

\* The walk meets frames only, and their pointers are where they belong.
LEMMA AtFrame ==
    ASSUME Tidy, Chained, Looking
    PROVE  /\ GosubAt(tempsp) \/ ForAt(tempsp)
           /\ tempsp \in Nat /\ sp <= tempsp /\ tempsp <= Top
<1>1. pc = "walk" /\ tempsp # Top /\ tempsp \in Nat /\ tempsp <= Top /\ sp <= tempsp
  BY AtWalk, Sizes DEF Looking, Tidy
<1>. QED
  BY <1>1 DEF Chained, Links

LEMMA ResumeFinds ==
    ASSUME IInv, PlaceInv, NEW i \in Words, NEW j \in Words, mem[i].t = "line", mem[j].t = "text",
           NEW s, ResumeAt(mem[i], mem[j], s)
    PROVE  Finds
<1>1. RunNextStatement(mem[i].to, mem[j].to, s)
  BY DEF ResumeAt
<1>2. SoundLine(mem[i].to) /\ SoundText(mem[j].to) /\ Taken(mem[j].to)
  BY DEF IInv, MemOK, WordOK, PlaceInv, TakenIn
<1>. QED
  BY <1>1, <1>2, RunNextFinds

LEMMA WalkFinds ==
    ASSUME Tidy, Chained, StoresWell, PlaceInv, Walk
    PROVE  PlaceInv'
<1>0. IInv
  BY DEF Tidy
<1>1. CASE WalkOn
  <2>1. /\ prog' = prog /\ edits' = edits /\ buf' = buf /\ typed' = typed
        /\ txtpos' = txtpos /\ mem' = mem /\ pc' = pc /\ pc = "walk"
    BY <1>1 DEF WalkOn, Looking, text
  <2>. QED
    BY <2>1 DEF PlaceInv, TakenIn, Taken
<1>2. CASE WalkStuffed
  BY <1>2, AtFrame DEF WalkStuffed, GosubAt, ForAt
<1>3. CASE WalkFails
  BY <1>3, StopFinds, SameFinds DEF WalkFails
<1>4. CASE Returns
  <2>1. /\ Looking /\ mem[tempsp].t = "gosub" /\ UNCHANGED <<text, mem>>
        /\ ResumeAt(mem[tempsp + 1], mem[tempsp + 2], sp + GOSUB_WORDS)
    BY <1>4 DEF Returns
  <2>2. GosubAt(tempsp) /\ tempsp \in Nat /\ tempsp <= Top
    BY <2>1, AtFrame DEF ForAt
  <2>3. tempsp + 1 \in Words /\ tempsp + 2 \in Words /\ (tempsp + 1) + 1 = tempsp + 2
    BY <2>2, Sizes DEF GosubAt, Words
  <2>4. mem[tempsp + 1].t = "line" /\ mem[tempsp + 2].t = "text"
    BY <2>2, <2>3 DEF GosubAt, PointersAt
  <2>5. Finds
    BY <1>0, <2>1, <2>3, <2>4, ResumeFinds
  <2>. QED
    BY <2>1, <2>5, SameFinds
<1>5. CASE Iterates
  <2>1. /\ pc = "walk" /\ Looking /\ mem[tempsp].t = "for" /\ mem[tempsp].var = want /\ UNCHANGED text
    BY <1>5 DEF Iterates, Looking
  <2>2. ForAt(tempsp) /\ tempsp \in Nat /\ tempsp <= Top /\ sp <= tempsp
    BY <2>1, AtFrame DEF GosubAt
  <2>3. /\ tempsp + 2 \in Words /\ tempsp + 3 \in Words /\ (tempsp + 2) + 1 = tempsp + 3
        /\ tempsp + 2 \in sp .. Top - 1 /\ tempsp + 3 \in sp .. Top - 1 /\ tempsp \in Words
    BY <2>2, TidySp, Sizes DEF ForAt, Words
  <2>4. mem[tempsp + 2].t = "line" /\ mem[tempsp + 3].t = "text"
    BY <2>2, <2>3 DEF ForAt, PointersAt
  <2>5. want \in Vars
    BY <2>1, <2>3, TidySp, WordFields
  <2>6. TakenIn(mem')
    BY <1>0, <1>5, <2>5, TakenStored DEF Iterates
  <2>7. CASE ResumeAt(mem'[tempsp + 2], mem'[tempsp + 3], sp)
    <3>1. mem'[tempsp + 2] = mem[tempsp + 2] /\ mem'[tempsp + 3] = mem[tempsp + 3]
      BY <2>3 DEF StoresWell
    <3>2. Finds
      BY <1>0, <2>3, <2>4, <2>7, <3>1, ResumeFinds
    <3>. QED
      BY <2>1, <2>6, <3>2, FindsKeeps
  <2>8. CASE RunNextStatement(current_line, txtpos, AfterLoop)
    <3>1. Taken(txtpos)
      BY <2>1 DEF PlaceInv
    <3>2. Finds
      BY <1>0, <2>1, <2>8, <3>1, AtWalk, RunNextFinds
    <3>. QED
      BY <2>1, <2>6, <3>2, FindsKeeps
  <2>. QED
    BY <1>5, <2>7, <2>8 DEF Iterates
<1>. QED
  BY <1>1, <1>2, <1>3, <1>4, <1>5 DEF Walk

\* NEXT, RETURN and INPUT wait with txtpos behind them; BYE ends the session.
LEMMA WaitFinds ==
    ASSUME Tidy, PlaceInv, NextVar \/ Return \/ Input \/ Bye
    PROVE  PlaceInv'
<1>1. IInv /\ pc = "run"
  BY DEF Tidy, NextVar, Return, Input, Bye, At
<1>2. prog' = prog /\ edits' = edits /\ buf' = buf /\ typed' = typed /\ mem' = mem
  BY DEF NextVar, Return, WalkFrom, Input, Bye, text
<1>3. TakenIn(mem)' /\ (\A i \in 1 .. Len(buf) : buf[i].op # "junk")'
  BY <1>2 DEF PlaceInv, TakenIn, Taken
<1>4. CASE NextVar \/ Return
  <2>1. txtpos' = After /\ pc' = "walk"
    BY <1>4 DEF NextVar, Return, WalkFrom
  <2>2. Taken(txtpos)'
    BY <1>1, <2>1, TakenAfter DEF Taken
  <2>. QED
    BY <1>3, <2>1, <2>2 DEF PlaceInv
<1>5. CASE Input
  <2>1. txtpos' = After /\ pc' = "input" /\ Here.op = "input"
    BY <1>5 DEF Input, At
  <2>2. Taken(txtpos)'
    BY <1>1, <2>1, TakenAfter DEF Taken
  <2>3. txtpos'.line = txtpos.line
    BY <1>1, <2>1 DEF After, IInv, TypeOK, TextPlace
  <2>4. ASSUME txtpos.line = 0
        PROVE  Unsettled'
    <3>1. txtpos.at \in 1 .. Len(buf) /\ buf[txtpos.at].op = "input"
      BY <1>1, <2>1, <2>4 DEF IInv, InText, Here, StmtsAt
    <3>. QED
      BY <1>2, <3>1 DEF Unsettled
  <2>. QED
    BY <1>3, <2>1, <2>2, <2>3, <2>4 DEF PlaceInv
<1>6. CASE Bye
  <2>1. pc' = "exit"
    BY <1>6 DEF Bye
  <2>. QED
    BY <1>3, <2>1 DEF PlaceInv
<1>. QED
  BY <1>4, <1>5, <1>6

LEMMA AnswerFinds ==
    ASSUME Tidy, PlaceInv, NEW v \in Answers, Answer(v)
    PROVE  PlaceInv'
<1>1. /\ pc = "input" /\ typed' = (IF txtpos.line = 0 THEN typed ELSE typed + 1)
      /\ mem' = Stored(want, v) /\ prog' = prog /\ edits' = edits /\ buf' = buf
  BY DEF Answer
<1>2. IInv /\ SoundText(txtpos) /\ SoundLine(current_line) /\ want \in Vars /\ Taken(txtpos)
  BY <1>1 DEF Tidy, IInv, WalkAboveSp, PlaceInv
<1>3. TakenIn(mem')
  BY <1>1, <1>2, TakenStored
<1>4. Finds
  <2>1. CASE RunNextStatement(current_line, txtpos, sp)
    BY <1>2, <2>1, RunNextFinds
  <2>2. CASE txtpos.line = 0 /\ Lost
    BY <1>1, <2>2 DEF PlaceInv, Lost, Finds
  <2>. QED
    BY <2>1, <2>2 DEF Answer
<1>5. typed \in Nat /\ typed' \in Nat /\ typed <= typed'
  BY <1>1, <1>2, Sizes DEF IInv, TypeOK
<1>6. Unsettled => Unsettled'
  BY <1>1, <1>5 DEF Unsettled
<1>7. (\A i \in 1 .. Len(buf) : buf[i].op # "junk")'
  BY <1>1 DEF PlaceInv
<1>8. TakenIn(mem)' /\ (pc' \in {"run", "walk", "input"} => Taken(txtpos)')
  BY <1>3, <1>4 DEF TakenIn, Finds, Taken
<1>. QED
  BY <1>4, <1>6, <1>7, <1>8 DEF PlaceInv, Finds

\* After a change of the program, or of one of its bytes, the prompt follows.
LEMMA PromptKeeps ==
    ASSUME PlaceInv, pc' = "prompt", mem' = mem, buf' = buf \/ buf' = <<>>
    PROVE  PlaceInv'
<1>1. TakenIn(mem)'
  BY DEF PlaceInv, TakenIn, Taken
<1>2. (\A i \in 1 .. Len(buf) : buf[i].op # "junk")'
  BY DEF PlaceInv
<1>. QED
  BY <1>1, <1>2 DEF PlaceInv

LEMMA EditFinds ==
    ASSUME PlaceInv, New \/ Load \/ Save \/ \E l \in NumberedLines : EnterNumbered(l)
    PROVE  PlaceInv'
<1>1. pc' = "prompt" /\ mem' = mem /\ (buf' = buf \/ buf' = <<>>)
  BY DEF New, Load, Save, EnterNumbered, Warmstart, Prompt
<1>. QED
  BY <1>1, PromptKeeps

\* A number that findline does not get past.
LEMMA EnterHangsFinds ==
    ASSUME PlaceInv, NEW l, EnterHangs(l)
    PROVE  PlaceInv'
<1>1. /\ prog' = prog /\ edits' = edits /\ buf' = buf /\ typed' = typed /\ mem' = mem /\ pc' = "lost"
      /\ FindsNoEnd(l.num)
  BY DEF EnterHangs, Lost, text
<1>2. Unsettled'
  BY <1>1, HangIsDamage DEF Unsettled
<1>. QED
  BY <1>1, <1>2 DEF PlaceInv, TakenIn, Taken

LEMMA DirectFinds ==
    ASSUME Tidy, PlaceInv, NEW stmts \in DirectLines, EnterDirect(stmts)
    PROVE  PlaceInv'
<1>1. /\ typed' = typed + 1 /\ buf' = stmts /\ pc' = "run"
      /\ txtpos' = [line |-> 0, at |-> 1, epoch |-> typed'] /\ prog' = prog /\ mem' = mem
  BY DEF EnterDirect, Run
<1>2. typed \in Nat
  BY Sizes DEF Tidy, IInv, TypeOK
<1>3. Taken(txtpos)'
  BY <1>1, <1>2 DEF Taken
<1>4. (\A i \in 1 .. Len(buf) : buf[i].op # "junk")'
  BY <1>1, InterpNoJunk
<1>5. TakenIn(mem)'
  BY <1>1 DEF PlaceInv, TakenIn, Taken
<1>. QED
  BY <1>1, <1>3, <1>4, <1>5 DEF PlaceInv

LEMMA PlaceInit ==
    ASSUME Init
    PROVE  PlaceInv
<1>1. TakenIn(mem)
  BY DEF Init, TakenIn, Value
<1>. QED
  BY <1>1 DEF Init, PlaceInv

LEMMA PlaceNext ==
    ASSUME TInv, TInv', PlaceInv, [Next /\ TidyStep]_vars
    PROVE  PlaceInv'
<1>1. CASE UNCHANGED vars
  <2>1. /\ prog' = prog /\ edits' = edits /\ buf' = buf /\ typed' = typed
        /\ txtpos' = txtpos /\ mem' = mem /\ pc' = pc
    BY <1>1 DEF vars, text
  <2>. QED
    BY <2>1 DEF PlaceInv, TakenIn, Taken, Unsettled
<1>2. CASE Next /\ TidyStep
  <2>1. Tidy /\ Chained
    BY <1>2, TidyHasRoom DEF TInv
  <2>2. StoresWell
    BY <1>2, <2>1, StepStoresWell
  <2>3. CASE Stopped
    BY <1>1, <2>3 DEF Stopped
  <2>. QED
    BY <1>2, <2>1, <2>2, <2>3, StatementFinds, AssignmentFinds, ForLoopFinds, GosubFinds, WalkFinds,
       WaitFinds, AnswerFinds, EditFinds, EnterHangsFinds, DirectFinds
       DEF Next, Interpret, Statement, User
<1>. QED
  BY <1>1, <1>2

\* In a tidy session the interpreter only loses its place in the text after an
\* edit, NEW or LOAD, after a second direct line, by an INPUT in a direct line, or
\* where SAVE wrote its NUL: no loop, call, error or jump of a program leads it
\* to a statement that is not there.
THEOREM TidyKeepsPlace == TidySpec => []KeepsPlace
<1>1. Init => PlaceInv
  BY PlaceInit
<1>2. TInv /\ TInv' /\ PlaceInv /\ [Next /\ TidyStep]_vars => PlaceInv'
  BY PlaceNext
<1>3. PlaceInv => KeepsPlace
  BY DEF PlaceInv, Unsettled, KeepsPlace
<1>. QED
  BY <1>1, <1>2, <1>3, TidyInvariant, PTL DEF TidySpec


-----------------------------------------------------------------------------
(* The stack of a tidy session implements BasicStack: every step of Interp *)
(* opens one frame, closes the frame NEXT or RETURN asks for with all that *)
(* was opened in it, forgets them all, or leaves them alone.               *)
(*                                                                         *)
(* The words of the chain stand for a sequence of frames (OpenFrom), and   *)
(* a step that stores nothing from sp on leaves what they stand for.  The  *)
(* walk needs an invariant of its own: the frames it has passed are not    *)
(* the loop it looks for (Passed).                                         *)

OpenStep(g, a) ==
    IF GosubAt(a) \/ ForAt(a) THEN <<FrameAt(a)>> \o g[a + SizeAt(a)] ELSE <<>>

Opened == {FrameAt(a) : a \in 0 .. Top}

LEMMA FrameFits ==
    ASSUME NEW a \in 0 .. Top, GosubAt(a) \/ ForAt(a)
    PROVE  /\ a + SizeAt(a) \in a + 1 .. Top
           /\ GosubAt(a) => SizeAt(a) = GOSUB_WORDS
           /\ ForAt(a) => SizeAt(a) = FOR_WORDS
BY Sizes DEF GosubAt, ForAt, SizeAt

\* The recursive definition has a solution.
LEMMA OpenSolution ==
    \E g \in [0 .. Top -> Seq(Opened)] : g = [a \in 0 .. Top |-> OpenStep(g, a)]
<1>. DEFINE item == [a \in 0 .. Top |-> FrameAt(a)]
            jump == [a \in 0 .. Top |-> IF GosubAt(a) \/ ForAt(a) THEN a + SizeAt(a) ELSE 0]
<1>1. item \in [0 .. Top -> Opened] /\ Top \in Nat
  BY Sizes DEF Opened
<1>2. ASSUME NEW a \in 0 .. Top
      PROVE  /\ jump[a] \in Int
             /\ (jump[a] \in a + 1 .. Top) <=> (GosubAt(a) \/ ForAt(a))
             /\ item[a] = FrameAt(a)
             /\ GosubAt(a) \/ ForAt(a) => jump[a] = a + SizeAt(a)
  <2>1. CASE GosubAt(a) \/ ForAt(a)
    BY <2>1, FrameFits
  <2>2. CASE ~(GosubAt(a) \/ ForAt(a))
    BY <2>2, <1>1
  <2>. QED
    BY <2>1, <2>2
<1>3. jump \in [0 .. Top -> Int]
  <2>1. \A a \in 0 .. Top : (IF GosubAt(a) \/ ForAt(a) THEN a + SizeAt(a) ELSE 0) \in Int
    BY <1>1, FrameFits
  <2>. QED
    BY <2>1, Zenon
<1>. HIDE DEF item, jump
<1>4. PICK g : g \in [0 .. Top -> Seq(Opened)] /\ Collects(g, Top, item, jump)
  BY <1>1, <1>3, PathsExist
<1>5. \A a \in 0 .. Top : g[a] = OpenStep(g, a)
  BY <1>2, <1>4 DEF OpenStep, Collects
<1>6. g = [a \in 0 .. Top |-> OpenStep(g, a)]
  BY <1>4, <1>5
<1>. QED
  BY <1>4, <1>6

LEMMA OpenDef == OpenFrom = [a \in 0 .. Top |-> OpenStep(OpenFrom, a)]
<1>1. \E g : g = [a \in 0 .. Top |-> OpenStep(g, a)]
  BY OpenSolution
<1>. QED
  BY <1>1, Zenon DEF OpenFrom, OpenStep

LEMMA OpenAt ==
    ASSUME NEW a \in 0 .. Top
    PROVE  OpenFrom[a] = IF GosubAt(a) \/ ForAt(a) THEN <<FrameAt(a)>> \o OpenFrom[a + SizeAt(a)] ELSE <<>>
BY OpenDef, Zenon DEF OpenStep

LEMMA OpenNext ==
    ASSUME NEW a \in 0 .. Top
    PROVE  (OpenFrom[a] = IF GosubAt(a) \/ ForAt(a) THEN <<FrameAt(a)>> \o OpenFrom[a + SizeAt(a)] ELSE <<>>)'
BY OpenAt, PTL

LEMMA OpenIsSeq ==
    ASSUME NEW s \in 0 .. Top
    PROVE  OpenFrom[s] \in Seq(Opened)
<1>. DEFINE T == {a \in 0 .. Top : OpenFrom[a] \in Seq(Opened)}
<1>0. Top \in Nat
  BY Sizes
<1>1. ASSUME NEW i \in 0 .. Top, \A j \in i + 1 .. Top : j \in T
      PROVE  i \in T
  <2>1. CASE GosubAt(i) \/ ForAt(i)
    <3>1. OpenFrom[i + SizeAt(i)] \in Seq(Opened)
      BY <1>1, <2>1, FrameFits
    <3>2. FrameAt(i) \in Opened
      BY DEF Opened
    <3>3. OpenFrom[i] = <<FrameAt(i)>> \o OpenFrom[i + SizeAt(i)]
      BY <2>1, OpenAt
    <3>4. <<FrameAt(i)>> \in Seq(Opened)
      BY <3>2
    <3>5. OpenFrom[i] \in Seq(Opened)
      BY <3>1, <3>3, <3>4, ConcatProperties
    <3>. QED
      BY <3>5
  <2>2. CASE ~(GosubAt(i) \/ ForAt(i))
    <3>1. OpenFrom[i] = <<>>
      BY <2>2, OpenAt
    <3>2. <<>> \in Seq(Opened)
      OBVIOUS
    <3>. QED
      BY <3>1, <3>2
  <2>. QED
    BY <2>1, <2>2
<1>. HIDE DEF T
<1>2. 0 .. Top \subseteq T
  BY <1>0, <1>1, DownFrom
<1>3. s \in T
  BY <1>2
<1>. QED
  BY <1>3 DEF T

\* The first frame from a on, and the rest.
LEMMA OpenFrame ==
    ASSUME NEW a \in 0 .. Top, GosubAt(a) \/ ForAt(a)
    PROVE  /\ OpenFrom[a] = <<FrameAt(a)>> \o OpenFrom[a + SizeAt(a)]
           /\ OpenFrom[a + SizeAt(a)] \in Seq(Opened)
           /\ FrameAt(a) \in Opened
           /\ GosubAt(a) => FrameAt(a).kind = "gosub"
           /\ ForAt(a) => FrameAt(a).kind = "for" /\ FrameAt(a).var = mem[a].var
<1>1. OpenFrom[a] = <<FrameAt(a)>> \o OpenFrom[a + SizeAt(a)]
  BY OpenAt
<1>2. a + SizeAt(a) \in 0 .. Top
  BY FrameFits, Sizes
<1>3. OpenFrom[a + SizeAt(a)] \in Seq(Opened)
  BY <1>2, OpenIsSeq
<1>4. FrameAt(a) \in Opened
  BY DEF Opened
<1>5. GosubAt(a) => FrameAt(a).kind = "gosub"
  BY DEF GosubAt, FrameAt
<1>6. ForAt(a) => FrameAt(a).kind = "for" /\ FrameAt(a).var = mem[a].var
  BY DEF ForAt, FrameAt
<1>. QED
  BY <1>1, <1>3, <1>4, <1>5, <1>6

LEMMA OpenTop == OpenFrom[Top] = <<>>
<1>1. Top \in 0 .. Top /\ ~GosubAt(Top) /\ ~ForAt(Top)
  BY Sizes DEF GosubAt, ForAt
<1>. QED
  BY <1>1, OpenAt

LEMMA OpenTopNext == OpenFrom'[Top] = <<>>
<1>1. (OpenFrom[Top] = <<>>)'
  BY OpenTop, PTL
<1>. QED
  BY <1>1

\* A step that stores nothing from sp on leaves the open frames.
LEMMA OpenKept ==
    ASSUME Tidy, StoresWell, NEW X, Links(X), X \subseteq sp .. Top, NEW y \in X
    PROVE  OpenFrom'[y] = OpenFrom[y]
<1>. DEFINE T == {a \in 0 .. Top : a \in X => OpenFrom'[a] = OpenFrom[a]}
<1>0. Top \in Nat /\ y \in 0 .. Top
  BY Sizes DEF Links
<1>1. ASSUME NEW i \in 0 .. Top, \A j \in i + 1 .. Top : j \in T
      PROVE  i \in T
  <2>. SUFFICES ASSUME i \in X
                PROVE  OpenFrom'[i] = OpenFrom[i]
    OBVIOUS
  <2>1. i \in Nat /\ sp <= i
    BY TidySp, <1>0
  <2>2. CASE i = Top
    BY <2>2, OpenTop, OpenTopNext
  <2>3. CASE i # Top
    <3>1. /\ GosubAt(i) \/ ForAt(i)
          /\ GosubAt(i) => i + GOSUB_WORDS \in X
          /\ ForAt(i) => i + FOR_WORDS \in X
      BY <2>3 DEF Links, GosubAt, ForAt
    <3>2. i + SizeAt(i) \in X /\ i + SizeAt(i) \in i + 1 .. Top
      BY <3>1, FrameFits
    <3>3. OpenFrom'[i + SizeAt(i)] = OpenFrom[i + SizeAt(i)]
      BY <1>1, <3>2
    <3>4. GosubAt(i)' \/ ForAt(i)'
      BY <2>1, <3>1, FramesKept
    <3>5. FrameAt(i)' = FrameAt(i) /\ SizeAt(i)' = SizeAt(i)
      <4>1. CASE GosubAt(i)
        <5>1. {i, i + 1, i + 2} \subseteq sp .. Top - 1
          BY <2>1, <4>1, TidySp, Sizes DEF GosubAt
        <5>2. mem'[i] = mem[i] /\ mem'[i + 1] = mem[i + 1] /\ mem'[i + 2] = mem[i + 2]
          BY <5>1 DEF StoresWell
        <5>. QED
          BY <4>1, <5>2 DEF GosubAt, FrameAt, SizeAt
      <4>2. CASE ForAt(i)
        <5>1. {i, i + 1, i + 2, i + 3} \subseteq sp .. Top - 1
          BY <2>1, <4>2, TidySp, Sizes DEF ForAt
        <5>2. /\ mem'[i] = mem[i] /\ mem'[i + 1] = mem[i + 1]
              /\ mem'[i + 2] = mem[i + 2] /\ mem'[i + 3] = mem[i + 3]
          BY <5>1 DEF StoresWell
        <5>. QED
          BY <4>2, <5>2 DEF ForAt, FrameAt, SizeAt
      <4>. QED
        BY <3>1, <4>1, <4>2
    <3>6. OpenFrom'[i] = <<FrameAt(i)'>> \o OpenFrom'[i + SizeAt(i)']
      BY <3>4, OpenNext
    <3>7. OpenFrom[i] = <<FrameAt(i)>> \o OpenFrom[i + SizeAt(i)]
      BY <3>1, OpenAt
    <3>. QED
      BY <3>3, <3>5, <3>6, <3>7
  <2>. QED
    BY <2>2, <2>3
<1>. HIDE DEF T
<1>2. 0 .. Top \subseteq T
  BY <1>0, <1>1, DownFrom
<1>3. y \in T
  BY <1>0, <1>2
<1>. QED
  BY <1>3 DEF T

-----------------------------------------------------------------------------
(* The steps of the stack.                                                 *)

StackStep == Stack!Next \/ OpenFrames' = OpenFrames

LEMMA SplitAt ==
    ASSUME NEW D, NEW q \in Seq(D), NEW i \in 1 .. Len(q) + 1, NEW f \in D, NEW r \in Seq(D),
           SubSeq(q, i, Len(q)) = <<f>> \o r
    PROVE  i <= Len(q) /\ q[i] = f /\ r = SubSeq(q, i + 1, Len(q))
<1>1. Len(q) \in Nat /\ i \in Nat /\ Len(r) \in Nat
  OBVIOUS
<1>2. PICK t : t = SubSeq(q, i, Len(q))
  OBVIOUS
<1>3. /\ t \in Seq(D) /\ Len(t) = Len(q) - i + 1
      /\ \A k \in 1 .. Len(q) - i + 1 : t[k] = q[i + k - 1]
  BY <1>1, <1>2
<1>4. <<f>> \in Seq(D) /\ Len(<<f>>) = 1 /\ <<f>>[1] = f
  OBVIOUS
<1>5. /\ Len(t) = 1 + Len(r) /\ t[1] = f
      /\ \A k \in 1 .. Len(r) : t[k + 1] = r[k]
  <2>1. t = <<f>> \o r
    BY <1>2
  <2>. QED
    BY <1>1, <1>4, <2>1, ConcatProperties
<1>6. i <= Len(q) /\ Len(r) = Len(q) - i
  BY <1>1, <1>3, <1>5
<1>7. q[i] = f
  BY <1>1, <1>3, <1>5, <1>6
<1>8. PICK u : u = SubSeq(q, i + 1, Len(q))
  OBVIOUS
<1>9. /\ u \in Seq(D) /\ Len(u) = Len(q) - i
      /\ \A k \in 1 .. Len(q) - i : u[k] = q[i + k]
  BY <1>1, <1>6, <1>8
<1>10. \A k \in 1 .. Len(r) : r[k] = u[k]
  <2>1. ASSUME NEW k \in 1 .. Len(r)
        PROVE  r[k] = u[k]
    <3>1. r[k] = t[k + 1] /\ k + 1 \in 1 .. Len(q) - i + 1
      BY <1>1, <1>5, <1>6
    <3>2. t[k + 1] = q[i + (k + 1) - 1] /\ i + (k + 1) - 1 = i + k
      BY <1>1, <1>3, <3>1
    <3>3. u[k] = q[i + k]
      BY <1>6, <1>9
    <3>. QED
      BY <3>1, <3>2, <3>3
  <2>. QED
    BY <2>1
<1>11. r = u
  BY <1>6, <1>9, <1>10, SeqEqual
<1>. QED
  BY <1>6, <1>7, <1>8, <1>11

\* sp stays, or the stack is emptied.
LEMMA ForgetStep ==
    ASSUME Tidy, Chained, StoresWell, sp' \in {sp, Top}
    PROVE  StackStep
<1>1. PICK X : Links(X) /\ X \subseteq sp .. Top /\ sp \in X
  BY DEF Chained
<1>2. CASE sp' = sp
  BY <1>1, <1>2, OpenKept DEF OpenFrames, StackStep
<1>3. CASE sp' = Top
  BY <1>3, OpenTopNext DEF OpenFrames, StackStep, Stack!Next, Stack!Forget
<1>. QED
  BY <1>2, <1>3

\* A whole frame below sp.
LEMMA OpenIsStep ==
    ASSUME Tidy, Chained, StoresWell, NEW n \in Nat, sp' = sp - n, 0 <= sp',
           \/ GosubAt(sp)' /\ n = GOSUB_WORDS
           \/ ForAt(sp)' /\ n = FOR_WORDS
    PROVE  StackStep
<1>1. PICK X : Links(X) /\ X \subseteq sp .. Top /\ sp \in X
  BY DEF Chained
<1>2. PICK s : s = sp'
  OBVIOUS
<1>3. s \in 0 .. Top /\ s + n = sp /\ sp \in 0 .. Top
  BY <1>2, TidySp, Sizes
<1>4. GosubAt(s)' \/ ForAt(s)'
  BY <1>2
<1>5. SizeAt(s)' = n
  BY <1>2 DEF SizeAt, GosubAt, ForAt
<1>6. OpenFrom'[s] = <<FrameAt(s)'>> \o OpenFrom'[s + SizeAt(s)']
  BY <1>3, <1>4, OpenNext
<1>7. OpenFrom'[sp] = OpenFrom[sp] /\ OpenFrom[sp] \in Seq(Opened)
  BY <1>1, <1>3, OpenKept, OpenIsSeq
<1>8. PICK f, r, D : f = FrameAt(s)' /\ r = OpenFrames /\ D = Opened \cup {f}
  OBVIOUS
<1>9. OpenFrames' = <<f>> \o r
  BY <1>2, <1>3, <1>5, <1>6, <1>7, <1>8 DEF OpenFrames
<1>10. r \in Seq(D) /\ f \in D
  BY <1>7, <1>8 DEF OpenFrames
<1>11. <<f>> \o r # <<>> /\ Tail(<<f>> \o r) = r
  <2>1. PICK q : q = <<f>> \o r
    OBVIOUS
  <2>2. <<f>> \in Seq(D) /\ Len(<<f>>) = 1
    BY <1>10
  <2>3. q \in Seq(D) /\ Len(q) = 1 + Len(r) /\ \A k \in 1 .. Len(r) : q[k + 1] = r[k]
    BY <1>10, <2>1, <2>2, ConcatProperties
  <2>4. Len(r) \in Nat
    BY <1>10
  <2>5. q # <<>>
    BY <2>3, <2>4
  <2>6. Tail(q) \in Seq(D) /\ Len(Tail(q)) = Len(r) /\ \A k \in 1 .. Len(r) : Tail(q)[k] = q[k + 1]
    BY <2>3, <2>4, <2>5
  <2>7. Tail(q) = r
    BY <1>10, <2>3, <2>6, SeqEqual
  <2>. QED
    BY <2>1, <2>5, <2>7
<1>12. Stack!Open
  BY <1>8, <1>9, <1>11 DEF Stack!Open
<1>. QED
  BY <1>12 DEF StackStep, Stack!Next

-----------------------------------------------------------------------------
(* NEXT and RETURN.                                                        *)

\* The walk is at the i-th frame, and has passed no loop over the variable.
PassedTo(i, w) ==
    /\ i \in 1 .. Len(OpenFrames) + 1
    /\ OpenFrom[tempsp] = SubSeq(OpenFrames, i, Len(OpenFrames))
    /\ \A j \in 1 .. (i - 1) : ~Stack!IsLoop(OpenFrames[j], w)

Passed == pc = "walk" => \E i : PassedTo(i, want)

LEMMA OpenFramesType ==
    ASSUME Tidy
    PROVE  OpenFrames \in Seq(Opened) /\ sp \in 0 .. Top
<1>1. sp \in 0 .. Top
  BY TidySp, Sizes
<1>. QED
  BY <1>1, OpenIsSeq DEF OpenFrames

\* The frame the walk is at is the i-th, and the rest follows it.
LEMMA WalkAtFrame ==
    ASSUME Tidy, Chained, Looking, NEW i, PassedTo(i, want)
    PROVE  /\ tempsp \in 0 .. Top
           /\ i \in 1 .. Len(OpenFrames)
           /\ OpenFrames[i] = FrameAt(tempsp)
           /\ OpenFrom[tempsp + SizeAt(tempsp)] = SubSeq(OpenFrames, i + 1, Len(OpenFrames))
<1>1. GosubAt(tempsp) \/ ForAt(tempsp)
  BY AtFrame
<1>2. tempsp \in 0 .. Top
  BY AtFrame, Sizes
<1>3. PICK q, f, r : q = OpenFrames /\ f = FrameAt(tempsp) /\ r = OpenFrom[tempsp + SizeAt(tempsp)]
  OBVIOUS
<1>4. SubSeq(q, i, Len(q)) = <<f>> \o r /\ f \in Opened /\ r \in Seq(Opened) /\ q \in Seq(Opened)
      /\ i \in 1 .. Len(q) + 1
  BY <1>1, <1>2, <1>3, OpenFrame, OpenFramesType DEF PassedTo
<1>5. i <= Len(q) /\ q[i] = f /\ r = SubSeq(q, i + 1, Len(q))
  BY <1>4, SplitAt
<1>6. i \in 1 .. Len(q)
  BY <1>4, <1>5
<1>. QED
  BY <1>2, <1>3, <1>5, <1>6

LEMMA WalkStartPassed ==
    ASSUME Tidy, Chained, StoresWell, NextVar \/ Return
    PROVE  Passed' /\ OpenFrames' = OpenFrames
<1>1. PICK X : Links(X) /\ X \subseteq sp .. Top /\ sp \in X
  BY DEF Chained
<1>2. sp' = sp /\ tempsp' = sp
  BY DEF NextVar, Return, WalkFrom
<1>3. OpenFrom'[sp] = OpenFrom[sp]
  BY <1>1, OpenKept
<1>4. OpenFrames' = OpenFrames /\ OpenFrom'[tempsp'] = OpenFrames
  BY <1>2, <1>3 DEF OpenFrames
<1>5. PICK q : q = OpenFrames
  OBVIOUS
<1>6. q \in Seq(Opened)
  BY <1>5, OpenFramesType
<1>7. SubSeq(q, 1, Len(q)) = q /\ 1 \in 1 .. Len(q) + 1
  BY <1>6
<1>8. PassedTo(1, want)'
  BY <1>4, <1>5, <1>7 DEF PassedTo
<1>. QED
  BY <1>4, <1>8 DEF Passed

LEMMA WalkOnPassed ==
    ASSUME Tidy, Chained, StoresWell, Passed, WalkOn
    PROVE  Passed' /\ OpenFrames' = OpenFrames
<1>1. Looking /\ pc = "walk" /\ sp' = sp /\ want' = want
  BY DEF WalkOn, Looking
<1>2. PICK X : Links(X) /\ X \subseteq sp .. Top /\ sp \in X /\ tempsp \in X
  BY <1>1 DEF Chained
<1>3. PICK i : PassedTo(i, want)
  BY <1>1 DEF Passed
<1>4. /\ tempsp \in 0 .. Top /\ i \in 1 .. Len(OpenFrames) /\ OpenFrames[i] = FrameAt(tempsp)
      /\ OpenFrom[tempsp + SizeAt(tempsp)] = SubSeq(OpenFrames, i + 1, Len(OpenFrames))
  BY <1>1, <1>3, WalkAtFrame
<1>5. GosubAt(tempsp) \/ ForAt(tempsp)
  BY <1>1, AtFrame
<1>6. tempsp' = tempsp + SizeAt(tempsp) /\ tempsp' \in X
  <2>1. CASE mem[tempsp].t = "gosub" /\ tempsp' = tempsp + GOSUB_WORDS
    <3>1. GosubAt(tempsp) /\ ~ForAt(tempsp) /\ SizeAt(tempsp) = GOSUB_WORDS
      BY <1>5, <2>1 DEF ForAt, SizeAt
    <3>2. tempsp # Top
      BY <3>1, <1>4, Sizes DEF GosubAt
    <3>. QED
      BY <1>2, <2>1, <3>1, <3>2 DEF Links
  <2>2. CASE mem[tempsp].t = "for" /\ tempsp' = tempsp + FOR_WORDS
    <3>1. ForAt(tempsp) /\ ~GosubAt(tempsp) /\ SizeAt(tempsp) = FOR_WORDS
      BY <1>5, <2>2 DEF GosubAt, SizeAt
    <3>2. tempsp # Top
      BY <3>1, <1>4, Sizes DEF ForAt
    <3>. QED
      BY <1>2, <2>2, <3>1, <3>2 DEF Links
  <2>. QED
    BY <2>1, <2>2 DEF WalkOn
<1>7. ~Stack!IsLoop(FrameAt(tempsp), want)
  <2>1. CASE mem[tempsp].t = "gosub"
    BY <2>1 DEF FrameAt, Stack!IsLoop
  <2>2. CASE mem[tempsp].t = "for" /\ mem[tempsp].var # want
    BY <2>2 DEF FrameAt, Stack!IsLoop
  <2>. QED
    BY <2>1, <2>2 DEF WalkOn
<1>8. OpenFrames' = OpenFrames
  BY <1>1, <1>2, OpenKept DEF OpenFrames
<1>9. OpenFrom'[tempsp'] = SubSeq(OpenFrames, i + 1, Len(OpenFrames))
  <2>1. PICK y : y = tempsp'
    OBVIOUS
  <2>2. OpenFrom'[y] = OpenFrom[y]
    BY <1>2, <1>6, <2>1, OpenKept
  <2>. QED
    BY <1>4, <1>6, <2>1, <2>2
<1>10. Len(OpenFrames) \in Nat
  BY OpenFramesType
<1>11. i + 1 \in 1 .. Len(OpenFrames) + 1 /\ (i + 1) - 1 = i /\ i \in Nat
  BY <1>4, <1>10
<1>12. ASSUME NEW j \in 1 .. i
       PROVE  ~Stack!IsLoop(OpenFrames[j], want)
  <2>1. CASE j = i
    BY <1>4, <1>7, <2>1
  <2>2. CASE j # i
    <3>1. j \in 1 .. (i - 1)
      BY <1>11, <2>2
    <3>. QED
      BY <1>3, <3>1 DEF PassedTo
  <2>. QED
    BY <2>1, <2>2
<1>13. PassedTo(i + 1, want)'
  BY <1>1, <1>8, <1>9, <1>11, <1>12 DEF PassedTo, Stack!IsLoop
<1>. QED
  BY <1>8, <1>13 DEF Passed

\* RETURN closes the call on top.
LEMMA ReturnsStep ==
    ASSUME Tidy, Chained, StoresWell, Returns, TidyStep
    PROVE  StackStep
<1>1. Looking /\ mem[tempsp].t = "gosub" /\ tempsp = sp
  BY DEF Returns, TidyStep
<1>2. PICK X : Links(X) /\ X \subseteq sp .. Top /\ sp \in X
  BY DEF Chained
<1>3. GoesTo(sp + GOSUB_WORDS)
  BY ResumeTo DEF Returns
<1>4. CASE sp' \in {sp, Top}
  BY <1>4, ForgetStep
<1>5. CASE sp' = sp + GOSUB_WORDS
  <2>1. GosubAt(sp) /\ ~ForAt(sp)
    BY <1>1, AtFrame DEF ForAt
  <2>2. sp \in 0 .. Top /\ sp # Top /\ SizeAt(sp) = GOSUB_WORDS
    BY <2>1, OpenFramesType, FrameFits, Sizes DEF GosubAt
  <2>3. sp + GOSUB_WORDS \in X
    BY <1>2, <2>1, <2>2 DEF Links
  <2>4. OpenFrames' = OpenFrom[sp + GOSUB_WORDS]
    BY <1>2, <1>5, <2>3, OpenKept DEF OpenFrames
  <2>5. PICK q, f, r : q = OpenFrames /\ f = FrameAt(sp) /\ r = OpenFrom[sp + GOSUB_WORDS]
    OBVIOUS
  <2>6. q = <<f>> \o r /\ f \in Opened /\ r \in Seq(Opened) /\ q \in Seq(Opened) /\ f.kind = "gosub"
    BY <2>1, <2>2, <2>5, OpenFrame, OpenFramesType DEF OpenFrames
  <2>7. SubSeq(q, 1, Len(q)) = q /\ 1 \in 1 .. Len(q) + 1
    BY <2>6
  <2>8. 1 <= Len(q) /\ q[1] = f /\ r = SubSeq(q, 1 + 1, Len(q))
    BY <2>6, <2>7, SplitAt
  <2>9. 1 \in 1 .. Len(q)
    BY <2>6, <2>8
  <2>10. Stack!CloseCall
    BY <2>4, <2>5, <2>6, <2>8, <2>9 DEF Stack!CloseCall, Stack!CloseThrough, Stack!IsCall
  <2>. QED
    BY <2>10 DEF StackStep, Stack!Next
<1>. QED
  BY <1>3, <1>4, <1>5 DEF GoesTo

\* NEXT closes the latest loop over its variable, if it does not go round again.
LEMMA IteratesStep ==
    ASSUME Tidy, Chained, StoresWell, Passed, Iterates
    PROVE  StackStep
<1>1. Looking /\ pc = "walk" /\ mem[tempsp].t = "for" /\ mem[tempsp].var = want
  BY DEF Iterates, Looking
<1>2. PICK X : Links(X) /\ X \subseteq sp .. Top /\ sp \in X /\ tempsp \in X
  BY <1>1 DEF Chained
<1>3. GoesTo(sp) \/ GoesTo(AfterLoop)
  BY ResumeTo, RunNextTo DEF Iterates
<1>4. CASE sp' \in {sp, Top}
  BY <1>4, ForgetStep
<1>5. CASE sp' = AfterLoop
  <2>1. PICK i : PassedTo(i, want)
    BY <1>1 DEF Passed
  <2>2. /\ tempsp \in 0 .. Top /\ i \in 1 .. Len(OpenFrames) /\ OpenFrames[i] = FrameAt(tempsp)
        /\ OpenFrom[tempsp + SizeAt(tempsp)] = SubSeq(OpenFrames, i + 1, Len(OpenFrames))
    BY <1>1, <2>1, WalkAtFrame
  <2>3. ForAt(tempsp) /\ ~GosubAt(tempsp)
    BY <1>1, AtFrame DEF GosubAt
  <2>4. tempsp # Top /\ SizeAt(tempsp) = FOR_WORDS /\ FrameAt(tempsp).kind = "for" /\ FrameAt(tempsp).var = want
    <3>1. tempsp # Top
      BY <2>2, <2>3, Sizes DEF ForAt
    <3>2. SizeAt(tempsp) = FOR_WORDS
      BY <1>1 DEF SizeAt
    <3>3. FrameAt(tempsp).kind = "for" /\ FrameAt(tempsp).var = want
      BY <1>1 DEF FrameAt
    <3>. QED
      BY <3>1, <3>2, <3>3
  <2>5. AfterLoop \in X
    BY <1>2, <2>3, <2>4 DEF Links, AfterLoop
  <2>6. OpenFrames' = SubSeq(OpenFrames, i + 1, Len(OpenFrames))
    BY <1>2, <1>5, <2>2, <2>4, <2>5, OpenKept DEF OpenFrames, AfterLoop
  <2>7. \A j \in 1 .. (i - 1) : ~Stack!IsLoop(OpenFrames[j], OpenFrames[i].var)
    BY <2>1, <2>2, <2>4 DEF PassedTo
  <2>8. OpenFrames[i].kind = "for"
    BY <2>2, <2>4
  <2>9. Stack!CloseLoop
    BY <2>2, <2>6, <2>7, <2>8 DEF Stack!CloseLoop, Stack!CloseThrough
  <2>. QED
    BY <2>9 DEF StackStep, Stack!Next
<1>. QED
  BY <1>3, <1>4, <1>5 DEF GoesTo

LEMMA PushStep ==
    ASSUME Tidy, Chained, StoresWell, ForLoop \/ GosubLine, TidyStep
    PROVE  StackStep /\ pc' # "walk"
<1>1. CASE ForLoop
  <2>1. CASE sp' \in {sp, Top}
    BY <1>1, <2>1, ForgetStep, ForLoopPushes
  <2>2. CASE sp' = sp - FOR_WORDS /\ stack_limit <= sp' /\ ForAt(sp)'
    <3>1. 0 <= sp'
      BY <2>2, TidySp, Sizes
    <3>. QED
      BY <1>1, <2>2, <3>1, OpenIsStep, ForLoopPushes, Sizes
  <2>. QED
    BY <1>1, <2>1, <2>2, ForLoopPushes
<1>2. CASE GosubLine
  <2>1. CASE sp' \in {sp, Top}
    BY <1>2, <2>1, ForgetStep, GosubPushes
  <2>2. CASE sp' = sp - GOSUB_WORDS /\ stack_limit <= sp' /\ GosubAt(sp)'
    <3>1. 0 <= sp'
      BY <2>2, TidySp, Sizes
    <3>. QED
      BY <1>2, <2>2, <3>1, OpenIsStep, GosubPushes, Sizes
  <2>. QED
    BY <1>2, <2>1, <2>2, GosubPushes
<1>. QED
  BY <1>1, <1>2

LEMMA StackNext ==
    ASSUME Tidy, Chained, StoresWell, Passed, Next, TidyStep
    PROVE  StackStep /\ Passed'
<1>1. ASSUME sp' \in {sp, Top}, pc' # "walk"
      PROVE  StackStep /\ Passed'
  BY <1>1, ForgetStep DEF Passed
<1>2. CASE NextVar \/ Return \/ WalkOn
  BY <1>2, WalkStartPassed, WalkOnPassed DEF StackStep
<1>3. CASE WalkStuffed \/ WalkFails
  BY <1>1, <1>3 DEF WalkStuffed, WalkFails, Lost, Warmstart, Prompt
<1>4. CASE Returns
  <2>1. pc' # "walk"
    BY <1>4, ResumeTo DEF Returns, GoesTo
  <2>. QED
    BY <1>4, <2>1, ReturnsStep DEF Passed
<1>5. CASE Iterates
  <2>1. pc' # "walk"
    BY <1>5, ResumeTo, RunNextTo DEF Iterates, GoesTo
  <2>. QED
    BY <1>5, <2>1, IteratesStep DEF Passed
<1>6. CASE ForLoop \/ GosubLine
  BY <1>6, PushStep DEF Passed
<1>7. CASE Bye \/ Input \/ Stopped
  BY <1>1, <1>7 DEF Bye, Input, Stopped, vars
<1>8. CASE User
  <2>1. ASSUME NEW v \in Answers, Answer(v)
        PROVE  GoesTo(sp)
    BY <2>1, RunNextTo DEF Answer, Lost, GoesTo
  <2>2. ASSUME NEW stmts \in DirectLines, EnterDirect(stmts)
        PROVE  GoesTo(sp)
    BY <2>2 DEF EnterDirect, Run, GoesTo
  <2>3. ASSUME NEW l \in NumberedLines, EnterNumbered(l) \/ EnterHangs(l)
        PROVE  GoesTo(sp)
    BY <2>3 DEF EnterNumbered, EnterHangs, Lost, GoesTo
  <2>4. GoesTo(sp)
    BY <1>8, <2>1, <2>2, <2>3 DEF User
  <2>. QED
    BY <1>1, <2>4 DEF GoesTo
<1>9. CASE GoesTo(sp)
  BY <1>1, <1>9 DEF GoesTo
<1>. QED
  BY <1>2, <1>3, <1>4, <1>5, <1>6, <1>7, <1>8, <1>9, StatementTo
     DEF Next, Interpret, Statement, Walk

LEMMA StackStutters ==
    ASSUME UNCHANGED vars
    PROVE  OpenFrames' = OpenFrames /\ (Passed => Passed')
<1>1. mem' = mem /\ sp' = sp /\ tempsp' = tempsp /\ want' = want /\ pc' = pc
  BY DEF vars, walk
<1>2. OpenFrom' = OpenFrom
  BY <1>1 DEF OpenFrom, GosubAt, ForAt, PointersAt, FrameAt, SizeAt
<1>3. OpenFrames' = OpenFrames
  BY <1>1, <1>2 DEF OpenFrames
<1>. QED
  BY <1>1, <1>2, <1>3 DEF Passed, PassedTo, Stack!IsLoop

\* The frames of gosub_return in a tidy session are a stack of loops and calls:
\* FOR and GOSUB open one, RETURN closes the latest call, NEXT the latest loop over
\* its variable with all that was opened in it, a warm start forgets them, and
\* nothing else changes any of them, whatever is stored meanwhile.
THEOREM TidyImplementsStack == TidySpec => ImplementsStack
<1>1. Init => Stack!Init /\ Passed
  BY OpenTop DEF Init, Stack!Init, OpenFrames, Passed
<1>2. ASSUME TInv, TInv', Passed, [Next /\ TidyStep]_vars
      PROVE  [Stack!Next]_OpenFrames /\ Passed'
  <2>1. CASE UNCHANGED vars
    BY <1>2, <2>1, StackStutters
  <2>2. CASE Next /\ TidyStep
    <3>1. Tidy /\ Chained
      BY <1>2, <2>2, TidyHasRoom DEF TInv
    <3>2. StoresWell
      BY <2>2, <3>1, StepStoresWell
    <3>3. StackStep /\ Passed'
      BY <1>2, <2>2, <3>1, <3>2, StackNext
    <3>. QED
      BY <3>3 DEF StackStep
  <2>. QED
    BY <1>2, <2>1, <2>2
<1>. QED
  BY <1>1, <1>2, TidyInvariant, PTL DEF TidySpec, ImplementsStack, Stack!Spec

=============================================================================
