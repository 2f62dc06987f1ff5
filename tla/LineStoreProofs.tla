-------------------------- MODULE LineStoreProofs --------------------------
(***************************************************************************)
(* Proofs about LineStore, for every size of the memory, of a line number  *)
(* and of a byte.  For any user: the pointers stay in their ranges, and    *)
(* what is typed and erased changes the program only by a line without a   *)
(* NL below the variables or by a merge from below program_end.  For a     *)
(* careful one: neither happens, the program stays a chain of lines with   *)
(* ascending numbers, and the whole implements LineEditor.                 *)
(***************************************************************************)
EXTENDS LineStore, DataInduction, SequenceTheorems

\* The position does not fall below the program while a line is typed and entered.
InLine == pc \in {"prompt", "input", "entered", "answered"} => program_end <= txtpos

\* The line to be merged ends below the variables, its place lies in the program,
\* and there is room for both.
Merging ==
    /\ pc \in {"numbered", "shuffle"} => txtpos + linelen <= VariablesBegin
    /\ pc = "shuffle" => start <= program_end

Room == pc \in {"numbered", "shuffle"} => program_end + linelen <= MemTop

\* The inductive invariant for any user.
AnyInv == TypeOK /\ InLine /\ TypingBelowVariables /\ Merging /\ Room

-----------------------------------------------------------------------------
\* Residues, and the powers of a byte.
LEMMA Residue ==
    ASSUME NEW x \in Nat, NEW M \in Nat \ {0}
    PROVE  x % M \in 0 .. M - 1 /\ x % M <= x
OBVIOUS

LEMMA Quotient ==
    ASSUME NEW x \in Nat, NEW M \in Nat \ {0}
    PROVE  x \div M \in Nat
OBVIOUS

\* The sizes alone.
LEMMA Sizes ==
    /\ LN \in Nat \ {0} /\ BYTE \in Nat \ {0}
    /\ VariablesBegin \in Nat /\ MemTop \in Nat
    /\ LN + 2 <= VariablesBegin /\ VariablesBegin + LN + 1 <= MemTop
BY LineStoreConstants

LEMMA LineModNat == LineMod \in Nat \ {0}
BY LineStoreConstants DEF LineMod

LEMMA BufferAddr ==
    ASSUME NEW p \in 0 .. VariablesBegin
    PROVE  /\ p + LN \in Addr /\ p + LN \in Nat /\ (p + LN) .. (p + LN - 1) = {}
           /\ p <= p + LN
BY Sizes DEF Addr

LEMMA BufferTop ==
    ASSUME NEW p \in 0 .. MemTop
    PROVE  p + LN \in 0 .. MemTop + LN /\ p <= p + LN
BY Sizes

\* Everything but the text position is as TypeOK says.
RestTypeOK ==
    /\ mem \in [Addr -> 0 .. BYTE - 1]
    /\ program_end \in 0 .. MemTop
    /\ linenum \in 0 .. LineMod - 1
    /\ linelen \in 0 .. BYTE - 1
    /\ start \in 0 .. MemTop
    /\ lines \in 0 .. MaxLines

-----------------------------------------------------------------------------
(* Any user: getln.                                                        *)

LEMMA InitAny == Init => AnyInv
<1>. SUFFICES ASSUME Init PROVE AnyInv
  OBVIOUS
<1>. USE LineStoreConstants DEF Init
<1>1. TypeOK
  BY LineModNat DEF TypeOK, Addr, PC
<1>. QED
  BY <1>1 DEF AnyInv, InLine, TypingBelowVariables, Merging, Room, InGetln, Buffer

LEMMA PromptAny ==
    ASSUME ToPrompt, RestTypeOK'
    PROVE  AnyInv'
<1>1. txtpos' = program_end' + LN /\ pc' = "prompt" /\ typed' = <<>>
  BY DEF ToPrompt
<1>2. program_end' \in 0 .. MemTop
  BY DEF RestTypeOK
<1>3. program_end' + LN \in 0 .. MemTop + LN /\ program_end' <= program_end' + LN
  BY <1>2, BufferTop
<1>4. program_end' <= txtpos' /\ Buffer' = txtpos' /\ txtpos' \in 0 .. MemTop + LN
  BY <1>1, <1>3 DEF Buffer
<1>5. TypeOK'
  BY <1>1, <1>4 DEF TypeOK, RestTypeOK, PC
<1>6. InLine' /\ TypingBelowVariables'
  BY <1>4 DEF InLine, TypingBelowVariables
<1>. QED
  BY <1>1, <1>5, <1>6 DEF AnyInv, Merging, Room

\* Nothing but the types counts once a line is executed, or lost.
LEMMA TypesAny ==
    ASSUME TypeOK', pc' \in {"execute", "lost"}
    PROVE  AnyInv'
BY DEF AnyInv, InLine, TypingBelowVariables, Merging, Room, InGetln

LEMMA TypeCharAny ==
    ASSUME AnyInv, NEW c \in Keys, TypeChar(c)
    PROVE  AnyInv'
<1>1. TypeOK
  BY DEF AnyInv
<1>2. /\ mem' = [mem EXCEPT ![txtpos] = c] /\ txtpos' = txtpos + 1 /\ txtpos < MemTop
      /\ typed' = Append(typed, c) /\ InGetln /\ txtpos # VariablesBegin - 2
      /\ UNCHANGED <<program_end, linenum, linelen, start, pc, lines>>
  BY DEF TypeChar
<1>3. TypeOK'
  <2>3. c \in 0 .. BYTE - 1
    BY LineStoreConstants
  <2>4. mem' \in [Addr -> 0 .. BYTE - 1]
    BY <1>1, <1>2, <2>3 DEF TypeOK
  <2>5. txtpos' \in 0 .. MemTop + LN
    BY <1>1, <1>2, Sizes DEF TypeOK
  <2>6. typed' \in Seq(Keys)
    BY <1>1, <1>2 DEF TypeOK
  <2> QED
    BY <1>1, <1>2, <2>4, <2>5, <2>6 DEF TypeOK, Addr, PC, LineMod
<1>4. program_end \in Nat /\ txtpos \in Nat
  BY <1>1, Sizes DEF TypeOK
<1>5. InLine'
  BY <1>2, <1>4 DEF AnyInv, InLine, InGetln
<1>6. TypingBelowVariables'
  BY <1>2, <1>4, Sizes DEF AnyInv, TypingBelowVariables, InGetln, Buffer
<1>. QED
  BY <1>2, <1>3, <1>5, <1>6 DEF AnyInv, Merging, Room, InGetln

LEMMA BackspaceAny ==
    ASSUME AnyInv, Backspace
    PROVE  AnyInv'
<1>1. TypeOK
  BY DEF AnyInv
<1>2. /\ txtpos' = txtpos - 1 /\ txtpos # program_end /\ InGetln
      /\ typed' = IF typed = <<>> THEN <<>> ELSE SubSeq(typed, 1, Len(typed) - 1)
      /\ UNCHANGED <<mem, program_end, linenum, linelen, start, pc, lines>>
  BY DEF Backspace
<1>3. program_end \in Nat /\ txtpos \in Nat /\ program_end <= txtpos
  BY <1>1, <1>2, Sizes DEF AnyInv, TypeOK, InLine, InGetln
<1>4. txtpos' \in 0 .. MemTop + LN /\ program_end <= txtpos'
  BY <1>1, <1>2, <1>3, Sizes DEF TypeOK
<1>5. typed' \in Seq(Keys)
  BY <1>1, <1>2 DEF TypeOK
<1>6. TypeOK'
  BY <1>1, <1>2, <1>4, <1>5 DEF TypeOK
<1>7. TypingBelowVariables'
  BY <1>2, <1>3, Sizes DEF AnyInv, TypingBelowVariables, InGetln, Buffer
<1>. QED
  BY <1>2, <1>4, <1>6, <1>7 DEF AnyInv, InLine, Merging, Room, InGetln

LEMMA EndLineAny ==
    ASSUME AnyInv, EndLine
    PROVE  AnyInv'
<1>1. TypeOK
  BY DEF AnyInv
<1>2. /\ InGetln /\ lines < MaxLines /\ lines' = lines + 1 /\ mem' = [mem EXCEPT ![txtpos] = NL]
      /\ pc' = IF pc = "prompt" THEN "entered" ELSE "answered"
      /\ UNCHANGED <<program_end, txtpos, linenum, linelen, start, typed>>
  BY DEF EndLine
<1>3. mem' \in [Addr -> 0 .. BYTE - 1]
  BY <1>1, <1>2, LineStoreConstants DEF TypeOK
<1>4. lines' \in 0 .. MaxLines
  BY <1>1, <1>2, LineStoreConstants DEF TypeOK
<1>5. TypeOK'
  BY <1>1, <1>2, <1>3, <1>4 DEF TypeOK, PC
<1>. QED
  BY <1>2, <1>5 DEF AnyInv, InLine, TypingBelowVariables, Merging, Room, InGetln

-----------------------------------------------------------------------------
(* Any user: the line entered.                                             *)

LEMMA UppercasedTypes ==
    ASSUME TypeOK, NEW e
    PROVE  Uppercased(e) \in [Addr -> 0 .. BYTE - 1]
BY LineStoreConstants DEF TypeOK, Uppercased

LEMMA MovedUpTypes ==
    ASSUME TypeOK, NEW m \in [Addr -> 0 .. BYTE - 1], NEW e \in Buffer .. VariablesBegin - 1
    PROVE  /\ MovedTo(e) \in Buffer .. VariablesBegin - 1
           /\ MovedUp(m, e) \in [Addr -> 0 .. BYTE - 1]
<1>. USE Sizes
<1>1. Buffer \in Nat /\ program_end \in Nat
  BY DEF TypeOK, Buffer
<1>2. MovedTo(e) \in Buffer .. VariablesBegin - 1
  BY <1>1 DEF MovedTo
<1>3. ASSUME NEW a \in MovedTo(e) .. VariablesBegin - 1
      PROVE  a - MovedTo(e) + Buffer \in Addr
  BY <1>1, <1>2, <1>3 DEF MovedTo, Addr
<1>. QED
  BY <1>2, <1>3 DEF MovedUp

LEMMA MovedDownTypes ==
    ASSUME NEW m \in [Addr -> 0 .. BYTE - 1], NEW e \in VariablesBegin .. MemTop - 1,
           MovedTo(e) \in Nat
    PROVE  MovedDown(m, e) \in [Addr -> 0 .. BYTE - 1]
<1>1. PICK way : way = e - (VariablesBegin - 1)
  OBVIOUS
<1>2. way \in Nat \ {0} /\ e \in Nat /\ e - way = VariablesBegin - 1
  BY <1>1, Sizes
<1>3. ASSUME NEW a \in MovedTo(e) .. VariablesBegin - 1
      PROVE  e - ((VariablesBegin - 1 - a) % way) \in Addr
  <2>1. VariablesBegin - 1 - a \in Nat
    BY <1>3, Sizes
  <2>2. (VariablesBegin - 1 - a) % way \in 0 .. way - 1
    BY ONLY <1>2, <2>1, Residue
  <2>. QED
    BY <1>2, <2>2, Sizes DEF Addr
<1>4. MovedDown(m, e) = [a \in Addr |->
            IF a \in MovedTo(e) .. VariablesBegin - 1
            THEN m[e - ((VariablesBegin - 1 - a) % way)] ELSE m[a]]
  BY <1>1 DEF MovedDown
<1>. QED
  BY <1>3, <1>4

\* What becomes of a line that was moved to m: executed, refused, or given a header in
\* front of a text that starts behind its number.
LEMMA DispatchCases ==
    ASSUME NEW m, NEW a \in Nat, NEW z \in Nat, Dispatch(m, a, z)
    PROVE  /\ linenum' \in 0 .. LineMod - 1
           /\ \/ DirectLine(m)
              \/ BadNumber(m)
              \/ \E t \in a + 1 .. z : PutHeader(m, linenum', t, z)
<1>1. PICK b \in a .. z :
         \E d \in b .. z :
            LET n == TestNum(m, b, d) % LineMod
            IN  /\ n \in 0 .. LineMod - 1
                /\ linenum' = n
                /\ \/ n = 0 /\ DirectLine(m)
                   \/ n = LINENUM_END /\ n # 0 /\ BadNumber(m)
                   \/ /\ n \notin {0, LINENUM_END}
                      /\ \E t \in d .. z : PutHeader(m, n, t, z)
  BY DEF Dispatch
<1>2. PICK d \in b .. z :
         LET n == TestNum(m, b, d) % LineMod
         IN  /\ n \in 0 .. LineMod - 1
             /\ linenum' = n
             /\ \/ n = 0 /\ DirectLine(m)
                \/ n = LINENUM_END /\ n # 0 /\ BadNumber(m)
                \/ /\ n \notin {0, LINENUM_END}
                   /\ \E t \in d .. z : PutHeader(m, n, t, z)
  BY <1>1
<1>. DEFINE n == TestNum(m, b, d) % LineMod
<1>3. ASSUME n # 0, NEW t \in d .. z
      PROVE  t \in a + 1 .. z
  <2>1. b # d
    BY <1>3, LineModNat DEF TestNum
  <2>. QED
    BY <1>2, <1>3, <2>1
<1>. QED
  BY <1>2, <1>3

LEMMA DirectAny ==
    ASSUME AnyInv, NEW m \in [Addr -> 0 .. BYTE - 1], DirectLine(m),
           linenum' \in 0 .. LineMod - 1, lines' = lines
    PROVE  AnyInv'
<1>1. TypeOK
  BY DEF AnyInv
<1>2. mem' = m /\ UNCHANGED <<program_end, start, linelen>>
  BY DEF DirectLine
<1>3. CASE ToPrompt
  BY <1>1, <1>2, <1>3, PromptAny DEF RestTypeOK, TypeOK
<1>4. CASE pc' = "execute" /\ txtpos' = Buffer /\ typed' = <<>>
  <2>1. txtpos' \in 0 .. MemTop + LN
    BY <1>1, <1>4, Sizes DEF TypeOK, Buffer
  <2>2. TypeOK'
    BY <1>1, <1>2, <1>4, <2>1 DEF TypeOK, PC
  <2>. QED
    BY <1>4, <2>2, TypesAny
<1>. QED
  BY <1>3, <1>4 DEF DirectLine

\* The bytes of a header.
LEMMA HeaderTypes ==
    ASSUME NEW m \in [Addr -> 0 .. BYTE - 1], NEW n \in 0 .. LineMod - 1,
           NEW t \in Nat, NEW z \in Nat, t <= z, PutHeader(m, n, t, z)
    PROVE  /\ mem' \in [Addr -> 0 .. BYTE - 1]
           /\ linelen' \in 0 .. BYTE - 1
           /\ linelen' <= z + 1 - t + LN + 1
<1>. DEFINE header == t - (LN + 1)
            size == z + 1 - t + LN + 1
<1>1. linelen' = size % BYTE
  BY DEF PutHeader
<1>2. linelen' \in 0 .. BYTE - 1 /\ linelen' <= size
  <2>1. size \in Nat /\ BYTE \in Nat \ {0}
    BY Sizes
  <2> HIDE DEF size
  <2>2. size % BYTE \in 0 .. BYTE - 1 /\ size % BYTE <= size
    BY ONLY <2>1, Residue
  <2>. QED
    BY ONLY <1>1, <2>2
<1>3. header \in Int
  BY Sizes
<1>4. ASSUME NEW a \in header .. header + LN - 1
      PROVE  (n \div BYTE ^ (a - header)) % BYTE \in 0 .. BYTE - 1
  <2>1. a - header \in 0 .. LN
    BY <1>3, Sizes
  <2>2. BYTE ^ (a - header) \in Nat \ {0} /\ BYTE \in Nat \ {0}
    BY <2>1, LineStoreConstants
  <2>3. n \in Nat
    BY LineModNat
  <2>. QED
    BY <2>2, <2>3, Quotient, Residue
<1>5. mem' = [a \in Addr |->
                  IF a \in header .. header + LN - 1 THEN (n \div BYTE ^ (a - header)) % BYTE
                  ELSE IF a = header + LN THEN linelen' ELSE m[a]]
  BY DEF PutHeader
<1>. QED
  BY <1>2, <1>4, <1>5

\* A line of l bytes from t-(LN+1) on, whose text t .. z was behind a number.
LEMMA HeaderFits ==
    ASSUME NEW p \in Nat, NEW a \in Nat, NEW z \in a .. VariablesBegin - 1,
           NEW t \in a + 1 .. z, NEW l \in Nat,
           p + LN + (z - a) <= MemTop - 1, l <= z + 1 - t + LN + 1
    PROVE  t - (LN + 1) + l <= VariablesBegin /\ p + l <= MemTop
BY Sizes

LEMMA PutHeaderAny ==
    ASSUME AnyInv, NEW m \in [Addr -> 0 .. BYTE - 1], NEW a \in Nat,
           NEW z \in a .. VariablesBegin - 1, Buffer + (z - a) <= MemTop - 1,
           NEW t \in a + 1 .. z, PutHeader(m, linenum', t, z),
           linenum' \in 0 .. LineMod - 1, lines' = lines
    PROVE  AnyInv'
<1>0. TypeOK
  BY DEF AnyInv
<1>. DEFINE header == t - (LN + 1)
<1>1. program_end \in Nat /\ Buffer = program_end + LN /\ header \in Int /\ header <= VariablesBegin
      /\ t \in Nat /\ z \in Nat /\ t <= z
  BY <1>0, Sizes DEF TypeOK, Buffer
<1>2. /\ txtpos' = IF header >= 0 THEN header ELSE 0
      /\ pc' = IF z - t < BYTE /\ header >= 0 THEN "numbered" ELSE "lost"
      /\ UNCHANGED <<program_end, start, typed>>
  BY DEF PutHeader
<1>3. /\ mem' \in [Addr -> 0 .. BYTE - 1]
      /\ linelen' \in 0 .. BYTE - 1
      /\ linelen' <= z + 1 - t + LN + 1
  BY <1>1, HeaderTypes
<1>4. txtpos' \in 0 .. MemTop + LN
  BY <1>1, <1>2, Sizes
<1>5. TypeOK'
  BY <1>0, <1>2, <1>3, <1>4 DEF TypeOK, PC
<1>6. CASE pc' = "numbered"
  <2>1. txtpos' = header
    BY <1>2, <1>6
  <2>2. linelen' \in Nat /\ program_end' = program_end /\ program_end + LN + (z - a) <= MemTop - 1
    BY <1>1, <1>2, <1>3, Sizes
  <2>3. t - (LN + 1) + linelen' <= VariablesBegin /\ program_end + linelen' <= MemTop
    BY <1>1, <1>3, <2>2, HeaderFits
  <2>. QED
    BY <1>5, <1>6, <2>1, <2>2, <2>3
       DEF AnyInv, InLine, TypingBelowVariables, Merging, Room, InGetln
<1>. QED
  BY <1>2, <1>5, <1>6, TypesAny

LEMMA DispatchAny ==
    ASSUME AnyInv, NEW m \in [Addr -> 0 .. BYTE - 1], NEW a \in Nat,
           NEW z \in a .. VariablesBegin - 1, Buffer + (z - a) <= MemTop - 1,
           Dispatch(m, a, z), lines' = lines
    PROVE  AnyInv'
<1>0. z \in Nat
  BY Sizes
<1>1. /\ linenum' \in 0 .. LineMod - 1
      /\ \/ DirectLine(m)
         \/ BadNumber(m)
         \/ \E t \in a + 1 .. z : PutHeader(m, linenum', t, z)
  BY <1>0, DispatchCases
<1>2. CASE DirectLine(m)
  BY <1>1, <1>2, DirectAny
<1>3. CASE BadNumber(m)
  BY <1>1, <1>3, PromptAny DEF BadNumber, RestTypeOK, AnyInv, TypeOK
<1>. QED
  BY <1>1, <1>2, <1>3, PutHeaderAny

LEMMA LineEnteredAny ==
    ASSUME AnyInv, LineEntered \/ LineEnteredAbove, lines' = lines
    PROVE  AnyInv'
<1>0. TypeOK /\ Buffer \in Nat
  BY Sizes DEF AnyInv, TypeOK, Buffer
<1>1. CASE LineEntered
  <2>1. PICK e \in Buffer .. VariablesBegin - 1 :
           Dispatch(MovedUp(Uppercased(e), e), MovedTo(e), VariablesBegin - 1)
    BY <1>1 DEF LineEntered
  <2>2. /\ MovedTo(e) \in Buffer .. VariablesBegin - 1
        /\ MovedUp(Uppercased(e), e) \in [Addr -> 0 .. BYTE - 1]
    BY <1>0, UppercasedTypes, MovedUpTypes
  <2>3. MovedTo(e) \in Nat /\ VariablesBegin - 1 \in MovedTo(e) .. VariablesBegin - 1
        /\ Buffer + (VariablesBegin - 1 - MovedTo(e)) <= MemTop - 1
    BY <1>0, <2>2, Sizes DEF MovedTo
  <2>. QED
    BY <2>1, <2>2, <2>3, DispatchAny
<1>2. CASE LineEnteredAbove
  <2>1. PICK e \in VariablesBegin .. MemTop - 1 :
           /\ IsFirst(mem, e, Buffer, {NL})
           /\ MovedTo(e) >= 0
           /\ \E z \in MovedTo(e) .. VariablesBegin - 1 :
                 Dispatch(MovedDown(Uppercased(e), e), MovedTo(e), z)
    BY <1>2 DEF LineEnteredAbove
  <2>2. PICK z \in MovedTo(e) .. VariablesBegin - 1 :
           Dispatch(MovedDown(Uppercased(e), e), MovedTo(e), z)
    BY <2>1
  <2>3. MovedTo(e) \in Nat /\ Buffer <= e /\ e \in Nat
    BY <1>0, <2>1, Sizes DEF MovedTo, IsFirst
  <2>4. MovedDown(Uppercased(e), e) \in [Addr -> 0 .. BYTE - 1]
    BY <1>0, <2>3, UppercasedTypes, MovedDownTypes
  <2>5. Buffer + (z - MovedTo(e)) <= MemTop - 1
    BY <1>0, <2>3, Sizes DEF MovedTo
  <2>. QED
    BY <2>2, <2>3, <2>4, <2>5, DispatchAny
<1>. QED
  BY <1>1, <1>2

LEMMA LineAnsweredAny ==
    ASSUME AnyInv, LineAnswered, lines' = lines
    PROVE  AnyInv'
<1>0. TypeOK
  BY DEF AnyInv
<1>1. mem' \in [Addr -> 0 .. BYTE - 1]
  BY <1>0, UppercasedTypes DEF LineAnswered
<1>2. TypeOK'
  BY <1>0, <1>1, Sizes DEF TypeOK, LineAnswered, PC
<1>. QED
  BY <1>2, TypesAny DEF LineAnswered

\* Where the code leaves `program'.
RunsAway == StoresOutside \/ ScanRunsAway \/ MergeRunsAway \/ SaveRunsAway

LEMMA RunsAwayAny ==
    ASSUME AnyInv, RunsAway, lines' = lines
    PROVE  AnyInv'
<1>1. pc' = "lost" /\ UNCHANGED <<mem, program_end, txtpos, linenum, linelen, start, typed>>
  BY DEF RunsAway, StoresOutside, ScanRunsAway, MergeRunsAway, SaveRunsAway
<1>2. TypeOK'
  BY <1>1 DEF AnyInv, TypeOK, PC
<1>. QED
  BY <1>1, <1>2, TypesAny

-----------------------------------------------------------------------------
(* Any user: merging.                                                      *)

LEMMA MergeAny ==
    ASSUME AnyInv, Merge, lines' = lines
    PROVE  /\ AnyInv'
           /\ program_end' <= program_end
           /\ pc' = "shuffle" => txtpos' = txtpos
<1>1. PICK s \in 0 .. program_end : MergeAt(s)
  BY DEF Merge
<1>2. /\ mem \in [Addr -> 0 .. BYTE - 1] /\ program_end \in 0 .. MemTop
      /\ txtpos + linelen <= VariablesBegin /\ txtpos \in 0 .. MemTop + LN
      /\ linelen \in 0 .. BYTE - 1 /\ program_end + linelen <= MemTop
  BY <1>1 DEF MergeAt, AnyInv, TypeOK, Merging, Room
<1>3. Removed(s) \in Nat
  <2>1. CASE Matches(s)
    <3>1. s + LN \in Addr
      BY <1>1, <1>2, <2>1, Sizes DEF Addr, MergeAt, Found, Matches
    <3>2. mem[s + LN] \in Nat
      BY <1>2, <3>1, Sizes
    <3>. QED
      BY <2>1, <3>2 DEF Removed
  <2>. QED
    BY <2>1 DEF Removed
<1>4. /\ program_end' = program_end - Removed(s) /\ s <= program_end'
      /\ program_end' \in 0 .. MemTop /\ program_end' <= program_end
  BY <1>1, <1>2, <1>3, Sizes DEF MergeAt
<1>5. mem' \in [Addr -> 0 .. BYTE - 1]
  <2>1. mem' = [a \in Addr |-> IF a \in s .. program_end' - 1 THEN mem[a + Removed(s)] ELSE mem[a]]
    BY <1>1 DEF MergeAt
  <2>2. ASSUME NEW a \in s .. program_end' - 1
        PROVE  a + Removed(s) \in Addr
    <3>1. a \in Nat /\ a < program_end - Removed(s) /\ program_end <= MemTop /\ program_end \in Nat
      BY <1>2, <1>3, <1>4, Sizes
    <3>. QED
      BY <1>3, <3>1, Sizes DEF Addr
  <2>. QED
    BY <1>2, <2>1, <2>2
<1>6. CASE ToPrompt /\ UNCHANGED start
  <2>1. AnyInv'
    BY <1>1, <1>4, <1>5, <1>6, PromptAny DEF RestTypeOK, MergeAt, AnyInv, TypeOK
  <2>. QED
    BY <1>4, <1>6, <2>1 DEF ToPrompt
<1>7. CASE pc' = "shuffle" /\ start' = s /\ typed' = <<>> /\ UNCHANGED txtpos
  <2>1. UNCHANGED <<linenum, linelen>>
    BY <1>1 DEF MergeAt
  <2>2. TypeOK'
    BY <1>2, <1>4, <1>5, <1>7, <2>1, Sizes DEF AnyInv, TypeOK, PC
  <2>3. Merging' /\ Room'
    BY <1>2, <1>4, <1>7, <2>1, Sizes DEF Merging, Room
  <2>. QED
    BY <1>4, <1>7, <2>2, <2>3 DEF AnyInv, InLine, TypingBelowVariables, InGetln
<1>. QED
  BY <1>1, <1>6, <1>7 DEF MergeAt

LEMMA DeletePastAny ==
    ASSUME AnyInv, DeletePast, lines' = lines
    PROVE  AnyInv'
BY PromptAny DEF RestTypeOK, DeletePast, AnyInv, TypeOK

\* The room of an iteration ends where the rest of the line begins.
LEMMA ShuffleRange ==
    ASSUME AnyInv, pc = "shuffle", program_end <= txtpos
    PROVE  /\ SpaceToMake \in 0 .. linelen
           /\ program_end + SpaceToMake <= txtpos
           /\ program_end \in Nat /\ txtpos \in Nat /\ start \in Nat /\ linelen \in Nat
           /\ start <= program_end
           /\ txtpos + linelen <= VariablesBegin
<1>1. /\ program_end \in Nat /\ txtpos \in Nat /\ start \in Nat /\ linelen \in Nat
      /\ start <= program_end
      /\ txtpos + linelen <= VariablesBegin
  BY Sizes DEF AnyInv, TypeOK, Merging
<1>. QED
  BY <1>1 DEF SpaceToMake

LEMMA ShuffleAny ==
    ASSUME AnyInv, Shuffle, lines' = lines
    PROVE  AnyInv'
<1>0. PICK k : k = SpaceToMake
  OBVIOUS
<1>1. /\ k \in 0 .. linelen
      /\ program_end + k <= txtpos
      /\ program_end \in Nat /\ txtpos \in Nat /\ start \in Nat /\ linelen \in Nat
      /\ start <= program_end
      /\ txtpos + linelen <= VariablesBegin
  BY <1>0, ShuffleRange DEF Shuffle
<1>2. /\ txtpos' = txtpos + k /\ start' = start + k /\ linelen' = linelen - k
      /\ program_end' = program_end + k /\ pc' = "shuffle" /\ pc = "shuffle"
      /\ linenum' = linenum /\ typed' = typed
  BY <1>0 DEF Shuffle
<1>3. mem' \in [Addr -> 0 .. BYTE - 1]
  <2>1. mem' = [a \in Addr |->
                    IF a \in start .. start + k - 1 THEN mem[txtpos + (a - start)]
                    ELSE IF a \in start + k .. program_end' - 1 THEN mem[a - k]
                    ELSE mem[a]]
    BY <1>0 DEF Shuffle
  <2>2. ASSUME NEW a \in start .. start + k - 1
        PROVE  txtpos + (a - start) \in Addr
    BY <1>1, Sizes DEF Addr
  <2>3. ASSUME NEW a \in start + k .. program_end' - 1
        PROVE  a - k \in Addr
    BY <1>1, <1>2, Sizes DEF Addr
  <2>4. mem \in [Addr -> 0 .. BYTE - 1]
    BY DEF AnyInv, TypeOK
  <2>. QED
    BY <2>1, <2>2, <2>3, <2>4
<1>4. TypeOK'
  <2>1. txtpos' \in 0 .. MemTop + LN /\ start' \in 0 .. MemTop /\ program_end' \in 0 .. MemTop
        /\ linelen' \in 0 .. BYTE - 1
    BY <1>1, <1>2, Sizes DEF AnyInv, TypeOK
  <2>. QED
    BY <1>2, <1>3, <2>1 DEF AnyInv, TypeOK
<1>5. program_end + linelen <= MemTop
  BY <1>2 DEF AnyInv, Room
<1>6. Merging' /\ Room'
  BY <1>1, <1>2, <1>5, Sizes DEF Merging, Room
<1>. QED
  BY <1>2, <1>4, <1>6 DEF AnyInv, InLine, TypingBelowVariables, InGetln

LEMMA ShuffleOverAny ==
    ASSUME AnyInv, ShuffleOver, lines' = lines
    PROVE  AnyInv'
<1>1. /\ program_end \in Nat /\ txtpos \in Nat /\ start \in Nat /\ linelen \in Nat
      /\ start <= program_end /\ txtpos < program_end /\ program_end + linelen <= MemTop
      /\ txtpos + linelen <= VariablesBegin /\ linelen > 0
  BY Sizes DEF AnyInv, TypeOK, Merging, Room, ShuffleOver
<1>2. /\ txtpos' = txtpos + linelen /\ start' = start + linelen /\ linelen' = 0
      /\ program_end' = program_end + linelen /\ pc' = "shuffle" /\ pc = "shuffle"
      /\ linenum' = linenum /\ typed' = typed
  BY DEF ShuffleOver
<1>. DEFINE up == [a \in Addr |->
                     IF a \in start + linelen .. program_end' - 1 THEN mem[a - linelen] ELSE mem[a]]
            from(i) == IF start > txtpos THEN txtpos + (i % (start - txtpos)) ELSE txtpos + i
<1>3. mem' = [a \in Addr |->
                IF a \in start .. start + linelen - 1 THEN up[from(a - start)] ELSE up[a]]
  BY DEF ShuffleOver
<1>4. up \in [Addr -> 0 .. BYTE - 1]
  <2>1. ASSUME NEW a \in start + linelen .. program_end' - 1
        PROVE  a - linelen \in Addr
    BY <1>1, <1>2, Sizes DEF Addr
  <2>2. mem \in [Addr -> 0 .. BYTE - 1]
    BY DEF AnyInv, TypeOK
  <2>. QED
    BY <2>1, <2>2
<1>5. ASSUME NEW a \in start .. start + linelen - 1
      PROVE  from(a - start) \in Addr
  <2>1. a - start \in Nat /\ a - start < linelen
    BY <1>1
  <2>2. CASE start > txtpos
    <3>1. (a - start) % (start - txtpos) \in Nat /\ (a - start) % (start - txtpos) <= a - start
      <4>1. start - txtpos \in Nat \ {0}
        BY <1>1, <2>2
      <4>. QED
        BY ONLY <2>1, <4>1, Residue
    <3>. QED
      BY <1>1, <2>1, <2>2, <3>1, Sizes DEF Addr
  <2>3. CASE ~(start > txtpos)
    BY <1>1, <2>1, <2>3, Sizes DEF Addr
  <2>. QED
    BY <2>2, <2>3
<1>6. mem' \in [Addr -> 0 .. BYTE - 1]
  <2>. HIDE DEF up, from
  <2>. QED
    BY <1>3, <1>4, <1>5
<1>7. TypeOK'
  <2>1. txtpos' \in 0 .. MemTop + LN /\ start' \in 0 .. MemTop /\ program_end' \in 0 .. MemTop
        /\ linelen' \in 0 .. BYTE - 1
    BY <1>1, <1>2, Sizes
  <2>. QED
    BY <1>2, <1>6, <2>1 DEF AnyInv, TypeOK
<1>8. Merging' /\ Room'
  BY <1>1, <1>2, Sizes DEF Merging, Room
<1>. QED
  BY <1>2, <1>7, <1>8 DEF AnyInv, InLine, TypingBelowVariables, InGetln

-----------------------------------------------------------------------------
(* Any user: the statements, and the whole.                                *)

LEMMA ExecuteAny ==
    ASSUME AnyInv, Merged \/ ExecuteEnds \/ ClearProgram \/ Write \/ Save \/ Input, lines' = lines
    PROVE  AnyInv'
<1>0. TypeOK
  BY DEF AnyInv
<1>1. CASE Merged
  BY <1>0, <1>1, PromptAny DEF RestTypeOK, Merged, TypeOK
<1>2. CASE ExecuteEnds
  BY <1>0, <1>2, PromptAny DEF RestTypeOK, ExecuteEnds, TypeOK
<1>3. CASE ClearProgram
  BY <1>0, <1>3, PromptAny, Sizes DEF RestTypeOK, ClearProgram, TypeOK
<1>4. CASE Write
  <2>1. PICK a \in Written, c \in Values : mem' = [mem EXCEPT ![a] = c]
    BY <1>4 DEF Write
  <2>2. mem' \in [Addr -> 0 .. BYTE - 1]
    BY <1>0, <2>1, LineStoreConstants DEF TypeOK
  <2>3. TypeOK' /\ pc' = "execute"
    BY <1>0, <1>4, <2>2 DEF TypeOK, Write
  <2>. QED
    BY <2>3, TypesAny
<1>5. CASE Save
  <2>1. PICK a \in Addr : mem' = [mem EXCEPT ![a] = 0]
    BY <1>5 DEF Save
  <2>2. mem' \in [Addr -> 0 .. BYTE - 1]
    BY <1>0, <2>1, Sizes DEF TypeOK
  <2>. QED
    BY <1>0, <1>5, <2>2, PromptAny DEF RestTypeOK, Save, TypeOK
<1>6. CASE Input
  <2>1. txtpos' \in 0 .. MemTop + LN /\ txtpos' = Buffer /\ pc' = "input" /\ typed' = <<>>
    BY <1>0, <1>6, Sizes DEF Input, TypeOK, Buffer
  <2>2. TypeOK'
    BY <1>0, <1>6, <2>1 DEF Input, TypeOK, PC
  <2>3. Buffer' = Buffer /\ Buffer \in Nat /\ program_end' <= Buffer
    BY <1>0, <1>6, Sizes DEF Input, Buffer, TypeOK
  <2>4. InLine' /\ TypingBelowVariables'
    BY <2>1, <2>3 DEF InLine, TypingBelowVariables
  <2>. QED
    BY <2>1, <2>2, <2>4 DEF AnyInv, Merging, Room
<1>. QED
  BY <1>1, <1>2, <1>3, <1>4, <1>5, <1>6

LEMMA NextAny == AnyInv /\ [Next]_vars => AnyInv'
<1>. SUFFICES ASSUME AnyInv, [Next]_vars PROVE AnyInv'
  OBVIOUS
<1>1. CASE UNCHANGED vars
  BY <1>1 DEF vars, AnyInv, TypeOK, InLine, TypingBelowVariables, Merging, Room, InGetln, Buffer
<1>2. CASE User
  <2>1. CASE StoresOutside
    BY <2>1, RunsAwayAny DEF RunsAway, StoresOutside
  <2>. QED
    BY <1>1, <1>2, <2>1, TypeCharAny, BackspaceAny, EndLineAny DEF User, Bell, SessionEnds
<1>3. CASE Code
  BY <1>3, LineEnteredAny, LineAnsweredAny, RunsAwayAny, MergeAny, DeletePastAny, ShuffleAny,
     ShuffleOverAny, ExecuteAny
     DEF Code, RunsAway
<1>. QED
  BY <1>1, <1>2, <1>3 DEF Next, StaysLost

\* Whatever is typed and erased, the line editor keeps to its ranges.
THEOREM LineStoreAnyUser == Spec => []AnyInv
BY InitAny, NextAny, PTL DEF Spec

\* TypeOK of LineStore.tla for any user: the pointers stay in `program' (the position
\* of getln passes it by a line number at most), and every byte is a byte, whatever is
\* typed, erased, moved over the program and merged with it.
THEOREM LineStoreTypeOK == Spec => []TypeOK
BY LineStoreAnyUser, PTL DEF AnyInv

\* TypingBelowVariables of LineStore.tla for any user: the equality getln tests is
\* enough, for a line that starts below it.
THEOREM LineStoreTyping == Spec => []TypingBelowVariables
BY LineStoreAnyUser, PTL DEF AnyInv

-----------------------------------------------------------------------------
(* Any user: what changes the program.                                     *)

\* Outside the shuffle, the program is what lies below program_end.
LEMMA StoredKept ==
    ASSUME pc # "shuffle", pc' # "shuffle", program_end \in Nat, program_end' = program_end,
           \A a \in 0 .. program_end - 1 : mem'[a] = mem[a]
    PROVE  Stored' = Stored
<1>1. StoredLen = program_end /\ StoredLen' = program_end
  BY DEF StoredLen
<1>2. Stored = [i \in 0 .. program_end - 1 |-> mem[i]]
  BY <1>1 DEF Stored
<1>3. Stored' = [i \in 0 .. program_end - 1 |-> mem'[i]]
  BY <1>1 DEF Stored
<1>. QED
  BY <1>2, <1>3

\* What a line that moves up becomes: executed, refused, or given a header that lies
\* above the program; the program is left alone.
LEMMA LineEnteredParts ==
    ASSUME TypeOK, LineEntered
    PROVE  \E e \in Buffer .. VariablesBegin - 1, m \in [Addr -> 0 .. BYTE - 1] :
             /\ IsFirst(mem, e, Buffer, {NL})
             /\ m = MovedUp(Uppercased(e), e)
             /\ MovedTo(e) \in Buffer .. VariablesBegin - 1
             /\ \A a \in 0 .. program_end - 1 : m[a] = mem[a]
             /\ linenum' \in 0 .. LineMod - 1
             /\ \/ DirectLine(m)
                \/ BadNumber(m)
                \/ \E t \in MovedTo(e) + 1 .. VariablesBegin - 1 :
                      PutHeader(m, linenum', t, VariablesBegin - 1)
<1>1. PICK e \in Buffer .. VariablesBegin - 1 :
         /\ IsFirst(mem, e, Buffer, {NL})
         /\ Dispatch(MovedUp(Uppercased(e), e), MovedTo(e), VariablesBegin - 1)
  BY DEF LineEntered
<1>2. /\ MovedUp(Uppercased(e), e) \in [Addr -> 0 .. BYTE - 1]
      /\ MovedTo(e) \in Buffer .. VariablesBegin - 1
  BY UppercasedTypes, MovedUpTypes
<1>3. Buffer \in Nat /\ Buffer = program_end + LN /\ program_end \in Nat
  BY Sizes DEF TypeOK, Buffer
<1>4. MovedTo(e) \in Nat /\ VariablesBegin - 1 \in Nat
  BY <1>2, <1>3, Sizes
<1>5. \A a \in 0 .. program_end - 1 : MovedUp(Uppercased(e), e)[a] = mem[a]
  <2>1. ASSUME NEW a \in 0 .. program_end - 1
        PROVE  MovedUp(Uppercased(e), e)[a] = mem[a]
    <3>1. a \in Addr /\ a \notin MovedTo(e) .. VariablesBegin - 1 /\ a \notin Buffer .. e - 1
      BY <1>2, <1>3, Sizes DEF Addr, TypeOK
    <3>2. Uppercased(e)[a] = mem[a]
      BY <3>1 DEF Uppercased
    <3>. QED
      BY <3>1, <3>2 DEF MovedUp
  <2>. QED
    BY <2>1
<1>. QED
  BY <1>1, <1>2, <1>4, <1>5, DispatchCases

\* The same, without the place where the line lies.
LEMMA LineEnteredAs ==
    ASSUME TypeOK, LineEntered
    PROVE  \E m \in [Addr -> 0 .. BYTE - 1] :
             /\ \A a \in 0 .. program_end - 1 : m[a] = mem[a]
             /\ linenum' \in 0 .. LineMod - 1
             /\ \/ DirectLine(m)
                \/ BadNumber(m)
                \/ \E t \in 0 .. VariablesBegin - 1 :
                      program_end + LN + 1 <= t /\ PutHeader(m, linenum', t, VariablesBegin - 1)
<1>1. PICK e \in Buffer .. VariablesBegin - 1, m \in [Addr -> 0 .. BYTE - 1] :
         /\ MovedTo(e) \in Buffer .. VariablesBegin - 1
         /\ \A a \in 0 .. program_end - 1 : m[a] = mem[a]
         /\ linenum' \in 0 .. LineMod - 1
         /\ \/ DirectLine(m)
            \/ BadNumber(m)
            \/ \E t \in MovedTo(e) + 1 .. VariablesBegin - 1 : PutHeader(m, linenum', t, VariablesBegin - 1)
  BY LineEnteredParts
<1>2. Buffer \in Nat /\ Buffer = program_end + LN /\ program_end \in Nat
  BY Sizes DEF TypeOK, Buffer
<1>3. ASSUME NEW t \in MovedTo(e) + 1 .. VariablesBegin - 1
      PROVE  t \in 0 .. VariablesBegin - 1 /\ program_end + LN + 1 <= t
  BY <1>1, <1>2, Sizes
<1>. QED
  BY <1>1, <1>3

LEMMA UserKeepsStore ==
    ASSUME AnyInv, User
    PROVE  Stored' = Stored
<1>1. /\ program_end \in Nat /\ txtpos \in Nat /\ mem \in [Addr -> 0 .. BYTE - 1]
      /\ program_end <= MemTop
  BY Sizes DEF AnyInv, TypeOK
<1>2. CASE Bell \/ SessionEnds
  BY <1>2 DEF Bell, SessionEnds, vars, Stored, StoredLen
<1>3. CASE ~(Bell \/ SessionEnds)
  <2>1. /\ InGetln /\ pc # "shuffle" /\ pc' # "shuffle" /\ program_end' = program_end
    BY <1>3 DEF User, TypeChar, StoresOutside, Backspace, EndLine, InGetln
  <2>2. program_end <= txtpos
    BY <2>1 DEF AnyInv, InLine, InGetln
  <2>3. \E c : mem' = [mem EXCEPT ![txtpos] = c] \/ mem' = mem
    BY <1>3 DEF User, TypeChar, StoresOutside, Backspace, EndLine
  <2>4. \A a \in 0 .. program_end - 1 : mem'[a] = mem[a]
    BY <1>1, <2>2, <2>3, Sizes DEF Addr
  <2>. QED
    BY <1>1, <2>1, <2>4, StoredKept
<1>. QED
  BY <1>2, <1>3

LEMMA LineKeepsStore ==
    ASSUME AnyInv, LineEntered \/ LineAnswered \/ RunsAway
    PROVE  Stored' = Stored
<1>1. program_end \in Nat /\ program_end <= MemTop /\ mem \in [Addr -> 0 .. BYTE - 1]
      /\ Buffer = program_end + LN
  BY Sizes DEF AnyInv, TypeOK, Buffer
<1>2. pc # "shuffle"
  BY DEF LineEntered, LineAnswered, RunsAway, StoresOutside, ScanRunsAway, MergeRunsAway, SaveRunsAway,
     InGetln
<1>3. CASE LineAnswered
  <2>1. PICK e : mem' = Uppercased(e)
    BY <1>3 DEF LineAnswered
  <2>2. \A a \in 0 .. program_end - 1 : a \in Addr /\ a \notin Buffer .. e - 1
    BY <1>1, Sizes DEF Addr
  <2>3. \A a \in 0 .. program_end - 1 : mem'[a] = mem[a]
    BY <2>1, <2>2 DEF Uppercased
  <2>4. program_end' = program_end /\ pc' # "shuffle"
    BY <1>3 DEF LineAnswered
  <2>. QED
    BY <1>1, <1>2, <2>3, <2>4, StoredKept
<1>4. CASE RunsAway
  <2>1. mem' = mem /\ program_end' = program_end /\ pc' # "shuffle"
    BY <1>4 DEF RunsAway, StoresOutside, ScanRunsAway, MergeRunsAway, SaveRunsAway
  <2>. QED
    BY <1>1, <1>2, <2>1, StoredKept
<1>5. CASE LineEntered
  <2>1. PICK m \in [Addr -> 0 .. BYTE - 1] :
           /\ \A a \in 0 .. program_end - 1 : m[a] = mem[a]
           /\ \/ DirectLine(m)
              \/ BadNumber(m)
              \/ \E t \in 0 .. VariablesBegin - 1 :
                    program_end + LN + 1 <= t /\ PutHeader(m, linenum', t, VariablesBegin - 1)
    BY <1>5, LineEnteredAs DEF AnyInv
  <2>2. program_end' = program_end /\ pc' # "shuffle"
    BY <2>1 DEF DirectLine, BadNumber, PutHeader, ToPrompt
  <2>3. CASE DirectLine(m) \/ BadNumber(m)
    BY <1>1, <1>2, <2>1, <2>2, <2>3, StoredKept DEF DirectLine, BadNumber
  <2>4. ASSUME NEW t \in 0 .. VariablesBegin - 1, program_end + LN + 1 <= t,
               PutHeader(m, linenum', t, VariablesBegin - 1)
        PROVE  Stored' = Stored
    <3>. DEFINE header == t - (LN + 1)
    <3>1. mem' = [a \in Addr |->
                    IF a \in header .. header + LN - 1
                    THEN (linenum' \div BYTE ^ (a - header)) % BYTE
                    ELSE IF a = header + LN THEN (VariablesBegin - 1 + 1 - t + LN + 1) % BYTE ELSE m[a]]
      BY <2>4 DEF PutHeader
    <3>2. ASSUME NEW a \in 0 .. program_end - 1
          PROVE  a \in Addr /\ a \notin header .. header + LN - 1 /\ a # header + LN
      BY <1>1, <2>4, Sizes DEF Addr
    <3>. HIDE DEF header
    <3>3. \A a \in 0 .. program_end - 1 : mem'[a] = m[a]
      BY <3>1, <3>2
    <3>. QED
      BY <1>1, <1>2, <2>1, <2>2, <3>3, StoredKept
  <2>. QED
    BY <2>1, <2>3, <2>4
<1>. QED
  BY <1>3, <1>4, <1>5

\* A little shuffle moves bytes, but the program it leads to stays the same:
\* byte by byte, below start, in the new line, and above it.
LEMMA ShuffleKeepsStore ==
    ASSUME AnyInv, Shuffle
    PROVE  Stored' = Stored
<1>0. PICK k : k = SpaceToMake
  OBVIOUS
<1>1. /\ k \in 0 .. linelen
      /\ program_end + k <= txtpos
      /\ program_end \in Nat /\ txtpos \in Nat /\ start \in Nat /\ linelen \in Nat
      /\ start <= program_end
      /\ txtpos + linelen <= VariablesBegin
  BY <1>0, ShuffleRange DEF Shuffle
<1>2. /\ txtpos' = txtpos + k /\ start' = start + k /\ linelen' = linelen - k
      /\ program_end' = program_end + k /\ pc' = "shuffle" /\ pc = "shuffle"
  BY <1>0 DEF Shuffle
<1>3. mem' = [a \in Addr |->
                IF a \in start .. start + k - 1 THEN mem[txtpos + (a - start)]
                ELSE IF a \in start + k .. program_end' - 1 THEN mem[a - k]
                ELSE mem[a]]
  BY <1>0 DEF Shuffle
<1>4. StoredLen = program_end + linelen /\ StoredLen' = StoredLen
  BY <1>1, <1>2 DEF StoredLen
<1>5. ASSUME NEW i \in 0 .. program_end + linelen - 1
      PROVE  (IF i < start' THEN mem'[i]
              ELSE IF i < start' + linelen' THEN mem'[txtpos' + (i - start')]
              ELSE mem'[i - linelen'])
             = (IF i < start THEN mem[i]
                ELSE IF i < start + linelen THEN mem[txtpos + (i - start)]
                ELSE mem[i - linelen])
  <2>1. CASE i < start
    <3>1. i \in Addr /\ i \notin start .. start + k - 1 /\ i \notin start + k .. program_end' - 1
          /\ i < start'
      BY <1>1, <1>2, <2>1, Sizes DEF Addr
    <3>. QED
      BY <1>3, <2>1, <3>1
  <2>2. CASE start <= i /\ i < start + k
    <3>1. i \in Addr /\ i \in start .. start + k - 1 /\ i < start' /\ i < start + linelen /\ ~(i < start)
      BY <1>1, <1>2, <2>2, Sizes DEF Addr
    <3>. QED
      BY <1>3, <3>1
  <2>3. CASE start + k <= i /\ i < start + linelen
    <3>1. /\ ~(i < start') /\ i < start' + linelen' /\ ~(i < start) /\ i < start + linelen
          /\ txtpos' + (i - start') = txtpos + (i - start)
      BY <1>1, <1>2, <2>3
    <3>2. PICK a : a = txtpos + (i - start)
      OBVIOUS
    <3>3. a \in Addr /\ a \notin start .. start + k - 1 /\ a \notin start + k .. program_end' - 1
      BY <1>1, <1>2, <2>3, <3>2, Sizes DEF Addr
    <3>4. mem'[a] = mem[a]
      BY <1>3, <3>3
    <3>. QED
      BY <3>1, <3>2, <3>4
  <2>4. CASE start + linelen <= i
    <3>1. /\ ~(i < start') /\ ~(i < start' + linelen') /\ ~(i < start) /\ ~(i < start + linelen)
      BY <1>1, <1>2, <2>4
    <3>2. PICK a : a = i - linelen'
      OBVIOUS
    <3>3. /\ a \in Addr /\ a \notin start .. start + k - 1 /\ a \in start + k .. program_end' - 1
          /\ a - k = i - linelen
      BY <1>1, <1>2, <2>4, <3>2, Sizes DEF Addr
    <3>4. mem'[a] = mem[a - k]
      BY <1>3, <3>3
    <3>. QED
      BY <3>1, <3>2, <3>3, <3>4
  <2>. QED
    BY <1>1, <2>1, <2>2, <2>3, <2>4
<1>6. Stored = [i \in 0 .. program_end + linelen - 1 |->
                  IF i < start THEN mem[i]
                  ELSE IF i < start + linelen THEN mem[txtpos + (i - start)]
                  ELSE mem[i - linelen]]
  BY <1>1, <1>2, <1>4 DEF Stored
<1>7. Stored' = [i \in 0 .. program_end + linelen - 1 |->
                   IF i < start' THEN mem'[i]
                   ELSE IF i < start' + linelen' THEN mem'[txtpos' + (i - start')]
                   ELSE mem'[i - linelen']]
  BY <1>1, <1>2, <1>4 DEF Stored
<1>. QED
  BY <1>5, <1>6, <1>7

LEMMA MergedKeepsStore ==
    ASSUME AnyInv, Merged
    PROVE  Stored' = Stored
<1>1. pc = "shuffle" /\ pc' = "prompt" /\ linelen = 0 /\ mem' = mem /\ program_end' = program_end
      /\ program_end \in Nat /\ start \in Nat
  BY Sizes DEF Merged, ToPrompt, AnyInv, TypeOK
<1>2. StoredLen = program_end /\ StoredLen' = program_end
  BY <1>1 DEF StoredLen
<1>3. Stored' = [i \in 0 .. program_end - 1 |-> mem[i]]
  BY <1>1, <1>2 DEF Stored
<1>4. Stored = [i \in 0 .. program_end - 1 |->
                  IF i < start THEN mem[i]
                  ELSE IF i < start + linelen THEN mem[txtpos + (i - start)]
                  ELSE mem[i - linelen]]
  BY <1>1, <1>2 DEF Stored
<1>5. ASSUME NEW i \in 0 .. program_end - 1
      PROVE  (IF i < start THEN mem[i]
              ELSE IF i < start + linelen THEN mem[txtpos + (i - start)]
              ELSE mem[i - linelen]) = mem[i]
  <2>1. i - linelen = i /\ start + linelen = start
    BY <1>1
  <2>. QED
    BY <2>1
<1>. QED
  BY <1>3, <1>4, <1>5

LEMMA NextKeepsStore ==
    ASSUME AnyInv, [Next]_vars, pc \notin {"numbered", "execute"}, Harmless
    PROVE  Stored' = Stored
<1>1. CASE UNCHANGED vars
  BY <1>1 DEF vars, Stored, StoredLen
<1>2. CASE User
  BY <1>2, UserKeepsStore
<1>3. CASE Code
  <2>1. ~LineEnteredAbove
    BY Sizes DEF LineEnteredAbove, IsFirst, Harmless, AnyInv, TypeOK, Buffer
  <2>2. ~ShuffleOver
    BY DEF ShuffleOver, Harmless, AnyInv, TypeOK
  <2>. QED
    BY <1>3, <2>1, <2>2, LineKeepsStore, ShuffleKeepsStore, MergedKeepsStore
       DEF Code, RunsAway, Merge, MergeAt, DeletePast, ExecuteEnds, ClearProgram, Write, Save, Input
<1>. QED
  BY <1>1, <1>2, <1>3 DEF Next, StaysLost

\* OnlyOverrunsDamage of LineStore.tla for any user: typing, erasing, moving a line and
\* shuffling never change the program, whatever its size, but for a line without a NL
\* below the variables and a merge from below program_end.
THEOREM LineStoreOverruns == Spec => OnlyOverrunsDamage
<1>1. AnyInv /\ [Next]_vars =>
         [pc \notin {"numbered", "execute"} /\ Harmless => Stored' = Stored]_vars
  BY NextKeepsStore
<1>. QED
  BY <1>1, LineStoreAnyUser, PTL DEF Spec, OnlyOverrunsDamage

-----------------------------------------------------------------------------
(* A careful user: a byte stays free between the program and the line.     *)

\* What is known while a careful user types a line: the bytes of the buffer below
\* the position are characters, and the position obeys the limit of getln if the
\* buffer starts below it; if it does not, the line is empty.
Typing ==
    InGetln =>
        /\ Buffer <= txtpos
        /\ \A i \in Buffer .. (txtpos - 1) : mem[i] # NL
        /\ Buffer <= VariablesBegin - 2 => txtpos <= VariablesBegin - 2
        /\ Buffer > VariablesBegin - 2 => txtpos = Buffer

\* And once it has been entered: its NL is the first one in the buffer.
Returned ==
    pc \in {"entered", "answered"} =>
        /\ Buffer <= txtpos
        /\ \A i \in Buffer .. (txtpos - 1) : mem[i] # NL
        /\ mem[txtpos] = NL
        /\ Buffer <= VariablesBegin - 2 => txtpos <= VariablesBegin - 2
        /\ Buffer > VariablesBegin - 2 => txtpos = Buffer

\* The types of TypeOK, with the ranges of a program that stays below the variables.
InBounds ==
    /\ mem \in [Addr -> 0 .. BYTE - 1]
    /\ program_end \in 0 .. VariablesBegin
    /\ txtpos \in Addr
    /\ linenum \in 0 .. LineMod - 1
    /\ linelen \in 0 .. BYTE - 1
    /\ start \in 0 .. VariablesBegin
    /\ pc \in PC
    /\ typed \in Seq(Keys)
    /\ lines \in 0 .. MaxLines

\* The inductive invariant for a careful user.
IInv == InBounds /\ ShuffleRoom /\ Typing /\ Returned /\ Merging /\ BelowVariables

LEMMA IInvTypes == IInv => TypeOK
<1>. SUFFICES ASSUME IInv PROVE TypeOK
  OBVIOUS
<1>1. program_end \in 0 .. MemTop /\ txtpos \in 0 .. MemTop + LN /\ start \in 0 .. MemTop
  BY Sizes DEF IInv, InBounds, Addr
<1>. QED
  BY <1>1 DEF IInv, InBounds, TypeOK

LEMMA IInvIsAny == IInv => AnyInv
<1>. SUFFICES ASSUME IInv PROVE AnyInv
  OBVIOUS
<1>1. /\ program_end \in Nat /\ txtpos \in Nat /\ linelen \in Nat
      /\ Buffer = program_end + LN
  BY Sizes DEF IInv, InBounds, Addr, Buffer
<1>2. InLine
  BY <1>1, Sizes DEF IInv, InLine, Typing, Returned, InGetln
<1>3. Room
  BY <1>1, Sizes DEF IInv, Room, ShuffleRoom, Merging
<1>4. TypingBelowVariables
  BY DEF IInv, TypingBelowVariables, Typing
<1>. QED
  BY <1>2, <1>3, <1>4, IInvTypes DEF IInv, AnyInv

LEMMA CarefulIsNext == [CarefulNext]_vars => [Next]_vars
BY DEF CarefulNext, PersistentNext

LEMMA InBoundsIs ==
    ASSUME TypeOK', program_end' \in 0 .. VariablesBegin, txtpos' \in Addr,
           start' \in 0 .. VariablesBegin
    PROVE  InBounds'
BY DEF TypeOK, InBounds

\* A program that ends below the variables.
LEMMA EndBelow ==
    ASSUME NEW p \in 0 .. VariablesBegin, p < VariablesBegin
    PROVE  p \in 0 .. VariablesBegin - 1
BY Sizes

LEMMA BelowIs ==
    ASSUME NEW p \in 0 .. VariablesBegin - 1
    PROVE  p \in 0 .. VariablesBegin /\ p \in Nat /\ p + 0 < VariablesBegin
BY Sizes

LEMMA ProgramBelow ==
    ASSUME IInv
    PROVE  program_end \in 0 .. VariablesBegin - 1 /\ program_end \in Nat
<1>1. program_end \in Nat /\ linelen \in Nat /\ program_end \in 0 .. VariablesBegin
  BY Sizes DEF IInv, InBounds
<1>2. program_end < VariablesBegin
  BY <1>1, Sizes DEF IInv, BelowVariables, StoredLen
<1>. QED
  BY <1>1, <1>2, EndBelow

\* When getln begins, the buffer is empty.
LEMMA TypingBegins ==
    ASSUME program_end' \in 0 .. VariablesBegin, txtpos' = program_end' + LN
    PROVE  Typing'
<1>1. txtpos' \in Nat /\ Buffer' = txtpos' /\ Buffer' .. (txtpos' - 1) = {}
  BY BufferAddr DEF Buffer
<1>. QED
  BY <1>1 DEF Typing

LEMMA PromptCareful ==
    ASSUME txtpos' = program_end' + LN, pc' \in {"prompt", "input"}, AnyInv',
           program_end' \in 0 .. VariablesBegin - 1, start' \in 0 .. VariablesBegin
    PROVE  IInv'
<1>1. program_end' \in 0 .. VariablesBegin
  BY Sizes
<1>2. Typing'
  BY <1>1, TypingBegins
<1>3. txtpos' \in Addr
  BY <1>1, BufferAddr
<1>4. InBounds'
  BY <1>1, <1>3, InBoundsIs DEF AnyInv
<1>5. BelowVariables'
  BY BelowIs DEF BelowVariables, StoredLen
<1>. QED
  BY <1>2, <1>4, <1>5 DEF AnyInv, IInv, ShuffleRoom, Returned, Merging

\* Once a line is executed, or lost, little has to be known.
LEMMA RestCareful ==
    ASSUME AnyInv', pc' \in {"execute", "lost"}, program_end' \in 0 .. VariablesBegin - 1,
           txtpos' \in Addr, start' \in 0 .. VariablesBegin
    PROVE  IInv'
<1>1. program_end' \in 0 .. VariablesBegin
  BY Sizes
<1>2. InBounds'
  BY <1>1, InBoundsIs DEF AnyInv
<1>3. BelowVariables'
  BY BelowIs DEF BelowVariables, StoredLen
<1>. QED
  BY <1>2, <1>3 DEF AnyInv, IInv, ShuffleRoom, Typing, Returned, Merging, InGetln

LEMMA RangesAreNat ==
    /\ 0 .. MemTop \subseteq Nat /\ 0 .. MemTop + LN \subseteq Nat /\ 0 .. BYTE - 1 \subseteq Nat
    /\ 0 .. VariablesBegin \subseteq Nat /\ Addr \subseteq Nat
BY Sizes DEF Addr

LEMMA BelowTheLine ==
    ASSUME NEW p \in Nat, NEW t \in Nat, NEW l \in Nat, p < t, t + l <= VariablesBegin
    PROVE  p \in 0 .. VariablesBegin /\ t \in Addr /\ p + l < VariablesBegin /\ p < VariablesBegin
BY Sizes DEF Addr

\* While a line is merged, the room below it is what counts.
LEMMA MergingCareful ==
    ASSUME AnyInv', pc' \in {"numbered", "shuffle"}, program_end' < txtpos',
           start' \in 0 .. VariablesBegin
    PROVE  IInv'
<1>1. program_end' \in Nat /\ txtpos' \in Nat /\ linelen' \in Nat /\ txtpos' + linelen' <= VariablesBegin
  BY RangesAreNat DEF AnyInv, TypeOK, Merging
<1>2. /\ program_end' \in 0 .. VariablesBegin /\ txtpos' \in Addr
      /\ program_end' + linelen' < VariablesBegin /\ program_end' < VariablesBegin
  BY <1>1, BelowTheLine
<1>3. InBounds'
  BY <1>2, InBoundsIs DEF AnyInv
<1>4. BelowVariables'
  BY <1>1, <1>2 DEF BelowVariables, StoredLen
<1>. QED
  BY <1>3, <1>4 DEF AnyInv, IInv, ShuffleRoom, Typing, Returned, InGetln

LEMMA TypeCharCareful ==
    ASSUME IInv, NEW c \in Keys, TypeChar(c), MindsTheLimit, AnyInv'
    PROVE  IInv'
<1>1. /\ InGetln /\ InGetln' /\ mem' = [mem EXCEPT ![txtpos] = c] /\ txtpos' = txtpos + 1
      /\ txtpos # VariablesBegin - 2
      /\ UNCHANGED <<program_end, linenum, linelen, start, pc, lines>>
  BY DEF TypeChar, InGetln
<1>2. /\ program_end \in Nat /\ txtpos \in Nat /\ Buffer = program_end + LN /\ Buffer \in Nat
      /\ Buffer' = Buffer /\ mem \in [Addr -> 0 .. BYTE - 1] /\ txtpos \in Addr
  BY <1>1, Sizes DEF IInv, InBounds, Buffer, Addr
<1>2a. c # NL
  BY LineStoreConstants
<1>3. /\ Buffer <= txtpos /\ \A i \in Buffer .. txtpos - 1 : mem[i] # NL
      /\ Buffer <= VariablesBegin - 2 => txtpos <= VariablesBegin - 2
  BY <1>1 DEF IInv, Typing
<1>4. Buffer <= VariablesBegin - 2
  BY <1>1, <1>2, <1>3, Sizes DEF MindsTheLimit
<1>5. txtpos + 1 <= VariablesBegin - 2
  BY <1>1, <1>2, <1>3, <1>4, Sizes
<1>6. \A i \in Buffer .. txtpos : mem'[i] # NL
  BY <1>1, <1>2, <1>2a, <1>3, Sizes DEF Addr
<1>7. Typing'
  BY <1>1, <1>2, <1>3, <1>4, <1>5, <1>6, Sizes DEF Typing
<1>8. txtpos + 1 \in Addr
  BY <1>2, <1>5, Sizes DEF Addr
<1>9. InBounds'
  BY <1>1, <1>8 DEF IInv, InBounds, AnyInv, TypeOK
<1>10. BelowVariables'
  BY <1>1 DEF IInv, BelowVariables, StoredLen
<1>. QED
  BY <1>1, <1>7, <1>9, <1>10 DEF AnyInv, IInv, ShuffleRoom, Returned, Merging, InGetln

LEMMA BackspaceCareful ==
    ASSUME IInv, Backspace, ErasesItsOwn, AnyInv'
    PROVE  IInv'
<1>1. /\ InGetln /\ InGetln' /\ txtpos' = txtpos - 1 /\ txtpos # program_end
      /\ UNCHANGED <<mem, program_end, linenum, linelen, start, pc, lines>>
  BY DEF Backspace, InGetln
<1>2. /\ program_end \in Nat /\ txtpos \in Nat /\ Buffer = program_end + LN /\ Buffer \in Nat
      /\ Buffer' = Buffer /\ txtpos \in Addr
  BY <1>1, Sizes DEF IInv, InBounds, Buffer, Addr
<1>3. Buffer <= txtpos - 1
  BY <1>1, <1>2 DEF ErasesItsOwn
<1>4. Typing'
  BY <1>1, <1>2, <1>3, Sizes DEF IInv, Typing
<1>5. txtpos - 1 \in Addr
  BY <1>2, <1>3, Sizes DEF Addr
<1>6. InBounds'
  BY <1>1, <1>5 DEF IInv, InBounds, AnyInv, TypeOK
<1>7. BelowVariables'
  BY <1>1 DEF IInv, BelowVariables, StoredLen
<1>. QED
  BY <1>1, <1>4, <1>6, <1>7 DEF AnyInv, IInv, ShuffleRoom, Returned, Merging, InGetln

LEMMA EndLineCareful ==
    ASSUME IInv, EndLine, AnyInv'
    PROVE  IInv'
<1>1. /\ InGetln /\ pc' \in {"entered", "answered"} /\ mem' = [mem EXCEPT ![txtpos] = NL]
      /\ UNCHANGED <<program_end, txtpos, linenum, linelen, start, typed>>
  BY DEF EndLine
<1>2. Returned'
  BY <1>1, Sizes DEF IInv, InBounds, Typing, Returned, Buffer, Addr
<1>3. InBounds'
  BY <1>1 DEF IInv, InBounds, AnyInv, TypeOK
<1>4. BelowVariables'
  BY <1>1 DEF IInv, BelowVariables, StoredLen, InGetln
<1>. QED
  BY <1>1, <1>2, <1>3, <1>4 DEF AnyInv, IInv, ShuffleRoom, Typing, Merging, InGetln

LEMMA UppercasedBytes ==
    ASSUME IInv, NEW e
    PROVE  Uppercased(e) \in [Addr -> 0 .. BYTE - 1]
BY UppercasedTypes, IInvTypes

LEMMA MovedUpBytes ==
    ASSUME IInv, NEW m \in [Addr -> 0 .. BYTE - 1], NEW e \in Buffer .. VariablesBegin - 1
    PROVE  /\ MovedTo(e) \in Buffer .. VariablesBegin - 1
           /\ MovedUp(m, e) \in [Addr -> 0 .. BYTE - 1]
BY MovedUpTypes, IInvTypes

\* The moved line starts above the place where it was typed by at least a byte
\* if it has a character.
LEMMA LineMovesUp ==
    ASSUME IInv, pc = "entered", NEW e \in Buffer .. VariablesBegin - 1,
           IsFirst(mem, e, Buffer, {NL}), MovedTo(e) < VariablesBegin - 1
    PROVE  MovedTo(e) >= Buffer + 1
<1>. USE Sizes
<1>1. Buffer \in Nat /\ txtpos \in Nat
  BY DEF IInv, InBounds, Buffer, Addr
<1>2. e <= txtpos
  BY <1>1 DEF IInv, Returned, IsFirst
<1>3. Buffer <= VariablesBegin - 2
  BY <1>1 DEF MovedTo
<1>. QED
  BY <1>1, <1>2, <1>3 DEF IInv, Returned, MovedTo

\* What becomes of a line: executed, refused, or given a header that lies above
\* the program, with a byte between them.
LEMMA LineEnteredMoved ==
    ASSUME IInv, LineEntered
    PROVE  \E e \in Buffer .. VariablesBegin - 1, m \in [Addr -> 0 .. BYTE - 1] :
             /\ IsFirst(mem, e, Buffer, {NL})
             /\ m = MovedUp(Uppercased(e), e)
             /\ \A a \in 0 .. program_end - 1 : m[a] = mem[a]
             /\ linenum' \in 0 .. LineMod - 1
             /\ \/ DirectLine(m)
                \/ BadNumber(m)
                \/ \E t \in 0 .. VariablesBegin - 1 :
                      /\ program_end + LN + 2 <= t /\ MovedTo(e) <= t
                      /\ PutHeader(m, linenum', t, VariablesBegin - 1)
<1>1. PICK e \in Buffer .. VariablesBegin - 1, m \in [Addr -> 0 .. BYTE - 1] :
         /\ IsFirst(mem, e, Buffer, {NL})
         /\ m = MovedUp(Uppercased(e), e)
         /\ MovedTo(e) \in Buffer .. VariablesBegin - 1
         /\ \A a \in 0 .. program_end - 1 : m[a] = mem[a]
         /\ linenum' \in 0 .. LineMod - 1
         /\ \/ DirectLine(m)
            \/ BadNumber(m)
            \/ \E t \in MovedTo(e) + 1 .. VariablesBegin - 1 :
                  PutHeader(m, linenum', t, VariablesBegin - 1)
  BY LineEnteredParts, IInvTypes
<1>2. Buffer \in Nat /\ Buffer = program_end + LN /\ program_end \in Nat
  BY Sizes DEF IInv, InBounds, Buffer
<1>3. ASSUME NEW t \in MovedTo(e) + 1 .. VariablesBegin - 1
      PROVE  program_end + LN + 2 <= t /\ MovedTo(e) <= t /\ t \in 0 .. VariablesBegin - 1
  <2>1. MovedTo(e) < VariablesBegin - 1 /\ pc = "entered"
    BY <1>1, <1>2, Sizes DEF LineEntered
  <2>2. MovedTo(e) >= Buffer + 1
    BY <1>1, <2>1, LineMovesUp
  <2>. QED
    BY <1>1, <1>2, <2>2, Sizes
<1>4. \/ DirectLine(m)
      \/ BadNumber(m)
      \/ \E t \in 0 .. VariablesBegin - 1 :
            /\ program_end + LN + 2 <= t /\ MovedTo(e) <= t
            /\ PutHeader(m, linenum', t, VariablesBegin - 1)
  BY <1>1, <1>3
<1>. QED
  BY <1>1, <1>4

LEMMA LineEnteredCases ==
    ASSUME IInv, LineEntered
    PROVE  \E m \in [Addr -> 0 .. BYTE - 1] :
             /\ \A a \in 0 .. program_end - 1 : m[a] = mem[a]
             /\ linenum' \in 0 .. LineMod - 1
             /\ \/ DirectLine(m)
                \/ BadNumber(m)
                \/ \E t \in 0 .. VariablesBegin - 1 :
                      program_end + LN + 2 <= t /\ PutHeader(m, linenum', t, VariablesBegin - 1)
BY LineEnteredMoved

LEMMA LineEnteredCareful ==
    ASSUME IInv, LineEntered, AnyInv'
    PROVE  IInv'
<1>0. /\ program_end \in 0 .. VariablesBegin - 1 /\ program_end \in Nat
      /\ start \in 0 .. VariablesBegin /\ Buffer \in Addr
  BY ProgramBelow, BufferAddr DEF IInv, InBounds, Buffer
<1>1. PICK m :
         \/ DirectLine(m)
         \/ BadNumber(m)
         \/ \E t \in 0 .. VariablesBegin - 1 :
               program_end + LN + 2 <= t /\ PutHeader(m, linenum', t, VariablesBegin - 1)
  BY LineEnteredCases
<1>2. CASE DirectLine(m) \/ BadNumber(m)
  <2>1. program_end' = program_end /\ start' = start
    BY <1>2 DEF DirectLine, BadNumber
  <2>2. CASE ToPrompt
    BY <1>0, <2>1, <2>2, PromptCareful DEF ToPrompt
  <2>3. CASE pc' = "execute" /\ txtpos' = Buffer
    BY <1>0, <2>1, <2>3, RestCareful
  <2>. QED
    BY <1>2, <2>2, <2>3 DEF DirectLine, BadNumber
<1>4. ASSUME NEW t \in 0 .. VariablesBegin - 1, program_end + LN + 2 <= t,
             PutHeader(m, linenum', t, VariablesBegin - 1)
      PROVE  IInv'
  <2>1. t - (LN + 1) \in Addr /\ t - (LN + 1) >= 0 /\ program_end < t - (LN + 1)
    BY <1>0, <1>4, Sizes DEF Addr
  <2>2. program_end' = program_end /\ txtpos' = t - (LN + 1) /\ start' = start
        /\ pc' \in {"numbered", "lost"}
    BY <1>4, <2>1 DEF PutHeader
  <2>. QED
    BY <1>0, <2>1, <2>2, MergingCareful, RestCareful
<1>. QED
  BY <1>1, <1>2, <1>4

\* A line whose NL lies above the variables is empty: nothing of the program changes.
LEMMA EmptyAbove ==
    ASSUME IInv, LineEnteredAbove
    PROVE  /\ ToPrompt /\ UNCHANGED <<program_end, start, linelen>>
           /\ \A a \in 0 .. program_end - 1 : mem'[a] = mem[a]
<1>1. PICK e \in VariablesBegin .. MemTop - 1 :
         /\ IsFirst(mem, e, Buffer, {NL})
         /\ \E z \in MovedTo(e) .. VariablesBegin - 1 :
               Dispatch(MovedDown(Uppercased(e), e), MovedTo(e), z)
  BY DEF LineEnteredAbove
<1>2. /\ program_end \in 0 .. VariablesBegin - 1 /\ program_end \in Nat
      /\ Buffer = program_end + LN /\ Buffer \in Nat /\ txtpos \in Nat /\ e \in Nat
      /\ mem \in [Addr -> 0 .. BYTE - 1]
  BY <1>1, ProgramBelow, Sizes DEF IInv, InBounds, Buffer, Addr
<1>3. /\ Buffer <= txtpos /\ mem[txtpos] = NL /\ \A i \in Buffer .. txtpos - 1 : mem[i] # NL
      /\ Buffer <= VariablesBegin - 2 => txtpos <= VariablesBegin - 2
      /\ Buffer > VariablesBegin - 2 => txtpos = Buffer
  BY DEF IInv, Returned, LineEnteredAbove
<1>4. e = txtpos
  BY <1>1, <1>2, <1>3 DEF IsFirst
<1>5. e = Buffer
  BY <1>1, <1>2, <1>3, <1>4, Sizes
<1>6. MovedTo(e) = VariablesBegin - 1 /\ VariablesBegin - 1 \in Nat
  BY <1>2, <1>5, Sizes DEF MovedTo
<1>. DEFINE m == MovedDown(Uppercased(e), e)
<1>7. \A a \in Addr : a # VariablesBegin - 1 => m[a] = mem[a]
  <2>1. ASSUME NEW a \in Addr, a # VariablesBegin - 1
        PROVE  m[a] = mem[a]
    <3>1. a \notin MovedTo(e) .. VariablesBegin - 1 /\ a \notin Buffer .. e - 1
      BY <1>2, <1>5, <1>6, <2>1 DEF Addr
    <3>2. Uppercased(e)[a] = mem[a]
      BY <3>1 DEF Uppercased
    <3>. QED
      BY <3>1, <3>2 DEF MovedDown
  <2>. QED
    BY <2>1
<1>8. /\ \A a \in 0 .. program_end - 1 : m[a] = mem[a]
      /\ m[Buffer] = NL
  <2>1. \A a \in 0 .. program_end - 1 : a \in Addr /\ a # VariablesBegin - 1
    BY <1>2, Sizes DEF Addr
  <2>2. Buffer \in Addr /\ Buffer # VariablesBegin - 1
    BY <1>1, <1>2, <1>5, Sizes DEF Addr
  <2>. QED
    BY <1>3, <1>4, <1>5, <1>7, <2>1, <2>2
<1>9. PICK z \in MovedTo(e) .. VariablesBegin - 1 : Dispatch(m, MovedTo(e), z)
  BY <1>1
<1>10. MovedTo(e) \in Nat /\ z \in Nat /\ MovedTo(e) + 1 .. z = {}
  BY <1>6
<1>. HIDE DEF m
<1>11. DirectLine(m) \/ BadNumber(m)
  BY <1>9, <1>10, DispatchCases
<1>. QED
  BY <1>8, <1>11 DEF DirectLine, BadNumber

LEMMA MergeCareful ==
    ASSUME IInv, Merge, AnyInv', program_end' <= program_end, pc' = "shuffle" => txtpos' = txtpos
    PROVE  IInv'
<1>0. /\ program_end \in 0 .. VariablesBegin - 1 /\ program_end \in Nat /\ program_end' \in Nat
      /\ start \in 0 .. VariablesBegin /\ txtpos \in Nat
  BY ProgramBelow, RangesAreNat DEF IInv, InBounds, AnyInv, TypeOK
<1>1. program_end' \in 0 .. VariablesBegin - 1
  BY <1>0, Sizes
<1>2. CASE ToPrompt /\ UNCHANGED start
  BY <1>0, <1>1, <1>2, PromptCareful DEF ToPrompt
<1>3. CASE pc' = "shuffle"
  <2>1. program_end < txtpos
    BY DEF IInv, ShuffleRoom, Merge, MergeAt
  <2>2. program_end' < txtpos'
    BY <1>0, <1>3, <2>1
  <2>3. start' \in 0 .. VariablesBegin
    <3>1. start' \in Nat /\ start' <= program_end'
      BY <1>3, Sizes DEF AnyInv, TypeOK, Merging
    <3>. QED
      BY <1>0, <3>1, Sizes
  <2>. QED
    BY <1>3, <2>2, <2>3, MergingCareful
<1>. QED
  BY <1>2, <1>3 DEF Merge, MergeAt

LEMMA ShuffleCareful ==
    ASSUME IInv, Shuffle, AnyInv'
    PROVE  IInv'
<1>0. PICK k : k = SpaceToMake
  OBVIOUS
<1>1. k \in 0 .. linelen /\ program_end \in Nat /\ txtpos \in Nat /\ linelen \in Nat /\ program_end < txtpos
      /\ start \in Nat /\ start <= program_end /\ txtpos + linelen <= VariablesBegin
  BY <1>0, IInvIsAny, ShuffleRange DEF Shuffle, IInv, ShuffleRoom
<1>2. txtpos' = txtpos + k /\ program_end' = program_end + k /\ pc' = "shuffle" /\ start' = start + k
  BY <1>0 DEF Shuffle
<1>3. program_end' < txtpos' /\ start' \in 0 .. VariablesBegin
  BY <1>1, <1>2, Sizes
<1>. QED
  BY <1>2, <1>3, MergingCareful

LEMMA InitIInv == Init => IInv
<1>. SUFFICES ASSUME Init PROVE IInv
  OBVIOUS
<1>. USE LineStoreConstants DEF Init
<1>1. AnyInv
  BY InitAny
<1>2. InBounds
  BY <1>1 DEF AnyInv, TypeOK, InBounds, Addr
<1>. QED
  BY <1>1, <1>2
     DEF AnyInv, IInv, ShuffleRoom, Typing, Returned, Merging, InGetln, Buffer, BelowVariables, StoredLen

LEMMA NextIInv == IInv /\ [CarefulNext]_vars => IInv'
<1>. SUFFICES ASSUME IInv, [CarefulNext]_vars PROVE IInv'
  OBVIOUS
<1>0. AnyInv'
  BY IInvIsAny, CarefulIsNext, NextAny
<1>1. CASE UNCHANGED vars
  BY <1>1 DEF vars, IInv, InBounds, ShuffleRoom, Typing, Returned, Merging, InGetln, Buffer,
     BelowVariables, StoredLen
<1>2. /\ program_end \in 0 .. VariablesBegin - 1 /\ program_end \in Nat
      /\ start \in 0 .. VariablesBegin /\ txtpos \in Addr
  BY ProgramBelow DEF IInv, InBounds
<1>3. CASE RunsAway
  <2>1. pc' = "lost" /\ UNCHANGED <<mem, program_end, txtpos, linenum, linelen, start, typed>>
    BY <1>3 DEF RunsAway, StoresOutside, ScanRunsAway, MergeRunsAway, SaveRunsAway
  <2>. QED
    BY <1>0, <1>2, <2>1, RestCareful
<1>4. CASE User /\ ErasesItsOwn /\ MindsTheLimit
  BY <1>0, <1>1, <1>3, <1>4, TypeCharCareful, BackspaceCareful, EndLineCareful
     DEF User, Bell, SessionEnds, RunsAway
<1>5. CASE Code
  <2>1. CASE LineAnswered
    BY <1>0, <1>2, <2>1, RestCareful DEF LineAnswered
  <2>2. CASE LineEnteredAbove
    BY <1>0, <1>2, <2>2, EmptyAbove, PromptCareful DEF ToPrompt
  <2>3. CASE Merge
    <3>1. lines' = lines
      BY <1>5 DEF Code
    <3>2. program_end' <= program_end /\ (pc' = "shuffle" => txtpos' = txtpos)
      BY <2>3, <3>1, IInvIsAny, MergeAny
    <3>. QED
      BY <1>0, <2>3, <3>2, MergeCareful
  <2>4. CASE DeletePast \/ Merged \/ ExecuteEnds \/ Save
    BY <1>0, <1>2, <2>4, PromptCareful DEF DeletePast, Merged, ExecuteEnds, Save, ToPrompt
  <2>5. CASE ClearProgram
    <3>1. program_end' = 0 /\ 0 \in 0 .. VariablesBegin - 1
      BY <2>5, Sizes DEF ClearProgram
    <3>. QED
      BY <1>0, <1>2, <2>5, <3>1, PromptCareful DEF ClearProgram, ToPrompt
  <2>6. CASE Write
    BY <1>0, <1>2, <2>6, RestCareful DEF Write
  <2>7. CASE Input
    BY <1>0, <1>2, <2>7, PromptCareful DEF Input, Buffer
  <2>8. ~ShuffleOver
    BY <1>2 DEF ShuffleOver, IInv, ShuffleRoom, InBounds, Addr
  <2>. QED
    BY <1>0, <1>3, <1>5, <2>1, <2>2, <2>3, <2>4, <2>5, <2>6, <2>7, <2>8, LineEnteredCareful, ShuffleCareful
       DEF Code, RunsAway
<1>. QED
  BY <1>1, <1>4, <1>5 DEF CarefulNext, PersistentNext, Next, StaysLost

\* The invariant holds for every careful user.
THEOREM LineStoreInvariant == CarefulSpec => []IInv
BY InitIInv, NextIInv, PTL DEF CarefulSpec

\* ShuffleRoom of LineStore.tla for a careful user: the byte that getln keeps free is
\* enough for every merge.
THEOREM LineStoreShuffleRoom == CarefulSpec => []ShuffleRoom
BY LineStoreInvariant, PTL DEF IInv

\* BelowVariables of LineStore.tla for a careful user: the program, the line that is
\* being merged included, ends below the variables.
THEOREM LineStoreBelowVariables == CarefulSpec => []BelowVariables
BY LineStoreInvariant, PTL DEF IInv

LEMMA CarefulKeepsStore ==
    ASSUME IInv, [CarefulNext]_vars, pc \notin {"numbered", "execute"}
    PROVE  Stored' = Stored
<1>1. AnyInv /\ [Next]_vars /\ program_end \in Nat
  BY IInvIsAny, CarefulIsNext, ProgramBelow
<1>2. CASE LineEnteredAbove
  <2>1. pc # "shuffle"
    BY <1>2 DEF LineEnteredAbove
  <2>2. /\ pc' # "shuffle" /\ program_end' = program_end
        /\ \A a \in 0 .. program_end - 1 : mem'[a] = mem[a]
    BY <1>2, EmptyAbove DEF ToPrompt
  <2>. QED
    BY <1>1, <2>1, <2>2, StoredKept
<1>3. CASE ~LineEnteredAbove
  <2>1. ~ShuffleOver
    BY <1>1 DEF ShuffleOver, IInv, ShuffleRoom, InBounds, Addr
  <2>2. CASE User
    BY <1>1, <2>2, UserKeepsStore
  <2>3. CASE UNCHANGED vars
    BY <2>3 DEF vars, Stored, StoredLen
  <2>4. CASE Code
    BY <1>1, <1>3, <2>1, <2>4, LineKeepsStore, ShuffleKeepsStore, MergedKeepsStore
       DEF Code, RunsAway, Merge, MergeAt, DeletePast, ExecuteEnds, ClearProgram, Write, Save, Input
  <2>. QED
    BY <1>1, <2>2, <2>3, <2>4 DEF Next, StaysLost
<1>. QED
  BY <1>2, <1>3

\* StoreStable of LineStore.tla for a careful user: only merging and executing change
\* the program, whatever its size and however little room is left.
THEOREM LineStoreStable == CarefulSpec => StoreStable
<1>1. IInv /\ [CarefulNext]_vars => [pc \notin {"numbered", "execute"} => Stored' = Stored]_vars
  BY CarefulKeepsStore
<1>. QED
  BY <1>1, LineStoreInvariant, PTL DEF CarefulSpec, StoreStable

-----------------------------------------------------------------------------
(* The line that getln returns is the line that was typed.                 *)

\* The characters typed lie in the buffer, up to the position.
InBuffer ==
    pc \in {"prompt", "input", "entered", "answered"} =>
        /\ txtpos = Buffer + Len(typed)
        /\ \A i \in 1 .. Len(typed) : mem[Buffer + i - 1] = typed[i]

LEMMA BufferTypes ==
    ASSUME IInv
    PROVE  /\ Buffer \in Nat /\ Buffer = program_end + LN /\ program_end \in Nat /\ txtpos \in Nat /\ txtpos \in Addr
           /\ typed \in Seq(Keys) /\ Len(typed) \in Nat /\ mem \in [Addr -> 0 .. BYTE - 1]
<1>1. InBounds
  BY DEF IInv
<1>2. typed \in Seq(Keys) /\ mem \in [Addr -> 0 .. BYTE - 1] /\ txtpos \in Addr /\ program_end \in 0 .. VariablesBegin
  BY <1>1 DEF InBounds
<1>3. Len(typed) \in Nat
  BY <1>2
<1>4. program_end \in Nat /\ txtpos \in Nat
  BY <1>2, Sizes DEF Addr
<1> QED
  BY <1>2, <1>3, <1>4, Sizes DEF Buffer

\* getln begins with nothing typed.
LEMMA InBufferBegins ==
    ASSUME program_end' \in Nat, txtpos' = program_end' + LN, typed' = <<>>
    PROVE  InBuffer'
<1>0. Len(typed') = 0
  OBVIOUS
<1>1. Buffer' = program_end' + LN /\ program_end' + LN = program_end' + LN + 0
  BY Sizes DEF Buffer
<1>2. txtpos' = Buffer' + Len(typed')
  BY <1>0, <1>1
<1>3. \A i \in 1 .. Len(typed') : mem'[Buffer' + i - 1] = typed'[i]
  BY <1>0
<1> QED
  BY <1>2, <1>3 DEF InBuffer

LEMMA InBufferToPrompt ==
    ASSUME IInv', ToPrompt
    PROVE  InBuffer'
<1>1. program_end' \in Nat
  BY Sizes DEF IInv, InBounds
<1> QED
  BY <1>1, InBufferBegins DEF ToPrompt

LEMMA AllButLast ==
    ASSUME NEW s \in Seq(Keys), Len(s) >= 1
    PROVE  LET t == SubSeq(s, 1, Len(s) - 1)
           IN  Len(t) = Len(s) - 1 /\ \A i \in 1 .. Len(s) - 1 : t[i] = s[i]
<1> DEFINE n == Len(s) - 1
           t == SubSeq(s, 1, n)
<1>1. n \in Int /\ 1 \in Int /\ 0 <= n /\ \A i \in 1 .. n : s[i] \in Keys
  OBVIOUS
<1> HIDE DEF n
<1>2. Len(t) = (IF 1 <= n THEN n - 1 + 1 ELSE 0) /\ \A i \in 1 .. n - 1 + 1 : t[i] = s[1 + i - 1]
  BY <1>1, SubSeqProperties
<1> HIDE DEF t
<1>3. Len(t) = n /\ n - 1 + 1 = n /\ \A i \in 1 .. n : 1 + i - 1 = i
  BY <1>1, <1>2
<1>4. \A i \in 1 .. n : t[i] = s[i]
  BY <1>2, <1>3
<1> QED
  BY <1>3, <1>4 DEF n, t

LEMMA InBufferUser ==
    ASSUME IInv, InBuffer, User, ErasesItsOwn
    PROVE  InBuffer'
<1>1. /\ Buffer \in Nat /\ program_end \in Nat /\ txtpos \in Nat /\ txtpos \in Addr /\ Buffer = program_end + LN
      /\ typed \in Seq(Keys) /\ Len(typed) \in Nat /\ mem \in [Addr -> 0 .. BYTE - 1]
  BY BufferTypes
<1>2. InGetln => /\ txtpos = Buffer + Len(typed)
                 /\ \A i \in 1 .. Len(typed) : mem[Buffer + i - 1] = typed[i]
  BY DEF InBuffer, InGetln
<1>3. ASSUME NEW c \in Keys, TypeChar(c) PROVE InBuffer'
  <2>1. InGetln /\ mem' = [mem EXCEPT ![txtpos] = c] /\ txtpos' = txtpos + 1 /\ typed' = Append(typed, c)
        /\ program_end' = program_end
    BY <1>3 DEF TypeChar
  <2>2. Buffer' = Buffer /\ Len(typed') = Len(typed) + 1 /\ typed'[Len(typed) + 1] = c
        /\ \A i \in 1 .. Len(typed) : typed'[i] = typed[i]
    BY <1>1, <2>1 DEF Buffer
  <2>3. ASSUME NEW i \in 1 .. Len(typed) + 1 PROVE mem'[Buffer + i - 1] = typed'[i]
    <3>1. CASE i = Len(typed) + 1
      <4>1. Buffer + i - 1 = txtpos
        BY <1>1, <1>2, <2>1, <3>1
      <4> QED
        BY <1>1, <2>1, <2>2, <3>1, <4>1
    <3>2. CASE i # Len(typed) + 1
      <4>1. i \in 1 .. Len(typed) /\ Buffer + i - 1 \in Addr /\ Buffer + i - 1 # txtpos
        <5>1. PICK L, B : L = Len(typed) /\ B = Buffer
          OBVIOUS
        <5>2. L \in Nat /\ B \in Nat /\ txtpos = B + L /\ i \in 1 .. L + 1 /\ i # L + 1 /\ txtpos < MemTop /\ MemTop \in Nat
          BY <1>1, <1>2, <2>1, <3>2, <5>1, Sizes DEF Addr
        <5>3. i \in 1 .. L /\ B + i - 1 \in 0 .. MemTop - 1 /\ B + i - 1 # txtpos
          BY <5>2
        <5> QED
          BY <5>1, <5>3 DEF Addr
      <4>2. mem'[Buffer + i - 1] = mem[Buffer + i - 1]
        BY <1>1, <2>1, <4>1
      <4> QED
        BY <1>2, <2>1, <2>2, <4>1, <4>2
    <3> QED
      BY <3>1, <3>2
  <2>4. txtpos' = Buffer' + Len(typed')
    BY <1>1, <1>2, <2>1, <2>2
  <2> QED
    BY <2>2, <2>3, <2>4 DEF InBuffer
<1>4. CASE Bell \/ SessionEnds
  BY <1>4 DEF Bell, SessionEnds, vars, InBuffer, Buffer
<1>5. CASE Backspace
  <2>1. InGetln /\ mem' = mem /\ txtpos' = txtpos - 1 /\ program_end' = program_end /\ InGetln' /\ Buffer' = Buffer
    BY <1>5 DEF Backspace, InGetln, Buffer
  <2>2. Len(typed) >= 1
    BY <1>1, <1>2, <2>1 DEF ErasesItsOwn
  <2>3. typed # <<>>
    BY <2>2
  <2>4. typed' = SubSeq(typed, 1, Len(typed) - 1)
    BY <1>5, <2>3 DEF Backspace
  <2>5. Len(typed') = Len(typed) - 1 /\ \A i \in 1 .. Len(typed) - 1 : typed'[i] = typed[i]
    BY <1>1, <2>2, <2>4, AllButLast
  <2>6. txtpos' = Buffer + Len(typed')
    BY <1>1, <1>2, <2>1, <2>5
  <2> QED
    BY <1>1, <1>2, <2>1, <2>5, <2>6, SMTT(30) DEF InBuffer
<1>6. CASE EndLine
  <2>1. InGetln /\ mem' = [mem EXCEPT ![txtpos] = NL] /\ txtpos' = txtpos /\ typed' = typed /\ Buffer' = Buffer
    BY <1>6 DEF EndLine, Buffer
  <2>2. ASSUME NEW i \in 1 .. Len(typed) PROVE mem'[Buffer + i - 1] = typed[i]
    <3>1. Buffer + i - 1 # txtpos /\ Buffer + i - 1 \in Addr
      BY <1>1, <1>2, <2>1, Sizes DEF Addr
    <3> QED
      BY <1>1, <1>2, <2>1, <3>1
  <2> QED
    BY <1>2, <2>1, <2>2 DEF InBuffer
<1>7. CASE StoresOutside
  BY <1>7 DEF StoresOutside, InBuffer
<1> QED
  BY <1>3, <1>4, <1>5, <1>6, <1>7 DEF User

LEMMA InBufferCode ==
    ASSUME IInv, IInv', Code
    PROVE  InBuffer'
<1>1. CASE LineEntered
  <2>1. PICK m \in [Addr -> 0 .. BYTE - 1] :
           \/ DirectLine(m)
           \/ BadNumber(m)
           \/ \E t \in 0 .. VariablesBegin - 1 :
                 program_end + LN + 2 <= t /\ PutHeader(m, linenum', t, VariablesBegin - 1)
    BY <1>1, LineEnteredCases
  <2>2. ToPrompt \/ pc' \in {"execute", "numbered", "lost"}
    BY <2>1 DEF DirectLine, BadNumber, PutHeader
  <2> QED
    BY <2>2, InBufferToPrompt DEF InBuffer
<1>2. CASE LineAnswered \/ RunsAway \/ Write
  BY <1>2 DEF LineAnswered, RunsAway, StoresOutside, ScanRunsAway, MergeRunsAway, SaveRunsAway, Write, InBuffer
<1>3. CASE Merge
  BY <1>3, InBufferToPrompt DEF Merge, MergeAt, InBuffer
<1>4. CASE Shuffle \/ ShuffleOver
  BY <1>4 DEF Shuffle, ShuffleOver, InBuffer
<1>7. CASE LineEnteredAbove
  BY <1>7, EmptyAbove, InBufferToPrompt
<1>5. CASE DeletePast \/ Merged \/ ExecuteEnds \/ ClearProgram \/ Save
  BY <1>5, InBufferToPrompt DEF DeletePast, Merged, ExecuteEnds, ClearProgram, Save
<1>6. CASE Input
  <2>1. program_end' \in Nat /\ txtpos' = program_end' + LN /\ typed' = <<>>
    BY <1>6, BufferTypes DEF Input, Buffer
  <2> QED
    BY <2>1, InBufferBegins
<1> QED
  BY <1>1, <1>2, <1>3, <1>4, <1>5, <1>6, <1>7 DEF Code, RunsAway

LEMMA TypedInvariant == CarefulSpec => []InBuffer
<1>1. Init => InBuffer
  <2> SUFFICES ASSUME Init PROVE InBuffer
    OBVIOUS
  <2>1. Len(typed) = 0 /\ Buffer = 0 + LN /\ txtpos = LN
    BY Sizes DEF Init, Buffer
  <2> QED
    BY <2>1, Sizes DEF InBuffer
<1>2. IInv /\ IInv' /\ InBuffer /\ [CarefulNext]_vars => InBuffer'
  <2> SUFFICES ASSUME IInv, IInv', InBuffer, [CarefulNext]_vars PROVE InBuffer'
    OBVIOUS
  <2>1. CASE UNCHANGED vars
    BY <2>1 DEF vars, InBuffer, Buffer
  <2>2. CASE User /\ ErasesItsOwn
    BY <2>2, InBufferUser
  <2>3. CASE Code
    BY <2>3, InBufferCode
  <2> QED
    BY <2>1, <2>2, <2>3 DEF CarefulNext, PersistentNext, Next, StaysLost
<1> QED
  BY <1>1, <1>2, LineStoreInvariant, PTL DEF CarefulSpec

\* LineIsTyped of LineStore.tla for every memory size and every line of a user who
\* erases only what he typed: what getln leaves in the buffer is what was typed and
\* not erased, and the NL is behind it.
THEOREM LineStoreLineIsTyped == CarefulSpec => []LineIsTyped
<1>1. IInv /\ InBuffer => LineIsTyped
  BY DEF IInv, Returned, InBuffer, LineIsTyped
<1> QED
  BY <1>1, LineStoreInvariant, TypedInvariant, PTL

\* The NL that ends the line is behind what was typed.
LEMMA TypedLineEnds ==
    ASSUME IInv, InBuffer, pc = "entered", NEW e \in Buffer .. VariablesBegin - 1, IsFirst(mem, e, Buffer, {NL})
    PROVE  e = Buffer + Len(typed)
<1> DEFINE L == Len(typed)
<1>1. /\ Buffer \in Nat /\ program_end \in Nat /\ txtpos \in Nat /\ txtpos \in Addr
      /\ typed \in Seq(Keys) /\ L \in Nat /\ mem \in [Addr -> 0 .. BYTE - 1]
  BY BufferTypes
<1>2. /\ txtpos = Buffer + L /\ \A i \in 1 .. L : mem[Buffer + i - 1] = typed[i]
  BY DEF InBuffer
<1>3. mem[Buffer + L] = NL
  BY <1>2 DEF IInv, Returned
<1>5. mem[e] = NL /\ \A i \in Buffer .. e - 1 : mem[i] # NL
  BY DEF IsFirst
<1>6. ~(Buffer + L < e)
  BY <1>1, <1>3, <1>5
<1>7. ~(e < Buffer + L)
  <2> SUFFICES ASSUME e < Buffer + L PROVE FALSE
    OBVIOUS
  <2>1. e - Buffer + 1 \in 1 .. L /\ Buffer + (e - Buffer + 1) - 1 = e
    BY <1>1
  <2>2. mem[e] = typed[e - Buffer + 1]
    BY <1>2, <2>1
  <2>3. typed[e - Buffer + 1] \in Keys
    BY <1>1, <2>1
  <2> QED
    BY <1>5, <2>2, <2>3, LineStoreConstants
<1> QED
  BY <1>1, <1>6, <1>7

\* A short line, moved up, is still where it was typed.
LEMMA CopyAbove ==
    ASSUME IInv, InBuffer, LineEntered, 2 * (Len(typed) + 1) <= VariablesBegin - Buffer, pc' = "execute"
    PROVE  /\ mem'[Buffer + Len(typed)] = NL
           /\ \A i \in 1 .. Len(typed) :
                 mem'[Buffer + i - 1] \in {typed[i]} \cup (IF typed[i] = LOWER THEN {UPPER} ELSE {})
<1> DEFINE L == Len(typed)
<1>1. /\ Buffer \in Nat /\ program_end \in Nat /\ txtpos \in Nat /\ txtpos \in Addr
      /\ typed \in Seq(Keys) /\ L \in Nat /\ mem \in [Addr -> 0 .. BYTE - 1]
  BY BufferTypes
<1>2. /\ txtpos = Buffer + L /\ \A i \in 1 .. L : mem[Buffer + i - 1] = typed[i]
  BY DEF InBuffer, LineEntered
<1>3. mem[Buffer + L] = NL
  BY <1>2 DEF IInv, Returned, LineEntered
<1>4. PICK e \in Buffer .. VariablesBegin - 1 :
         /\ IsFirst(mem, e, Buffer, {NL})
         /\ Dispatch(MovedUp(Uppercased(e), e), MovedTo(e), VariablesBegin - 1)
  BY DEF LineEntered
<1>5. e = Buffer + L
  BY <1>4, TypedLineEnds DEF LineEntered
<1>6. mem' = MovedUp(Uppercased(e), e)
  <2>1. pc' \notin {"prompt", "numbered", "lost"}
    OBVIOUS
  <2> QED
    BY <1>4, <2>1, Zenon DEF Dispatch, DirectLine, BadNumber, PutHeader, ToPrompt
<1>7. ASSUME NEW a \in Buffer .. Buffer + L PROVE mem'[a] = Uppercased(e)[a] /\ a \in Addr
  <2>1. a \in Addr /\ a \notin MovedTo(e) .. VariablesBegin - 1
    BY <1>1, <1>5, Sizes DEF MovedTo, Addr
  <2> QED
    BY <1>6, <2>1 DEF MovedUp
<1>8. \A a \in Addr : Uppercased(e)[a] = mem[a] \/ (mem[a] = LOWER /\ Uppercased(e)[a] = UPPER /\ a \in Buffer .. e - 1)
  BY DEF Uppercased
<1>9. mem'[Buffer + L] = NL
  <2>1. Buffer + L \in Buffer .. Buffer + L /\ Buffer + L \notin Buffer .. e - 1
    BY <1>1, <1>5
  <2> QED
    BY <1>3, <1>7, <1>8, <2>1
<1>10. ASSUME NEW i \in 1 .. L
       PROVE  mem'[Buffer + i - 1] \in {typed[i]} \cup (IF typed[i] = LOWER THEN {UPPER} ELSE {})
  <2>1. Buffer + i - 1 \in Buffer .. Buffer + L
    BY <1>1
  <2> QED
    BY <1>2, <1>7, <1>8, <2>1
<1> QED
  BY <1>9, <1>10

\* DirectIntact of LineStore.tla for a careful user, every memory size and every line
\* of at most half of the free memory: the statements executed are those typed.
THEOREM LineStoreDirectIntact == CarefulSpec => DirectIntact
<1>1. ASSUME IInv, InBuffer, [CarefulNext]_vars, pc = "entered", pc' = "execute",
             2 * (Len(typed) + 1) <= VariablesBegin - Buffer
      PROVE  /\ mem'[Buffer + Len(typed)] = NL
             /\ \A i \in 1 .. Len(typed) :
                   mem'[Buffer + i - 1] \in {typed[i]} \cup (IF typed[i] = LOWER THEN {UPPER} ELSE {})
  <2>0. ~LineEnteredAbove
    BY <1>1, EmptyAbove DEF ToPrompt
  <2>1. LineEntered
    BY <1>1, <2>0
       DEF CarefulNext, PersistentNext, Next, User, TypeChar, StoresOutside, Bell, SessionEnds, Backspace,
           EndLine, InGetln, Code, LineAnswered, ScanRunsAway, Merge, MergeAt, DeletePast, MergeRunsAway,
           Shuffle, ShuffleOver, Merged, ExecuteEnds, ClearProgram, Write, Save, SaveRunsAway, Input,
           StaysLost, vars
  <2> QED
    BY <1>1, <2>1, CopyAbove
<1> QED
  BY <1>1, LineStoreInvariant, TypedInvariant, PTL DEF CarefulSpec, DirectIntact

-----------------------------------------------------------------------------
(* Line numbers in memory.                                                 *)

\* v[i] is the number that the bytes of m from a + i on represent.
NumRec(m, a, v) ==
    /\ v \in [0 .. LN -> Nat]
    /\ v[LN] = 0
    /\ \A i \in 0 .. LN - 1 : v[i] = m[a + i] + BYTE * v[i + 1]

\* One more byte makes a number again.
LEMMA Digit ==
    ASSUME NEW x \in Nat, NEW c \in 0 .. BYTE - 1
    PROVE  c + BYTE * x \in Nat
BY Sizes

\* The recursive function in NumAt has a solution.
LEMMA NumAtRec ==
    ASSUME NEW m, NEW a, \A i \in 0 .. LN - 1 : m[a + i] \in 0 .. BYTE - 1
    PROVE  \E v : NumRec(m, a, v) /\ NumAt(m, a) = v[0]
<1>0. LN \in Nat /\ LN \in 0 .. LN /\ 0 \in 0 .. LN
  BY Sizes
<1> DEFINE Eq(v) == v = [i \in 0 .. LN |-> IF i = LN THEN 0 ELSE m[a + i] + BYTE * v[i + 1]]
<1>1. PICK base : base = [i \in 0 .. LN |-> 0]
  OBVIOUS
<1>2. PICK jump : jump = [i \in 0 .. LN |-> i + 1]
  OBVIOUS
<1>3. PICK step : step = [i \in 0 .. LN |-> [x \in Nat |-> IF i = LN THEN 0 ELSE m[a + i] + BYTE * x]]
  OBVIOUS
<1>4. base \in [0 .. LN -> Nat] /\ jump \in [0 .. LN -> Int]
  BY <1>0, <1>1, <1>2
<1>5. step \in [0 .. LN -> [Nat -> Nat]]
  <2>1. ASSUME NEW i \in 0 .. LN, NEW x \in Nat
        PROVE  (IF i = LN THEN 0 ELSE m[a + i] + BYTE * x) \in Nat
    <3>1. CASE i = LN
      BY <3>1
    <3>2. CASE i # LN
      <4>1. m[a + i] \in 0 .. BYTE - 1
        BY <1>0, <3>2
      <4> QED
        BY <3>2, <4>1, Digit
    <3> QED
      BY <3>1, <3>2
  <2> QED
    BY <1>3, <2>1
<1>6. PICK g : g \in [0 .. LN -> Nat] /\ Climbs(g, LN, base, step, jump)
  BY <1>0, <1>4, <1>5, JumpsExist
<1>7. ASSUME NEW i \in 0 .. LN
      PROVE  g[i] = IF i = LN THEN 0 ELSE m[a + i] + BYTE * g[i + 1]
  <2>1. g[i] = IF jump[i] \in i + 1 .. LN THEN step[i][g[jump[i]]] ELSE base[i]
    BY <1>6 DEF Climbs
  <2>2. CASE i = LN
    <3>1. jump[i] = i + 1 /\ i + 1 \notin i + 1 .. LN
      BY <1>0, <1>2, <2>2
    <3> QED
      BY <1>1, <2>1, <2>2, <3>1
  <2>3. CASE i # LN
    <3>1. jump[i] = i + 1 /\ i + 1 \in i + 1 .. LN /\ i + 1 \in 0 .. LN
      BY <1>0, <1>2, <2>3
    <3>2. g[i + 1] \in Nat
      BY <1>6, <3>1
    <3> QED
      BY <1>3, <2>1, <2>3, <3>1, <3>2
  <2> QED
    BY <2>2, <2>3
<1>8. g = [i \in 0 .. LN |-> g[i]]
  BY <1>6
<1>9. \E v : Eq(v)
  <2>1. Eq(g)
    BY <1>7, <1>8
  <2> QED
    BY <2>1
<1>10. PICK v : v = CHOOSE w : Eq(w)
  OBVIOUS
<1>11. Eq(v)
  BY <1>9, <1>10
<1>12. NumAt(m, a) = v[0]
  BY <1>10 DEF NumAt
<1>13. \A i \in 0 .. LN : v[i] = IF i = LN THEN 0 ELSE m[a + i] + BYTE * v[i + 1]
  BY <1>11
<1>14. \A i \in 0 .. LN : v[i] = g[i]
  <2> DEFINE T == {i \in 0 .. LN : v[i] = g[i]}
  <2>1. ASSUME NEW i \in 0 .. LN, \A j \in i + 1 .. LN : j \in T
        PROVE  i \in T
    <3>1. CASE i = LN
      BY <1>7, <1>13, <3>1
    <3>2. CASE i # LN
      <4>1. i + 1 \in i + 1 .. LN
        BY <1>0, <3>2
      <4>2. v[i + 1] = g[i + 1]
        BY <2>1, <4>1
      <4> QED
        BY <1>7, <1>13, <3>2, <4>2
    <3> QED
      BY <3>1, <3>2
  <2> HIDE DEF T
  <2>2. 0 .. LN \subseteq T
    BY <1>0, <2>1, DownFrom
  <2> QED
    BY <2>2 DEF T
<1>15. NumRec(m, a, g)
  <2>1. ASSUME NEW i \in 0 .. LN - 1 PROVE g[i] = m[a + i] + BYTE * g[i + 1]
    BY <1>0, <1>7
  <2>2. g[LN] = 0
    BY <1>0, <1>7
  <2> QED
    BY <1>6, <2>1, <2>2 DEF NumRec
<1> QED
  BY <1>0, <1>12, <1>14, <1>15

\* The LINENUM of m at a is made of bytes, and w has the same at b.
SameNum(m, a, w, b) ==
    /\ \A i \in 0 .. LN - 1 : m[a + i] \in 0 .. BYTE - 1
    /\ \A i \in 0 .. LN - 1 : w[b + i] = m[a + i]

\* Two copies of the same bytes represent the same number.
LEMMA NumAtCopied ==
    ASSUME NEW m, NEW a, NEW w, NEW b, SameNum(m, a, w, b)
    PROVE  NumAt(w, b) = NumAt(m, a) /\ NumAt(m, a) \in Nat
<1>m. \A i \in 0 .. LN - 1 : m[a + i] \in 0 .. BYTE - 1
  BY DEF SameNum
<1>w. \A i \in 0 .. LN - 1 : w[b + i] = m[a + i]
  BY DEF SameNum
<1>0. LN \in Nat /\ 0 \in 0 .. LN
  BY Sizes
<1>1. PICK v : NumRec(m, a, v) /\ NumAt(m, a) = v[0]
  BY ONLY <1>m, NumAtRec
<1>2. \A i \in 0 .. LN - 1 : w[b + i] \in 0 .. BYTE - 1
  BY <1>m, <1>w
<1>3. PICK u : NumRec(w, b, u) /\ NumAt(w, b) = u[0]
  BY ONLY <1>2, NumAtRec
<1> DEFINE T == {i \in 0 .. LN : v[i] = u[i]}
<1>4. ASSUME NEW i \in 0 .. LN, \A j \in i + 1 .. LN : j \in T
      PROVE  i \in T
  <2>1. CASE i = LN
    BY <1>1, <1>3, <2>1 DEF NumRec
  <2>2. CASE i # LN
    <3>1. i + 1 \in i + 1 .. LN /\ i \in 0 .. LN - 1
      BY <1>0, <2>2
    <3>2. v[i + 1] = u[i + 1]
      BY <1>4, <3>1
    <3>3. v[i] = m[a + i] + BYTE * v[i + 1] /\ u[i] = w[b + i] + BYTE * u[i + 1]
      BY <1>1, <1>3, <3>1 DEF NumRec
    <3> QED
      BY <1>w, <3>1, <3>2, <3>3
  <2> QED
    BY <2>1, <2>2
<1> HIDE DEF T
<1>5. 0 .. LN \subseteq T
  BY <1>0, <1>4, DownFrom
<1> QED
  BY <1>0, <1>1, <1>3, <1>5 DEF T, NumRec

\* Quotient and residue make up the number.
LEMMA DivMod ==
    ASSUME NEW x \in Nat, NEW M \in Nat \ {0}
    PROVE  x \div M \in Nat /\ x % M \in 0 .. M - 1 /\ x = M * (x \div M) + (x % M)
<1>1. x = M * (x \div M) + (x % M)
  OBVIOUS
<1>2. x \div M \in Nat /\ x % M \in 0 .. M - 1
  BY Quotient, Residue
<1> QED
  BY <1>1, <1>2

\* The multiples of M are M apart.
LEMMA NextMultiple ==
    ASSUME NEW M \in Nat, NEW p \in Nat, NEW q \in Nat, p < q
    PROVE  M * p + M <= M * q
<1>1. PICK k \in Nat : q = p + 1 + k
  <2>1. q - p - 1 \in Nat /\ q = p + 1 + (q - p - 1)
    OBVIOUS
  <2> QED
    BY <2>1
<1>2. M * q = M * p + M + M * k
  BY <1>1
<1>3. M * k \in Nat /\ M * p \in Nat
  OBVIOUS
<1> QED
  BY <1>2, <1>3

\* The quotient is unique.
LEMMA QuotientIs ==
    ASSUME NEW M \in Nat \ {0}, NEW q \in Nat, NEW r \in 0 .. M - 1
    PROVE  /\ M * q + r \in Nat
           /\ (M * q + r) \div M = q
           /\ (M * q + r) % M = r
<1>0. M * q \in Nat
  OBVIOUS
<1>1. PICK x : x = M * q + r
  OBVIOUS
<1>2. x \in Nat
  BY <1>0, <1>1
<1>3. PICK d \in Nat, e \in 0 .. M - 1 : x = M * d + e /\ d = x \div M /\ e = x % M
  BY <1>2, DivMod
<1>4. ~(d < q)
  <2>1. d < q => M * d + M <= M * q
    BY NextMultiple
  <2>2. M * d \in Nat
    OBVIOUS
  <2>3. PICK A, B : A = M * d /\ B = M * q
    OBVIOUS
  <2> QED
    BY <1>0, <1>1, <1>3, <2>1, <2>2, <2>3
<1>5. ~(q < d)
  <2>1. q < d => M * q + M <= M * d
    BY NextMultiple
  <2>2. M * d \in Nat
    OBVIOUS
  <2>3. PICK A, B : A = M * d /\ B = M * q
    OBVIOUS
  <2> QED
    BY <1>0, <1>1, <1>3, <2>1, <2>2, <2>3
<1>6. d = q
  BY <1>4, <1>5
<1>7. e = r
  BY <1>0, <1>1, <1>3, <1>6
<1> QED
  BY <1>1, <1>2, <1>3, <1>6, <1>7

\* Dividing twice is dividing by the product.
LEMMA DivTwice ==
    ASSUME NEW x \in Nat, NEW A \in Nat \ {0}, NEW B \in Nat \ {0}
    PROVE  (x \div A) \div B = x \div (B * A)
<1>1. PICK q \in Nat, r \in 0 .. A - 1 : x = A * q + r /\ q = x \div A
  BY DivMod
<1>2. PICK d \in Nat, e \in 0 .. B - 1 : q = B * d + e /\ d = q \div B
  BY DivMod
<1>3. x = (B * A) * d + (A * e + r)
  <2>1. A * (B * d + e) = A * (B * d) + A * e
    OBVIOUS
  <2>2. A * (B * d) = (B * A) * d
    OBVIOUS
  <2>3. A * e \in Nat /\ (B * A) * d \in Nat
    OBVIOUS
  <2>4. PICK P, Q : P = A * e /\ Q = (B * A) * d
    OBVIOUS
  <2>5. x = Q + P + r
    BY <1>1, <1>2, <2>1, <2>2, <2>4
  <2> QED
    BY <2>3, <2>4, <2>5
<1>4. A * e + r \in 0 .. (B * A) - 1 /\ B * A \in Nat \ {0}
  <2>1. A * e + A <= A * B
    BY NextMultiple
  <2>2. A * e \in Nat /\ A * B \in Nat \ {0} /\ B * A = A * B
    OBVIOUS
  <2>3. PICK P, Q : P = A * e /\ Q = A * B
    OBVIOUS
  <2> QED
    BY <2>1, <2>2, <2>3
<1>5. PICK P, Q : P = B * A /\ Q = A * e + r
  OBVIOUS
<1>6. (P * d + Q) \div P = d
  BY <1>4, <1>5, QuotientIs
<1> QED
  BY <1>1, <1>2, <1>3, <1>5, <1>6

\* The number whose bytes a header holds.
LEMMA NumAtHeader ==
    ASSUME NEW n \in 0 .. LineMod - 1, NEW m, NEW a,
           \A i \in 0 .. LN - 1 : m[a + i] = (n \div BYTE ^ i) % BYTE
    PROVE  NumAt(m, a) = n
<1>0. /\ LN \in Nat /\ 0 \in 0 .. LN /\ n \in Nat /\ BYTE \in Nat \ {0} /\ n < BYTE ^ LN
      /\ \A i \in 0 .. LN : BYTE ^ i \in Nat \ {0}
      /\ BYTE ^ 0 = 1 /\ \A i \in 0 .. LN - 1 : BYTE ^ (i + 1) = BYTE * BYTE ^ i
  BY LineStoreConstants, LineModNat DEF LineMod
<1>1. \A i \in 0 .. LN - 1 : m[a + i] \in 0 .. BYTE - 1
  <2> TAKE i \in 0 .. LN - 1
  <2>1. BYTE ^ i \in Nat \ {0}
    BY <1>0
  <2>2. n \div BYTE ^ i \in Nat
    BY <1>0, <2>1, DivMod
  <2>3. (n \div BYTE ^ i) % BYTE \in 0 .. BYTE - 1
    BY <1>0, <2>2, DivMod
  <2> QED
    BY <2>3
<1>2. PICK v : NumRec(m, a, v) /\ NumAt(m, a) = v[0]
  BY <1>1, NumAtRec
<1> DEFINE T == {i \in 0 .. LN : v[i] = n \div BYTE ^ i}
<1>3. ASSUME NEW i \in 0 .. LN, \A j \in i + 1 .. LN : j \in T
      PROVE  i \in T
  <2>0. BYTE ^ i \in Nat \ {0}
    BY <1>0
  <2>1. CASE i = LN
    <3>1. PICK M : M = BYTE ^ i
      OBVIOUS
    <3>2. M \in Nat \ {0} /\ n < M
      BY <1>0, <2>0, <2>1, <3>1
    <3>3. M * 0 + n = n /\ n \in 0 .. M - 1
      BY <1>0, <3>2
    <3>4. n \div M = 0
      BY <3>2, <3>3, QuotientIs
    <3> QED
      BY <1>2, <2>1, <3>1, <3>4 DEF NumRec
  <2>2. CASE i # LN
    <3>1. i + 1 \in i + 1 .. LN /\ i \in 0 .. LN - 1
      BY <1>0, <2>2
    <3>2. v[i + 1] = n \div BYTE ^ (i + 1)
      BY <1>3, <3>1
    <3>3. v[i] = ((n \div BYTE ^ i) % BYTE) + BYTE * v[i + 1]
      BY <1>2, <3>1 DEF NumRec
    <3>4. PICK x : x = n \div BYTE ^ i
      OBVIOUS
    <3>5. x \in Nat
      BY <1>0, <2>0, <3>4, DivMod
    <3>6. v[i + 1] = x \div BYTE
      <4>1. PICK M : M = BYTE ^ i
        OBVIOUS
      <4>2. M \in Nat \ {0} /\ BYTE ^ (i + 1) = BYTE * M
        BY <1>0, <2>0, <3>1, <4>1
      <4>3. (n \div M) \div BYTE = n \div (BYTE * M)
        BY ONLY <1>0, <4>2, DivTwice
      <4> QED
        BY <3>2, <3>4, <4>1, <4>2, <4>3
    <3>7. PICK q \in Nat, c \in 0 .. BYTE - 1 : x = BYTE * q + c /\ q = x \div BYTE /\ c = x % BYTE
      BY <1>0, <3>5, DivMod
    <3>8. PICK B : B = BYTE * q
      OBVIOUS
    <3>9. B \in Nat /\ x = B + c
      <4>1. BYTE * q \in Nat
        BY <1>0
      <4>2. x = B + c
        BY <3>7, <3>8
      <4> QED
        BY <3>8, <4>1, <4>2
    <3>10. v[i] = c + B
      BY <3>3, <3>4, <3>6, <3>7, <3>8
    <3> QED
      BY <3>4, <3>9, <3>10
  <2> QED
    BY <2>1, <2>2
<1> HIDE DEF T
<1>4. 0 .. LN \subseteq T
  BY <1>0, <1>3, DownFrom
<1>5. v[0] = n \div 1
  BY <1>0, <1>4 DEF T
<1>6. n \div 1 = n
  BY <1>0
<1> QED
  BY <1>2, <1>5, <1>6

-----------------------------------------------------------------------------
(* The program as a chain of lines.                                        *)

\* In P, which ends at n, a line begins at a and ends before e.
LineAt(P, n, a, e) ==
    /\ a \in Nat /\ e \in Nat /\ a + LN + 3 <= e /\ e <= n
    /\ P[a + LN] = e - a
    /\ IsFirst(P, e - 1, a + LN + 1, {NL})

\* e is the next element of X after x.
NextIn(X, x, e) == e \in X /\ \A y \in X : y <= x \/ e <= y

\* X holds the places where the lines of P begin, and its end n.
Chain(P, n, X) ==
    /\ n \in Nat /\ P \in [0 .. n - 1 -> 0 .. BYTE - 1]
    /\ X \subseteq 0 .. n /\ 0 \in X /\ n \in X
    /\ \A x \in X \ {n} : \E e \in X : LineAt(P, n, x, e) /\ NextIn(X, x, e)
    /\ \A x, y \in X \ {n} : x < y => NumAt(P, x) < NumAt(P, y)

\* The bytes of R from b on are those of P from a on.
Copied(P, a, R, b, len) == \A i \in 0 .. len - 1 : R[b + i] = P[a + i]

\* A line that is copied is the same line.
LEMMA LineCopied ==
    ASSUME NEW n \in Nat, NEW P \in [0 .. n - 1 -> 0 .. BYTE - 1], NEW a, NEW e, LineAt(P, n, a, e),
           NEW m \in Nat, NEW R, NEW b \in Nat, NEW f, f = b + (e - a), f <= m,
           Copied(P, a, R, b, e - a)
    PROVE  /\ LineAt(R, m, b, f) /\ NumAt(R, b) = NumAt(P, a) /\ NumAt(P, a) \in Nat
           /\ TextAt(R, b) = TextAt(P, a)
<1>0. LN \in Nat /\ a \in Nat /\ e \in Nat /\ a + LN + 3 <= e /\ e <= n
  BY Sizes DEF LineAt
<1>1. P[a + LN] = e - a /\ P[e - 1] = NL /\ \A i \in a + LN + 1 .. e - 2 : P[i] # NL
  <2>1. \A i \in a + LN + 1 .. (e - 1) - 1 : P[i] \notin {NL}
    BY DEF LineAt, IsFirst
  <2>2. (e - 1) - 1 = e - 2
    BY <1>0
  <2> QED
    BY <2>1, <2>2 DEF LineAt, IsFirst
<1>c. \A i \in 0 .. e - a - 1 : R[b + i] = P[a + i]
  BY DEF Copied
<1>2. f \in Nat /\ b + LN + 3 <= f /\ f <= m /\ f - b = e - a /\ f - 1 = b + (e - 1 - a)
      /\ b + LN + 1 <= f - 1 /\ (f - 1) - 1 = f - 2
  BY <1>0
<1>3. R[b + LN] = e - a
  <2>1. LN \in 0 .. e - a - 1
    BY <1>0
  <2> QED
    BY <1>1, <1>c, <2>1
<1>4. R[f - 1] = NL
  <2>1. e - 1 - a \in 0 .. e - a - 1 /\ a + (e - 1 - a) = e - 1
    BY <1>0
  <2>2. R[b + (e - 1 - a)] = P[a + (e - 1 - a)]
    BY <1>c, <2>1
  <2> QED
    BY <1>1, <1>2, <2>1, <2>2
<1>5. ASSUME NEW i \in b + LN + 1 .. f - 2 PROVE R[i] # NL
  <2>1. i - b \in 0 .. e - a - 1 /\ b + (i - b) = i /\ a + (i - b) \in a + LN + 1 .. e - 2
    BY <1>0
  <2>2. R[b + (i - b)] = P[a + (i - b)]
    BY <1>c, <2>1
  <2> QED
    BY <1>1, <2>1, <2>2
<1>6. LineAt(R, m, b, f)
  <2>1. IsFirst(R, f - 1, b + LN + 1, {NL})
    BY <1>2, <1>4, <1>5 DEF IsFirst
  <2> QED
    BY <1>2, <1>3, <2>1 DEF LineAt
<1>7. ASSUME NEW i \in 0 .. LN - 1 PROVE R[b + i] = P[a + i] /\ P[a + i] \in 0 .. BYTE - 1
  <2>1. i \in 0 .. e - a - 1 /\ a + i \in 0 .. n - 1
    BY <1>0
  <2>2. R[b + i] = P[a + i]
    BY <1>c, <2>1
  <2>3. P[a + i] \in 0 .. BYTE - 1
    BY <2>1
  <2> QED
    BY <2>2, <2>3
<1>8. NumAt(R, b) = NumAt(P, a) /\ NumAt(P, a) \in Nat
  <2>1. \A i \in 0 .. LN - 1 : P[a + i] \in 0 .. BYTE - 1
    BY <1>7
  <2>2. \A i \in 0 .. LN - 1 : R[b + i] = P[a + i]
    BY <1>7
  <2>3. SameNum(P, a, R, b)
    BY <2>1, <2>2 DEF SameNum
  <2> QED
    BY ONLY <2>3, NumAtCopied
<1>9. TextAt(R, b) = TextAt(P, a)
  <2>1. TextAt(P, a) = [i \in 1 .. e - a - LN - 2 |-> P[a + LN + i]]
    BY <1>1 DEF TextAt
  <2>2. TextAt(R, b) = [i \in 1 .. e - a - LN - 2 |-> R[b + LN + i]]
    BY <1>3 DEF TextAt
  <2>3. ASSUME NEW i \in 1 .. e - a - LN - 2 PROVE R[b + LN + i] = P[a + LN + i]
    <3>1. LN + i \in 0 .. e - a - 1 /\ b + (LN + i) = b + LN + i /\ a + (LN + i) = a + LN + i
      BY <1>0
    <3>2. R[b + (LN + i)] = P[a + (LN + i)]
      BY <1>c, <3>1
    <3> QED
      BY <3>1, <3>2
  <2> QED
    BY <2>1, <2>2, <2>3, Zenon
<1> QED
  BY <1>6, <1>8, <1>9

\* What replaces the lines from s to t, if anything: a line of k bytes.
Spliced(P, n, X, s, t, R, m, k) ==
    /\ s \in X /\ t \in X /\ s <= t
    /\ k \in Nat /\ m = n - (t - s) + k
    /\ R \in [0 .. m - 1 -> 0 .. BYTE - 1]
    /\ \A i \in 0 .. s - 1 : R[i] = P[i]
    /\ \A i \in t .. n - 1 : R[i - t + s + k] = P[i]
    /\ k # 0 => /\ LineAt(R, m, s, s + k)
                /\ \A x \in X : x < s => NumAt(P, x) < NumAt(R, s)
                /\ \A x \in X \ {n} : t <= x => NumAt(R, s) < NumAt(P, x)

\* Where the lines begin then.
SplicedAt(X, s, t, k) ==
    {x \in X : x < s} \cup (IF k = 0 THEN {} ELSE {s}) \cup {x - t + s + k : x \in {y \in X : t <= y}}

\* A line of the new program is an old one below, the new one, or an old one above.
LEMMA SplicedCases ==
    ASSUME NEW X, NEW s, NEW t, NEW k, NEW x \in SplicedAt(X, s, t, k)
    PROVE  \/ x \in X /\ x < s
           \/ k # 0 /\ x = s
           \/ \E z \in X : t <= z /\ x = z - t + s + k
BY DEF SplicedAt

\* And all of them are there.
LEMMA SplicedHas ==
    ASSUME NEW X, NEW s, NEW t, NEW k
    PROVE  /\ \A x \in X : x < s => x \in SplicedAt(X, s, t, k)
           /\ k # 0 => s \in SplicedAt(X, s, t, k)
           /\ \A z \in X : t <= z => z - t + s + k \in SplicedAt(X, s, t, k)
BY DEF SplicedAt

\* Each place of the chain but the end begins a line.
LEMMA ChainLine ==
    ASSUME NEW P, NEW n, NEW X, Chain(P, n, X), NEW x \in X, x # n
    PROVE  \E e \in X : LineAt(P, n, x, e) /\ NextIn(X, x, e)
BY DEF Chain

\* The lines below stay where they are.
LEMMA SplicedLow ==
    ASSUME NEW P, NEW n, NEW X, Chain(P, n, X), NEW s, NEW t, NEW R, NEW m, NEW k,
           Spliced(P, n, X, s, t, R, m, k), NEW x \in X, x < s
    PROVE  /\ \E e \in SplicedAt(X, s, t, k) : LineAt(R, m, x, e) /\ NextIn(SplicedAt(X, s, t, k), x, e)
           /\ NumAt(R, x) = NumAt(P, x) /\ NumAt(P, x) \in Nat
           /\ TextAt(R, x) = TextAt(P, x)
<1>1. /\ n \in Nat /\ s \in Nat /\ t \in Nat /\ k \in Nat /\ x \in Nat /\ s <= t /\ t <= n /\ s \in X /\ t \in X
      /\ P \in [0 .. n - 1 -> 0 .. BYTE - 1] /\ m = n - (t - s) + k
  BY DEF Spliced, Chain
<1>2. PICK e \in X : LineAt(P, n, x, e) /\ NextIn(X, x, e)
  <2>1. x # n
    BY <1>1
  <2> QED
    BY <2>1, ChainLine
<1>3. e \in Nat /\ x < e /\ e <= s
  BY <1>1, <1>2, Sizes DEF LineAt, NextIn
<1>4. e \in SplicedAt(X, s, t, k)
  <2>1. CASE e < s
    BY <1>2, <2>1, SplicedHas
  <2>2. CASE e = s /\ k # 0
    BY <2>2, SplicedHas
  <2>3. CASE e = s /\ k = 0
    <3>1. e = t - t + s + k /\ t <= t
      BY <1>1, <2>3
    <3> QED
      BY ONLY <1>1, <3>1, SplicedHas
  <2> QED
    BY <1>1, <1>3, <2>1, <2>2, <2>3
<1>5. e = x + (e - x) /\ e <= m /\ m \in Nat
  BY <1>1, <1>3
<1>6. Copied(P, x, R, x, e - x)
  <2> SUFFICES ASSUME NEW i \in 0 .. e - x - 1 PROVE R[x + i] = P[x + i]
    BY DEF Copied
  <2>1. x + i \in 0 .. s - 1
    BY <1>1, <1>3
  <2> QED
    BY <2>1 DEF Spliced
<1>7. /\ LineAt(R, m, x, e) /\ NumAt(R, x) = NumAt(P, x) /\ NumAt(P, x) \in Nat
      /\ TextAt(R, x) = TextAt(P, x)
  <2>1. PICK b, f : b = x /\ f = e
    OBVIOUS
  <2>2. /\ n \in Nat /\ P \in [0 .. n - 1 -> 0 .. BYTE - 1] /\ LineAt(P, n, x, e) /\ m \in Nat /\ b \in Nat
        /\ f = b + (e - x) /\ f <= m
    BY <1>1, <1>2, <1>5, <2>1
  <2>3. Copied(P, x, R, b, e - x)
    BY <1>6, <2>1
  <2>4. /\ LineAt(R, m, b, f) /\ NumAt(R, b) = NumAt(P, x) /\ NumAt(P, x) \in Nat
        /\ TextAt(R, b) = TextAt(P, x)
    BY ONLY <2>2, <2>3, LineCopied
  <2> QED
    BY <2>1, <2>4
<1>8. ASSUME NEW y \in SplicedAt(X, s, t, k) PROVE y <= x \/ e <= y
  <2>1. CASE y \in X /\ y < s
    BY <1>2, <2>1 DEF NextIn
  <2>2. CASE y = s
    BY <1>3, <2>2
  <2>3. ASSUME NEW z \in X, t <= z, y = z - t + s + k PROVE e <= y
    <3>1. z \in Nat
      BY <1>1 DEF Chain
    <3> QED
      BY <1>1, <1>3, <2>3, <3>1
  <2> QED
    BY <2>1, <2>2, <2>3, SplicedCases
<1> QED
  BY <1>4, <1>7, <1>8 DEF NextIn

\* The lines above move by what the program grows.
LEMMA SplicedHigh ==
    ASSUME NEW P, NEW n, NEW X, Chain(P, n, X), NEW s, NEW t, NEW R, NEW m, NEW k,
           Spliced(P, n, X, s, t, R, m, k), NEW x \in X, t <= x, x # n
    PROVE  /\ \E e \in SplicedAt(X, s, t, k) :
                 LineAt(R, m, x - t + s + k, e) /\ NextIn(SplicedAt(X, s, t, k), x - t + s + k, e)
           /\ NumAt(R, x - t + s + k) = NumAt(P, x) /\ NumAt(P, x) \in Nat
           /\ TextAt(R, x - t + s + k) = TextAt(P, x)
<1>1. /\ n \in Nat /\ s \in Nat /\ t \in Nat /\ k \in Nat /\ x \in Nat /\ s <= t /\ t <= n
      /\ P \in [0 .. n - 1 -> 0 .. BYTE - 1] /\ m = n - (t - s) + k
  BY DEF Spliced, Chain
<1>2. PICK e \in X : LineAt(P, n, x, e) /\ NextIn(X, x, e)
  BY ChainLine
<1>3. e \in Nat /\ x < e /\ e <= n
  BY <1>1, <1>2, Sizes DEF LineAt
<1> DEFINE b == x - t + s + k
           f == e - t + s + k
<1>4a. t <= e
  BY <1>1, <1>3
<1>4. f \in SplicedAt(X, s, t, k)
  BY <1>4a, SplicedHas
<1>5. b \in Nat /\ m \in Nat /\ f = b + (e - x) /\ f <= m /\ s <= b
  BY <1>1, <1>3
<1>6. Copied(P, x, R, b, e - x)
  <2> SUFFICES ASSUME NEW i \in 0 .. e - x - 1 PROVE R[b + i] = P[x + i]
    BY DEF Copied
  <2>1. x + i \in t .. n - 1 /\ (x + i) - t + s + k = b + i
    BY <1>1, <1>3
  <2>2. R[(x + i) - t + s + k] = P[x + i]
    BY <2>1 DEF Spliced
  <2> QED
    BY <2>1, <2>2
<1>7. /\ LineAt(R, m, b, f) /\ NumAt(R, b) = NumAt(P, x) /\ NumAt(P, x) \in Nat
      /\ TextAt(R, b) = TextAt(P, x)
  <2> HIDE DEF b, f
  <2>1. n \in Nat /\ P \in [0 .. n - 1 -> 0 .. BYTE - 1] /\ LineAt(P, n, x, e) /\ m \in Nat /\ b \in Nat
    BY <1>1, <1>2, <1>5
  <2> QED
    BY ONLY <2>1, <1>5, <1>6, LineCopied
<1>8. ASSUME NEW y \in SplicedAt(X, s, t, k) PROVE y <= b \/ f <= y
  <2>1. CASE y \in X /\ y < s
    <3>1. y \in Nat
      BY <2>1 DEF Chain
    <3> QED
      BY <1>1, <1>5, <2>1, <3>1
  <2>2. CASE y = s
    BY <1>5, <2>2
  <2>3. ASSUME NEW z \in X, t <= z, y = z - t + s + k PROVE y <= b \/ f <= y
    <3>1. z \in Nat /\ (z <= x \/ e <= z)
      BY <1>2 DEF Chain, NextIn
    <3> QED
      BY <1>1, <1>3, <2>3, <3>1
  <2> QED
    BY <2>1, <2>2, <2>3, SplicedCases
<1> QED
  BY <1>4, <1>7, <1>8 DEF NextIn

\* Replacing lines by a line, or none, keeps the chain, if the numbers ascend.
LEMMA SplicedChain ==
    ASSUME NEW P, NEW n, NEW X, Chain(P, n, X), NEW s, NEW t, NEW R, NEW m, NEW k,
           Spliced(P, n, X, s, t, R, m, k)
    PROVE  Chain(R, m, SplicedAt(X, s, t, k))
<1> DEFINE Y == SplicedAt(X, s, t, k)
<1>1. /\ n \in Nat /\ s \in Nat /\ t \in Nat /\ k \in Nat /\ s <= t /\ t <= n /\ s \in X /\ t \in X
      /\ X \subseteq 0 .. n /\ 0 \in X /\ n \in X
      /\ m = n - (t - s) + k
  BY DEF Spliced, Chain
<1>2. m \in Nat /\ m = n - t + s + k
  BY <1>1
<1>3. R \in [0 .. m - 1 -> 0 .. BYTE - 1]
  BY DEF Spliced
<1>4. Y \subseteq 0 .. m
  <2> SUFFICES ASSUME NEW x \in Y PROVE x \in 0 .. m
    OBVIOUS
  <2>1. CASE x \in X /\ x < s
    BY <1>1, <2>1
  <2>2. CASE x = s
    BY <1>1, <2>2
  <2>3. ASSUME NEW z \in X, t <= z, x = z - t + s + k PROVE x \in 0 .. m
    BY <1>1, <2>3
  <2> QED
    BY <2>1, <2>2, <2>3, SplicedCases
<1>5. m \in Y
  BY <1>1, <1>2, SplicedHas
<1>6. 0 \in Y
  <2>1. CASE s = 0 /\ k = 0
    <3>1. 0 = t - t + s + k /\ t <= t
      BY <1>1, <2>1
    <3> QED
      BY <1>1, <3>1, SplicedHas
  <2>2. CASE s = 0 /\ k # 0
    BY <2>2, SplicedHas
  <2>3. CASE s # 0
    <3>1. 0 < s
      BY <1>1, <2>3
    <3> QED
      BY <1>1, <3>1, SplicedHas
  <2> QED
    BY <2>1, <2>2, <2>3
<1>n. k # 0 => LineAt(R, m, s, s + k)
  BY DEF Spliced
<1>7. ASSUME NEW x \in Y, x # m
      PROVE  \E e \in Y : LineAt(R, m, x, e) /\ NextIn(Y, x, e)
  <2>1. CASE x \in X /\ x < s
    BY <2>1, SplicedLow
  <2>2. CASE k # 0 /\ x = s
    <3>1. s + k = t - t + s + k /\ t <= t
      BY <1>1
    <3>2. s + k \in Y
      BY <1>1, <3>1, SplicedHas
    <3>3. ASSUME NEW y \in Y PROVE y <= s \/ s + k <= y
      <4>1. CASE y \in X /\ y < s
        BY <1>1, <4>1
      <4>2. CASE y = s
        BY <1>1, <4>2
      <4>3. ASSUME NEW z \in X, t <= z, y = z - t + s + k PROVE s + k <= y
        BY <1>1, <4>3
      <4> QED
        BY <4>1, <4>2, <4>3, SplicedCases
    <3> QED
      BY <1>n, <2>2, <3>2, <3>3 DEF NextIn
  <2>3. ASSUME NEW z \in X, t <= z, x = z - t + s + k PROVE \E e \in Y : LineAt(R, m, x, e) /\ NextIn(Y, x, e)
    <3>1. z # n
      BY <1>1, <1>2, <1>7, <2>3
    <3> QED
      BY <2>3, <3>1, SplicedHigh
  <2> QED
    BY <2>1, <2>2, <2>3, SplicedCases
<1>8. ASSUME NEW x \in Y, x # m, NEW y \in Y, y # m, x < y
      PROVE  NumAt(R, x) < NumAt(R, y)
  <2>a. ASSUME NEW z \in X, z < s PROVE NumAt(R, z) = NumAt(P, z) /\ z # n
    BY <1>1, <2>a, SplicedLow
  <2>b. ASSUME NEW z \in X, t <= z, z # n PROVE NumAt(R, z - t + s + k) = NumAt(P, z)
    BY <2>b, SplicedHigh
  <2>c. \A z, w \in X \ {n} : z < w => NumAt(P, z) < NumAt(P, w)
    BY DEF Chain
  <2>d. k # 0 => /\ \A z \in X : z < s => NumAt(P, z) < NumAt(R, s)
                 /\ \A z \in X \ {n} : t <= z => NumAt(R, s) < NumAt(P, z)
    BY DEF Spliced
  <2>1. CASE x \in X /\ x < s
    <3>1. CASE y \in X /\ y < s
      BY <1>8, <2>1, <2>a, <2>c, <3>1
    <3>2. CASE k # 0 /\ y = s
      BY <2>1, <2>a, <2>d, <3>2
    <3>3. ASSUME NEW z \in X, t <= z, y = z - t + s + k PROVE NumAt(R, x) < NumAt(R, y)
      <4>1. z # n /\ x < z
        BY <1>1, <1>2, <1>8, <2>1, <3>3
      <4> QED
        BY <2>1, <2>a, <2>b, <2>c, <3>3, <4>1
    <3> QED
      BY <3>1, <3>2, <3>3, SplicedCases
  <2>2. CASE k # 0 /\ x = s
    <3>1. ~(y \in X /\ y < s) /\ y # s
      BY <1>1, <1>8, <2>2
    <3>3. ASSUME NEW z \in X, t <= z, y = z - t + s + k PROVE NumAt(R, x) < NumAt(R, y)
      <4>1. z # n
        BY <1>1, <1>2, <1>8, <3>3
      <4> QED
        BY <2>2, <2>b, <2>d, <3>3, <4>1
    <3> QED
      BY <3>1, <3>3, SplicedCases
  <2>3. ASSUME NEW w \in X, t <= w, x = w - t + s + k PROVE NumAt(R, x) < NumAt(R, y)
    <3>1. w # n /\ w \in Nat /\ s + k <= x
      BY <1>1, <1>2, <1>8, <2>3
    <3>2. ~(y \in X /\ y < s) /\ ~(k # 0 /\ y = s)
      BY <1>1, <1>8, <2>3, <3>1
    <3>3. ASSUME NEW z \in X, t <= z, y = z - t + s + k PROVE NumAt(R, x) < NumAt(R, y)
      <4>1. z # n /\ w < z
        BY <1>1, <1>2, <1>8, <2>3, <3>1, <3>3
      <4> QED
        BY <2>3, <2>b, <2>c, <3>1, <3>3, <4>1
    <3> QED
      BY <3>2, <3>3, SplicedCases
  <2> QED
    BY <2>1, <2>2, <2>3, SplicedCases
<1> HIDE DEF Y
<1>9. \A x \in Y \ {m} : \E e \in Y : LineAt(R, m, x, e) /\ NextIn(Y, x, e)
  BY <1>7
<1>10. \A x, y \in Y \ {m} : x < y => NumAt(R, x) < NumAt(R, y)
  BY <1>8
<1>11. Chain(R, m, Y)
  BY <1>2, <1>3, <1>4, <1>5, <1>6, <1>9, <1>10 DEF Chain
<1> QED
  BY <1>11 DEF Y

-----------------------------------------------------------------------------
(* The recursive definition of the property, and the chain.                *)

\* What the definition of WellFormed says of the line from a to e.
GoodLine(P, n, a, e) ==
    /\ a + LN < n
    /\ e \in a + LN + 3 .. n
    /\ IsFirst(P, e - 1, a + LN + 1, {NL})
    /\ e < n => NumAt(P, a) < NumAt(P, e)

\* A chain that ends where the program does is what WellFormed asks for.
LEMMA WellFormedChain ==
    ASSUME NEW X, Chain(Stored, StoredLen, X)
    PROVE  WellFormed
<1> DEFINE n == StoredLen
           P == Stored
           Ok(g, a) == \/ a = n
                       \/ /\ a + LN < n
                          /\ LET e == a + P[a + LN]
                             IN  /\ e \in a + LN + 3 .. n
                                 /\ IsFirst(P, e - 1, a + LN + 1, {NL})
                                 /\ e < n => NumAt(P, a) < NumAt(P, e)
                                 /\ g[e]
           Eq(g) == g = [a \in 0 .. n |-> Ok(g, a)]
<1>0. LN \in Nat /\ n \in Nat /\ P \in [0 .. n - 1 -> 0 .. BYTE - 1] /\ X \subseteq 0 .. n /\ 0 \in X /\ n \in X
  BY Sizes DEF Chain
<1>1. PICK good : good = [a \in 0 .. n |-> a # n /\ GoodLine(P, n, a, a + P[a + LN])]
  OBVIOUS
<1>2. PICK jump : jump = [a \in 0 .. n |-> IF a + LN < n THEN a + P[a + LN] ELSE 0]
  OBVIOUS
<1>3. PICK base : base = [a \in 0 .. n |-> a = n]
  OBVIOUS
<1>4. PICK step : step = [a \in 0 .. n |-> [b \in BOOLEAN |-> good[a] /\ b]]
  OBVIOUS
<1>5. base \in [0 .. n -> BOOLEAN]
  BY <1>3
<1>6. step \in [0 .. n -> [BOOLEAN -> BOOLEAN]]
  BY <1>4
<1>7. jump \in [0 .. n -> Int]
  <2>1. ASSUME NEW a \in 0 .. n, a + LN < n PROVE a + P[a + LN] \in Int
    <3>1. a + LN \in 0 .. n - 1
      BY <1>0, <2>1
    <3> QED
      BY <1>0, <3>1, Sizes
  <2> QED
    BY <1>2, <2>1
<1> HIDE DEF n, P
<1>8. PICK g : g \in [0 .. n -> BOOLEAN] /\ Climbs(g, n, base, step, jump)
  BY <1>0, <1>5, <1>6, <1>7, JumpsExist
<1>9. ASSUME NEW a \in 0 .. n
      PROVE  g[a] <=> Ok(g, a)
  <2>1. g[a] = IF jump[a] \in a + 1 .. n THEN step[a][g[jump[a]]] ELSE base[a]
    BY <1>8 DEF Climbs
  <2>2. CASE a = n
    <3>1. jump[a] \notin a + 1 .. n
      BY <1>0, <1>7, <2>2
    <3> QED
      BY <1>3, <2>1, <2>2, <3>1
  <2>3. CASE a # n /\ ~(a + LN < n)
    <3>1. jump[a] \notin a + 1 .. n
      BY <1>0, <1>2, <2>3
    <3>2. ~g[a]
      BY <1>3, <2>1, <2>3, <3>1
    <3> QED
      BY <2>3, <3>2
  <2>4. CASE a # n /\ a + LN < n
    <3>1. jump[a] = a + P[a + LN]
      BY <1>2, <2>4
    <3>2. PICK e : e = a + P[a + LN]
      OBVIOUS
    <3>3. CASE e \in a + 1 .. n
      <4>1. g[e] \in BOOLEAN /\ e \in 0 .. n
        BY <1>8, <3>3
      <4>2. g[a] = step[a][g[e]]
        BY <2>1, <3>1, <3>2, <3>3
      <4>3. step[a][g[e]] = (good[a] /\ g[e])
        BY <1>4, <4>1
      <4>4. good[a] <=> GoodLine(P, n, a, e)
        BY <1>1, <2>4, <3>2
      <4>5. g[a] <=> GoodLine(P, n, a, e) /\ g[e]
        BY <4>2, <4>3, <4>4, Zenon
      <4>6. Ok(g, a) <=> /\ a + LN < n
                         /\ e \in a + LN + 3 .. n
                         /\ IsFirst(P, e - 1, a + LN + 1, {NL})
                         /\ e < n => NumAt(P, a) < NumAt(P, e)
                         /\ g[e]
        BY <2>4, <3>2
      <4>7. Ok(g, a) <=> GoodLine(P, n, a, e) /\ g[e]
        BY <4>6, Zenon DEF GoodLine
      <4> QED
        BY <4>5, <4>7, Zenon
    <3>4. CASE e \notin a + 1 .. n
      <4>1. ~g[a]
        BY <1>3, <2>1, <2>4, <3>1, <3>2, <3>4
      <4>2. e \notin a + LN + 3 .. n
        BY <1>0, <3>4
      <4> QED
        BY <2>4, <3>2, <4>1, <4>2
    <3> QED
      BY <3>3, <3>4
  <2> QED
    BY <2>2, <2>3, <2>4
<1>10. \E h : Eq(h)
  <2>1. ASSUME NEW a \in 0 .. n PROVE g[a] = Ok(g, a)
    <3>1. g[a] \in BOOLEAN /\ Ok(g, a) \in BOOLEAN
      BY <1>8
    <3> QED
      BY <1>9, <3>1
  <2>2. g = [a \in 0 .. n |-> g[a]]
    BY <1>8
  <2>3. Eq(g)
    BY <2>1, <2>2, Zenon
  <2> QED
    BY <2>3
<1>11. PICK ok : ok = CHOOSE h : Eq(h)
  OBVIOUS
<1>12. Eq(ok)
  BY <1>10, <1>11
<1>13. WellFormed <=> ok[0]
  BY <1>11 DEF WellFormed, n, P
<1>14. \A a \in 0 .. n : ok[a] <=> Ok(ok, a)
  BY <1>12
<1> DEFINE T == {a \in 0 .. n : a \in X => ok[a]}
<1>15. ASSUME NEW a \in 0 .. n, \A j \in a + 1 .. n : j \in T
       PROVE  a \in T
  <2> SUFFICES ASSUME a \in X PROVE ok[a]
    OBVIOUS
  <2>1. CASE a = n
    BY <1>14, <2>1
  <2>2. CASE a # n
    <3>1. PICK e \in X : LineAt(P, n, a, e) /\ NextIn(X, a, e)
      BY <2>2, ChainLine DEF n, P
    <3>2. e \in a + LN + 3 .. n /\ a + LN < n /\ P[a + LN] = e - a /\ a + (e - a) = e
      BY <1>0, <3>1 DEF LineAt
    <3>3. IsFirst(P, e - 1, a + LN + 1, {NL})
      BY <3>1 DEF LineAt
    <3>4. e < n => NumAt(P, a) < NumAt(P, e)
      <4>1. a < e /\ (e < n => e # n)
        BY <1>0, <3>2
      <4> QED
        BY <2>2, <3>1, <4>1 DEF Chain, n, P
    <3>5. ok[e]
      <4>1. e \in a + 1 .. n
        BY <1>0, <3>2
      <4> QED
        BY <1>15, <3>1, <4>1
    <3>6. a + P[a + LN] = e
      BY <3>2
    <3> QED
      BY <1>14, <3>2, <3>3, <3>4, <3>5, <3>6
  <2> QED
    BY <2>1, <2>2
<1> HIDE DEF T
<1>16. 0 .. n \subseteq T
  BY <1>0, <1>15, DownFrom
<1>17. ok[0]
  BY <1>0, <1>16 DEF T
<1> QED
  BY <1>13, <1>17

-----------------------------------------------------------------------------
(* findline.                                                               *)

\* While no line is being shuffled in, the program is the memory below program_end.
LEMMA StoredIsMem ==
    ASSUME IInv, pc # "shuffle"
    PROVE  StoredLen = program_end /\ Stored = [i \in 0 .. program_end - 1 |-> mem[i]]
<1>2. program_end \in Nat
  BY Sizes DEF IInv, InBounds
<1>1. StoredLen = program_end
  BY <1>2 DEF StoredLen
<1> QED
  BY <1>1, <1>2 DEF Stored

\* In the memory, the lines of the chain have the lengths and numbers they have
\* in the program.
LEMMA StoredLine ==
    ASSUME IInv, pc # "shuffle", NEW X, Chain(Stored, program_end, X), NEW x \in X, x # program_end
    PROVE  /\ NumAt(mem, x) = NumAt(Stored, x) /\ NumAt(mem, x) \in Nat
           /\ \E e \in X : /\ LineAt(Stored, program_end, x, e) /\ NextIn(X, x, e)
                           /\ mem[x + LN] = e - x /\ x + LN + 3 <= e /\ e <= program_end /\ x \in Nat /\ e \in Nat
<1>1. PICK e \in X : LineAt(Stored, program_end, x, e) /\ NextIn(X, x, e)
  BY ChainLine
<1>2. /\ x \in Nat /\ e \in Nat /\ x + LN + 3 <= e /\ e <= program_end /\ Stored[x + LN] = e - x
      /\ program_end \in Nat /\ LN \in Nat
  BY <1>1, Sizes DEF LineAt, Chain
<1>3. ASSUME NEW i \in 0 .. LN PROVE Stored[x + i] = mem[x + i] /\ Stored[x + i] \in 0 .. BYTE - 1
  <2>1. x + i \in 0 .. program_end - 1
    BY <1>2
  <2>2. Stored[x + i] = mem[x + i]
    BY <2>1, StoredIsMem
  <2>3. Stored[x + i] \in 0 .. BYTE - 1
    BY <2>1 DEF Chain
  <2> QED
    BY <2>2, <2>3
<1>4. \A i \in 0 .. LN - 1 : Stored[x + i] \in 0 .. BYTE - 1
  BY <1>2, <1>3
<1>5. \A i \in 0 .. LN - 1 : mem[x + i] = Stored[x + i]
  BY <1>2, <1>3
<1>6. NumAt(mem, x) = NumAt(Stored, x) /\ NumAt(mem, x) \in Nat
  <2>1. NumAt(mem, x) = NumAt(Stored, x) /\ NumAt(Stored, x) \in Nat
    <3>1. SameNum(Stored, x, mem, x)
      BY <1>4, <1>5 DEF SameNum
    <3> QED
      BY ONLY <3>1, NumAtCopied
  <2> QED
    BY <2>1
<1>7. mem[x + LN] = e - x
  BY <1>2, <1>3
<1> QED
  BY <1>1, <1>2, <1>6, <1>7

\* Where the walk of findline stops at a.
StopsAt(a) ==
    a = program_end \/ a >= MemTop - LN \/ NumAt(mem, a) >= linenum \/ mem[a + LN] = 0

\* What findline finds from a on.
LEMMA FindLineWalk ==
    ASSUME IInv
    PROVE  \E g : /\ FindLine = g[0]
                  /\ \A a \in 0 .. MemTop + BYTE : g[a] = IF StopsAt(a) THEN a ELSE g[a + mem[a + LN]]
<1> DEFINE n == MemTop + BYTE
           Eq(g) == g = [a \in 0 .. n |-> IF a = program_end \/ a >= MemTop - LN \/ NumAt(mem, a) >= linenum
                                             \/ mem[a + LN] = 0
                                          THEN a ELSE g[a + mem[a + LN]]]
<1>0. /\ n \in Nat /\ MemTop \in Nat /\ BYTE \in Nat \ {0} /\ LN \in Nat
      /\ mem \in [Addr -> 0 .. BYTE - 1]
  BY Sizes DEF IInv, InBounds
<1>1. PICK base : base = [a \in 0 .. n |-> a]
  OBVIOUS
<1>2. PICK jump : jump = [a \in 0 .. n |-> IF StopsAt(a) THEN 0 ELSE a + mem[a + LN]]
  OBVIOUS
<1>3. PICK step : step = [a \in 0 .. n |-> [x \in Nat |-> x]]
  OBVIOUS
<1>4. base \in [0 .. n -> Nat] /\ step \in [0 .. n -> [Nat -> Nat]]
  BY <1>1, <1>3
<1>5. ASSUME NEW a \in 0 .. n, ~StopsAt(a) PROVE a + mem[a + LN] \in a .. n
  <2>1. a + LN \in Addr /\ a < MemTop
    BY <1>0, <1>5 DEF StopsAt, Addr
  <2>2. mem[a + LN] \in 0 .. BYTE - 1
    BY <1>0, <2>1
  <2> QED
    BY <1>0, <2>1, <2>2
<1>6. jump \in [0 .. n -> Int]
  BY <1>2, <1>5
<1> HIDE DEF n
<1>7. PICK g : g \in [0 .. n -> Nat] /\ Climbs(g, n, base, step, jump)
  BY <1>0, <1>4, <1>6, JumpsExist
<1>8. ASSUME NEW a \in 0 .. n
      PROVE  g[a] = IF StopsAt(a) THEN a ELSE g[a + mem[a + LN]]
  <2>1. g[a] = IF jump[a] \in a + 1 .. n THEN step[a][g[jump[a]]] ELSE base[a]
    BY <1>7 DEF Climbs
  <2>2. CASE StopsAt(a)
    <3>1. jump[a] \notin a + 1 .. n
      BY <1>2, <2>2
    <3> QED
      BY <1>1, <2>1, <2>2, <3>1
  <2>3. CASE ~StopsAt(a)
    <3>1. PICK b \in a .. n : b = a + mem[a + LN]
      BY <1>5, <2>3
    <3>2. jump[a] = b
      BY <1>2, <2>3, <3>1
    <3>3. CASE b = a
      BY <2>3, <3>1, <3>3
    <3>4. CASE b # a
      <4>1. b \in a + 1 .. n /\ b \in 0 .. n
        BY <3>4
      <4>2. g[b] \in Nat
        BY <1>7, <4>1
      <4>3. step[a][g[b]] = g[b]
        BY <1>3, <4>2
      <4> QED
        BY <2>1, <2>3, <3>1, <3>2, <4>1, <4>3
    <3> QED
      BY <3>3, <3>4
  <2> QED
    BY <2>2, <2>3
<1>9. \E h : Eq(h)
  <2>1. g = [a \in 0 .. n |-> g[a]]
    BY <1>7
  <2>2. Eq(g)
    BY <1>8, <2>1 DEF StopsAt
  <2> QED
    BY <2>2
<1>10. PICK line : line = CHOOSE h : Eq(h)
  OBVIOUS
<1>11. Eq(line)
  BY <1>9, <1>10
<1>12. FindLine = line[0]
  BY <1>10 DEF FindLine, n
<1>13. \A a \in 0 .. n : line[a] = IF StopsAt(a) THEN a ELSE line[a + mem[a + LN]]
  BY <1>11 DEF StopsAt
<1> QED
  BY <1>12, <1>13 DEF n

\* It finds the first line with a number from linenum on, or the end.
LEMMA FindLineFacts ==
    ASSUME IInv, pc # "shuffle", NEW X, Chain(Stored, program_end, X)
    PROVE  /\ FindLine \in X
           /\ \A y \in X : y < FindLine => NumAt(Stored, y) < linenum
           /\ FindLine # program_end => NumAt(Stored, FindLine) >= linenum
<1>0. /\ LN \in Nat /\ MemTop \in Nat /\ program_end \in Nat /\ program_end + LN < MemTop /\ BYTE \in Nat
      /\ X \subseteq 0 .. program_end /\ 0 \in X /\ program_end \in X /\ linenum \in Nat
  BY Sizes, LineModNat DEF IInv, InBounds, Chain
<1>1. PICK g : /\ FindLine = g[0]
               /\ \A a \in 0 .. MemTop + BYTE : g[a] = IF StopsAt(a) THEN a ELSE g[a + mem[a + LN]]
  BY FindLineWalk
<1> DEFINE Finds(x) == /\ g[x] \in X /\ x <= g[x]
                       /\ \A y \in X : x <= y /\ y < g[x] => NumAt(Stored, y) < linenum
                       /\ g[x] # program_end => NumAt(Stored, g[x]) >= linenum
           T == {x \in 0 .. program_end : x \in X => Finds(x)}
<1>2. ASSUME NEW x \in 0 .. program_end, \A j \in x + 1 .. program_end : j \in T
      PROVE  x \in T
  <2> SUFFICES ASSUME x \in X PROVE Finds(x)
    OBVIOUS
  <2>0. x \in 0 .. MemTop + BYTE
    BY <1>0
  <2>1. CASE x = program_end
    <3>1. g[x] = x
      BY <1>1, <2>0, <2>1 DEF StopsAt
    <3> QED
      BY <1>0, <2>1, <3>1
  <2>2. CASE x # program_end
    <3>1. NumAt(mem, x) = NumAt(Stored, x) /\ NumAt(mem, x) \in Nat
      BY <2>2, StoredLine
    <3>2. PICK e \in X : /\ NextIn(X, x, e) /\ mem[x + LN] = e - x
                         /\ x + LN + 3 <= e /\ e <= program_end /\ x \in Nat /\ e \in Nat
      BY <2>2, StoredLine
    <3>3. x + mem[x + LN] = e /\ ~(x >= MemTop - LN) /\ e \in x + 1 .. program_end /\ mem[x + LN] # 0
      BY <1>0, <3>2
    <3>4. CASE NumAt(mem, x) >= linenum
      <4>1. g[x] = x
        BY <1>1, <2>0, <3>4 DEF StopsAt
      <4> QED
        BY <1>0, <3>1, <3>2, <3>4, <4>1
    <3>5. CASE ~(NumAt(mem, x) >= linenum)
      <4>1. g[x] = g[e]
        BY <1>1, <2>0, <2>2, <3>3, <3>5 DEF StopsAt
      <4>2. Finds(e)
        BY <1>2, <3>3, <3>2
      <4>3. \A y \in X : x <= y /\ y < g[x] => NumAt(Stored, y) < linenum
        <5> TAKE y \in X
        <5> HAVE x <= y /\ y < g[x]
        <5>1. y = x \/ e <= y
          BY <1>0, <3>2 DEF NextIn
        <5>2. CASE y = x
          <6>1. ~(NumAt(Stored, x) >= linenum) /\ NumAt(Stored, x) \in Nat
            BY <3>1, <3>5
          <6>2. NumAt(Stored, x) < linenum
            BY <1>0, <6>1
          <6> QED
            BY <5>2, <6>2
        <5>3. CASE e <= y
          BY <4>1, <4>2, <5>3
        <5> QED
          BY <5>1, <5>2, <5>3
      <4>4. g[e] \in X /\ e <= g[e]
        BY <4>2
      <4>5. g[x] \in X /\ x <= g[x]
        <5>1. PICK h : h = g[e]
          OBVIOUS
        <5>2. h \in X /\ e <= h
          BY <4>4, <5>1
        <5>a. h \in Nat
          BY <1>0, <5>2
        <5>3. x <= h
          BY <1>0, <3>2, <5>2, <5>a
        <5> QED
          BY <4>1, <5>1, <5>2, <5>3
      <4>6. g[x] # program_end => NumAt(Stored, g[x]) >= linenum
        BY <4>1, <4>2
      <4> QED
        BY <4>3, <4>5, <4>6
    <3> QED
      BY <3>4, <3>5
  <2> QED
    BY <2>1, <2>2
<1> HIDE DEF T
<1>3. 0 .. program_end \subseteq T
  BY <1>0, <1>2, DownFrom
<1>4. Finds(0)
  BY <1>0, <1>3 DEF T
<1>5. \A y \in X : 0 <= y
  BY <1>0
<1> QED
  BY <1>1, <1>4, <1>5

-----------------------------------------------------------------------------
(* The line to be merged.                                                  *)

\* An uchar counts every line that is typed.
ShortLines == MaxTyped + LN + 2 < BYTE

\* The line to be merged: its number and length, and one NL, at its end.
Headed ==
    pc = "numbered" =>
        /\ txtpos + linelen = VariablesBegin /\ LN + 2 <= linelen
        /\ NumAt(mem, txtpos) = linenum
        /\ mem[txtpos + LN] = linelen
        /\ mem[VariablesBegin - 1] = NL
        /\ \A i \in txtpos + LN + 1 .. VariablesBegin - 2 : mem[i] # NL

Chained == \E n, X : Chain(Stored, n, X)

TypedBound == Len(typed) <= MaxTyped

-----------------------------------------------------------------------------
(* The header.                                                             *)

\* What the line is where it has been moved to.
LEMMA MovedLine ==
    ASSUME IInv, NEW e \in Buffer .. VariablesBegin - 1, IsFirst(mem, e, Buffer, {NL}),
           NEW m, m = MovedUp(Uppercased(e), e)
    PROVE  /\ m[VariablesBegin - 1] = NL
           /\ \A i \in MovedTo(e) .. VariablesBegin - 2 : m[i] # NL
<1>0. Buffer \in Nat /\ VariablesBegin \in Nat /\ MovedTo(e) \in Buffer .. VariablesBegin - 1
      /\ MovedTo(e) = VariablesBegin - 1 - (e - Buffer) /\ VariablesBegin <= MemTop /\ MemTop \in Nat
  <2>1. MovedTo(e) \in Buffer .. VariablesBegin - 1
    BY MovedUpBytes, UppercasedBytes
  <2> QED
    BY <2>1, BufferTypes, Sizes DEF MovedTo
<1>1. mem[e] = NL /\ \A i \in Buffer .. e - 1 : mem[i] # NL
  BY DEF IsFirst
<1>2. LOWER # NL /\ UPPER # NL
  BY LineStoreConstants
<1>3. ASSUME NEW a \in Buffer .. e
      PROVE  Uppercased(e)[a] = NL <=> a = e
  <2>1. a \in Addr
    BY <1>0 DEF Addr
  <2>2. Uppercased(e)[a] = mem[a] \/ (mem[a] = LOWER /\ Uppercased(e)[a] = UPPER)
    BY <2>1 DEF Uppercased
  <2>3. CASE a = e
    <3>1. a \notin Buffer .. e - 1
      BY <1>0, <2>3
    <3>2. Uppercased(e)[a] = mem[a]
      BY <2>1, <3>1 DEF Uppercased
    <3> QED
      BY <1>1, <2>3, <3>2
  <2>4. CASE a # e
    <3>1. a \in Buffer .. e - 1
      BY <1>0, <2>4
    <3> QED
      BY <1>1, <1>2, <2>2, <2>4, <3>1
  <2> QED
    BY <2>3, <2>4
<1>4. ASSUME NEW a \in MovedTo(e) .. VariablesBegin - 1
      PROVE  m[a] = Uppercased(e)[a - MovedTo(e) + Buffer] /\ a - MovedTo(e) + Buffer \in Buffer .. e
             /\ (a - MovedTo(e) + Buffer = e <=> a = VariablesBegin - 1)
  <2>1. a \in Addr
    BY <1>0 DEF Addr
  <2>2. m[a] = Uppercased(e)[a - MovedTo(e) + Buffer]
    BY <2>1 DEF MovedUp
  <2> QED
    BY <1>0, <2>2
<1>5. m[VariablesBegin - 1] = NL
  <2>1. VariablesBegin - 1 \in MovedTo(e) .. VariablesBegin - 1
    BY <1>0
  <2> QED
    BY <1>3, <1>4, <2>1
<1>6. ASSUME NEW i \in MovedTo(e) .. VariablesBegin - 2 PROVE m[i] # NL
  <2>1. i \in MovedTo(e) .. VariablesBegin - 1 /\ i # VariablesBegin - 1
    BY <1>0
  <2> QED
    BY <1>3, <1>4, <2>1
<1> QED
  BY <1>5, <1>6

\* A number below M is its own residue.
LEMMA Small ==
    ASSUME NEW x \in Nat, NEW M \in Nat, x < M
    PROVE  x % M = x
OBVIOUS

\* The header says what the line is, if an uchar counts it.
LEMMA HeaderWritten ==
    ASSUME ShortLines, IInv, NEW m \in [Addr -> 0 .. BYTE - 1], NEW a \in Nat, NEW t \in a .. VariablesBegin - 1,
           linenum' \in 0 .. LineMod - 1, LN + 1 <= t, VariablesBegin - 1 - a <= MaxTyped,
           m[VariablesBegin - 1] = NL, \A i \in a .. VariablesBegin - 2 : m[i] # NL,
           PutHeader(m, linenum', t, VariablesBegin - 1)
    PROVE  Headed'
<1> DEFINE header == t - (LN + 1)
           length == VariablesBegin - 1 + 1 - t + LN + 1
<1>0. /\ LN \in Nat \ {0} /\ BYTE \in Nat \ {0} /\ VariablesBegin \in Nat /\ MaxTyped \in Nat /\ MemTop \in Nat
      /\ VariablesBegin <= MemTop /\ MaxTyped + LN + 2 < BYTE
  BY LineStoreConstants DEF ShortLines
<1>1. header \in Nat /\ header + LN = t - 1 /\ length \in Nat /\ length < BYTE /\ header + length = VariablesBegin
      /\ LN + 2 <= length
  BY <1>0
<1>2. linelen' = length /\ txtpos' = header
  <2>1. linelen' = length % BYTE /\ txtpos' = header
    BY <1>1 DEF PutHeader
  <2>2. length % BYTE = length
    BY <1>0, <1>1, Small
  <2> QED
    BY <2>1, <2>2
<1>3. mem' = [b \in Addr |->
                IF b \in header .. header + LN - 1 THEN (linenum' \div BYTE ^ (b - header)) % BYTE
                ELSE IF b = header + LN THEN length ELSE m[b]]
  <2>1. mem' = [b \in Addr |->
                  IF b \in header .. header + LN - 1 THEN (linenum' \div BYTE ^ (b - header)) % BYTE
                  ELSE IF b = header + LN THEN length % BYTE ELSE m[b]]
    BY DEF PutHeader
  <2>2. length % BYTE = length
    BY <1>0, <1>1, Small
  <2> HIDE DEF length
  <2> QED
    BY <2>1, <2>2
<1> HIDE DEF header, length
<1>4. \A i \in 0 .. LN - 1 : mem'[header + i] = (linenum' \div BYTE ^ i) % BYTE
  <2> TAKE i \in 0 .. LN - 1
  <2>1. header + i \in Addr /\ header + i \in header .. header + LN - 1 /\ (header + i) - header = i
    BY <1>0, <1>1 DEF Addr
  <2> QED
    BY <1>3, <2>1
<1>5. NumAt(mem', header) = linenum'
  BY <1>4, NumAtHeader
<1>6. mem'[header + LN] = length
  <2>1. header + LN \in Addr /\ header + LN \notin header .. header + LN - 1
    BY <1>0, <1>1 DEF Addr
  <2> QED
    BY <1>3, <2>1
<1>7. \A b \in t .. VariablesBegin - 1 : mem'[b] = m[b]
  <2> TAKE b \in t .. VariablesBegin - 1
  <2>1. b \in Addr /\ b \notin header .. header + LN - 1 /\ b # header + LN
    BY <1>0, <1>1 DEF Addr
  <2> QED
    BY <1>3, <2>1
<1>8. mem'[VariablesBegin - 1] = NL
  <2>1. VariablesBegin - 1 \in t .. VariablesBegin - 1
    BY <1>0
  <2> QED
    BY <1>7, <2>1
<1>9. \A i \in header + LN + 1 .. VariablesBegin - 2 : mem'[i] # NL
  <2> TAKE i \in header + LN + 1 .. VariablesBegin - 2
  <2>1. i \in t .. VariablesBegin - 1 /\ i \in a .. VariablesBegin - 2
    BY <1>0, <1>1
  <2> QED
    BY <1>7, <2>1
<1>10. NumAt(mem, txtpos)' = NumAt(mem', header)
  BY <1>2 DEF NumAt
<1> QED
  BY <1>1, <1>2, <1>5, <1>6, <1>8, <1>9, <1>10 DEF Headed

\* A numbered line leaves getln with its header.
LEMMA EnteredHeaded ==
    ASSUME ShortLines, IInv, InBuffer, TypedBound, LineEntered
    PROVE  Headed'
<1>1. PICK e \in Buffer .. VariablesBegin - 1, m \in [Addr -> 0 .. BYTE - 1] :
         /\ IsFirst(mem, e, Buffer, {NL})
         /\ m = MovedUp(Uppercased(e), e)
         /\ linenum' \in 0 .. LineMod - 1
         /\ \/ DirectLine(m)
            \/ BadNumber(m)
            \/ \E t \in 0 .. VariablesBegin - 1 :
                  program_end + LN + 2 <= t /\ MovedTo(e) <= t /\ PutHeader(m, linenum', t, VariablesBegin - 1)
  BY LineEnteredMoved
<1>2. CASE DirectLine(m) \/ BadNumber(m)
  <2>1. pc' # "numbered"
    BY <1>2 DEF DirectLine, BadNumber, ToPrompt
  <2> QED
    BY <2>1 DEF Headed
<1>3. ASSUME NEW t \in 0 .. VariablesBegin - 1, program_end + LN + 2 <= t, MovedTo(e) <= t, PutHeader(m, linenum', t, VariablesBegin - 1)
      PROVE  Headed'
  <2>1. e = Buffer + Len(typed)
    BY <1>1, TypedLineEnds DEF LineEntered
  <2>2. Buffer \in Nat /\ Len(typed) \in Nat /\ program_end \in Nat /\ VariablesBegin \in Nat /\ LN \in Nat /\ MaxTyped \in Nat
    BY BufferTypes, Sizes, LineStoreConstants
  <2>3. MovedTo(e) \in Buffer .. VariablesBegin - 1
    BY MovedUpBytes, UppercasedBytes
  <2>4. MovedTo(e) \in Nat /\ VariablesBegin - 1 - MovedTo(e) <= MaxTyped
    BY <2>1, <2>2, <2>3 DEF MovedTo, TypedBound
  <2>5. m[VariablesBegin - 1] = NL /\ \A i \in MovedTo(e) .. VariablesBegin - 2 : m[i] # NL
    BY <1>1, MovedLine
  <2>6. t \in MovedTo(e) .. VariablesBegin - 1 /\ LN + 1 <= t
    BY <1>3, <2>2, <2>4
  <2>7. PICK a : a = MovedTo(e)
    OBVIOUS
  <2>8. /\ ShortLines /\ IInv /\ m \in [Addr -> 0 .. BYTE - 1] /\ a \in Nat /\ t \in a .. VariablesBegin - 1
        /\ linenum' \in 0 .. LineMod - 1 /\ LN + 1 <= t /\ VariablesBegin - 1 - a <= MaxTyped
        /\ m[VariablesBegin - 1] = NL /\ PutHeader(m, linenum', t, VariablesBegin - 1)
    BY <1>1, <1>3, <2>4, <2>5, <2>6, <2>7
  <2>9. \A i \in a .. VariablesBegin - 2 : m[i] # NL
    BY <2>5, <2>7
  <2> QED
    BY ONLY <2>8, <2>9, HeaderWritten
<1> QED
  BY <1>1, <1>2, <1>3

-----------------------------------------------------------------------------
(* Merging.                                                                *)

\* How much of the line that is merged gets in: without text, nothing.
Inserted == IF mem[txtpos + LN + 1] = NL THEN 0 ELSE linelen

\* The test whether the line has text reads it as it was.
LEMMA MergeTests ==
    ASSUME IInv, Headed, NEW s \in 0 .. program_end, MergeAt(s)
    PROVE  mem'[txtpos + LN + 1] = mem[txtpos + LN + 1]
<1>1. /\ program_end \in 0 .. VariablesBegin /\ txtpos \in Addr /\ linelen \in 0 .. BYTE - 1
      /\ program_end < txtpos /\ pc = "numbered" /\ mem \in [Addr -> 0 .. BYTE - 1]
  BY DEF IInv, InBounds, ShuffleRoom, MergeAt
<1>2. txtpos + linelen = VariablesBegin /\ LN + 2 <= linelen
  BY <1>1 DEF Headed
<1>3. Removed(s) \in Nat
  <2>1. CASE Matches(s)
    <3>1. s + LN \in Addr
      BY <1>1, <2>1, Sizes DEF Addr, MergeAt, Found, Matches
    <3>2. mem[s + LN] \in Nat
      BY <1>1, <3>1, Sizes
    <3> QED
      BY <2>1, <3>2 DEF Removed
  <2> QED
    BY <2>1 DEF Removed
<1>4. PICK q : q = program_end - Removed(s)
  OBVIOUS
<1>5. mem' = [a \in Addr |-> IF a \in s .. q - 1 THEN mem[a + Removed(s)] ELSE mem[a]]
  BY <1>4 DEF MergeAt
<1>6. txtpos + LN + 1 \in Addr /\ txtpos + LN + 1 \notin s .. q - 1
  BY <1>1, <1>2, <1>3, <1>4, Sizes DEF Addr
<1> QED
  BY <1>5, <1>6

\* What the merge at s makes of the program.
LEMMA MergedStore ==
    ASSUME IInv, Headed, NEW s \in 0 .. program_end, MergeAt(s), NEW k, k = Inserted,
           NEW r \in Nat, r = Removed(s), s + r <= program_end,
           NEW m, m = program_end - r + k
    PROVE  /\ StoredLen' = m
           /\ Stored' \in [0 .. m - 1 -> 0 .. BYTE - 1]
           /\ \A i \in 0 .. s - 1 : Stored'[i] = mem[i]
           /\ \A i \in 0 .. k - 1 : Stored'[s + i] = mem[txtpos + i]
           /\ \A i \in s + r .. program_end - 1 : Stored'[i - r + k] = mem[i]
<1>b. /\ mem \in [Addr -> 0 .. BYTE - 1] /\ program_end \in 0 .. VariablesBegin /\ txtpos \in Addr
      /\ linelen \in 0 .. BYTE - 1
  BY DEF IInv, InBounds
<1>c. program_end < txtpos /\ txtpos + linelen <= VariablesBegin
  BY DEF MergeAt, IInv, ShuffleRoom, Merging
<1>d. VariablesBegin \in Nat /\ MemTop \in Nat /\ VariablesBegin <= MemTop /\ BYTE \in Nat
  BY Sizes
<1>0. /\ program_end \in Nat /\ txtpos \in Nat /\ linelen \in Nat /\ program_end < txtpos /\ s \in Nat
      /\ txtpos + linelen <= VariablesBegin /\ VariablesBegin \in Nat /\ MemTop \in Nat /\ VariablesBegin <= MemTop
      /\ mem \in [Addr -> 0 .. BYTE - 1] /\ s <= program_end
  BY <1>b, <1>c, <1>d DEF Addr
<1>a. \A a \in 0 .. VariablesBegin - 1 : a \in Addr
  BY <1>0 DEF Addr
<1>1. PICK q \in Nat : q = program_end - r /\ s <= q /\ program_end' = q
  <2>1. program_end - r \in Nat /\ s <= program_end - r
    BY <1>0
  <2> QED
    BY <2>1 DEF MergeAt
<1>2. mem' = [a \in Addr |-> IF a \in s .. q - 1 THEN mem[a + r] ELSE mem[a]]
  BY <1>1 DEF MergeAt
<1>3. \A a \in s .. q - 1 : mem'[a] = mem[a + r] /\ a + r \in Addr
  <2> TAKE a \in s .. q - 1
  <2>1. a \in 0 .. VariablesBegin - 1 /\ a + r \in 0 .. VariablesBegin - 1
    BY <1>0, <1>1
  <2> QED
    BY <1>a, <1>2, <2>1
<1>4. \A a \in Addr : a \notin s .. q - 1 => mem'[a] = mem[a]
  BY <1>2
<1>5. mem' \in [Addr -> 0 .. BYTE - 1]
  <2>1. \A a \in Addr : mem'[a] \in 0 .. BYTE - 1
    <3> TAKE a \in Addr
    <3>1. CASE a \in s .. q - 1
      BY <1>0, <1>3, <3>1
    <3>2. CASE a \notin s .. q - 1
      BY <1>0, <1>4, <3>2
    <3> QED
      BY <3>1, <3>2
  <2>2. mem' = [a \in Addr |-> mem'[a]]
    BY <1>2
  <2> QED
    BY <2>1, <2>2
<1>6. CASE mem[txtpos + LN + 1] = NL
  <2>0. mem'[txtpos + LN + 1] = NL
    BY <1>6, MergeTests
  <2>1. k = 0 /\ pc' = "prompt"
    BY <1>6, <2>0 DEF Inserted, MergeAt, ToPrompt
  <2>2. StoredLen' = q
    BY <1>1, <2>1 DEF StoredLen
  <2>3. Stored' = [i \in 0 .. q - 1 |-> mem'[i]]
    BY <2>1, <2>2 DEF Stored
  <2>4. \A i \in 0 .. q - 1 : i \in Addr
    <3> TAKE i \in 0 .. q - 1
    <3>1. i \in 0 .. VariablesBegin - 1
      BY <1>0, <1>1
    <3> QED
      BY <1>a, <3>1
  <2>5. Stored' \in [0 .. q - 1 -> 0 .. BYTE - 1]
    BY <1>5, <2>3, <2>4
  <2>6. \A i \in 0 .. s - 1 : Stored'[i] = mem[i]
    <3> TAKE i \in 0 .. s - 1
    <3>1. i \in 0 .. q - 1 /\ i \notin s .. q - 1
      BY <1>0, <1>1
    <3> QED
      BY <1>4, <2>3, <2>4, <3>1
  <2>7. \A i \in s + r .. program_end - 1 : Stored'[i - r + k] = mem[i]
    <3> TAKE i \in s + r .. program_end - 1
    <3>1. PICK j : j = i - r + k
      OBVIOUS
    <3>2. j \in 0 .. q - 1 /\ j \in s .. q - 1 /\ j + r = i
      BY <1>0, <1>1, <2>1, <3>1
    <3> QED
      BY <1>3, <2>3, <3>1, <3>2
  <2>8. m = q
    BY <1>0, <1>1, <2>1
  <2>9. \A i \in 0 .. k - 1 : Stored'[s + i] = mem[txtpos + i]
    <3>1. 0 .. k - 1 = {}
      BY <2>1
    <3> QED
      BY <3>1
  <2> QED
    BY <2>2, <2>5, <2>6, <2>7, <2>8, <2>9, Zenon
<1>7. CASE mem[txtpos + LN + 1] # NL
  <2>0. mem'[txtpos + LN + 1] # NL
    BY <1>7, MergeTests
  <2>1. k = linelen /\ pc' = "shuffle" /\ start' = s /\ txtpos' = txtpos /\ linelen' = linelen
    BY <1>7, <2>0 DEF Inserted, MergeAt
  <2>2. k \in Nat /\ txtpos + k <= VariablesBegin
    BY <1>0, <2>1
  <2>10. m = q + k /\ m \in Nat
    BY <1>0, <1>1, <2>2
  <2>3. StoredLen' = m
    BY <1>1, <2>1, <2>10 DEF StoredLen
  <2> DEFINE WithLine(n, st, len, t) ==
               [i \in 0 .. n - 1 |-> IF i < st THEN mem'[i]
                                     ELSE IF i < st + len THEN mem'[t + (i - st)]
                                     ELSE mem'[i - len]]
  <2>4. Stored' = [i \in 0 .. m - 1 |-> IF i < s THEN mem'[i]
                                        ELSE IF i < s + k THEN mem'[txtpos + (i - s)]
                                        ELSE mem'[i - k]]
    <3>1. Stored' = WithLine(StoredLen', start', linelen', txtpos')
      BY <2>1 DEF Stored
    <3> HIDE DEF WithLine
    <3>2. Stored' = WithLine(m, s, k, txtpos)
      BY <2>1, <2>3, <3>1
    <3> QED
      BY <3>2 DEF WithLine
  <2> HIDE DEF WithLine
  <2>5. \A i \in 0 .. s - 1 : Stored'[i] = mem'[i] /\ i \in Addr /\ i \notin s .. q - 1
    <3> TAKE i \in 0 .. s - 1
    <3>1. i \in 0 .. m - 1 /\ i < s /\ i \in 0 .. VariablesBegin - 1 /\ i \notin s .. q - 1
      BY <1>0, <1>1, <2>2, <2>10
    <3> QED
      BY <1>a, <2>4, <3>1
  <2>6. \A i \in 0 .. k - 1 : Stored'[s + i] = mem'[txtpos + i] /\ txtpos + i \in Addr /\ txtpos + i \notin s .. q - 1
    <3> TAKE i \in 0 .. k - 1
    <3>1. PICK j, h : j = s + i /\ h = txtpos + (j - s)
      OBVIOUS
    <3>2. j \in 0 .. m - 1 /\ ~(j < s) /\ j < s + k /\ h \in 0 .. VariablesBegin - 1 /\ h \notin s .. q - 1
          /\ h = txtpos + i
      BY <1>0, <1>1, <2>2, <2>10, <3>1
    <3>3. Stored'[j] = mem'[h]
      BY <2>4, <3>1, <3>2
    <3> QED
      BY <1>a, <3>1, <3>2, <3>3
  <2>7. \A i \in s + k .. m - 1 : Stored'[i] = mem'[i - k] /\ i - k \in Addr
    <3> TAKE i \in s + k .. m - 1
    <3>1. i \in 0 .. m - 1 /\ ~(i < s) /\ ~(i < s + k) /\ i - k \in 0 .. VariablesBegin - 1
      BY <1>0, <1>1, <2>2, <2>10
    <3> QED
      BY <1>a, <2>4, <3>1
  <2>8. Stored' \in [0 .. m - 1 -> 0 .. BYTE - 1]
    <3>1. \A i \in 0 .. m - 1 : Stored'[i] \in 0 .. BYTE - 1
      <4> TAKE i \in 0 .. m - 1
      <4>1. CASE i \in 0 .. s - 1
        BY <1>5, <2>5, <4>1
      <4>2. CASE i \in s .. s + k - 1
        <5>1. i - s \in 0 .. k - 1 /\ s + (i - s) = i
          BY <1>0, <2>2, <4>2
        <5> QED
          BY <1>5, <2>6, <5>1
      <4>3. CASE i \in s + k .. m - 1
        BY <1>5, <2>7, <4>3
      <4> QED
        BY <1>0, <1>1, <2>2, <2>10, <4>1, <4>2, <4>3
    <3>2. Stored' = [i \in 0 .. m - 1 |-> Stored'[i]]
      BY <2>4
    <3> QED
      BY <3>1, <3>2
  <2>9. \A i \in s + r .. program_end - 1 : Stored'[i - r + k] = mem[i]
    <3> TAKE i \in s + r .. program_end - 1
    <3>1. PICK j : j = i - r + k
      OBVIOUS
    <3>2. j \in s + k .. m - 1 /\ j - k \in s .. q - 1 /\ (j - k) + r = i
      BY <1>0, <1>1, <2>2, <2>10, <3>1
    <3>3. PICK h : h = j - k
      OBVIOUS
    <3> QED
      BY <1>3, <2>7, <3>1, <3>2, <3>3
  <2>11. \A i \in 0 .. s - 1 : Stored'[i] = mem[i]
    BY <1>4, <2>5
  <2>12. \A i \in 0 .. k - 1 : Stored'[s + i] = mem[txtpos + i]
    BY <1>4, <2>6
  <2> QED
    BY <2>3, <2>8, <2>9, <2>11, <2>12, Zenon
<1> QED
  BY <1>6, <1>7

\* The line that gets in is a line of the program, with its number.
LEMMA InsertedLine ==
    ASSUME IInv, Headed, pc = "numbered", NEW k, k = Inserted, k # 0,
           NEW s \in Nat, NEW m \in Nat, s + k <= m,
           NEW R \in [0 .. m - 1 -> 0 .. BYTE - 1], \A i \in 0 .. k - 1 : R[s + i] = mem[txtpos + i]
    PROVE  LineAt(R, m, s, s + k) /\ NumAt(R, s) = linenum /\ TextAt(R, s) = TextAt(mem, txtpos)
<1>0. /\ LN \in Nat \ {0} /\ txtpos \in Nat /\ VariablesBegin \in Nat /\ VariablesBegin <= MemTop /\ MemTop \in Nat
      /\ linelen \in Nat /\ mem \in [Addr -> 0 .. BYTE - 1]
  BY Sizes DEF IInv, InBounds, Addr
<1>1. k = linelen /\ mem[txtpos + LN + 1] # NL
  BY DEF Inserted
<1>2. /\ txtpos + k = VariablesBegin /\ LN + 2 <= k /\ k \in Nat
      /\ NumAt(mem, txtpos) = linenum
      /\ mem[txtpos + LN] = k
      /\ mem[VariablesBegin - 1] = NL
      /\ \A i \in txtpos + LN + 1 .. VariablesBegin - 2 : mem[i] # NL
  BY <1>0, <1>1 DEF Headed
<1>3. LN + 3 <= k
  <2> SUFFICES ASSUME k = LN + 2 PROVE FALSE
    BY <1>0, <1>2
  <2>1. txtpos + LN + 1 = VariablesBegin - 1
    BY <1>0, <1>2
  <2> QED
    BY <1>1, <1>2, <2>1
<1>4. R[s + LN] = (s + k) - s
  <2>1. LN \in 0 .. k - 1 /\ (s + k) - s = k
    BY <1>0, <1>2
  <2>2. R[s + LN] = mem[txtpos + LN]
    BY <2>1
  <2> QED
    BY <1>2, <2>1, <2>2
<1>5. R[(s + k) - 1] = NL
  <2>1. k - 1 \in 0 .. k - 1 /\ s + (k - 1) = (s + k) - 1 /\ txtpos + (k - 1) = VariablesBegin - 1
    BY <1>0, <1>2
  <2>2. R[s + (k - 1)] = mem[txtpos + (k - 1)]
    BY <2>1
  <2> QED
    BY <1>2, <2>1, <2>2
<1>6. ASSUME NEW i \in s + LN + 1 .. ((s + k) - 1) - 1 PROVE R[i] # NL
  <2>1. i - s \in 0 .. k - 1 /\ s + (i - s) = i /\ txtpos + (i - s) \in txtpos + LN + 1 .. VariablesBegin - 2
    BY <1>0, <1>2
  <2>2. R[s + (i - s)] = mem[txtpos + (i - s)]
    BY <2>1
  <2> QED
    BY <1>2, <2>1, <2>2
<1>7. s + LN + 1 <= (s + k) - 1 /\ s + k \in Nat /\ s + LN + 3 <= s + k
  BY <1>0, <1>2, <1>3
<1>8. IsFirst(R, (s + k) - 1, s + LN + 1, {NL})
  BY <1>5, <1>6, <1>7 DEF IsFirst
<1>9. LineAt(R, m, s, s + k)
  BY <1>4, <1>7, <1>8 DEF LineAt
<1>10. ASSUME NEW i \in 0 .. LN - 1 PROVE mem[txtpos + i] \in 0 .. BYTE - 1 /\ R[s + i] = mem[txtpos + i]
  <2>1. i \in 0 .. k - 1 /\ txtpos + i \in Addr
    BY <1>0, <1>2 DEF Addr
  <2> QED
    BY <1>0, <2>1
<1>11. \A i \in 0 .. LN - 1 : mem[txtpos + i] \in 0 .. BYTE - 1
  BY <1>10
<1>12. \A i \in 0 .. LN - 1 : R[s + i] = mem[txtpos + i]
  BY <1>10
<1>13. NumAt(R, s) = NumAt(mem, txtpos)
  <2>1. SameNum(mem, txtpos, R, s)
    BY <1>11, <1>12 DEF SameNum
  <2> QED
    BY ONLY <2>1, NumAtCopied
<1>14. TextAt(R, s) = TextAt(mem, txtpos)
  <2>1. TextAt(mem, txtpos) = [i \in 1 .. k - LN - 2 |-> mem[txtpos + LN + i]]
    BY <1>2 DEF TextAt
  <2>2. TextAt(R, s) = [i \in 1 .. k - LN - 2 |-> R[s + LN + i]]
    <3>1. R[s + LN] = k
      BY <1>0, <1>2, <1>4
    <3> QED
      BY <3>1 DEF TextAt
  <2>3. ASSUME NEW i \in 1 .. k - LN - 2 PROVE R[s + LN + i] = mem[txtpos + LN + i]
    <3>1. LN + i \in 0 .. k - 1 /\ s + (LN + i) = s + LN + i /\ txtpos + (LN + i) = txtpos + LN + i
      BY <1>0, <1>2
    <3>2. R[s + (LN + i)] = mem[txtpos + (LN + i)]
      BY <3>1
    <3> QED
      BY <3>1, <3>2
  <2> QED
    BY <2>1, <2>2, <2>3, Zenon
<1> QED
  BY <1>2, <1>9, <1>13, <1>14

\* The line that findline finds leaves if it has the number; the lines behind
\* it have greater ones.
LEMMA RemovedLine ==
    ASSUME IInv, pc = "numbered", NEW X, Chain(Stored, program_end, X), NEW s, s = FindLine
    PROVE  \E t \in X : /\ t = s + Removed(s) /\ Removed(s) = t - s /\ Removed(s) \in Nat
                        /\ s \in Nat /\ t \in Nat /\ s <= t /\ t <= program_end
                        /\ \A x \in X \ {program_end} : t <= x => linenum < NumAt(Stored, x)
                        /\ \A x \in X : s <= x /\ x < t => NumAt(Stored, x) = linenum
<1>0. /\ program_end \in Nat /\ X \subseteq 0 .. program_end /\ linenum \in Nat /\ pc # "shuffle"
      /\ \A x, y \in X \ {program_end} : x < y => NumAt(Stored, x) < NumAt(Stored, y)
  BY LineModNat, Sizes DEF Chain, IInv, InBounds
<1>1. s \in X /\ (s # program_end => NumAt(Stored, s) >= linenum)
  BY <1>0, FindLineFacts
<1>2. \A x \in X \ {program_end} : NumAt(mem, x) = NumAt(Stored, x) /\ NumAt(Stored, x) \in Nat
  <2> TAKE x \in X \ {program_end}
  <2>1. NumAt(mem, x) = NumAt(Stored, x) /\ NumAt(mem, x) \in Nat
    BY <1>0, StoredLine
  <2> QED
    BY <2>1
<1>3. CASE Matches(s)
  <2>1. s # program_end /\ NumAt(mem, s) = linenum /\ Removed(s) = mem[s + LN]
    BY <1>3 DEF Matches, Removed
  <2>2. PICK t \in X : /\ NextIn(X, s, t) /\ mem[s + LN] = t - s /\ s + LN + 3 <= t /\ t <= program_end
                       /\ s \in Nat /\ t \in Nat
    BY <1>0, <1>1, <2>1, StoredLine
  <2>3. t = s + Removed(s) /\ Removed(s) = t - s /\ Removed(s) \in Nat /\ s < t
    <3>1. s < t /\ t - s \in Nat /\ s + (t - s) = t
      BY <2>2, Sizes
    <3> QED
      BY <2>1, <2>2, <3>1
  <2>4. ASSUME NEW x \in X \ {program_end}, t <= x PROVE linenum < NumAt(Stored, x)
    <3>1. s < x
      BY <1>0, <2>2, <2>3, <2>4
    <3>2. NumAt(Stored, s) < NumAt(Stored, x)
      BY <1>0, <1>1, <2>1, <3>1
    <3> QED
      BY <1>1, <1>2, <2>1, <3>2
  <2>5. ASSUME NEW x \in X, s <= x, x < t PROVE NumAt(Stored, x) = linenum
    <3>1. x = s
      BY <1>0, <2>2, <2>5 DEF NextIn
    <3> QED
      BY <1>1, <1>2, <2>1, <3>1
  <2> QED
    BY <2>2, <2>3, <2>4, <2>5
<1>4. CASE ~Matches(s)
  <2>1. Removed(s) = 0 /\ s \in Nat /\ s <= program_end /\ s = s + Removed(s) /\ Removed(s) = s - s
    BY <1>0, <1>1, <1>4 DEF Removed
  <2>2. ASSUME NEW x \in X \ {program_end}, s <= x PROVE linenum < NumAt(Stored, x)
    <3>1. s # program_end
      BY <1>0, <2>1, <2>2
    <3>2. NumAt(Stored, s) # linenum
      BY <1>1, <1>2, <1>4, <3>1 DEF Matches
    <3>3. linenum < NumAt(Stored, s)
      BY <1>0, <1>1, <1>2, <3>1, <3>2
    <3>4. CASE s = x
      BY <3>3, <3>4
    <3>5. CASE s # x
      <4>1. s < x
        BY <1>0, <2>1, <2>2, <3>5
      <4>2. NumAt(Stored, s) < NumAt(Stored, x)
        BY <1>0, <1>1, <3>1, <4>1
      <4>3. NumAt(Stored, s) \in Nat /\ NumAt(Stored, x) \in Nat
        BY <1>1, <1>2, <3>1
      <4> QED
        BY <1>0, <3>3, <4>2, <4>3
    <3> QED
      BY <3>4, <3>5
  <2>3. ASSUME NEW x \in X, s <= x, x < s PROVE FALSE
    BY <1>0, <2>1, <2>3
  <2> QED
    BY <1>1, <2>1, <2>2, <2>3
<1> QED
  BY <1>3, <1>4

\* What is replaced between s and t has the number c, and so has what replaces
\* it, and the text txt.
Replaces(P, n, X, s, t, R, k, c, txt) ==
    /\ \A x \in X : x < s => NumAt(P, x) < c
    /\ \A x \in X \ {n} : t <= x => c < NumAt(P, x)
    /\ \A x \in X : s <= x /\ x < t => NumAt(P, x) = c
    /\ k # 0 => NumAt(R, s) = c /\ TextAt(R, s) = txt

\* Merging splices the line in: one line leaves, or none, and one gets in, or none.
LEMMA MergeSplices ==
    ASSUME IInv, Headed, Merge, NEW n, n = program_end, NEW P, P = Stored, NEW X, Chain(P, n, X)
    PROVE  \E s, t, m, R :
             /\ R = Stored' /\ m = StoredLen'
             /\ Spliced(P, n, X, s, t, R, m, Inserted)
             /\ Replaces(P, n, X, s, t, R, Inserted, linenum, TextAt(mem, txtpos))
<1>0. Chain(Stored, program_end, X)
  OBVIOUS
<1>1. PICK s \in 0 .. program_end : MergeAt(s)
  BY DEF Merge
<1>2. pc = "numbered" /\ pc # "shuffle" /\ s = FindLine
  BY <1>1 DEF MergeAt, Found
<1>3. PICK t \in X : /\ t = s + Removed(s) /\ Removed(s) = t - s /\ Removed(s) \in Nat
                     /\ s \in Nat /\ t \in Nat /\ s <= t /\ t <= program_end
                     /\ \A x \in X \ {program_end} : t <= x => linenum < NumAt(Stored, x)
                     /\ \A x \in X : s <= x /\ x < t => NumAt(Stored, x) = linenum
  BY <1>0, <1>2, RemovedLine
<1>4. s \in X /\ \A y \in X : y < s => NumAt(Stored, y) < linenum
  BY <1>0, <1>2, FindLineFacts
<1>5. PICK k : k = Inserted
  OBVIOUS
<1>6. program_end \in Nat /\ k \in Nat
  BY <1>5, Sizes DEF IInv, InBounds, Inserted
<1>7. PICK r \in Nat : r = Removed(s)
  BY <1>3
<1>8. PICK m \in Nat : m = program_end - r + k
  <2>1. program_end - r + k \in Nat
    BY <1>3, <1>6, <1>7
  <2> QED
    BY <2>1
<1>9. s + r <= program_end /\ r = t - s /\ s + k <= m
  BY <1>3, <1>6, <1>7, <1>8
<1>10. /\ StoredLen' = m
       /\ Stored' \in [0 .. m - 1 -> 0 .. BYTE - 1]
       /\ \A i \in 0 .. s - 1 : Stored'[i] = mem[i]
       /\ \A i \in 0 .. k - 1 : Stored'[s + i] = mem[txtpos + i]
       /\ \A i \in s + r .. program_end - 1 : Stored'[i - r + k] = mem[i]
  <2>1. /\ IInv /\ Headed /\ s \in 0 .. program_end /\ MergeAt(s) /\ k = Inserted /\ r \in Nat /\ r = Removed(s)
        /\ s + r <= program_end /\ m = program_end - r + k
    BY <1>1, <1>5, <1>7, <1>8, <1>9
  <2> QED
    BY ONLY <2>1, MergedStore
<1>11. \A i \in 0 .. program_end - 1 : Stored[i] = mem[i]
  BY <1>2, StoredIsMem
<1>12. \A i \in 0 .. s - 1 : Stored'[i] = Stored[i]
  <2> TAKE i \in 0 .. s - 1
  <2>1. i \in 0 .. program_end - 1
    BY <1>3, <1>6
  <2> QED
    BY <1>10, <1>11, <2>1
<1>13. \A i \in t .. program_end - 1 : Stored'[i - t + s + k] = Stored[i]
  <2> TAKE i \in t .. program_end - 1
  <2>1. i \in 0 .. program_end - 1 /\ i \in s + r .. program_end - 1 /\ i - t + s + k = i - r + k
    BY <1>3, <1>6, <1>9
  <2>2. Stored'[i - r + k] = mem[i]
    BY <1>10, <2>1
  <2> QED
    BY <1>11, <2>1, <2>2
<1>14. ASSUME k # 0
       PROVE  /\ LineAt(Stored', m, s, s + k)
              /\ NumAt(Stored', s) = linenum /\ TextAt(Stored', s) = TextAt(mem, txtpos)
              /\ \A x \in X : x < s => NumAt(Stored, x) < NumAt(Stored', s)
              /\ \A x \in X \ {program_end} : t <= x => NumAt(Stored', s) < NumAt(Stored, x)
  <2>1. PICK R \in [0 .. m - 1 -> 0 .. BYTE - 1] : R = Stored'
    BY <1>10
  <2>2. \A i \in 0 .. k - 1 : R[s + i] = mem[txtpos + i]
    BY <1>10, <2>1
  <2>3. LineAt(R, m, s, s + k) /\ NumAt(R, s) = linenum /\ TextAt(R, s) = TextAt(mem, txtpos)
    <3>1. /\ IInv /\ Headed /\ pc = "numbered" /\ k = Inserted /\ k # 0 /\ s \in Nat /\ m \in Nat
          /\ s + k <= m /\ R \in [0 .. m - 1 -> 0 .. BYTE - 1]
      BY <1>2, <1>3, <1>5, <1>9, <1>14
    <3> QED
      BY ONLY <2>2, <3>1, InsertedLine
  <2> QED
    BY <1>3, <1>4, <2>1, <2>3
<1>15. m = program_end - (t - s) + k
  BY <1>8, <1>9
<1>16. Spliced(Stored, program_end, X, s, t, Stored', m, k)
  BY <1>3, <1>4, <1>6, <1>10, <1>12, <1>13, <1>14, <1>15 DEF Spliced
<1>17. PICK R : R = Stored'
  OBVIOUS
<1>18. Spliced(P, n, X, s, t, R, m, k)
  BY <1>16, <1>17
<1>19. Replaces(P, n, X, s, t, R, k, linenum, TextAt(mem, txtpos))
  BY <1>3, <1>4, <1>14, <1>17 DEF Replaces
<1> QED
  BY <1>5, <1>10, <1>17, <1>18, <1>19

\* Merging keeps the chain.
LEMMA MergeChained ==
    ASSUME IInv, Headed, Merge, NEW X, Chain(Stored, program_end, X)
    PROVE  Chained'
<1>1. PICK n, P : n = program_end /\ P = Stored
  OBVIOUS
<1>2. Chain(P, n, X)
  BY <1>1
<1>3. PICK s, t, m, R : R = Stored' /\ Spliced(P, n, X, s, t, R, m, Inserted)
  BY <1>1, <1>2, MergeSplices
<1>4. PICK k : k = Inserted
  OBVIOUS
<1>5. Spliced(P, n, X, s, t, R, m, k)
  BY <1>3, <1>4
<1>6. Chain(R, m, SplicedAt(X, s, t, k))
  BY ONLY <1>2, <1>5, SplicedChain
<1>7. \E l, Y : Chain(Stored', l, Y)
  BY <1>3, <1>6
<1>8. Chained' <=> \E l, Y : Chain(Stored', l, Y)
  BY DEF Chained, Chain, LineAt, IsFirst, NumAt
<1> QED
  BY <1>7, <1>8

-----------------------------------------------------------------------------
(* Every step keeps the chain.                                             *)

\* The chain ends where the program does.
LEMMA ChainEnds ==
    ASSUME IInv, NEW n, NEW X, Chain(Stored, n, X)
    PROVE  n = StoredLen
<1>1. program_end \in Nat /\ linelen \in Nat
  BY Sizes DEF IInv, InBounds
<1>2. StoredLen \in Nat /\ n \in Nat
  BY <1>1 DEF StoredLen, Chain
<1>3. DOMAIN Stored = 0 .. StoredLen - 1
  BY DEF Stored
<1>4. DOMAIN Stored = 0 .. n - 1
  BY DEF Chain
<1>5. \A i \in Nat : i < n <=> i < StoredLen
  <2> TAKE i \in Nat
  <2>1. i < n <=> i \in 0 .. n - 1
    BY <1>2
  <2>2. i < StoredLen <=> i \in 0 .. StoredLen - 1
    BY <1>2
  <2> QED
    BY <1>3, <1>4, <2>1, <2>2
<1> QED
  BY <1>2, <1>5

\* No program is a chain.
LEMMA EmptyChain ==
    ASSUME program_end = 0, pc # "shuffle"
    PROVE  Chained
<1>1. StoredLen = 0
  BY DEF StoredLen
<1>2. Stored \in [0 .. 0 - 1 -> 0 .. BYTE - 1]
  <2>1. 0 .. 0 - 1 = {}
    OBVIOUS
  <2> QED
    BY <1>1, <2>1 DEF Stored
<1>3. Chain(Stored, 0, {0})
  <2>1. {0} \subseteq 0 .. 0 /\ 0 \in Nat /\ {0} \ {0} = {}
    OBVIOUS
  <2> QED
    BY <1>2, <2>1 DEF Chain
<1> QED
  BY <1>3 DEF Chained

\* A step that leaves the program alone keeps the chain.
LEMMA ChainedKept ==
    ASSUME Chained, Stored' = Stored
    PROVE  Chained'
<1>1. PICK n, X : Chain(Stored, n, X)
  BY DEF Chained
<1>2. PICK P : P = Stored
  OBVIOUS
<1>3. Chain(P, n, X) /\ Stored' = P
  BY <1>1, <1>2
<1>4. Chained' <=> \E l, Y : Chain(Stored', l, Y)
  BY DEF Chained, Chain, LineAt, IsFirst, NumAt
<1> QED
  BY <1>3, <1>4

\* No line grows longer than the longest.
LEMMA TypedBoundStep ==
    ASSUME IInv, TypedBound, [CarefulNext]_vars
    PROVE  TypedBound'
<1>0. typed \in Seq(Keys) /\ Len(typed) \in Nat /\ MaxTyped \in Nat /\ Len(typed) <= MaxTyped
  BY BufferTypes, LineStoreConstants DEF TypedBound
<1>e. typed' = <<>> => TypedBound'
  BY <1>0 DEF TypedBound
<1>u. typed' = typed => TypedBound'
  BY DEF TypedBound
<1>1. ASSUME NEW c \in Keys, TypeChar(c) PROVE TypedBound'
  <2>1. typed' = Append(typed, c) /\ Len(typed) < MaxTyped
    BY <1>1 DEF TypeChar
  <2>2. Len(typed') = Len(typed) + 1
    BY <1>0, <2>1
  <2> QED
    BY <1>0, <2>1, <2>2 DEF TypedBound
<1>2. CASE Backspace
  <2>1. CASE typed = <<>>
    BY <1>2, <1>e, <2>1 DEF Backspace
  <2>2. CASE typed # <<>>
    <3>1. Len(typed) >= 1
      BY <1>0, <2>2
    <3>2. Len(typed') = Len(typed) - 1
      BY <1>0, <1>2, <2>2, <3>1, AllButLast DEF Backspace
    <3> QED
      BY <1>0, <3>2 DEF TypedBound
  <2> QED
    BY <2>1, <2>2
<1>3. CASE Bell \/ SessionEnds \/ EndLine \/ RunsAway \/ StaysLost \/ UNCHANGED vars
  BY <1>3, <1>u DEF Bell, SessionEnds, EndLine, RunsAway, StoresOutside, ScanRunsAway, MergeRunsAway,
                    SaveRunsAway, StaysLost, vars
<1>4. CASE LineEntered
  <2>1. PICK m \in [Addr -> 0 .. BYTE - 1] :
           \/ DirectLine(m)
           \/ BadNumber(m)
           \/ \E t \in 0 .. VariablesBegin - 1 :
                 program_end + LN + 2 <= t /\ PutHeader(m, linenum', t, VariablesBegin - 1)
    BY <1>4, LineEnteredCases
  <2> QED
    BY <1>e, <1>u, <2>1 DEF DirectLine, BadNumber, PutHeader, ToPrompt
<1>5. CASE Merge
  BY <1>5, <1>e DEF Merge, MergeAt, ToPrompt
<1>6. CASE LineAnswered \/ DeletePast \/ Shuffle \/ ShuffleOver \/ Merged \/ ExecuteEnds \/ ClearProgram
           \/ Write \/ Save \/ Input
  BY <1>6, <1>e, <1>u DEF LineAnswered, DeletePast, Shuffle, ShuffleOver, Merged, ExecuteEnds, ClearProgram,
                          Write, Save, Input, ToPrompt
<1>7. CASE LineEnteredAbove
  BY <1>7, <1>e, EmptyAbove DEF ToPrompt
<1> QED
  BY <1>1, <1>2, <1>3, <1>4, <1>5, <1>6, <1>7 DEF CarefulNext, PersistentNext, Next, User, Code, RunsAway

\* Only a line that was just entered waits to be merged.
LEMMA HeadedStep ==
    ASSUME ShortLines, IInv, InBuffer, TypedBound, Headed, [CarefulNext]_vars
    PROVE  Headed'
<1>1. CASE LineEntered
  BY <1>1, EnteredHeaded
<1>2. CASE UNCHANGED vars
  BY <1>2 DEF vars, Headed, NumAt
<1>3. CASE pc' # "numbered"
  BY <1>3 DEF Headed
<1>4. CASE User
  <2>1. pc' # "numbered"
    BY <1>4 DEF User, TypeChar, StoresOutside, Bell, SessionEnds, Backspace, EndLine, InGetln, vars
  <2> QED
    BY <1>3, <2>1
<1>5. CASE StaysLost
  BY <1>2, <1>5 DEF StaysLost
<1>6. CASE LineAnswered \/ RunsAway \/ Merge \/ DeletePast \/ Shuffle \/ ShuffleOver \/ Merged
           \/ ExecuteEnds \/ ClearProgram \/ Write \/ Save \/ Input
  <2>1. pc' # "numbered"
    BY <1>6 DEF LineAnswered, RunsAway, StoresOutside, ScanRunsAway, MergeRunsAway, SaveRunsAway, Merge, MergeAt,
                DeletePast, Shuffle, ShuffleOver, Merged, ExecuteEnds, ClearProgram, Write, Save, Input, ToPrompt
  <2> QED
    BY <1>3, <2>1
<1>7. CASE LineEnteredAbove
  BY <1>3, <1>7, EmptyAbove DEF ToPrompt
<1> QED
  BY <1>1, <1>2, <1>4, <1>5, <1>6, <1>7 DEF CarefulNext, PersistentNext, Next, Code, RunsAway

\* All but merging and clearing keep the program.
LEMMA OthersKeepStore ==
    ASSUME IInv, [CarefulNext]_vars, ~Merge, ~ClearProgram
    PROVE  Stored' = Stored
<1>0. program_end \in Nat
  BY BufferTypes
<1>1. CASE pc \notin {"numbered", "execute"}
  BY <1>1, CarefulKeepsStore
<1>2. CASE UNCHANGED vars
  BY <1>2 DEF vars, Stored, StoredLen
<1>3. CASE pc = "numbered" /\ ~UNCHANGED vars
  <2>1. DeletePast \/ MergeRunsAway
    BY <1>3 DEF CarefulNext, PersistentNext, Next, User, TypeChar, StoresOutside, Bell, SessionEnds, Backspace,
                EndLine, InGetln, Code, LineEntered, LineEnteredAbove, LineAnswered, ScanRunsAway, Shuffle,
                ShuffleOver, Merged, ExecuteEnds, Write, Save, SaveRunsAway, Input, StaysLost
  <2>2. pc # "shuffle" /\ pc' # "shuffle" /\ mem' = mem /\ program_end' = program_end
    BY <2>1 DEF DeletePast, MergeRunsAway, ToPrompt
  <2> QED
    BY <1>0, <2>2, StoredKept
<1>4. CASE pc = "execute" /\ ~UNCHANGED vars
  <2>1. ExecuteEnds \/ Write \/ Save \/ SaveRunsAway \/ Input
    BY <1>4 DEF CarefulNext, PersistentNext, Next, User, TypeChar, StoresOutside, Bell, SessionEnds, Backspace,
                EndLine, InGetln, Code, LineEntered, LineEnteredAbove, LineAnswered, ScanRunsAway, DeletePast,
                MergeRunsAway, Shuffle, ShuffleOver, Merged, StaysLost
  <2>2. pc' # "shuffle" /\ program_end' = program_end
    BY <2>1 DEF ExecuteEnds, Write, Save, SaveRunsAway, Input, ToPrompt
  <2>3. \A a \in 0 .. program_end - 1 : mem'[a] = mem[a]
    BY <1>4 DEF CarefulNext, PersistentNext, KeepsItsText
  <2> QED
    BY <1>0, <1>4, <2>2, <2>3, StoredKept
<1> QED
  BY <1>1, <1>2, <1>3, <1>4

\* Merging and clearing keep the chain, the other steps keep the program.
LEMMA ChainedStep ==
    ASSUME IInv, Headed, Chained, [CarefulNext]_vars
    PROVE  Chained'
<1>2. CASE Merge
  <2>1. PICK n, X : Chain(Stored, n, X)
    BY DEF Chained
  <2>2. pc # "shuffle"
    BY <1>2 DEF Merge, MergeAt
  <2>3. n = program_end
    BY <2>1, <2>2, ChainEnds, StoredIsMem
  <2> QED
    BY <1>2, <2>1, <2>3, MergeChained
<1>3. CASE ClearProgram
  <2>1. program_end' = 0 /\ pc' # "shuffle"
    BY <1>3 DEF ClearProgram, ToPrompt
  <2>2. StoredLen' = 0
    BY <2>1 DEF StoredLen
  <2>3. Stored' \in [0 .. 0 - 1 -> 0 .. BYTE - 1]
    <3>1. 0 .. 0 - 1 = {}
      OBVIOUS
    <3>2. Stored' = [i \in 0 .. 0 - 1 |-> mem'[i]]
      BY <2>1, <2>2 DEF Stored
    <3> QED
      BY <3>1, <3>2
  <2>4. Chain(Stored', 0, {0})
    <3>1. {0} \subseteq 0 .. 0 /\ 0 \in Nat /\ {0} \ {0} = {}
      OBVIOUS
    <3> QED
      BY <2>3, <3>1 DEF Chain
  <2>5. Chained' <=> \E l, Y : Chain(Stored', l, Y)
    BY DEF Chained, Chain, LineAt, IsFirst, NumAt
  <2> QED
    BY <2>4, <2>5
<1>4. CASE ~Merge /\ ~ClearProgram
  BY <1>4, OthersKeepStore, ChainedKept
<1> QED
  BY <1>2, <1>3, <1>4

\* The chain, the header and the length of the line hold in every state, if an
\* uchar counts every line.
LEMMA ChainInvariant ==
    ASSUME ShortLines
    PROVE  CarefulSpec => [](TypedBound /\ Headed /\ Chained)
<1>1. Init => TypedBound /\ Headed /\ Chained
  <2> SUFFICES ASSUME Init PROVE TypedBound /\ Headed /\ Chained
    OBVIOUS
  <2>1. Len(typed) = 0 /\ pc = "prompt" /\ program_end = 0 /\ MaxTyped \in Nat
    BY LineStoreConstants DEF Init
  <2> QED
    BY <2>1, EmptyChain DEF TypedBound, Headed
<1>2. IInv /\ InBuffer /\ (TypedBound /\ Headed /\ Chained) /\ [CarefulNext]_vars
        => (TypedBound /\ Headed /\ Chained)'
  BY TypedBoundStep, HeadedStep, ChainedStep
<1> QED
  BY <1>1, <1>2, LineStoreInvariant, TypedInvariant, PTL DEF CarefulSpec

\* WellFormed of LineStore.tla for a careful user: whatever lines he types, with or
\* without numbers, in whatever order, replaced or deleted, and however little room is
\* left to shuffle them in, the program stays a chain of lines with ascending numbers
\* that leads to program_end.  The careful user types nothing when getln has started
\* above its limit, and no statement writes into the program.  The lengths of lines
\* are bounded: one that linelen, an uchar, does not count gets a header that leads
\* elsewhere.
THEOREM LineStoreWellFormed ==
    ASSUME ShortLines
    PROVE  CarefulSpec => []WellFormed
<1>1. IInv /\ Chained => WellFormed
  <2> SUFFICES ASSUME IInv, Chained PROVE WellFormed
    OBVIOUS
  <2>1. PICK n, X : Chain(Stored, n, X)
    BY DEF Chained
  <2>2. n = StoredLen
    BY <2>1, ChainEnds
  <2> QED
    BY <2>1, <2>2, WellFormedChain
<1> QED
  BY <1>1, ChainInvariant, LineStoreInvariant, PTL

-----------------------------------------------------------------------------
(* The program as a map.                                                   *)

\* No two lines have the same number.
LEMMA ChainNumbers ==
    ASSUME NEW P, NEW n, NEW X, Chain(P, n, X), NEW x \in X \ {n}
    PROVE  /\ NumAt(P, x) \in Nat
           /\ \A y \in X \ {n} : NumAt(P, x) = NumAt(P, y) => x = y
<1>1. ASSUME NEW y \in X \ {n} PROVE NumAt(P, y) \in Nat /\ y \in Nat
  <2>1. PICK e \in X : LineAt(P, n, y, e)
    BY ChainLine
  <2>2. /\ LN \in Nat /\ n \in Nat /\ y \in Nat /\ e \in Nat /\ y + LN + 3 <= e /\ e <= n
        /\ P \in [0 .. n - 1 -> 0 .. BYTE - 1]
    BY <2>1, Sizes DEF LineAt, Chain
  <2>3. ASSUME NEW i \in 0 .. LN - 1 PROVE P[y + i] \in 0 .. BYTE - 1
    <3>1. y + i \in 0 .. n - 1
      BY <2>2
    <3> QED
      BY <2>2, <3>1
  <2>4. SameNum(P, y, P, y)
    BY <2>3 DEF SameNum
  <2>5. NumAt(P, y) \in Nat
    BY ONLY <2>4, NumAtCopied
  <2> QED
    BY <2>2, <2>5
<1>2. ASSUME NEW y \in X \ {n}, NumAt(P, x) = NumAt(P, y) PROVE x = y
  <2>1. /\ x \in Nat /\ y \in Nat /\ NumAt(P, x) \in Nat /\ NumAt(P, y) \in Nat
        /\ (x < y => NumAt(P, x) < NumAt(P, y)) /\ (y < x => NumAt(P, y) < NumAt(P, x))
    BY <1>1 DEF Chain
  <2> QED
    BY <1>2, <2>1
<1> QED
  BY <1>1, <1>2

\* f maps the numbers of the lines that begin at the places of Y to their texts.
Maps(f, P, Y) ==
    /\ f = [k \in DOMAIN f |-> f[k]]
    /\ \A k : k \in DOMAIN f <=> \E a \in Y : k = NumAt(P, a)
    /\ \A a \in Y : f[NumAt(P, a)] = TextAt(P, a)

\* The map of a chain has its lines: they are what LinesOf meets.
LEMMA LinesMap ==
    ASSUME NEW P, NEW n, NEW X, Chain(P, n, X)
    PROVE  Maps(LinesOf(P, n), P, X \ {n})
<1> DEFINE Eq(h) == h = [a \in 0 .. n |-> IF a + LN < n /\ a + P[a + LN] \in a + 1 .. n
                                          THEN {a} \cup h[a + P[a + LN]] ELSE {}]
<1>0. LN \in Nat /\ n \in Nat /\ P \in [0 .. n - 1 -> 0 .. BYTE - 1] /\ X \subseteq 0 .. n /\ 0 \in X /\ n \in X
  BY Sizes DEF Chain
<1>1. PICK D : D = SUBSET (0 .. n)
  OBVIOUS
<1>2. PICK jump : jump = [a \in 0 .. n |-> IF a + LN < n THEN a + P[a + LN] ELSE 0]
  OBVIOUS
<1>3. PICK base : base = [a \in 0 .. n |-> {}]
  OBVIOUS
<1>4. PICK step : step = [a \in 0 .. n |-> [S \in D |-> {a} \cup S]]
  OBVIOUS
<1>5. base \in [0 .. n -> D]
  BY <1>1, <1>3
<1>6. step \in [0 .. n -> [D -> D]]
  <2>1. ASSUME NEW a \in 0 .. n, NEW S \in D PROVE {a} \cup S \in D
    BY <1>1
  <2> QED
    BY <1>4, <2>1
<1>7. jump \in [0 .. n -> Int]
  <2>1. ASSUME NEW a \in 0 .. n, a + LN < n PROVE a + P[a + LN] \in Int
    <3>1. a + LN \in 0 .. n - 1
      BY <1>0, <2>1
    <3> QED
      BY <1>0, <3>1, Sizes
  <2> QED
    BY <1>2, <2>1
<1>8. PICK g : g \in [0 .. n -> D] /\ Climbs(g, n, base, step, jump)
  BY <1>0, <1>5, <1>6, <1>7, JumpsExist
<1>9. ASSUME NEW a \in 0 .. n
      PROVE  g[a] = IF a + LN < n /\ a + P[a + LN] \in a + 1 .. n THEN {a} \cup g[a + P[a + LN]] ELSE {}
  <2>1. g[a] = IF jump[a] \in a + 1 .. n THEN step[a][g[jump[a]]] ELSE base[a]
    BY <1>8 DEF Climbs
  <2>2. CASE a + LN < n /\ a + P[a + LN] \in a + 1 .. n
    <3>1. jump[a] = a + P[a + LN]
      BY <1>2, <2>2
    <3>2. PICK b \in 0 .. n : b = a + P[a + LN]
      BY <1>0, <2>2
    <3>3. g[b] \in D
      BY <1>8
    <3>4. step[a][g[b]] = {a} \cup g[b]
      BY <1>4, <3>3
    <3> QED
      BY <2>1, <2>2, <3>1, <3>2, <3>4
  <2>3. CASE ~(a + LN < n /\ a + P[a + LN] \in a + 1 .. n)
    <3>1. jump[a] \notin a + 1 .. n
      BY <1>0, <1>2, <2>3
    <3> QED
      BY <1>3, <2>1, <2>3, <3>1
  <2> QED
    BY <2>2, <2>3
<1>10. \E h : Eq(h)
  <2>1. g = [a \in 0 .. n |-> g[a]]
    BY <1>8
  <2>2. Eq(g)
    BY <1>9, <2>1, Zenon
  <2> QED
    BY <2>2
<1>11. PICK from : from = CHOOSE h : Eq(h)
  OBVIOUS
<1>12. Eq(from)
  BY <1>10, <1>11
<1>13. LinesOf(P, n) = [k \in {NumAt(P, a) : a \in from[0]} |-> TextAt(P, CHOOSE a \in from[0] : NumAt(P, a) = k)]
  BY <1>11 DEF LinesOf
<1>14. \A a \in 0 .. n : from[a] = IF a + LN < n /\ a + P[a + LN] \in a + 1 .. n
                                   THEN {a} \cup from[a + P[a + LN]] ELSE {}
  BY <1>12
<1> DEFINE Rest(a) == {y \in X : a <= y /\ y # n}
           T == {a \in 0 .. n : a \in X => from[a] = Rest(a)}
<1>15. ASSUME NEW a \in 0 .. n, \A j \in a + 1 .. n : j \in T
       PROVE  a \in T
  <2> SUFFICES ASSUME a \in X PROVE from[a] = Rest(a)
    OBVIOUS
  <2>1. CASE a = n
    <3>1. from[a] = {}
      <4>1. ~(a + LN < n)
        BY <1>0, <2>1
      <4> QED
        BY <1>14, <4>1
    <3>2. \A y \in X : a <= y => y = n
      BY <1>0, <2>1
    <3>3. Rest(a) = {}
      BY <2>1, <3>2
    <3> QED
      BY <3>1, <3>3
  <2>2. CASE a # n
    <3>1. PICK e \in X : LineAt(P, n, a, e) /\ NextIn(X, a, e)
      BY <2>2, ChainLine
    <3>2. a + LN < n /\ e \in a + 1 .. n /\ a + P[a + LN] = e
      <4>1. a \in Nat /\ e \in Nat /\ a + LN + 3 <= e /\ e <= n /\ P[a + LN] = e - a
        BY <3>1 DEF LineAt
      <4> QED
        BY <1>0, <4>1
    <3>3. from[a] = {a} \cup from[e]
      BY <1>14, <3>2
    <3>4. from[e] = Rest(e)
      BY <1>15, <3>1, <3>2
    <3>5. ASSUME NEW y PROVE y \in Rest(a) <=> y = a \/ y \in Rest(e)
      <4>1. y \in X => y \in Nat /\ (y <= a \/ e <= y)
        BY <1>0, <3>1 DEF NextIn
      <4> QED
        BY <2>2, <3>2, <4>1
    <3> QED
      BY <3>3, <3>4, <3>5
  <2> QED
    BY <2>1, <2>2
<1> HIDE DEF T
<1>16. 0 .. n \subseteq T
  BY <1>0, <1>15, DownFrom
<1>17. from[0] = X \ {n}
  <2>1. from[0] = Rest(0)
    BY <1>0, <1>16 DEF T
  <2>2. \A y \in X : 0 <= y
    BY <1>0
  <2> QED
    BY <2>1, <2>2
<1>18. PICK f : f = LinesOf(P, n)
  OBVIOUS
<1>19. f = [k \in {NumAt(P, a) : a \in from[0]} |-> TextAt(P, CHOOSE a \in from[0] : NumAt(P, a) = k)]
  BY <1>13, <1>18, Zenon
<1> HIDE <1>12, <1>13, <1>14
<1>20. PICK S : S = {NumAt(P, a) : a \in from[0]}
  OBVIOUS
<1>21. f = [k \in S |-> f[k]] /\ \A k \in S : f[k] = TextAt(P, CHOOSE a \in from[0] : NumAt(P, a) = k)
  BY ONLY <1>19, <1>20
<1>22. f = [k \in DOMAIN f |-> f[k]] /\ DOMAIN f = S
  BY ONLY <1>21
<1>23. \A k : k \in DOMAIN f <=> \E a \in X \ {n} : k = NumAt(P, a)
  BY <1>17, <1>20, <1>22, Zenon
<1>24. ASSUME NEW a \in X \ {n} PROVE f[NumAt(P, a)] = TextAt(P, a)
  <2>1. PICK k : k = NumAt(P, a)
    OBVIOUS
  <2>2. PICK b : b = CHOOSE c \in from[0] : NumAt(P, c) = k
    OBVIOUS
  <2>3. \E c \in from[0] : NumAt(P, c) = k
    BY <1>17, <2>1
  <2>4. b \in from[0] /\ NumAt(P, b) = k
    BY <2>2, <2>3, Zenon
  <2>5. b = a
    BY <1>17, <2>1, <2>4, ChainNumbers
  <2>6. k \in S
    BY <1>17, <1>20, <2>1
  <2>7. f[k] = TextAt(P, b)
    BY <1>21, <2>2, <2>6, Zenon
  <2> QED
    BY <2>1, <2>5, <2>7
<1> QED
  BY <1>18, <1>22, <1>23, <1>24 DEF Maps

\* The line c of p is replaced by txt, or leaves if txt is empty.
StoredIn(p, c, txt) ==
    [k \in (DOMAIN p \cup (IF txt = <<>> THEN {} ELSE {c})) \ (IF txt = <<>> THEN {c} ELSE {}) |->
        IF k = c THEN txt ELSE p[k]]

\* On the map, replacing lines by a line or none is replacing or removing one entry.
LEMMA SplicedMap ==
    ASSUME NEW P, NEW n, NEW X, Chain(P, n, X), NEW s, NEW t, NEW R, NEW m, NEW k,
           Spliced(P, n, X, s, t, R, m, k), NEW c \in Nat, NEW txt, Replaces(P, n, X, s, t, R, k, c, txt),
           k = 0 <=> txt = <<>>,
           NEW f, Maps(f, P, X \ {n}), NEW h, Maps(h, R, SplicedAt(X, s, t, k) \ {m})
    PROVE  h = StoredIn(f, c, txt)
<1> DEFINE Y == SplicedAt(X, s, t, k) \ {m}
           D == (DOMAIN f \cup (IF txt = <<>> THEN {} ELSE {c})) \ (IF txt = <<>> THEN {c} ELSE {})
<1>1. /\ n \in Nat /\ s \in Nat /\ t \in Nat /\ k \in Nat /\ s <= t /\ t <= n
      /\ X \subseteq 0 .. n /\ m = n - (t - s) + k /\ m \in Nat
  BY DEF Spliced, Chain
<1>2. ASSUME NEW x \in X, x < s
      PROVE  /\ x \in X \ {n} /\ x \in Y /\ NumAt(R, x) = NumAt(P, x) /\ TextAt(R, x) = TextAt(P, x)
             /\ NumAt(P, x) \in Nat /\ NumAt(P, x) < c
  <2>1. NumAt(R, x) = NumAt(P, x) /\ TextAt(R, x) = TextAt(P, x) /\ NumAt(P, x) \in Nat
    BY <1>2, SplicedLow
  <2>2. x \in SplicedAt(X, s, t, k)
    BY <1>2, SplicedHas
  <2>3. x # m /\ x # n
    BY <1>1, <1>2
  <2>4. NumAt(P, x) < c
    BY <1>2 DEF Replaces
  <2> QED
    BY <2>1, <2>2, <2>3, <2>4
<1>3. ASSUME NEW x \in X, t <= x, x # n
      PROVE  /\ x - t + s + k \in Y /\ NumAt(R, x - t + s + k) = NumAt(P, x)
             /\ TextAt(R, x - t + s + k) = TextAt(P, x)
             /\ NumAt(P, x) \in Nat /\ c < NumAt(P, x)
  <2>1. NumAt(R, x - t + s + k) = NumAt(P, x) /\ TextAt(R, x - t + s + k) = TextAt(P, x) /\ NumAt(P, x) \in Nat
    BY <1>3, SplicedHigh
  <2>2. x - t + s + k \in SplicedAt(X, s, t, k)
    BY <1>3, SplicedHas
  <2>3. x - t + s + k # m
    BY <1>1, <1>3
  <2>4. c < NumAt(P, x)
    BY <1>3 DEF Replaces
  <2> QED
    BY <2>1, <2>2, <2>3, <2>4
<1>4. k # 0 => s \in Y /\ NumAt(R, s) = c /\ TextAt(R, s) = txt /\ txt # <<>>
  <2> SUFFICES ASSUME k # 0 PROVE s \in Y /\ NumAt(R, s) = c /\ TextAt(R, s) = txt /\ txt # <<>>
    OBVIOUS
  <2>1. s \in SplicedAt(X, s, t, k)
    BY SplicedHas
  <2>2. s # m
    BY <1>1
  <2> QED
    BY <2>1, <2>2, Zenon DEF Replaces
<1>5. k = 0 <=> txt = <<>>
  OBVIOUS
<1>6. /\ f = [j \in DOMAIN f |-> f[j]]
      /\ \A j : j \in DOMAIN f <=> \E a \in X \ {n} : j = NumAt(P, a)
      /\ \A a \in X \ {n} : f[NumAt(P, a)] = TextAt(P, a)
  BY DEF Maps
<1>7. /\ h = [j \in DOMAIN h |-> h[j]]
      /\ \A j : j \in DOMAIN h <=> \E a \in Y : j = NumAt(R, a)
      /\ \A a \in Y : h[NumAt(R, a)] = TextAt(R, a)
  BY DEF Maps
<1> HIDE DEF Y
<1>8. ASSUME NEW j \in DOMAIN h PROVE j \in D /\ h[j] = IF j = c THEN txt ELSE f[j]
  <2>1. PICK y \in Y : j = NumAt(R, y)
    BY <1>7
  <2>2. h[j] = TextAt(R, y)
    BY <1>7, <2>1
  <2>3. CASE y \in X /\ y < s
    <3>1. j = NumAt(P, y) /\ h[j] = TextAt(P, y) /\ j # c /\ y \in X \ {n}
      BY <1>2, <2>1, <2>2, <2>3
    <3>2. j \in DOMAIN f /\ f[j] = h[j]
      BY <1>6, <3>1
    <3> QED
      BY <3>1, <3>2
  <2>4. CASE k # 0 /\ y = s
    BY <1>4, <2>1, <2>2, <2>4
  <2>5. ASSUME NEW z \in X, t <= z, y = z - t + s + k
        PROVE  j \in D /\ h[j] = IF j = c THEN txt ELSE f[j]
    <3>1. z # n
      <4>1. y # m
        BY <2>1 DEF Y
      <4> QED
        BY <1>1, <2>5, <4>1
    <3>2. j = NumAt(P, z) /\ h[j] = TextAt(P, z) /\ j # c /\ z \in X \ {n}
      BY <1>3, <2>1, <2>2, <2>5, <3>1
    <3>3. j \in DOMAIN f /\ f[j] = h[j]
      BY <1>6, <3>2
    <3> QED
      BY <3>2, <3>3
  <2>6. y \in SplicedAt(X, s, t, k)
    BY <2>1 DEF Y
  <2> QED
    BY <2>3, <2>4, <2>5, <2>6, SplicedCases
<1>9. ASSUME NEW j \in D PROVE j \in DOMAIN h
  <2>1. CASE j = c
    <3>1. k # 0
      BY <1>5, <2>1
    <3> QED
      BY <1>4, <1>7, <2>1, <3>1
  <2>2. CASE j # c
    <3>1. PICK x \in X \ {n} : j = NumAt(P, x)
      BY <1>6, <2>2
    <3>2. CASE x < s
      BY <1>2, <1>7, <3>1, <3>2
    <3>3. CASE t <= x
      BY <1>3, <1>7, <3>1, <3>3
    <3>4. CASE s <= x /\ x < t
      BY <2>2, <3>1, <3>4 DEF Replaces
    <3>5. x \in Nat
      BY <1>1
    <3> QED
      BY <1>1, <3>2, <3>3, <3>4, <3>5
  <2> QED
    BY <2>1, <2>2
<1>10. DOMAIN h = D
  BY <1>8, <1>9
<1> HIDE DEF D
<1>11. [j \in DOMAIN h |-> h[j]] = [j \in D |-> IF j = c THEN txt ELSE f[j]]
  BY <1>8, <1>10
<1>12. h = [j \in D |-> IF j = c THEN txt ELSE f[j]]
  BY <1>7, <1>11, Zenon
<1> QED
  BY <1>12 DEF D, StoredIn

\* The line to be merged gets in if it has a text.
LEMMA InsertedText ==
    ASSUME IInv, Headed, pc = "numbered"
    PROVE  Inserted = 0 <=> TextAt(mem, txtpos) = <<>>
<1>1. LN \in Nat /\ txtpos \in Nat /\ linelen \in Nat /\ VariablesBegin \in Nat
  BY Sizes, BufferTypes DEF IInv, InBounds
<1>2. /\ txtpos + linelen = VariablesBegin /\ LN + 2 <= linelen /\ mem[txtpos + LN] = linelen
      /\ mem[VariablesBegin - 1] = NL
      /\ \A i \in txtpos + LN + 1 .. VariablesBegin - 2 : mem[i] # NL
  BY DEF Headed
<1>3. TextAt(mem, txtpos) = [i \in 1 .. linelen - LN - 2 |-> mem[txtpos + LN + i]]
  BY <1>2 DEF TextAt
<1>4. CASE linelen = LN + 2
  <2>1. mem[txtpos + LN + 1] = NL
    <3>1. txtpos + LN + 1 = VariablesBegin - 1
      BY <1>1, <1>2, <1>4
    <3> QED
      BY <1>2, <3>1
  <2>2. Inserted = 0
    BY <2>1 DEF Inserted
  <2>3. TextAt(mem, txtpos) = <<>>
    <3>1. 1 .. linelen - LN - 2 = {}
      BY <1>1, <1>4
    <3> QED
      BY <1>3, <3>1
  <2> QED
    BY <2>2, <2>3
<1>5. CASE linelen # LN + 2
  <2>1. txtpos + LN + 1 \in txtpos + LN + 1 .. VariablesBegin - 2 /\ linelen # 0 /\ 1 \in 1 .. linelen - LN - 2
    BY <1>1, <1>2, <1>5
  <2>2. Inserted # 0
    BY <1>2, <2>1 DEF Inserted
  <2>3. TextAt(mem, txtpos) # <<>>
    <3>1. 1 \in DOMAIN TextAt(mem, txtpos)
      BY <1>3, <2>1
    <3> QED
      BY <3>1
  <2> QED
    BY <2>2, <2>3
<1> QED
  BY <1>4, <1>5

\* What merging a line does to the program, as a map.
LEMMA MergeStores ==
    ASSUME IInv, Headed, Merge, Chained
    PROVE  Listing' = StoredIn(Listing, linenum, TextAt(mem, txtpos))
<1>1. pc = "numbered" /\ pc # "shuffle"
  BY DEF Merge, MergeAt
<1>2. PICK l, X : Chain(Stored, l, X)
  BY DEF Chained
<1>3. l = StoredLen /\ StoredLen = program_end
  BY <1>1, <1>2, ChainEnds, StoredIsMem
<1>4. PICK n, P : n = program_end /\ P = Stored
  OBVIOUS
<1>5. Chain(P, n, X) /\ Listing = LinesOf(P, n)
  BY <1>2, <1>3, <1>4 DEF Listing
<1>6. PICK s, t, m, R :
        /\ R = Stored' /\ m = StoredLen'
        /\ Spliced(P, n, X, s, t, R, m, Inserted)
        /\ Replaces(P, n, X, s, t, R, Inserted, linenum, TextAt(mem, txtpos))
  BY <1>4, <1>5, MergeSplices
<1>7. PICK k, c, txt : k = Inserted /\ c = linenum /\ txt = TextAt(mem, txtpos)
  OBVIOUS
<1>8. Spliced(P, n, X, s, t, R, m, k) /\ Replaces(P, n, X, s, t, R, k, c, txt) /\ c \in Nat
  BY <1>6, <1>7, LineModNat DEF IInv, InBounds
<1>9. k = 0 <=> txt = <<>>
  BY <1>1, <1>7, InsertedText
<1>10. PICK f, h : f = LinesOf(P, n) /\ h = LinesOf(R, m)
  OBVIOUS
<1>11. Maps(f, P, X \ {n})
  BY <1>5, <1>10, LinesMap
<1>12. Maps(h, R, SplicedAt(X, s, t, k) \ {m})
  <2>1. Chain(R, m, SplicedAt(X, s, t, k))
    BY ONLY <1>5, <1>8, SplicedChain
  <2> QED
    BY <1>10, <2>1, LinesMap
<1>13. h = StoredIn(f, c, txt)
  BY ONLY <1>5, <1>8, <1>9, <1>11, <1>12, SplicedMap
<1>14. Listing' = LinesOf(R, m)
  BY <1>6 DEF Listing
<1> QED
  BY <1>5, <1>7, <1>10, <1>13, <1>14

\* Steps that keep the program keep the map.
LEMMA ListingKept ==
    ASSUME IInv, IInv', Stored' = Stored
    PROVE  Listing' = Listing
<1>1. StoredLen \in Nat /\ StoredLen' \in Nat
  <2>1. program_end \in Nat /\ linelen \in Nat
    BY Sizes DEF IInv, InBounds
  <2>2. program_end' \in Nat /\ linelen' \in Nat
    BY Sizes DEF IInv, InBounds
  <2>3. StoredLen \in Nat
    BY ONLY <2>1 DEF StoredLen
  <2>4. StoredLen' \in Nat
    <3>1. PICK p, l, b : p = program_end' /\ l = linelen' /\ b = pc'
      OBVIOUS
    <3>2. StoredLen' = p + (IF b = "shuffle" THEN l ELSE 0)
      BY <3>1, Zenon DEF StoredLen
    <3>3. p \in Nat /\ l \in Nat
      BY <2>2, <3>1
    <3> QED
      BY ONLY <3>2, <3>3
  <2> QED
    BY <2>3, <2>4
<1>2. DOMAIN Stored = 0 .. StoredLen - 1 /\ DOMAIN Stored' = 0 .. StoredLen' - 1
  BY DEF Stored
<1>3. StoredLen' = StoredLen
  <2>1. PICK a \in Nat, b \in Nat : a = StoredLen /\ b = StoredLen' /\ 0 .. a - 1 = 0 .. b - 1
    BY <1>1, <1>2
  <2>2. ~(a < b)
    <3>1. a < b => a \in 0 .. b - 1 /\ a \notin 0 .. a - 1
      OBVIOUS
    <3> QED
      BY <2>1, <3>1
  <2>3. ~(b < a)
    <3>1. b < a => b \in 0 .. a - 1 /\ b \notin 0 .. b - 1
      OBVIOUS
    <3> QED
      BY <2>1, <3>1
  <2> QED
    BY <2>1, <2>2, <2>3
<1> QED
  BY <1>3 DEF Listing

\* No program is no map.
LEMMA EmptyLines ==
    ASSUME NEW P \in [0 .. 0 - 1 -> 0 .. BYTE - 1]
    PROVE  LinesOf(P, 0) = <<>>
<1>1. Chain(P, 0, {0})
  <2>1. {0} \subseteq 0 .. 0 /\ 0 \in Nat /\ {0} \ {0} = {}
    OBVIOUS
  <2> QED
    BY <2>1 DEF Chain
<1>2. PICK f : f = LinesOf(P, 0)
  OBVIOUS
<1>3. Maps(f, P, {0} \ {0})
  BY <1>1, <1>2, LinesMap
<1>4. f = [k \in DOMAIN f |-> f[k]] /\ DOMAIN f = {}
  BY <1>3 DEF Maps
<1>5. f = <<>>
  BY ONLY <1>4
<1> QED
  BY <1>2, <1>5

LEMMA EmptyListing ==
    ASSUME StoredLen = 0
    PROVE  Listing = <<>>
<1>1. Stored \in [0 .. 0 - 1 -> 0 .. BYTE - 1]
  <2>1. 0 .. 0 - 1 = {}
    OBVIOUS
  <2> QED
    BY <2>1 DEF Stored
<1> QED
  BY <1>1, EmptyLines DEF Listing

-----------------------------------------------------------------------------
(* Upper case.                                                             *)

\* The quotation mark that is open after the character c, when q was.
NextQuote(c, q) == IF c = q THEN 0 ELSE IF c \in Quotes THEN c ELSE q

Bytes == 0 .. BYTE - 1

LEMMA QuoteIsByte ==
    ASSUME NEW c, NEW q \in Bytes
    PROVE  NextQuote(c, q) \in Bytes
<1>1. 0 \in Bytes /\ Quotes \subseteq Bytes
  BY LineStoreConstants DEF Bytes
<1> QED
  BY <1>1 DEF NextQuote

\* q[i] is the quotation mark that is open before character i of s.
OpenQuotes(q, s) ==
    /\ q \in [1 .. Len(s) + 1 -> Bytes]
    /\ q[1] = 0
    /\ \A i \in 2 .. Len(s) + 1 : q[i] = NextQuote(s[i - 1], q[i - 1])

\* The editor's line in upper case.
LEMMA UpperQuotes ==
    ASSUME NEW s \in Seq(Bytes)
    PROVE  \E q : /\ OpenQuotes(q, s)
                  /\ Editor!Upper(s) = [i \in 1 .. Len(s) |-> IF s[i] = LOWER /\ q[i] = 0 THEN UPPER ELSE s[i]]
<1> DEFINE n == Len(s) + 1
           Eq(h) == h = [i \in 1 .. Len(s) + 1 |->
                            IF i = 1 \/ s[i - 1] = h[i - 1] THEN 0
                            ELSE IF s[i - 1] \in Quotes THEN s[i - 1] ELSE h[i - 1]]
<1>0. Len(s) \in Nat /\ n \in Int /\ 1 <= n /\ 0 \in Bytes
  BY Sizes DEF Bytes
<1>1. PICK step : step = [i \in 2 .. n |-> [q \in Bytes |-> NextQuote(s[i - 1], q)]]
  OBVIOUS
<1>2. step \in [1 + 1 .. n -> [Bytes -> Bytes]]
  <2>1. ASSUME NEW i \in 2 .. n, NEW q \in Bytes PROVE NextQuote(s[i - 1], q) \in Bytes
    BY QuoteIsByte
  <2> QED
    BY <1>1, <2>1
<1>3. PICK g : Runs(g, 1, n, Bytes, 0, step)
  <2> HIDE DEF n
  <2>1. 1 \in Int /\ n \in Int /\ 1 <= n /\ 0 \in Bytes
    BY <1>0
  <2> QED
    BY ONLY <1>2, <2>1, RunExists
<1>4. g \in [1 .. n -> Bytes] /\ g[1] = 0 /\ \A i \in 2 .. n : g[i] = NextQuote(s[i - 1], g[i - 1])
  <2>1. g \in [1 .. n -> Bytes] /\ g[1] = 0 /\ \A i \in 2 .. n : g[i] = step[i][g[i - 1]]
    BY <1>3 DEF Runs
  <2>2. ASSUME NEW i \in 2 .. n PROVE g[i] = NextQuote(s[i - 1], g[i - 1])
    <3>1. i - 1 \in 1 .. n
      BY <1>0
    <3>2. g[i - 1] \in Bytes
      BY <2>1, <3>1
    <3> QED
      BY <1>1, <2>1, <3>2
  <2> QED
    BY <2>1, <2>2
<1>5. \E h : Eq(h)
  <2>1. ASSUME NEW i \in 1 .. n
        PROVE  g[i] = IF i = 1 \/ s[i - 1] = g[i - 1] THEN 0 ELSE IF s[i - 1] \in Quotes THEN s[i - 1] ELSE g[i - 1]
    <3>1. CASE i = 1
      BY <1>4, <3>1
    <3>2. CASE i # 1
      <4>1. i \in 2 .. n
        BY <1>0, <3>2
      <4> QED
        BY <1>4, <3>2, <4>1 DEF NextQuote
    <3> QED
      BY <3>1, <3>2
  <2>2. g = [i \in 1 .. n |-> g[i]]
    BY <1>4
  <2>3. Eq(g)
    BY <2>1, <2>2, Zenon
  <2> QED
    BY <2>3
<1>6. PICK q : q = CHOOSE h : Eq(h)
  OBVIOUS
<1>7. Eq(q)
  BY <1>5, <1>6
<1>8. Editor!Upper(s) = [i \in 1 .. Len(s) |-> IF s[i] = LOWER /\ q[i] = 0 THEN UPPER ELSE s[i]]
  BY <1>6 DEF Editor!Upper
<1>9. \A i \in 1 .. n : q[i] = IF i = 1 \/ s[i - 1] = q[i - 1] THEN 0
                               ELSE IF s[i - 1] \in Quotes THEN s[i - 1] ELSE q[i - 1]
  BY <1>7
<1>10. DOMAIN q = 1 .. n /\ q = [i \in 1 .. n |-> q[i]]
  <2>1. DOMAIN q = 1 .. n
    BY <1>7
  <2>2. q = [i \in 1 .. n |-> IF i = 1 \/ s[i - 1] = q[i - 1] THEN 0
                               ELSE IF s[i - 1] \in Quotes THEN s[i - 1] ELSE q[i - 1]]
    BY <1>7
  <2>3. [i \in 1 .. n |-> q[i]] = [i \in 1 .. n |-> IF i = 1 \/ s[i - 1] = q[i - 1] THEN 0
                                           ELSE IF s[i - 1] \in Quotes THEN s[i - 1] ELSE q[i - 1]]
    BY <1>9, Zenon
  <2> QED
    BY <2>1, <2>2, <2>3, Zenon
<1> HIDE <1>7
<1>11. \A i \in 1 .. n : q[i] = g[i]
  <2> DEFINE T == {i \in 1 .. n : q[i] = g[i]}
  <2>1. 1 \in T
    BY <1>0, <1>4, <1>9
  <2>2. ASSUME NEW i \in 1 + 1 .. n, i - 1 \in T PROVE i \in T
    <3>1. i \in 2 .. n /\ i # 1 /\ i \in 1 .. n /\ q[i - 1] = g[i - 1]
      BY <1>0, <2>2
    <3> QED
      BY <1>4, <1>9, <3>1 DEF NextQuote
  <2> HIDE DEF T, n
  <2>3. 1 .. n \subseteq T
    <3>1. 1 \in Int /\ n \in Int /\ 1 <= n
      BY <1>0
    <3> QED
      BY ONLY <2>1, <2>2, <3>1, UpFrom
  <2> QED
    BY <2>3 DEF T
<1>12. OpenQuotes(q, s)
  <2>1. \A i \in 1 .. n : q[i] \in Bytes
    BY <1>4, <1>11
  <2>2. q \in [1 .. n -> Bytes]
    BY <1>10, <2>1
  <2>3. ASSUME NEW i \in 2 .. n PROVE q[i] = NextQuote(s[i - 1], q[i - 1])
    <3>1. i \in 1 .. n /\ i - 1 \in 1 .. n
      BY <1>0
    <3> QED
      BY <1>4, <1>11, <3>1
  <2>4. q[1] = 0
    BY <1>0, <1>4, <1>11
  <2> QED
    BY <2>2, <2>3, <2>4 DEF OpenQuotes
<1> QED
  BY <1>8, <1>12

\* q[a] is the quotation mark that is open before the byte at a, between b and e.
OpenAt(q, b, e) ==
    /\ q \in [b .. e -> Bytes]
    /\ q[b] = 0
    /\ \A a \in b + 1 .. e : q[a] = NextQuote(mem[a - 1], q[a - 1])

\* toUppercaseBuffer by its quotation marks.
LEMMA UppercasedQuotes ==
    ASSUME IInv, NEW e \in Buffer .. VariablesBegin - 1
    PROVE  \E q : /\ OpenAt(q, Buffer, e)
                  /\ Uppercased(e) = [a \in Addr |-> IF a \in Buffer .. e - 1 /\ mem[a] = LOWER /\ q[a] = 0
                                                     THEN UPPER ELSE mem[a]]
<1> DEFINE Eq(h) == h = [i \in Buffer .. e |->
                            IF i = Buffer THEN 0
                            ELSE LET c == mem[i - 1]
                                 IN  IF c = h[i - 1] THEN 0
                                     ELSE IF c \in Quotes THEN c ELSE h[i - 1]]
<1>0. Buffer \in Nat /\ e \in Int /\ Buffer <= e /\ 0 \in Bytes
  BY BufferTypes, Sizes DEF Bytes
<1>1. PICK step : step = [i \in Buffer + 1 .. e |-> [q \in Bytes |-> NextQuote(mem[i - 1], q)]]
  OBVIOUS
<1>2. step \in [Buffer + 1 .. e -> [Bytes -> Bytes]]
  <2>1. ASSUME NEW i \in Buffer + 1 .. e, NEW q \in Bytes PROVE NextQuote(mem[i - 1], q) \in Bytes
    BY QuoteIsByte
  <2> QED
    BY <1>1, <2>1
<1>3. PICK g : Runs(g, Buffer, e, Bytes, 0, step)
  <2>1. Buffer \in Int /\ e \in Int /\ Buffer <= e /\ 0 \in Bytes
    BY <1>0
  <2> QED
    BY ONLY <1>2, <2>1, RunExists
<1>4. g \in [Buffer .. e -> Bytes] /\ g[Buffer] = 0 /\ \A i \in Buffer + 1 .. e : g[i] = NextQuote(mem[i - 1], g[i - 1])
  <2>1. g \in [Buffer .. e -> Bytes] /\ g[Buffer] = 0 /\ \A i \in Buffer + 1 .. e : g[i] = step[i][g[i - 1]]
    BY <1>3 DEF Runs
  <2>2. ASSUME NEW i \in Buffer + 1 .. e PROVE g[i] = NextQuote(mem[i - 1], g[i - 1])
    <3>1. i - 1 \in Buffer .. e
      BY <1>0
    <3>2. g[i - 1] \in Bytes
      BY <2>1, <3>1
    <3> QED
      BY <1>1, <2>1, <3>2
  <2> QED
    BY <2>1, <2>2
<1>5. \E h : Eq(h)
  <2>1. ASSUME NEW i \in Buffer .. e
        PROVE  g[i] = IF i = Buffer THEN 0 ELSE LET c == mem[i - 1]
                                                IN  IF c = g[i - 1] THEN 0 ELSE IF c \in Quotes THEN c ELSE g[i - 1]
    <3>1. CASE i = Buffer
      BY <1>4, <3>1
    <3>2. CASE i # Buffer
      <4>1. i \in Buffer + 1 .. e
        BY <1>0, <3>2
      <4> QED
        BY <1>4, <3>2, <4>1 DEF NextQuote
    <3> QED
      BY <3>1, <3>2
  <2>2. g = [i \in Buffer .. e |-> g[i]]
    BY <1>4
  <2>3. Eq(g)
    BY <2>1, <2>2, Zenon
  <2> QED
    BY <2>3
<1>6. PICK q : q = CHOOSE h : Eq(h)
  OBVIOUS
<1>7. Eq(q)
  BY <1>5, <1>6
<1>8. Uppercased(e) = [a \in Addr |-> IF a \in Buffer .. e - 1 /\ mem[a] = LOWER /\ q[a] = 0 THEN UPPER ELSE mem[a]]
  BY <1>6 DEF Uppercased
<1>9. \A i \in Buffer .. e : q[i] = IF i = Buffer THEN 0 ELSE LET c == mem[i - 1]
                                                IN  IF c = q[i - 1] THEN 0 ELSE IF c \in Quotes THEN c ELSE q[i - 1]
  BY <1>7
<1>10. DOMAIN q = Buffer .. e /\ q = [i \in Buffer .. e |-> q[i]]
  <2>1. DOMAIN q = Buffer .. e
    BY <1>7
  <2>2. q = [i \in Buffer .. e |-> IF i = Buffer THEN 0 ELSE LET c == mem[i - 1]
                                                IN  IF c = q[i - 1] THEN 0 ELSE IF c \in Quotes THEN c ELSE q[i - 1]]
    BY <1>7
  <2>3. [i \in Buffer .. e |-> q[i]] = [i \in Buffer .. e |-> IF i = Buffer THEN 0 ELSE LET c == mem[i - 1]
                                                IN  IF c = q[i - 1] THEN 0 ELSE IF c \in Quotes THEN c ELSE q[i - 1]]
    BY <1>9, Zenon
  <2> QED
    BY <2>1, <2>2, <2>3, Zenon
<1> HIDE <1>7
<1>11. \A i \in Buffer .. e : q[i] = g[i]
  <2> DEFINE T == {i \in Buffer .. e : q[i] = g[i]}
  <2>1. Buffer \in T
    BY <1>0, <1>4, <1>9
  <2>2. ASSUME NEW i \in Buffer + 1 .. e, i - 1 \in T PROVE i \in T
    <3>1. i # Buffer /\ i \in Buffer .. e /\ q[i - 1] = g[i - 1]
      BY <1>0, <2>2
    <3> QED
      BY <1>4, <1>9, <3>1 DEF NextQuote
  <2> HIDE DEF T
  <2>3. Buffer .. e \subseteq T
    <3>1. Buffer \in Int /\ e \in Int /\ Buffer <= e
      BY <1>0
    <3> QED
      BY ONLY <2>1, <2>2, <3>1, UpFrom
  <2> QED
    BY <2>3 DEF T
<1>12. OpenAt(q, Buffer, e)
  <2>1. \A i \in Buffer .. e : q[i] \in Bytes
    BY <1>4, <1>11
  <2>2. q \in [Buffer .. e -> Bytes]
    BY <1>10, <2>1
  <2>3. ASSUME NEW i \in Buffer + 1 .. e PROVE q[i] = NextQuote(mem[i - 1], q[i - 1])
    <3>1. i \in Buffer .. e /\ i - 1 \in Buffer .. e
      BY <1>0
    <3> QED
      BY <1>4, <1>11, <3>1
  <2>4. q[Buffer] = 0
    BY <1>0, <1>4, <1>11
  <2> QED
    BY <2>2, <2>3, <2>4 DEF OpenAt
<1> QED
  BY <1>8, <1>12

-----------------------------------------------------------------------------
(* The line that was entered.                                              *)

\* The line that was typed, in upper case, lies in m from a on, before an NL.
LiesAt(m, a, line) ==
    /\ line \in Seq(Bytes)
    /\ a \in Nat
    /\ a + Len(line) = VariablesBegin - 1
    /\ m[a + Len(line)] = NL
    /\ \A i \in 1 .. Len(line) : m[a + i - 1] = line[i] /\ line[i] # NL

LEMMA UpperIsTyped ==
    ASSUME IInv, InBuffer, pc = "entered", NEW e \in Buffer .. VariablesBegin - 1, IsFirst(mem, e, Buffer, {NL})
    PROVE  /\ Editor!Upper(typed) \in Seq(Bytes)
           /\ Len(Editor!Upper(typed)) = Len(typed)
           /\ \A i \in 1 .. Len(typed) : Editor!Upper(typed)[i] = Uppercased(e)[Buffer + i - 1]
<1> DEFINE L == Len(typed)
<1>0. /\ Buffer \in Nat /\ typed \in Seq(Keys) /\ L \in Nat /\ mem \in [Addr -> 0 .. BYTE - 1]
      /\ VariablesBegin <= MemTop /\ MemTop \in Nat /\ VariablesBegin \in Nat
  BY BufferTypes, Sizes
<1>1. e = Buffer + L
  BY TypedLineEnds
<1>2. \A i \in 1 .. L : mem[Buffer + i - 1] = typed[i]
  BY DEF InBuffer
<1>3. typed \in Seq(Bytes)
  <2>1. Keys \subseteq Bytes
    BY LineStoreConstants DEF Bytes
  <2> QED
    BY <1>0, <2>1
<1>4. PICK q : /\ OpenQuotes(q, typed)
               /\ Editor!Upper(typed) = [i \in 1 .. L |-> IF typed[i] = LOWER /\ q[i] = 0 THEN UPPER ELSE typed[i]]
  BY <1>3, UpperQuotes
<1>5. PICK r : /\ OpenAt(r, Buffer, e)
               /\ Uppercased(e) = [a \in Addr |-> IF a \in Buffer .. e - 1 /\ mem[a] = LOWER /\ r[a] = 0
                                                  THEN UPPER ELSE mem[a]]
  BY UppercasedQuotes
<1>6. q[1] = 0 /\ \A i \in 2 .. L + 1 : q[i] = NextQuote(typed[i - 1], q[i - 1])
  BY <1>4 DEF OpenQuotes
<1>7. r[Buffer] = 0 /\ \A a \in Buffer + 1 .. e : r[a] = NextQuote(mem[a - 1], r[a - 1])
  BY <1>5 DEF OpenAt
<1>8. \A i \in 1 .. L + 1 : q[i] = r[Buffer + i - 1]
  <2> DEFINE T == {i \in 1 .. L + 1 : q[i] = r[Buffer + i - 1]}
  <2>1. 1 \in T
    <3>1. Buffer + 1 - 1 = Buffer /\ 1 \in 1 .. L + 1
      BY <1>0
    <3> QED
      BY <1>6, <1>7, <3>1
  <2>2. ASSUME NEW i \in 1 + 1 .. L + 1, i - 1 \in T PROVE i \in T
    <3>0. i \in 2 .. L + 1 /\ i - 1 \in 1 .. L /\ q[i - 1] = r[Buffer + (i - 1) - 1]
      BY <1>0, <2>2
    <3>1. /\ i \in 2 .. L + 1 /\ i \in 1 .. L + 1 /\ i - 1 \in 1 .. L /\ q[i - 1] = r[Buffer + (i - 1) - 1]
          /\ Buffer + i - 1 \in Buffer + 1 .. e /\ (Buffer + i - 1) - 1 = Buffer + (i - 1) - 1
      <4> HIDE DEF L
      <4> QED
        BY ONLY <1>0, <1>1, <3>0
    <3>2. q[i] = NextQuote(typed[i - 1], q[i - 1])
      BY <1>6, <3>1
    <3>3. r[Buffer + i - 1] = NextQuote(mem[Buffer + (i - 1) - 1], r[Buffer + (i - 1) - 1])
      BY <1>7, <3>1
    <3>4. mem[Buffer + (i - 1) - 1] = typed[i - 1]
      BY <1>2, <3>1
    <3> QED
      BY <3>1, <3>2, <3>3, <3>4
  <2>3. 1 \in Int /\ L + 1 \in Int /\ 1 <= L + 1
    BY <1>0
  <2> HIDE DEF T, L
  <2>4. 1 .. L + 1 \subseteq T
    BY ONLY <2>1, <2>2, <2>3, UpFrom
  <2> QED
    BY <2>4 DEF T
<1>9. ASSUME NEW i \in 1 .. L PROVE Editor!Upper(typed)[i] = Uppercased(e)[Buffer + i - 1]
  <2>1. Buffer + i - 1 \in Buffer .. e - 1 /\ Buffer + i - 1 \in Addr /\ i \in 1 .. L + 1
    BY <1>0, <1>1 DEF Addr
  <2>2. q[i] = r[Buffer + i - 1] /\ mem[Buffer + i - 1] = typed[i]
    BY <1>2, <1>8, <2>1
  <2> QED
    BY <1>4, <1>5, <2>1, <2>2
<1>10. Editor!Upper(typed) \in Seq(Bytes) /\ Len(Editor!Upper(typed)) = L
  <2>1. ASSUME NEW i \in 1 .. L PROVE (IF typed[i] = LOWER /\ q[i] = 0 THEN UPPER ELSE typed[i]) \in Bytes
    BY <1>3, LineStoreConstants DEF Bytes
  <2> QED
    BY <1>0, <1>4, <2>1
<1> QED
  BY <1>9, <1>10

LEMMA MovedIsTyped ==
    ASSUME IInv, InBuffer, pc = "entered", NEW e \in Buffer .. VariablesBegin - 1, IsFirst(mem, e, Buffer, {NL}),
           NEW m, m = MovedUp(Uppercased(e), e)
    PROVE  LiesAt(m, MovedTo(e), Editor!Upper(typed))
<1>1. PICK line : line = Editor!Upper(typed)
  OBVIOUS
<1>2. /\ line \in Seq(Bytes) /\ Len(line) = Len(typed)
      /\ \A i \in 1 .. Len(typed) : line[i] = Uppercased(e)[Buffer + i - 1]
  BY <1>1, UpperIsTyped
<1>3. e = Buffer + Len(typed)
  BY TypedLineEnds
<1>4. /\ Buffer \in Nat /\ Len(typed) \in Nat /\ VariablesBegin \in Nat /\ MemTop \in Nat /\ VariablesBegin <= MemTop
      /\ MovedTo(e) \in Buffer .. VariablesBegin - 1 /\ MovedTo(e) = VariablesBegin - 1 - (e - Buffer)
  <2>1. MovedTo(e) \in Buffer .. VariablesBegin - 1
    BY MovedUpBytes, UppercasedBytes
  <2>2. MovedTo(e) = VariablesBegin - 1 - (e - Buffer)
    BY DEF MovedTo
  <2> QED
    BY <2>1, <2>2, BufferTypes, Sizes
<1>5. PICK a : a = MovedTo(e)
  OBVIOUS
<1>6. a \in Nat /\ a + Len(line) = VariablesBegin - 1
  BY <1>2, <1>3, <1>4, <1>5
<1>7. m[VariablesBegin - 1] = NL /\ \A i \in a .. VariablesBegin - 2 : m[i] # NL
  BY <1>5, MovedLine
<1>8. ASSUME NEW i \in 1 .. Len(line) PROVE m[a + i - 1] = line[i] /\ line[i] # NL
  <2>1. /\ a + i - 1 \in Addr /\ a + i - 1 \in a .. VariablesBegin - 1 /\ a + i - 1 \in a .. VariablesBegin - 2
        /\ (a + i - 1) - a + Buffer = Buffer + i - 1
    BY <1>2, <1>4, <1>6 DEF Addr
  <2>2. m[a + i - 1] = Uppercased(e)[Buffer + i - 1]
    BY <1>5, <2>1 DEF MovedUp
  <2> QED
    BY <1>2, <1>7, <2>1, <2>2
<1>9. LiesAt(m, a, line)
  BY <1>2, <1>6, <1>7, <1>8 DEF LiesAt
<1> QED
  BY <1>1, <1>5, <1>9

-----------------------------------------------------------------------------
(* The number of a line.                                                   *)

\* k is the first place of s, from i on, without a character of S.
Skips(s, i, S, k) ==
    /\ k \in i .. Len(s) + 1
    /\ \A j \in i .. k - 1 : s[j] \in S
    /\ k <= Len(s) => s[k] \notin S

LEMMA PastSkips ==
    ASSUME NEW s, Len(s) \in Nat, NEW i \in 1 .. Len(s) + 1, NEW S
    PROVE  Skips(s, i, S, Editor!Past(s, i, S))
<1> DEFINE T == {k \in i .. Len(s) + 1 : \A j \in i .. k - 1 : s[j] \in S}
<1>1. \E k : Skips(s, i, S, k)
  <2> SUFFICES ASSUME \A k : ~Skips(s, i, S, k) PROVE FALSE
    OBVIOUS
  <2>1. i \in T
    OBVIOUS
  <2>2. ASSUME NEW k \in i + 1 .. Len(s) + 1, k - 1 \in T PROVE k \in T
    <3>1. k - 1 \in i .. Len(s) + 1 /\ k - 1 <= Len(s) /\ \A j \in i .. (k - 1) - 1 : s[j] \in S
      BY <2>2
    <3>2. s[k - 1] \in S
      BY <3>1 DEF Skips
    <3>3. ASSUME NEW j \in i .. k - 1 PROVE s[j] \in S
      <4>1. j \in i .. (k - 1) - 1 \/ j = k - 1
        BY <3>1
      <4> QED
        BY <3>1, <3>2, <4>1
    <3> QED
      BY <3>3
  <2>3. i \in Int /\ Len(s) + 1 \in Int /\ i <= Len(s) + 1 /\ Len(s) + 1 \in i .. Len(s) + 1
    OBVIOUS
  <2> HIDE DEF T
  <2>4. i .. Len(s) + 1 \subseteq T
    BY ONLY <2>1, <2>2, <2>3, UpFrom
  <2>5. Len(s) + 1 \in T
    BY <2>3, <2>4
  <2>6. Skips(s, i, S, Len(s) + 1)
    BY <2>3, <2>5 DEF T, Skips
  <2> QED
    BY <2>6
<1>2. PICK k : k = Editor!Past(s, i, S)
  OBVIOUS
<1>3. k = CHOOSE l \in i .. Len(s) + 1 : (\A j \in i .. l - 1 : s[j] \in S) /\ (l <= Len(s) => s[l] \notin S)
  BY <1>2 DEF Editor!Past
<1>4. Skips(s, i, S, k)
  BY <1>1, <1>3 DEF Skips
<1> QED
  BY <1>2, <1>4

\* There is one such place.
LEMMA PastIs ==
    ASSUME NEW s, Len(s) \in Nat, NEW i \in 1 .. Len(s) + 1, NEW S, NEW k, Skips(s, i, S, k)
    PROVE  Editor!Past(s, i, S) = k
<1>1. PICK l : l = Editor!Past(s, i, S)
  OBVIOUS
<1>2. Skips(s, i, S, l)
  BY <1>1, PastSkips
<1>3. k \in i .. Len(s) + 1 /\ l \in i .. Len(s) + 1
  BY <1>2 DEF Skips
<1>4. ~(k < l)
  <2>1. k < l => k \in i .. l - 1 /\ k <= Len(s)
    BY <1>3
  <2> QED
    BY <1>2, <2>1 DEF Skips
<1>5. ~(l < k)
  <2>1. l < k => l \in i .. k - 1 /\ l <= Len(s)
    BY <1>3
  <2> QED
    BY <1>2, <2>1 DEF Skips
<1> QED
  BY <1>1, <1>3, <1>4, <1>5

\* v[i] is the value of the digits of s from b to i - 1.
Reads(v, s, b, d) ==
    /\ v \in [b .. d -> Nat]
    /\ v[b] = 0
    /\ \A i \in b + 1 .. d : v[i] = 10 * v[i - 1] + (s[i - 1] - ZERO)

\* The places the digits begin and end.
LEMMA DigitsPlaces ==
    ASSUME NEW s, Len(s) \in Nat
    PROVE  /\ Skips(s, 1, {SPACE}, Editor!DigitsBegin(s))
           /\ Editor!DigitsBegin(s) \in 1 .. Len(s) + 1
           /\ Skips(s, Editor!DigitsBegin(s), Digits, Editor!DigitsEnd(s))
           /\ Editor!DigitsEnd(s) \in Editor!DigitsBegin(s) .. Len(s) + 1
           /\ \A j \in Editor!DigitsBegin(s) .. Editor!DigitsEnd(s) - 1 : s[j] \in Digits
<1>1. PICK b, d : b = Editor!DigitsBegin(s) /\ d = Editor!DigitsEnd(s)
  OBVIOUS
<1>2. b = Editor!Past(s, 1, {SPACE}) /\ d = Editor!Past(s, b, Digits)
  BY <1>1 DEF Editor!DigitsBegin, Editor!DigitsEnd, Digits
<1>3. Skips(s, 1, {SPACE}, b)
  <2>1. 1 \in 1 .. Len(s) + 1
    OBVIOUS
  <2> QED
    BY <1>2, <2>1, PastSkips
<1>4. b \in 1 .. Len(s) + 1
  BY <1>3 DEF Skips
<1>5. Skips(s, b, Digits, d)
  BY <1>2, <1>4, PastSkips
<1> QED
  BY <1>1, <1>3, <1>4, <1>5 DEF Skips

LEMMA ValueReads ==
    ASSUME NEW s, Len(s) \in Nat
    PROVE  \E v : /\ Reads(v, s, Editor!DigitsBegin(s), Editor!DigitsEnd(s))
                  /\ Editor!Value(s) = v[Editor!DigitsEnd(s)]
<1> DEFINE Eq(b, d, h) == h = [i \in b .. d |-> IF i = b THEN 0 ELSE 10 * h[i - 1] + (s[i - 1] - ZERO)]
<1>1. PICK b, d : b = Editor!DigitsBegin(s) /\ d = Editor!DigitsEnd(s)
  OBVIOUS
<1>2. b \in Nat /\ d \in Nat /\ b <= d /\ \A j \in b .. d - 1 : s[j] \in Digits
  BY <1>1, DigitsPlaces
<1>3. PICK step : step = [i \in b + 1 .. d |-> [x \in Nat |-> 10 * x + (s[i - 1] - ZERO)]]
  OBVIOUS
<1>4. step \in [b + 1 .. d -> [Nat -> Nat]]
  <2>1. ASSUME NEW i \in b + 1 .. d, NEW x \in Nat PROVE 10 * x + (s[i - 1] - ZERO) \in Nat
    <3>1. i - 1 \in b .. d - 1
      BY <1>2
    <3>2. s[i - 1] \in ZERO .. ZERO + 9 /\ ZERO \in Nat
      BY <1>2, <3>1, LineStoreConstants DEF Digits
    <3> QED
      BY <3>2
  <2> QED
    BY <1>3, <2>1
<1>5. PICK g : Runs(g, b, d, Nat, 0, step)
  <2>1. b \in Int /\ d \in Int /\ b <= d /\ 0 \in Nat
    BY <1>2
  <2> QED
    BY ONLY <1>4, <2>1, RunExists
<1>6. g \in [b .. d -> Nat] /\ g[b] = 0 /\ \A i \in b + 1 .. d : g[i] = 10 * g[i - 1] + (s[i - 1] - ZERO)
  <2>1. g \in [b .. d -> Nat] /\ g[b] = 0 /\ \A i \in b + 1 .. d : g[i] = step[i][g[i - 1]]
    BY <1>5 DEF Runs
  <2>2. ASSUME NEW i \in b + 1 .. d PROVE g[i] = 10 * g[i - 1] + (s[i - 1] - ZERO)
    <3>1. i - 1 \in b .. d
      BY <1>2
    <3>2. g[i - 1] \in Nat
      BY <2>1, <3>1
    <3> QED
      BY <1>3, <2>1, <3>2
  <2> QED
    BY <2>1, <2>2
<1>7. \E h : Eq(b, d, h)
  <2>1. ASSUME NEW i \in b .. d
        PROVE  g[i] = IF i = b THEN 0 ELSE 10 * g[i - 1] + (s[i - 1] - ZERO)
    <3>1. CASE i = b
      BY <1>6, <3>1
    <3>2. CASE i # b
      <4>1. i \in b + 1 .. d
        BY <1>2, <3>2
      <4> QED
        BY <1>6, <3>2, <4>1
    <3> QED
      BY <3>1, <3>2
  <2>2. g = [i \in b .. d |-> g[i]]
    BY <1>6
  <2>3. Eq(b, d, g)
    BY <2>1, <2>2, Zenon
  <2> QED
    BY <2>3
<1>8. PICK v : v = CHOOSE h : Eq(b, d, h)
  OBVIOUS
<1>9. Eq(b, d, v)
  BY <1>7, <1>8
<1>10. Editor!Value(s) = v[d]
  BY <1>1, <1>8 DEF Editor!Value
<1>11. \A i \in b .. d : v[i] = IF i = b THEN 0 ELSE 10 * v[i - 1] + (s[i - 1] - ZERO)
  BY <1>9
<1> HIDE <1>9
<1>12. \A i \in b .. d : v[i] = g[i]
  <2> DEFINE T == {i \in b .. d : v[i] = g[i]}
  <2>1. b \in T
    BY <1>2, <1>6, <1>11
  <2>2. ASSUME NEW i \in b + 1 .. d, i - 1 \in T PROVE i \in T
    <3>1. i # b /\ i \in b .. d /\ v[i - 1] = g[i - 1]
      BY <1>2, <2>2
    <3> QED
      BY <1>6, <1>11, <3>1
  <2> HIDE DEF T
  <2>3. b .. d \subseteq T
    <3>1. b \in Int /\ d \in Int /\ b <= d
      BY <1>2
    <3> QED
      BY ONLY <2>1, <2>2, <3>1, UpFrom
  <2> QED
    BY <2>3 DEF T
<1>13. Reads(g, s, b, d)
  BY <1>6 DEF Reads
<1>14. d \in b .. d
  BY <1>2
<1> QED
  BY <1>1, <1>10, <1>12, <1>13, <1>14

\* The number that testnum has read after the byte c, when it had read x.
NumStep(c, x) == IF c \in Digits /\ x < MaxUInt \div 10 THEN x * 10 + (c - ZERO) ELSE x

LEMMA NumStepNat ==
    ASSUME NEW c, NEW x \in Nat
    PROVE  NumStep(c, x) \in Nat
<1>1. CASE c \in Digits
  <2>1. c \in ZERO .. ZERO + 9 /\ ZERO \in Nat
    BY <1>1, LineStoreConstants DEF Digits
  <2>2. x * 10 + (c - ZERO) \in Nat
    BY <2>1
  <2> QED
    BY <2>2 DEF NumStep
<1>2. CASE c \notin Digits
  BY <1>2 DEF NumStep
<1> QED
  BY <1>1, <1>2

\* g[i] is the number that testnum has read of m between b and i.
Counts(g, m, b, n) ==
    /\ g \in [b .. n -> Nat]
    /\ g[b] = 0
    /\ \A i \in b + 1 .. n : g[i] = NumStep(m[i - 1], g[i - 1])

LEMMA NumIs ==
    ASSUME NEW m, NEW b \in Nat, NEW n \in Nat, NEW g, Counts(g, m, b, n), NEW k \in b .. n
    PROVE  Num(m, b, k) = g[k]
<1> DEFINE Eq(h) == h = [j \in b .. k |->
                            IF j = b THEN 0
                            ELSE IF m[j - 1] \in Digits /\ h[j - 1] < MaxUInt \div 10
                                 THEN h[j - 1] * 10 + (m[j - 1] - ZERO)
                                 ELSE h[j - 1]]
<1>1. g \in [b .. n -> Nat] /\ g[b] = 0 /\ \A i \in b + 1 .. n : g[i] = NumStep(m[i - 1], g[i - 1])
  BY DEF Counts
<1>2. PICK f : f = [j \in b .. k |-> g[j]]
  OBVIOUS
<1>3. \E h : Eq(h)
  <2>1. ASSUME NEW i \in b .. k
        PROVE  f[i] = IF i = b THEN 0
                      ELSE IF m[i - 1] \in Digits /\ f[i - 1] < MaxUInt \div 10
                           THEN f[i - 1] * 10 + (m[i - 1] - ZERO)
                           ELSE f[i - 1]
    <3>1. CASE i = b
      BY <1>1, <1>2, <3>1
    <3>2. CASE i # b
      <4>1. i \in b + 1 .. n /\ i - 1 \in b .. k
        BY <3>2
      <4>2. f[i] = g[i] /\ f[i - 1] = g[i - 1]
        BY <1>2, <4>1
      <4> QED
        BY <1>1, <3>2, <4>1, <4>2 DEF NumStep
    <3> QED
      BY <3>1, <3>2
  <2>2. f = [i \in b .. k |-> f[i]]
    BY <1>2
  <2>3. Eq(f)
    BY <2>1, <2>2, Zenon
  <2> QED
    BY <2>3
<1>4. PICK v : v = CHOOSE h : Eq(h)
  OBVIOUS
<1>5. Eq(v)
  BY <1>3, <1>4
<1>6. Num(m, b, k) = v[k]
  BY <1>4 DEF Num
<1>7. \A j \in b .. k : v[j] = IF j = b THEN 0
                               ELSE IF m[j - 1] \in Digits /\ v[j - 1] < MaxUInt \div 10
                                    THEN v[j - 1] * 10 + (m[j - 1] - ZERO)
                                    ELSE v[j - 1]
  BY <1>5
<1> HIDE <1>5
<1>8. \A j \in b .. k : v[j] = g[j]
  <2> DEFINE T == {j \in b .. k : v[j] = g[j]}
  <2>1. b \in T
    BY <1>1, <1>7
  <2>2. ASSUME NEW i \in b + 1 .. k, i - 1 \in T PROVE i \in T
    <3>1. i # b /\ i \in b .. k /\ i \in b + 1 .. n /\ v[i - 1] = g[i - 1]
      BY <2>2
    <3> QED
      BY <1>1, <1>7, <3>1 DEF NumStep
  <2> HIDE DEF T
  <2>3. b .. k \subseteq T
    <3>1. b \in Int /\ k \in Int /\ b <= k
      OBVIOUS
    <3> QED
      BY ONLY <2>1, <2>2, <3>1, UpFrom
  <2> QED
    BY <2>3 DEF T
<1> QED
  BY <1>6, <1>8

LEMMA NumWalk ==
    ASSUME NEW m, NEW b \in Nat, NEW n \in Nat, b <= n
    PROVE  \E g : Counts(g, m, b, n)
<1>1. PICK step : step = [i \in b + 1 .. n |-> [x \in Nat |-> NumStep(m[i - 1], x)]]
  OBVIOUS
<1>2. step \in [b + 1 .. n -> [Nat -> Nat]]
  BY <1>1, NumStepNat
<1>3. PICK g : Runs(g, b, n, Nat, 0, step)
  <2>1. b \in Int /\ n \in Int /\ b <= n /\ 0 \in Nat
    OBVIOUS
  <2> QED
    BY ONLY <1>2, <2>1, RunExists
<1>4. g \in [b .. n -> Nat] /\ g[b] = 0 /\ \A i \in b + 1 .. n : g[i] = step[i][g[i - 1]]
  BY <1>3 DEF Runs
<1>5. ASSUME NEW i \in b + 1 .. n PROVE g[i] = NumStep(m[i - 1], g[i - 1])
  <2>1. i - 1 \in b .. n
    OBVIOUS
  <2>2. g[i - 1] \in Nat
    BY <1>4, <2>1
  <2> QED
    BY <1>1, <1>4, <2>2
<1> QED
  BY <1>4, <1>5 DEF Counts

\* Values grow with their digits, and the last digit is what dividing by ten drops.
LEMMA ReadsGrow ==
    ASSUME NEW v, NEW s, NEW b \in Nat, NEW d \in Nat, Reads(v, s, b, d), \A j \in b .. d - 1 : s[j] \in Digits
    PROVE  /\ \A i \in b + 1 .. d : v[i] \div 10 = v[i - 1] /\ v[i - 1] <= v[i]
           /\ \A i \in b .. d : \A k \in i .. d : v[i] <= v[k]
<1>0. v \in [b .. d -> Nat] /\ \A i \in b + 1 .. d : v[i] = 10 * v[i - 1] + (s[i - 1] - ZERO)
  BY DEF Reads
<1>1. ASSUME NEW i \in b + 1 .. d PROVE v[i] \div 10 = v[i - 1] /\ v[i - 1] <= v[i] /\ v[i] \in Nat /\ v[i - 1] \in Nat
  <2>1. i \in b .. d /\ i - 1 \in b .. d /\ i - 1 \in b .. d - 1
    OBVIOUS
  <2>2. v[i] \in Nat /\ v[i - 1] \in Nat
    BY <1>0, <2>1
  <2>3. PICK q, r : q = v[i - 1] /\ r = s[i - 1] - ZERO
    OBVIOUS
  <2>4. r \in 0 .. 10 - 1 /\ q \in Nat /\ 10 \in Nat \ {0}
    <3>1. s[i - 1] \in ZERO .. ZERO + 9 /\ ZERO \in Nat
      BY <2>1, LineStoreConstants DEF Digits
    <3> QED
      BY <2>2, <2>3, <3>1
  <2>5. v[i] = 10 * q + r
    BY <1>0, <2>3
  <2>6. (10 * q + r) \div 10 = q
    BY ONLY <2>4, QuotientIs
  <2>7. q <= 10 * q + r
    BY <2>4
  <2> QED
    BY <2>2, <2>3, <2>5, <2>6, <2>7
<1>2. ASSUME NEW i \in b .. d, NEW k \in i .. d PROVE v[i] <= v[k]
  <2> DEFINE T == {j \in i .. d : v[i] <= v[j]}
  <2>0. v[i] \in Nat
    BY <1>0
  <2>1. i \in T
    BY <2>0
  <2>2. ASSUME NEW j \in i + 1 .. d, j - 1 \in T PROVE j \in T
    <3>1. j \in b + 1 .. d /\ j \in i .. d /\ v[i] <= v[j - 1]
      BY <2>2
    <3>2. v[j - 1] <= v[j] /\ v[j] \in Nat /\ v[j - 1] \in Nat
      BY <1>1, <3>1
    <3> QED
      BY <2>0, <3>1, <3>2
  <2> HIDE DEF T
  <2>3. i .. d \subseteq T
    <3>1. i \in Int /\ d \in Int /\ i <= d
      OBVIOUS
    <3> QED
      BY ONLY <2>1, <2>2, <3>1, UpFrom
  <2> QED
    BY <2>3 DEF T
<1> QED
  BY <1>1, <1>2

NonBlanks == (0 .. BYTE - 1) \ {SPACE}

\* Skipping blanks in memory is skipping blanks in the line.
LEMMA BlanksSkipped ==
    ASSUME NEW m, m \in [Addr -> Bytes], NEW a, NEW line, LiesAt(m, a, line),
           NEW b \in a .. VariablesBegin - 1, NEW c \in b .. VariablesBegin - 1, IsFirst(m, c, b, NonBlanks)
    PROVE  Skips(line, b - a + 1, {SPACE}, c - a + 1)
<1>0. /\ line \in Seq(Bytes) /\ Len(line) \in Nat /\ a \in Nat /\ a + Len(line) = VariablesBegin - 1 /\ VariablesBegin \in Nat
      /\ VariablesBegin <= MemTop /\ MemTop \in Nat
      /\ \A i \in 1 .. Len(line) : m[a + i - 1] = line[i]
  BY Sizes DEF LiesAt
<1>1. m[c] \in NonBlanks /\ \A i \in b .. c - 1 : m[i] \notin NonBlanks
  BY DEF IsFirst
<1>2. c - a + 1 \in b - a + 1 .. Len(line) + 1
  BY <1>0
<1>3. ASSUME NEW j \in b - a + 1 .. (c - a + 1) - 1 PROVE line[j] \in {SPACE}
  <2>1. j \in 1 .. Len(line) /\ a + j - 1 \in b .. c - 1 /\ a + j - 1 \in Addr
    BY <1>0 DEF Addr
  <2>2. m[a + j - 1] = line[j] /\ m[a + j - 1] \in Bytes /\ m[a + j - 1] \notin NonBlanks
    BY <1>0, <1>1, <2>1
  <2> QED
    BY <2>2 DEF NonBlanks, Bytes
<1>4. ASSUME c - a + 1 <= Len(line) PROVE line[c - a + 1] \notin {SPACE}
  <2>1. c - a + 1 \in 1 .. Len(line) /\ a + (c - a + 1) - 1 = c
    BY <1>0, <1>4
  <2>2. m[c] = line[c - a + 1]
    BY <1>0, <2>1
  <2> QED
    BY <1>1, <2>2 DEF NonBlanks
<1> QED
  BY <1>2, <1>3, <1>4 DEF Skips

\* The quotient at which testnum stops.
LEMMA Limit == MaxUInt \in Nat /\ MaxUInt \div 10 \in Nat /\ MaxUInt \div 10 >= 1
<1>1. MaxUInt \in Nat /\ MaxUInt >= 10
  BY LineStoreConstants
<1>2. PICK q \in Nat, r \in 0 .. 10 - 1 : MaxUInt = 10 * q + r /\ q = MaxUInt \div 10
  BY <1>1, DivMod
<1> QED
  BY <1>1, <1>2

\* As long as testnum goes on, what it has read is the value of the digits.
LEMMA CountsReads ==
    ASSUME NEW m, NEW b \in Nat, NEW d \in Nat, b <= d, NEW g, Counts(g, m, b, d),
           \A i \in b .. d - 1 : m[i] \in Digits /\ g[i] < MaxUInt \div 10
    PROVE  \A i \in b + 1 .. d : g[i] = 10 * g[i - 1] + (m[i - 1] - ZERO)
<1> TAKE i \in b + 1 .. d
<1>1. i - 1 \in b .. d - 1 /\ i - 1 \in b .. d
  OBVIOUS
<1>2. g[i] = NumStep(m[i - 1], g[i - 1]) /\ g[i - 1] \in Nat
  BY <1>1 DEF Counts
<1>3. g[i] = g[i - 1] * 10 + (m[i - 1] - ZERO)
  BY <1>1, <1>2 DEF NumStep
<1>4. g[i - 1] * 10 = 10 * g[i - 1]
  BY <1>2
<1> QED
  BY <1>3, <1>4

\* Where testnum stops, and the value of the digits up to there.
LEMMA NumberValue ==
    ASSUME NEW m, NEW a, NEW line, LiesAt(m, a, line),
           NEW b \in a .. VariablesBegin - 1, b - a + 1 = Editor!DigitsBegin(line),
           NEW d \in b .. VariablesBegin - 1, \A i \in b .. d - 1 : ~Stops(m, b, i), Stops(m, b, d),
           NEW v, Reads(v, line, Editor!DigitsBegin(line), Editor!DigitsEnd(line))
    PROVE  /\ d - a + 1 \in Editor!DigitsBegin(line) .. Editor!DigitsEnd(line)
           /\ Num(m, b, d) = v[d - a + 1]
           /\ \A i \in b .. d - 1 : v[i - a + 1] < MaxUInt \div 10
           /\ IF m[d] \in Digits
              THEN v[d - a + 1] >= MaxUInt \div 10 /\ d - a + 1 < Editor!DigitsEnd(line)
              ELSE d - a + 1 = Editor!DigitsEnd(line)
<1>0. /\ line \in Seq(Bytes) /\ Len(line) \in Nat /\ a \in Nat /\ a + Len(line) = VariablesBegin - 1 /\ VariablesBegin \in Nat
      /\ m[a + Len(line)] = NL /\ \A i \in 1 .. Len(line) : m[a + i - 1] = line[i]
  <2>1. /\ line \in Seq(Bytes) /\ a \in Nat /\ a + Len(line) = VariablesBegin - 1
        /\ m[a + Len(line)] = NL /\ \A i \in 1 .. Len(line) : m[a + i - 1] = line[i]
    BY DEF LiesAt
  <2>2. Len(line) \in Nat
    BY ONLY <2>1
  <2>3. VariablesBegin \in Nat
    BY Sizes
  <2> QED
    BY ONLY <2>1, <2>2, <2>3
<1>1. PICK B, D : B = Editor!DigitsBegin(line) /\ D = Editor!DigitsEnd(line)
  OBVIOUS
<1>2. /\ B \in 1 .. Len(line) + 1 /\ D \in B .. Len(line) + 1
      /\ Skips(line, B, Digits, D) /\ B = b - a + 1
  BY <1>0, <1>1, DigitsPlaces
<1>3. (\A j \in B .. D - 1 : line[j] \in Digits) /\ (D <= Len(line) => line[D] \notin Digits)
  BY <1>2 DEF Skips
<1>4. v \in [B .. D -> Nat] /\ v[B] = 0 /\ \A i \in B + 1 .. D : v[i] = 10 * v[i - 1] + (line[i - 1] - ZERO)
  BY <1>1 DEF Reads
<1>5. PICK g : Counts(g, m, b, d)
  <2>1. b \in Nat /\ d \in Nat /\ b <= d
    BY <1>0
  <2> QED
    BY ONLY <2>1, NumWalk
<1>6. \A i \in b .. d : Num(m, b, i) = g[i]
  BY <1>0, <1>5, NumIs
<1>7. ASSUME NEW i \in b .. d - 1 PROVE m[i] \in Digits /\ g[i] < MaxUInt \div 10
  <2>1. ~(m[i] \in Digits => g[i] >= MaxUInt \div 10)
    BY <1>6 DEF Stops
  <2>2. g[i] \in Nat
    BY <1>5 DEF Counts
  <2> QED
    BY <2>1, <2>2, Limit
<1>8. m[d] \in Digits => g[d] >= MaxUInt \div 10
  BY <1>0, <1>6 DEF Stops
<1>9. d - a + 1 <= D
  <2> SUFFICES ASSUME ~(d - a + 1 <= D) PROVE FALSE
    OBVIOUS
  <2>1. D + a - 1 \in b .. d - 1 /\ D \in 1 .. Len(line) /\ a + D - 1 = D + a - 1
    <3>1. PICK l : l = Len(line)
      OBVIOUS
    <3>2. /\ l \in Nat /\ a \in Nat /\ b \in a .. a + l /\ d \in b .. a + l
          /\ B \in 1 .. l + 1 /\ D \in B .. l + 1 /\ B = b - a + 1 /\ ~(d - a + 1 <= D)
      BY <1>0, <1>2, <3>1
    <3>3. D + a - 1 \in b .. d - 1 /\ D \in 1 .. l /\ a + D - 1 = D + a - 1
      BY ONLY <3>2
    <3> QED
      BY <3>1, <3>3
  <2>2. m[D + a - 1] \in Digits /\ m[D + a - 1] = line[D]
    BY <1>0, <1>7, <2>1
  <2> QED
    BY <1>0, <1>3, <2>1, <2>2
<1>10. \A i \in b + 1 .. d : g[i] = 10 * g[i - 1] + (m[i - 1] - ZERO)
  <2>1. b \in Nat /\ d \in Nat /\ b <= d
    BY <1>0
  <2> QED
    BY ONLY <1>5, <1>7, <2>1, CountsReads
<1>11. \A i \in b .. d : g[i] = v[i - a + 1]
  <2> DEFINE T == {i \in b .. d : g[i] = v[i - a + 1]}
  <2>1. b \in T
    BY <1>0, <1>2, <1>4, <1>5 DEF Counts
  <2>2. ASSUME NEW i \in b + 1 .. d, i - 1 \in T PROVE i \in T
    <3>1. /\ i \in b .. d /\ g[i - 1] = v[(i - 1) - a + 1]
          /\ (i - 1) - a + 1 = (i - a + 1) - 1 /\ i - a + 1 \in B + 1 .. D
          /\ (i - a + 1) - 1 \in 1 .. Len(line) /\ a + ((i - a + 1) - 1) - 1 = i - 1
      BY <1>0, <1>2, <1>9, <2>2
    <3>2. g[i] = 10 * g[i - 1] + (m[i - 1] - ZERO)
      BY <1>10
    <3>3. v[i - a + 1] = 10 * v[(i - a + 1) - 1] + (line[(i - a + 1) - 1] - ZERO)
      BY <1>4, <3>1
    <3>4. m[i - 1] = line[(i - a + 1) - 1]
      BY <1>0, <3>1
    <3>5. g[i] = v[i - a + 1]
      BY ONLY <3>1, <3>2, <3>3, <3>4
    <3> QED
      BY <3>1, <3>5
  <2> HIDE DEF T
  <2>3. b .. d \subseteq T
    <3>1. b \in Int /\ d \in Int /\ b <= d
      BY <1>0
    <3> QED
      BY ONLY <2>1, <2>2, <3>1, UpFrom
  <2> QED
    BY <2>3 DEF T
<1>12. d - a + 1 \in B .. D
  BY <1>0, <1>2, <1>9
<1>13. Num(m, b, d) = v[d - a + 1] /\ g[d] = v[d - a + 1]
  BY <1>0, <1>6, <1>11
<1>14. ASSUME NEW i \in b .. d - 1 PROVE v[i - a + 1] < MaxUInt \div 10
  <2>1. i \in b .. d
    BY <1>0
  <2> QED
    BY <1>7, <1>11, <2>1
<1>15. CASE m[d] \in Digits
  <2>1. d # a + Len(line)
    BY <1>0, <1>15, LineStoreConstants
  <2>2. d - a + 1 \in 1 .. Len(line) /\ a + (d - a + 1) - 1 = d
    <3>1. PICK l : l = Len(line)
      OBVIOUS
    <3>2. l \in Nat /\ a \in Nat /\ b \in a .. a + l /\ d \in b .. a + l /\ d # a + l
      BY <1>0, <2>1, <3>1
    <3>3. d - a + 1 \in 1 .. l /\ a + (d - a + 1) - 1 = d
      BY ONLY <3>2
    <3> QED
      BY <3>1, <3>3
  <2>3. line[d - a + 1] \in Digits
    BY <1>0, <1>15, <2>2
  <2>4. d - a + 1 # D
    BY <1>3, <2>2, <2>3
  <2> QED
    BY <1>0, <1>1, <1>2, <1>8, <1>9, <1>12, <1>13, <1>14, <1>15, <2>4
<1>16. CASE m[d] \notin Digits
  <2>1. d - a + 1 = D
    <3> SUFFICES ASSUME d - a + 1 # D PROVE FALSE
      OBVIOUS
    <3>1. d - a + 1 \in B .. D - 1 /\ d - a + 1 \in 1 .. Len(line) /\ a + (d - a + 1) - 1 = d
      <4>1. PICK l : l = Len(line)
        OBVIOUS
      <4>2. /\ l \in Nat /\ a \in Nat /\ b \in a .. a + l /\ d \in b .. a + l
            /\ B \in 1 .. l + 1 /\ D \in B .. l + 1 /\ d - a + 1 \in B .. D /\ d - a + 1 # D
        BY <1>0, <1>2, <1>12, <4>1
      <4>3. d - a + 1 \in B .. D - 1 /\ d - a + 1 \in 1 .. l /\ a + (d - a + 1) - 1 = d
        BY ONLY <4>2
      <4> QED
        BY <4>1, <4>3
    <3>2. line[d - a + 1] \in Digits /\ m[d] = line[d - a + 1]
      BY <1>0, <1>3, <3>1
    <3> QED
      BY <1>16, <3>2
  <2> QED
    BY <1>1, <1>12, <1>13, <1>14, <1>16, <2>1
<1> QED
  BY <1>15, <1>16

\* The number of the line that was typed is the number that testnum reads.
LEMMA NumberIs ==
    ASSUME NEW m, NEW a, NEW line, LiesAt(m, a, line),
           NEW b \in a .. VariablesBegin - 1, b - a + 1 = Editor!DigitsBegin(line),
           NEW d \in b .. VariablesBegin - 1, \A i \in b .. d - 1 : ~Stops(m, b, i), Stops(m, b, d)
    PROVE  /\ Editor!Number(line) = TestNum(m, b, d) % LineMod
           /\ TestNum(m, b, d) % LineMod # LINENUM_END => d - a + 1 = Editor!DigitsEnd(line)
<1>0. a \in Nat /\ Len(line) \in Nat /\ VariablesBegin \in Nat /\ a + Len(line) = VariablesBegin - 1
  BY Sizes DEF LiesAt
<1>1. PICK B, D : B = Editor!DigitsBegin(line) /\ D = Editor!DigitsEnd(line)
  OBVIOUS
<1>2. PICK v : Reads(v, line, B, D) /\ Editor!Value(line) = v[D]
  BY <1>0, <1>1, ValueReads
<1>3. B \in Nat /\ D \in Nat /\ B <= D /\ \A j \in B .. D - 1 : line[j] \in Digits
  BY <1>0, <1>1, DigitsPlaces
<1>4. /\ \A i \in B + 1 .. D : v[i] \div 10 = v[i - 1]
      /\ \A i \in B .. D : \A k \in i .. D : v[i] <= v[k]
  BY <1>2, <1>3, ReadsGrow
<1>5. /\ d - a + 1 \in B .. D
      /\ Num(m, b, d) = v[d - a + 1]
      /\ \A i \in b .. d - 1 : v[i - a + 1] < MaxUInt \div 10
      /\ m[d] \in Digits => v[d - a + 1] >= MaxUInt \div 10 /\ d - a + 1 < D
      /\ m[d] \notin Digits => d - a + 1 = D
  BY <1>1, <1>2, NumberValue
<1>6. PICK Q : Q = MaxUInt \div 10
  OBVIOUS
<1>7. Q \in Nat /\ Q >= 1 /\ v \in [B .. D -> Nat] /\ v[B] = 0 /\ b - a + 1 = B
  BY <1>1, <1>2, <1>6, Limit DEF Reads
<1>8. CASE m[d] \in Digits
  <2>1. v[d - a + 1] >= Q /\ d - a + 1 < D /\ d - a + 1 \in B .. D
    BY <1>5, <1>6, <1>8
  <2>2. b # d
    BY <1>7, <2>1
  <2>3. TestNum(m, b, d) = MaxUInt
    BY <1>8, <2>2 DEF TestNum
  <2>4. D \in B + 1 .. D /\ D - 1 \in d - a + 1 .. D /\ D - 1 \in B .. D
    BY <1>0, <1>3, <2>1
  <2>5. v[D] \div 10 = v[D - 1] /\ v[d - a + 1] <= v[D - 1] /\ v[D - 1] \in Nat /\ v[d - a + 1] \in Nat
    BY <1>4, <1>7, <2>1, <2>4
  <2>6. v[D] \div 10 >= Q
    BY <1>7, <2>1, <2>5
  <2>7. Editor!Number(line) = LineMod - 1
    BY <1>2, <1>6, <2>6 DEF Editor!Number
  <2> QED
    BY <2>3, <2>7, LineStoreConstants DEF LINENUM_END
<1>9. CASE m[d] \notin Digits
  <2>1. d - a + 1 = D
    BY <1>5, <1>9
  <2>2. TestNum(m, b, d) = v[D]
    <3>1. CASE b = d
      BY <1>7, <2>1, <3>1 DEF TestNum
    <3>2. CASE b # d
      BY <1>5, <1>9, <2>1, <3>2 DEF TestNum
    <3> QED
      BY <3>1, <3>2
  <2>3. ~(v[D] \div 10 >= Q)
    <3>1. CASE b = d
      <4>1. v[D] = 0 /\ 0 \div 10 = 0
        BY <1>7, <2>1, <3>1
      <4> QED
        BY <1>7, <4>1
    <3>2. CASE b # d
      <4>1. D \in B + 1 .. D /\ d - 1 \in b .. d - 1 /\ (d - 1) - a + 1 = D - 1 /\ D - 1 \in B .. D
        BY <1>0, <1>3, <1>7, <2>1, <3>2
      <4>2. v[D] \div 10 = v[D - 1] /\ v[D - 1] \in Nat
        BY <1>4, <1>7, <4>1
      <4>3. v[D - 1] < Q
        BY <1>5, <1>6, <4>1
      <4> QED
        BY <1>7, <4>2, <4>3
    <3> QED
      BY <3>1, <3>2
  <2>4. Editor!Number(line) = v[D] % LineMod
    BY <1>2, <1>6, <2>3 DEF Editor!Number
  <2> QED
    BY <1>1, <2>1, <2>2, <2>4
<1> QED
  BY <1>8, <1>9

-----------------------------------------------------------------------------
(* The text of a line, and what becomes of it.                             *)

\* The text behind the header is the text of the line.
LEMMA TextIs ==
    ASSUME ShortLines, NEW m \in [Addr -> Bytes], NEW a, NEW line, LiesAt(m, a, line),
           VariablesBegin - 1 - a <= MaxTyped, NEW t \in a .. VariablesBegin - 1, LN + 1 <= t,
           t - a + 1 = Editor!Past(line, Editor!DigitsEnd(line), {SPACE}),
           NEW n, PutHeader(m, n, t, VariablesBegin - 1)
    PROVE  TextAt(mem', txtpos') = Editor!Text(line)
<1> DEFINE header == t - (LN + 1)
           length == VariablesBegin - 1 + 1 - t + LN + 1
<1>0. /\ LN \in Nat \ {0} /\ BYTE \in Nat \ {0} /\ VariablesBegin \in Nat /\ MaxTyped \in Nat /\ MemTop \in Nat
      /\ VariablesBegin <= MemTop /\ MaxTyped + LN + 2 < BYTE
  BY LineStoreConstants DEF ShortLines
<1>a. /\ line \in Seq(Bytes) /\ Len(line) \in Nat /\ a \in Nat /\ a + Len(line) = VariablesBegin - 1
      /\ \A i \in 1 .. Len(line) : m[a + i - 1] = line[i]
  BY DEF LiesAt
<1>1. header \in Nat /\ header + LN = t - 1 /\ length \in Nat /\ length < BYTE /\ header + length = VariablesBegin
      /\ LN + 2 <= length /\ length - LN - 2 = VariablesBegin - 1 - t
  BY <1>0, <1>a
<1>2. txtpos' = header
  BY <1>1 DEF PutHeader
<1>3. mem' = [b \in Addr |->
                IF b \in header .. header + LN - 1 THEN (n \div BYTE ^ (b - header)) % BYTE
                ELSE IF b = header + LN THEN length ELSE m[b]]
  <2>1. mem' = [b \in Addr |->
                  IF b \in header .. header + LN - 1 THEN (n \div BYTE ^ (b - header)) % BYTE
                  ELSE IF b = header + LN THEN length % BYTE ELSE m[b]]
    BY DEF PutHeader
  <2>2. length % BYTE = length
    BY <1>0, <1>1, Small
  <2> HIDE DEF length
  <2> QED
    BY <2>1, <2>2
<1> HIDE DEF header, length
<1>4. mem'[header + LN] = length
  <2>1. header + LN \in Addr /\ header + LN \notin header .. header + LN - 1
    BY <1>0, <1>1, <1>a DEF Addr
  <2> QED
    BY <1>3, <2>1
<1>5. PICK N : N = VariablesBegin - 1 - t
  OBVIOUS
<1>6. PICK k : k = t - a + 1
  OBVIOUS
<1>7. N \in Nat /\ k \in 1 .. Len(line) + 1 /\ N = Len(line) - k + 1
  BY <1>0, <1>5, <1>6, <1>a
<1>8. ASSUME NEW i \in 1 .. N PROVE mem'[header + LN + i] = line[k + i - 1]
  <2>1. /\ header + LN + i \in Addr /\ header + LN + i \notin header .. header + LN - 1 /\ header + LN + i # header + LN
        /\ k + i - 1 \in 1 .. Len(line) /\ a + (k + i - 1) - 1 = header + LN + i
    BY <1>0, <1>1, <1>5, <1>6, <1>7, <1>a DEF Addr
  <2>2. mem'[header + LN + i] = m[header + LN + i]
    BY <1>3, <2>1
  <2>3. m[header + LN + i] = line[k + i - 1]
    BY <1>a, <2>1
  <2> QED
    BY <2>2, <2>3
<1>9. TextAt(mem', txtpos') = [i \in 1 .. N |-> mem'[header + LN + i]]
  <2>1. TextAt(mem', header) = [i \in 1 .. mem'[header + LN] - LN - 2 |-> mem'[header + LN + i]]
    BY DEF TextAt
  <2>2. mem'[header + LN] - LN - 2 = N
    BY <1>1, <1>4, <1>5
  <2> QED
    BY <1>2, <2>1, <2>2
<1>10. SubSeq(line, k, Len(line)) = [i \in 1 .. N |-> line[k + i - 1]]
  <2>1. PICK l, sub : l = Len(line) /\ sub = SubSeq(line, k, l)
    OBVIOUS
  <2>2. line \in Seq(Bytes) /\ k \in Int /\ l \in Int /\ \A i \in k .. l : line[i] \in Bytes
    BY <1>7, <1>a, <2>1
  <2>3. /\ sub \in Seq(Bytes)
        /\ Len(sub) = IF k <= l THEN l - k + 1 ELSE 0
        /\ \A i \in 1 .. l - k + 1 : sub[i] = line[k + i - 1]
    BY <2>1, <2>2, SubSeqProperties
  <2>4. Len(sub) = N /\ l - k + 1 = N
    BY <1>7, <2>1, <2>3
  <2>5. sub = [i \in 1 .. N |-> sub[i]]
    BY <2>3, <2>4
  <2>6. \A i \in 1 .. N : sub[i] = line[k + i - 1]
    BY <2>3, <2>4
  <2>7. [i \in 1 .. N |-> sub[i]] = [i \in 1 .. N |-> line[k + i - 1]]
    BY <2>6, Zenon
  <2> QED
    BY <2>1, <2>5, <2>7
<1>11. [i \in 1 .. N |-> mem'[header + LN + i]] = [i \in 1 .. N |-> line[k + i - 1]]
  BY <1>8, Zenon
<1>12. Editor!Text(line) = SubSeq(line, k, Len(line))
  BY <1>6 DEF Editor!Text
<1> QED
  BY <1>9, <1>10, <1>11, <1>12

\* An uchar has more than one value, and so has a line number.
LEMMA ManyNumbers ==
    ASSUME ShortLines
    PROVE  LineMod \in Nat /\ LineMod - 1 # 0
<1>1. LN \in Nat /\ LN - 1 \in 0 .. LN /\ LN - 1 \in 0 .. LN - 1 /\ BYTE \in Nat /\ BYTE > 1 /\ (LN - 1) + 1 = LN
  BY LineStoreConstants DEF ShortLines
<1>2. BYTE ^ (LN - 1) \in Nat \ {0} /\ BYTE ^ ((LN - 1) + 1) = BYTE * BYTE ^ (LN - 1)
  BY <1>1, LineStoreConstants
<1>3. PICK p : p = BYTE ^ (LN - 1)
  OBVIOUS
<1>4. LineMod = BYTE * p /\ p \in Nat \ {0}
  BY <1>1, <1>2, <1>3 DEF LineMod
<1>5. PICK q \in Nat : p = q + 1
  <2>1. p - 1 \in Nat /\ p = (p - 1) + 1
    BY <1>4
  <2> QED
    BY <2>1
<1>6. BYTE * p = BYTE * q + BYTE /\ BYTE * q \in Nat
  BY <1>1, <1>5
<1> QED
  BY <1>1, <1>4, <1>6

\* What becomes of the line that was typed: without a number it is executed, if
\* it is not empty, with one that is too great it is refused, and any other
\* gets a header and keeps its text.
Becomes(m, line) ==
    /\ linenum' = Editor!Number(line)
    /\ \/ linenum' = 0 /\ DirectLine(m) /\ m[VariablesBegin - 1] = NL /\ (Buffer = VariablesBegin - 1 => m[Buffer] = NL)
       \/ linenum' = LineMod - 1 /\ linenum' # 0 /\ BadNumber(m)
       \/ /\ linenum' \notin {0, LineMod - 1}
          /\ pc' \in {"numbered", "lost"}
          /\ typed' = typed
          /\ TextAt(mem', txtpos') = Editor!Text(line)

LEMMA LineBecomes ==
    ASSUME ShortLines, IInv, InBuffer, TypedBound, LineEntered
    PROVE  \E m : Becomes(m, Editor!Upper(typed))
<1>1. PICK e \in Buffer .. VariablesBegin - 1 :
         /\ IsFirst(mem, e, Buffer, {NL})
         /\ Dispatch(MovedUp(Uppercased(e), e), MovedTo(e), VariablesBegin - 1)
  BY DEF LineEntered
<1>2. PICK m, a, line : m = MovedUp(Uppercased(e), e) /\ a = MovedTo(e) /\ line = Editor!Upper(typed)
  OBVIOUS
<1>3. LiesAt(m, a, line)
  BY <1>1, <1>2, MovedIsTyped DEF LineEntered
<1>4. m \in [Addr -> Bytes]
  BY <1>2, UppercasedBytes, MovedUpBytes DEF Bytes
<1>5. Dispatch(m, a, VariablesBegin - 1)
  BY <1>1, <1>2
<1>6. PICK b \in a .. VariablesBegin - 1 :
         /\ IsFirst(m, b, a, NonBlanks)
         /\ \E d \in b .. VariablesBegin - 1 :
              /\ \A i \in b .. d - 1 : ~Stops(m, b, i)
              /\ Stops(m, b, d)
              /\ LET n == TestNum(m, b, d) % LineMod
                 IN  /\ linenum' = n
                     /\ \/ n = 0 /\ DirectLine(m)
                        \/ n = LINENUM_END /\ n # 0 /\ BadNumber(m)
                        \/ /\ n \notin {0, LINENUM_END}
                           /\ \E t \in d .. VariablesBegin - 1 :
                                IsFirst(m, t, d, NonBlanks) /\ PutHeader(m, n, t, VariablesBegin - 1)
  BY <1>5 DEF Dispatch, NonBlanks
<1>7. PICK d \in b .. VariablesBegin - 1 :
         /\ \A i \in b .. d - 1 : ~Stops(m, b, i)
         /\ Stops(m, b, d)
         /\ LET n == TestNum(m, b, d) % LineMod
            IN  /\ linenum' = n
                /\ \/ n = 0 /\ DirectLine(m)
                   \/ n = LINENUM_END /\ n # 0 /\ BadNumber(m)
                   \/ /\ n \notin {0, LINENUM_END}
                      /\ \E t \in d .. VariablesBegin - 1 :
                           IsFirst(m, t, d, NonBlanks) /\ PutHeader(m, n, t, VariablesBegin - 1)
  BY <1>6
<1>8. PICK n : n = TestNum(m, b, d) % LineMod
  OBVIOUS
<1>9. /\ linenum' = n
      /\ \/ n = 0 /\ DirectLine(m)
         \/ n = LINENUM_END /\ n # 0 /\ BadNumber(m)
         \/ /\ n \notin {0, LINENUM_END}
            /\ \E t \in d .. VariablesBegin - 1 :
                 IsFirst(m, t, d, NonBlanks) /\ PutHeader(m, n, t, VariablesBegin - 1)
  BY <1>7, <1>8
<1>10. /\ Len(line) \in Nat /\ line \in Seq(Bytes) /\ a \in Nat /\ a + Len(line) = VariablesBegin - 1 /\ VariablesBegin \in Nat
       /\ Buffer \in Nat /\ Buffer = program_end + LN /\ program_end \in Nat /\ LN \in Nat /\ MaxTyped \in Nat
       /\ a \in Buffer .. VariablesBegin - 1
  <2>1. MovedTo(e) \in Buffer .. VariablesBegin - 1
    BY MovedUpBytes, UppercasedBytes
  <2>2. MaxTyped \in Nat
    BY LineStoreConstants
  <2>3. LiesAt(m, a, line) => /\ line \in Seq(Bytes) /\ a \in Nat /\ a + Len(line) = VariablesBegin - 1
    BY DEF LiesAt
  <2>4. Len(line) \in Nat
    BY <1>3, <2>3
  <2> QED
    BY <1>2, <1>3, <2>1, <2>2, <2>3, <2>4, BufferTypes, Sizes
<1>11. b - a + 1 = Editor!DigitsBegin(line)
  <2>1. a \in a .. VariablesBegin - 1 /\ a - a + 1 = 1 /\ 1 \in 1 .. Len(line) + 1
    BY <1>10
  <2>2. Skips(line, 1, {SPACE}, b - a + 1)
    BY <1>3, <1>4, <1>6, <2>1, BlanksSkipped
  <2> QED
    BY <1>10, <2>1, <2>2, PastIs DEF Editor!DigitsBegin
<1>12. Editor!Number(line) = n /\ (n # LINENUM_END => d - a + 1 = Editor!DigitsEnd(line))
  BY <1>3, <1>7, <1>8, <1>11, NumberIs
<1>13. ASSUME n = 0, DirectLine(m) PROVE Becomes(m, line)
  <2>1. m[VariablesBegin - 1] = NL
    BY <1>3, <1>10 DEF LiesAt
  <2> QED
    BY <1>2, <1>9, <1>12, <1>13, <2>1 DEF Becomes
<1>14. ASSUME n = LINENUM_END, n # 0, BadNumber(m) PROVE Becomes(m, line)
  BY <1>2, <1>9, <1>12, <1>14 DEF Becomes, LINENUM_END
<1>15. ASSUME n \notin {0, LINENUM_END}, NEW t \in d .. VariablesBegin - 1, IsFirst(m, t, d, NonBlanks), PutHeader(m, n, t, VariablesBegin - 1)
       PROVE  Becomes(m, line)
  <2>1. d - a + 1 = Editor!DigitsEnd(line)
    BY <1>12, <1>15
  <2>2. d \in a .. VariablesBegin - 1 /\ t \in a .. VariablesBegin - 1 /\ d - a + 1 \in 1 .. Len(line) + 1
    BY <1>10
  <2>3. Skips(line, d - a + 1, {SPACE}, t - a + 1)
    BY <1>3, <1>4, <1>15, <2>2, BlanksSkipped
  <2>4. t - a + 1 = Editor!Past(line, Editor!DigitsEnd(line), {SPACE})
    BY <1>10, <2>1, <2>2, <2>3, PastIs
  <2>5. VariablesBegin - 1 - a <= MaxTyped
    <3>1. e = Buffer + Len(typed) /\ Len(typed) \in Nat
      BY <1>1, TypedLineEnds, BufferTypes DEF LineEntered
    <3>2. a = VariablesBegin - 1 - (e - Buffer)
      BY <1>2 DEF MovedTo
    <3> QED
      BY <1>10, <3>1, <3>2 DEF TypedBound
  <2>6. LN + 1 <= t
    <3>1. a # VariablesBegin - 1
      <4> SUFFICES ASSUME a = VariablesBegin - 1 PROVE FALSE
        OBVIOUS
      <4>1. b = VariablesBegin - 1 /\ d = VariablesBegin - 1
        BY <1>10
      <4>2. n = 0
        <5>1. TestNum(m, b, d) = 0
          BY <4>1 DEF TestNum
        <5> QED
          BY <1>8, <5>1, LineModNat
      <4> QED
        BY <1>15, <4>2
    <3>2. b # d
      <4>1. b = d => n = 0
        <5>1. b = d => TestNum(m, b, d) = 0
          BY DEF TestNum
        <5> QED
          BY <1>8, <5>1, LineModNat
      <4> QED
        BY <1>15, <4>1
    <3> QED
      BY <1>10, <3>2
  <2>7. /\ ShortLines /\ m \in [Addr -> Bytes] /\ LiesAt(m, a, line) /\ t \in a .. VariablesBegin - 1
        /\ VariablesBegin - 1 - a <= MaxTyped /\ LN + 1 <= t /\ PutHeader(m, n, t, VariablesBegin - 1)
    BY <1>3, <1>4, <1>15, <2>2, <2>5, <2>6
  <2>8. TextAt(mem', txtpos') = Editor!Text(line)
    BY ONLY <2>4, <2>7, TextIs
  <2>9. typed' = typed /\ pc' \in {"numbered", "lost"}
    BY <1>15 DEF PutHeader
  <2> QED
    BY <1>9, <1>12, <1>15, <2>8, <2>9 DEF Becomes, LINENUM_END
<1>16. Becomes(m, line)
  BY <1>9, <1>13, <1>14, <1>15
<1> QED
  BY <1>2, <1>16

-----------------------------------------------------------------------------
(* Every step is a step of the editor, or none.                            *)

\* The line to be merged has the number and the text of the line that was typed.
Promised ==
    pc = "numbered" =>
        /\ linenum = Editor!Number(Editor!Upper(typed))
        /\ linenum \notin {0, LineMod - 1}
        /\ TextAt(mem, txtpos) = Editor!Text(Editor!Upper(typed))

\* A line executes only if there was room for a character of it, so an answer
\* ends below the variables.
BelowLimit == pc \in {"execute", "input", "answered"} => Buffer <= VariablesBegin - 2

\* While room is made for a line, and while one executes, nothing is typed.
Idle == pc \in {"shuffle", "execute"} => typed = <<>>

\* The line is what is typed.
LEMMA LineKept ==
    ASSUME typed' = typed
    PROVE  /\ Editor!Number(Editor!Upper(typed))' = Editor!Number(Editor!Upper(typed))
           /\ Editor!Text(Editor!Upper(typed))' = Editor!Text(Editor!Upper(typed))
<1>1. Editor!Number(Editor!Upper(typed))' = Editor!Number(Editor!Upper(typed))
  BY DEF Editor!Upper, Editor!Number, Editor!Value, Editor!DigitsBegin, Editor!DigitsEnd, Editor!Past
<1>2. Editor!Text(Editor!Upper(typed))' = Editor!Text(Editor!Upper(typed))
  BY DEF Editor!Upper, Editor!Text, Editor!DigitsBegin, Editor!DigitsEnd, Editor!Past
<1> QED
  BY <1>1, <1>2

LEMMA EnteredPromised ==
    ASSUME ShortLines, IInv, InBuffer, TypedBound, LineEntered
    PROVE  Promised' /\ BelowLimit' /\ Idle'
<1>1. PICK m : Becomes(m, Editor!Upper(typed))
  BY LineBecomes
<1>2. Idle'
  <2>1. pc' # "shuffle" /\ (pc' = "execute" => typed' = <<>>)
    BY <1>1 DEF Becomes, DirectLine, BadNumber, ToPrompt
  <2> QED
    BY <2>1 DEF Idle
<1>3. Promised'
  <2> SUFFICES ASSUME pc' = "numbered" PROVE Promised'
    BY DEF Promised
  <2>1. /\ linenum' = Editor!Number(Editor!Upper(typed)) /\ linenum' \notin {0, LineMod - 1} /\ typed' = typed
        /\ TextAt(mem', txtpos') = Editor!Text(Editor!Upper(typed))
    BY <1>1 DEF Becomes, DirectLine, BadNumber, ToPrompt
  <2>2. typed' = typed
    BY <2>1
  <2>3. /\ Editor!Number(Editor!Upper(typed))' = Editor!Number(Editor!Upper(typed))
        /\ Editor!Text(Editor!Upper(typed))' = Editor!Text(Editor!Upper(typed))
    BY ONLY <2>2, LineKept
  <2>4. TextAt(mem, txtpos)' = TextAt(mem', txtpos')
    BY DEF TextAt
  <2> QED
    BY <2>1, <2>2, <2>3, <2>4 DEF Promised
<1>4. BelowLimit'
  <2> SUFFICES ASSUME pc' \in {"execute", "input", "answered"} PROVE BelowLimit'
    BY DEF BelowLimit
  <2>1. DirectLine(m) /\ (Buffer = VariablesBegin - 1 => m[Buffer] = NL)
    BY <1>1 DEF Becomes, BadNumber, ToPrompt
  <2>2. m[Buffer] # NL /\ program_end' = program_end
    BY <2>1 DEF DirectLine, ToPrompt
  <2>3. Buffer \in Nat /\ VariablesBegin \in Nat /\ Buffer <= VariablesBegin - 1
    <3>1. PICK e \in Buffer .. VariablesBegin - 1 : TRUE
      BY DEF LineEntered
    <3> QED
      BY <3>1, BufferTypes, Sizes
  <2>4. Buffer <= VariablesBegin - 2
    BY <2>1, <2>2, <2>3
  <2>5. Buffer' = Buffer
    BY <2>2 DEF Buffer
  <2> QED
    BY <2>4, <2>5 DEF BelowLimit
<1> QED
  BY <1>2, <1>3, <1>4

LEMMA PromisedStep ==
    ASSUME ShortLines, IInv, InBuffer, TypedBound, Promised, BelowLimit, Idle, [CarefulNext]_vars
    PROVE  Promised' /\ BelowLimit' /\ Idle'
<1>1. CASE LineEntered
  BY <1>1, EnteredPromised
<1>2. CASE UNCHANGED vars
  <2>1. /\ linenum' = linenum /\ typed' = typed /\ mem' = mem /\ txtpos' = txtpos /\ pc' = pc
        /\ program_end' = program_end
    BY <1>2 DEF vars
  <2>2. typed' = typed
    BY <2>1
  <2>3. /\ Editor!Number(Editor!Upper(typed))' = Editor!Number(Editor!Upper(typed))
        /\ Editor!Text(Editor!Upper(typed))' = Editor!Text(Editor!Upper(typed))
    BY ONLY <2>2, LineKept
  <2>4. TextAt(mem, txtpos)' = TextAt(mem, txtpos)
    BY <2>1 DEF TextAt
  <2>5. Promised'
    BY <2>1, <2>2, <2>3, <2>4 DEF Promised
  <2>6. BelowLimit' /\ Idle'
    BY <2>1 DEF BelowLimit, Idle, Buffer
  <2> QED
    BY <2>5, <2>6
<1>p. pc' # "numbered" => Promised'
  BY DEF Promised
<1>r. pc' \notin {"execute", "input", "answered"} => BelowLimit'
  BY DEF BelowLimit
<1>i. pc' \notin {"shuffle", "execute"} => Idle'
  BY DEF Idle
<1>e. typed' = <<>> => Idle'
  BY DEF Idle
<1>k. ASSUME pc \in {"execute", "input", "answered"}, program_end' = program_end PROVE BelowLimit'
  BY <1>k DEF BelowLimit, Buffer
<1>3. ASSUME NEW c \in Keys, TypeChar(c) PROVE Promised' /\ BelowLimit' /\ Idle'
  <2>1. pc' = pc /\ pc \in {"prompt", "input"} /\ program_end' = program_end
    BY <1>3 DEF TypeChar, InGetln
  <2> QED
    BY <2>1, <1>p, <1>r, <1>i, <1>k
<1>4. CASE Backspace
  <2>1. pc' = pc /\ pc \in {"prompt", "input"} /\ program_end' = program_end
    BY <1>4 DEF Backspace, InGetln
  <2> QED
    BY <2>1, <1>p, <1>r, <1>i, <1>k
<1>5. CASE EndLine
  <2>1. /\ program_end' = program_end
        /\ (pc = "prompt" /\ pc' = "entered") \/ (pc = "input" /\ pc' = "answered")
    BY <1>5 DEF EndLine, InGetln
  <2> QED
    BY <2>1, <1>p, <1>r, <1>i, <1>k
<1>6. CASE LineAnswered
  <2>1. pc = "answered" /\ pc' = "execute" /\ program_end' = program_end /\ typed' = <<>>
    BY <1>6 DEF LineAnswered
  <2> QED
    BY <2>1, <1>p, <1>r, <1>e, <1>k
<1>7. CASE Input
  <2>1. pc = "execute" /\ pc' = "input" /\ program_end' = program_end
    BY <1>7 DEF Input
  <2> QED
    BY <2>1, <1>p, <1>r, <1>i, <1>k
<1>8. CASE Merge
  <2>1. pc' = "prompt" \/ (pc' = "shuffle" /\ typed' = <<>>)
    BY <1>8 DEF Merge, MergeAt, ToPrompt
  <2>2. Idle'
    BY <2>1 DEF Idle
  <2> QED
    BY <2>1, <2>2, <1>p, <1>r
<1>9. CASE Shuffle \/ ShuffleOver
  <2>1. pc = "shuffle" /\ pc' = pc /\ typed' = typed
    BY <1>9 DEF Shuffle, ShuffleOver
  <2>2. Idle'
    BY <2>1 DEF Idle
  <2> QED
    BY <2>1, <2>2, <1>p, <1>r
<1>10. CASE RunsAway \/ DeletePast \/ Merged \/ ExecuteEnds \/ ClearProgram \/ Save
  <2>1. pc' \in {"prompt", "lost"}
    BY <1>10 DEF RunsAway, StoresOutside, ScanRunsAway, MergeRunsAway, SaveRunsAway, DeletePast, Merged,
                 ExecuteEnds, ClearProgram, Save, ToPrompt
  <2> QED
    BY <2>1, <1>p, <1>r, <1>i
<1>11. CASE Bell \/ SessionEnds \/ StaysLost
  BY <1>2, <1>11 DEF Bell, SessionEnds, StaysLost
<1>12. CASE LineEnteredAbove
  BY <1>12, <1>p, <1>r, <1>i, EmptyAbove DEF ToPrompt
<1>13. CASE Write
  <2>1. pc = "execute" /\ pc' = pc /\ typed' = typed /\ program_end' = program_end
    BY <1>13 DEF Write
  <2>2. typed' = <<>>
    BY <2>1 DEF Idle
  <2> QED
    BY <2>1, <2>2, <1>p, <1>e, <1>k
<1> QED
  BY <1>1, <1>2, <1>3, <1>4, <1>5, <1>6, <1>7, <1>8, <1>9, <1>10, <1>11, <1>12, <1>13
     DEF CarefulNext, PersistentNext, Next, User, Code, RunsAway

LEMMA PromisedInvariant ==
    ASSUME ShortLines
    PROVE  CarefulSpec => [](Promised /\ BelowLimit /\ Idle)
<1>1. Init => Promised /\ BelowLimit /\ Idle
  BY DEF Init, Promised, BelowLimit, Idle
<1>2. IInv /\ InBuffer /\ TypedBound /\ (Promised /\ BelowLimit /\ Idle) /\ [CarefulNext]_vars
        => (Promised /\ BelowLimit /\ Idle)'
  BY PromisedStep
<1> QED
  BY <1>1, <1>2, LineStoreInvariant, TypedInvariant, ChainInvariant, PTL DEF CarefulSpec

\* What the editor does with a line, by its number.
LEMMA EditorExecutes ==
    ASSUME ShortLines, Mode = "line", typed' = <<>>, Editor!Number(Editor!Upper(typed)) = 0,
           Mode' \in {"line", "run"}, Listing' = Listing
    PROVE  Editor!Enter
<1>1. PICK n : n = Editor!Number(Editor!Upper(typed))
  OBVIOUS
<1>2. n = 0 /\ n # LineMod - 1
  BY <1>1, ManyNumbers
<1> QED
  BY <1>1, <1>2 DEF Editor!Enter

LEMMA EditorRefuses ==
    ASSUME Mode = "line", typed' = <<>>, Editor!Number(Editor!Upper(typed)) = LineMod - 1, LineMod - 1 # 0,
           Mode' = Mode, Listing' = Listing
    PROVE  Editor!Enter
<1>1. PICK n : n = Editor!Number(Editor!Upper(typed))
  OBVIOUS
<1>2. n # 0 /\ n = LineMod - 1
  BY <1>1
<1> QED
  BY <1>1, <1>2 DEF Editor!Enter

LEMMA EditorStores ==
    ASSUME Mode = "line", typed' = <<>>, Editor!Number(Editor!Upper(typed)) \notin {0, LineMod - 1},
           Mode' = Mode,
           Listing' = StoredIn(Listing, Editor!Number(Editor!Upper(typed)), Editor!Text(Editor!Upper(typed)))
    PROVE  Editor!Enter
<1>1. PICK n, t : n = Editor!Number(Editor!Upper(typed)) /\ t = Editor!Text(Editor!Upper(typed))
  OBVIOUS
<1>2. n # 0 /\ n # LineMod - 1
  BY <1>1
<1>3. Listing' = Editor!Stored(n, t)
  BY <1>1 DEF StoredIn, Editor!Stored
<1> QED
  BY <1>1, <1>2, <1>3 DEF Editor!Enter

\* A line whose NL lies above the variables has no character.
LEMMA NothingTyped ==
    ASSUME IInv, InBuffer, LineEnteredAbove
    PROVE  typed = <<>>
<1>1. PICK e \in VariablesBegin .. MemTop - 1 : IsFirst(mem, e, Buffer, {NL})
  BY DEF LineEnteredAbove
<1>2. /\ Buffer \in Nat /\ txtpos \in Nat /\ VariablesBegin \in Nat /\ e \in Nat /\ VariablesBegin <= e
      /\ typed \in Seq(Keys) /\ Len(typed) \in Nat
  BY <1>1, BufferTypes, Sizes
<1>3. /\ Buffer <= txtpos /\ mem[txtpos] = NL
      /\ Buffer <= VariablesBegin - 2 => txtpos <= VariablesBegin - 2
      /\ Buffer > VariablesBegin - 2 => txtpos = Buffer
  BY DEF IInv, Returned, LineEnteredAbove
<1>4. ~(txtpos < e)
  BY <1>1, <1>2, <1>3 DEF IsFirst
<1>5. txtpos = Buffer
  BY <1>2, <1>3, <1>4
<1>6. txtpos = Buffer + Len(typed)
  BY DEF InBuffer, LineEnteredAbove
<1>7. Len(typed) = 0
  BY <1>2, <1>5, <1>6
<1> QED
  BY <1>2, <1>7

\* A chain of lines leads findline to its end at most.
LEMMA NothingPast ==
    ASSUME IInv, Chained
    PROVE  ~DeletePast
<1> SUFFICES ASSUME DeletePast PROVE FALSE
  OBVIOUS
<1>1. pc # "shuffle" /\ program_end \in Nat
  BY BufferTypes DEF DeletePast
<1>2. PICK n, X : Chain(Stored, n, X)
  BY DEF Chained
<1>3. n = program_end
  BY <1>1, <1>2, ChainEnds, StoredIsMem
<1>4. FindLine \in 0 .. program_end
  BY <1>1, <1>2, <1>3, FindLineFacts DEF Chain
<1>5. PICK s \in program_end + 1 .. MemTop - 1 : s = FindLine
  BY DEF DeletePast, Found
<1> QED
  BY <1>1, <1>4, <1>5

\* Every step is a step of the editor, or none.
LEMMA EditorStep ==
    ASSUME ShortLines, IInv, IInv', InBuffer, TypedBound, Headed, Chained, Promised, BelowLimit, Idle, [CarefulNext]_vars
    PROVE  [Editor!Next]_(Editor!vars)
<1> DEFINE Goal == [Editor!Next]_(Editor!vars)
<1>k. pc \notin {"numbered", "execute"} => Listing' = Listing
  BY CarefulKeepsStore, ListingKept
<1>s. ASSUME Listing' = Listing, typed' = typed, Mode' = Mode PROVE Goal
  BY <1>s DEF Editor!vars
<1>1. CASE UNCHANGED vars
  <2>1. Stored' = Stored
    BY <1>1 DEF vars, Stored, StoredLen
  <2>2. typed' = typed /\ Mode' = Mode
    BY <1>1 DEF vars, Mode
  <2> QED
    BY <2>1, <2>2, <1>s, ListingKept
<1>2. ASSUME NEW c \in Keys, TypeChar(c) PROVE Goal
  <2>1. pc' = pc /\ pc \in {"prompt", "input"} /\ typed' = Append(typed, c)
    BY <1>2 DEF TypeChar, InGetln
  <2>2. Mode' = Mode /\ Mode # "run" /\ Listing' = Listing
    BY <2>1, <1>k DEF Mode
  <2>3. Editor!Key(c)
    BY <2>1, <2>2 DEF Editor!Key
  <2> QED
    BY <2>3 DEF Editor!Next
<1>3. CASE Backspace
  <2>1. /\ pc' = pc /\ pc \in {"prompt", "input"}
        /\ typed' = IF typed = <<>> THEN <<>> ELSE SubSeq(typed, 1, Len(typed) - 1)
    BY <1>3 DEF Backspace, InGetln
  <2>2. Mode' = Mode /\ Mode # "run" /\ Listing' = Listing
    BY <2>1, <1>k DEF Mode
  <2>3. CASE typed = <<>>
    BY <2>1, <2>2, <2>3, <1>s
  <2>4. CASE typed # <<>>
    <3>1. Editor!Rub
      BY <2>1, <2>2, <2>4 DEF Editor!Rub
    <3> QED
      BY <3>1 DEF Editor!Next
  <2> QED
    BY <2>3, <2>4
<1>4. CASE EndLine
  <2>1. (pc = "prompt" /\ pc' = "entered") \/ (pc = "input" /\ pc' = "answered")
    BY <1>4 DEF EndLine, InGetln
  <2>2. typed' = typed
    BY <1>4 DEF EndLine
  <2>3. Mode' = Mode /\ Listing' = Listing
    BY <2>1, <1>k DEF Mode
  <2> QED
    BY <2>2, <2>3, <1>s
<1>5. CASE LineEntered
  <2>1. PICK m : Becomes(m, Editor!Upper(typed))
    BY <1>5, LineBecomes
  <2>2. pc = "entered" /\ Mode = "line" /\ Listing' = Listing
    BY <1>5, <1>k DEF LineEntered, Mode
  <2>3. linenum' = Editor!Number(Editor!Upper(typed))
    BY <2>1 DEF Becomes
  <2>4. CASE linenum' = 0 /\ DirectLine(m)
    <3>1. typed' = <<>> /\ pc' \in {"prompt", "execute"}
      BY <2>4 DEF DirectLine, ToPrompt
    <3>2. Mode' \in {"line", "run"}
      BY <3>1 DEF Mode
    <3>3. Editor!Enter
      BY <2>2, <2>3, <2>4, <3>1, <3>2, EditorExecutes
    <3> QED
      BY <3>3 DEF Editor!Next
  <2>5. CASE linenum' = LineMod - 1 /\ linenum' # 0 /\ BadNumber(m)
    <3>1. typed' = <<>> /\ pc' = "prompt"
      BY <2>5 DEF BadNumber, ToPrompt
    <3>2. Mode' = Mode
      BY <2>2, <3>1 DEF Mode
    <3>3. Editor!Enter
      BY <2>2, <2>3, <2>5, <3>1, <3>2, EditorRefuses
    <3> QED
      BY <3>3 DEF Editor!Next
  <2>6. CASE pc' \in {"numbered", "lost"} /\ typed' = typed
    <3>1. Mode' = Mode
      BY <2>2, <2>6 DEF Mode
    <3> QED
      BY <2>2, <2>6, <3>1, <1>s
  <2> QED
    BY <2>1, <2>4, <2>5, <2>6 DEF Becomes
<1>6. CASE LineAnswered
  <2>1. pc = "answered" /\ pc' = "execute" /\ typed' = <<>>
    BY <1>6 DEF LineAnswered
  <2>2. Mode = "answer" /\ Mode' = "run" /\ Listing' = Listing
    BY <2>1, <1>k DEF Mode
  <2>3. Editor!Answer
    BY <2>1, <2>2 DEF Editor!Answer
  <2> QED
    BY <2>3 DEF Editor!Next
<1>7. CASE RunsAway
  <2>1. ~StoresOutside
    BY BufferTypes, Sizes DEF StoresOutside, Addr
  <2>2. pc # "answered"
    <3> SUFFICES ASSUME pc = "answered" PROVE FALSE
      OBVIOUS
    <3>1. ScanRunsAway
      BY <1>7, <2>1 DEF RunsAway, MergeRunsAway, SaveRunsAway
    <3>2. /\ Buffer <= txtpos /\ mem[txtpos] = NL /\ \A i \in Buffer .. txtpos - 1 : mem[i] # NL
          /\ txtpos \in Nat /\ Buffer \in Nat /\ txtpos \in Addr
      BY BufferTypes DEF IInv, Returned
    <3>3. txtpos \in Buffer .. MemTop - 1 /\ IsFirst(mem, txtpos, Buffer, {NL})
      BY <3>2, Sizes DEF Addr, IsFirst
    <3> QED
      BY <3>1, <3>3 DEF ScanRunsAway
  <2>3. /\ pc \in {"entered", "numbered", "execute"} /\ pc' = "lost" /\ typed' = typed
        /\ ~Merge /\ ~ClearProgram
    BY <1>7, <2>1, <2>2
       DEF RunsAway, ScanRunsAway, MergeRunsAway, SaveRunsAway, Merge, MergeAt, ClearProgram, ToPrompt
  <2>4. Listing' = Listing
    BY <1>k, <2>3, OthersKeepStore, ListingKept
  <2>5. CASE pc # "execute"
    <3>1. Mode' = Mode
      BY <2>3, <2>5 DEF Mode
    <3> QED
      BY <2>3, <2>4, <3>1, <1>s
  <2>6. CASE pc = "execute"
    <3>1. Mode = "run" /\ Mode' = "line" /\ typed' = <<>>
      BY <2>3, <2>6 DEF Mode, Idle
    <3>2. Editor!Run
      BY <2>4, <3>1 DEF Editor!Run
    <3> QED
      BY <3>2 DEF Editor!Next
  <2> QED
    BY <2>5, <2>6
<1>8. CASE Merge
  <2>1. pc = "numbered" /\ typed' = <<>> /\ pc' \in {"prompt", "shuffle"}
    BY <1>8 DEF Merge, MergeAt, ToPrompt
  <2>2. Mode = "line" /\ Mode' = Mode
    BY <2>1 DEF Mode
  <2>3. Listing' = StoredIn(Listing, linenum, TextAt(mem, txtpos))
    BY <1>8, MergeStores
  <2>4. /\ linenum = Editor!Number(Editor!Upper(typed)) /\ linenum \notin {0, LineMod - 1}
        /\ TextAt(mem, txtpos) = Editor!Text(Editor!Upper(typed))
    BY <2>1 DEF Promised
  <2>5. Editor!Enter
    BY <2>1, <2>2, <2>3, <2>4, EditorStores
  <2> QED
    BY <2>5 DEF Editor!Next
<1>9. CASE Shuffle
  <2>1. pc = "shuffle" /\ pc' = pc /\ typed' = typed
    BY <1>9 DEF Shuffle
  <2>2. Mode' = Mode /\ Listing' = Listing
    BY <2>1, <1>k DEF Mode
  <2> QED
    BY <2>1, <2>2, <1>s
<1>10. CASE Merged
  <2>1. pc = "shuffle" /\ pc' = "prompt" /\ typed' = <<>>
    BY <1>10 DEF Merged, ToPrompt
  <2>2. Mode' = Mode /\ Listing' = Listing
    BY <2>1, <1>k DEF Mode
  <2>3. typed' = typed
    BY <2>1 DEF Idle
  <2> QED
    BY <2>2, <2>3, <1>s
<1>12. CASE ClearProgram
  <2>1. pc = "execute" /\ pc' = "prompt" /\ typed' = <<>> /\ program_end' = 0
    BY <1>12 DEF ClearProgram, ToPrompt
  <2>2. Listing' = <<>>
    <3>1. StoredLen' = 0
      BY <2>1 DEF StoredLen
    <3>2. Stored' \in [0 .. 0 - 1 -> 0 .. BYTE - 1]
      <4>1. 0 .. 0 - 1 = {}
        OBVIOUS
      <4>2. Stored' = [i \in 0 .. 0 - 1 |-> mem'[i]]
        BY <2>1, <3>1 DEF Stored
      <4> QED
        BY <4>1, <4>2
    <3>3. Listing' = LinesOf(Stored', StoredLen')
      BY DEF Listing
    <3> QED
      BY <3>1, <3>2, <3>3, EmptyLines
  <2>3. Mode = "run" /\ Mode' = "line"
    BY <2>1 DEF Mode
  <2>4. Editor!Run
    BY <2>1, <2>2, <2>3 DEF Editor!Run
  <2> QED
    BY <2>4 DEF Editor!Next
<1>11. CASE ExecuteEnds \/ Save \/ Input
  <2>1. pc = "execute" /\ pc' \in {"prompt", "input"} /\ typed' = <<>> /\ ~Merge
    BY <1>11 DEF ExecuteEnds, Save, Input, ToPrompt, Merge, MergeAt
  <2>2. CASE ClearProgram
    BY <1>12, <2>2
  <2>3. CASE ~ClearProgram
    <3>1. Listing' = Listing
      BY <2>1, <2>3, OthersKeepStore, ListingKept
    <3>2. Mode = "run" /\ Mode' \in {"line", "answer"}
      BY <2>1 DEF Mode
    <3>3. Editor!Run
      BY <2>1, <3>1, <3>2 DEF Editor!Run
    <3> QED
      BY <3>3 DEF Editor!Next
  <2> QED
    BY <2>2, <2>3
<1>14. CASE Write
  <2>1. pc = "execute" /\ pc' = pc /\ typed' = typed /\ ~Merge /\ ~ClearProgram
    BY <1>14 DEF Write, Merge, MergeAt, ClearProgram, ToPrompt
  <2>2. Listing' = Listing
    BY <2>1, OthersKeepStore, ListingKept
  <2>3. Mode' = Mode
    BY <2>1 DEF Mode
  <2> QED
    BY <2>1, <2>2, <2>3, <1>s
<1>15. CASE LineEnteredAbove
  <2>1. pc = "entered" /\ pc' = "prompt" /\ typed' = <<>> /\ typed = <<>>
    BY <1>15, EmptyAbove, NothingTyped DEF LineEnteredAbove, ToPrompt
  <2>2. Listing' = Listing /\ Mode' = Mode
    BY <2>1, <1>k DEF Mode
  <2> QED
    BY <2>1, <2>2, <1>s
<1>13. CASE Bell \/ SessionEnds \/ StaysLost
  BY <1>1, <1>13 DEF Bell, SessionEnds, StaysLost
<1>16. ~ShuffleOver
  BY BufferTypes DEF ShuffleOver, IInv, ShuffleRoom
<1>17. ~DeletePast
  BY NothingPast
<1>18. \/ UNCHANGED vars \/ (\E c \in Keys : TypeChar(c)) \/ Backspace \/ EndLine \/ LineEntered \/ LineAnswered
       \/ RunsAway \/ Merge \/ Shuffle \/ Merged \/ ClearProgram \/ (ExecuteEnds \/ Save \/ Input) \/ Write
       \/ LineEnteredAbove \/ (Bell \/ SessionEnds \/ StaysLost)
  BY <1>16, <1>17 DEF CarefulNext, PersistentNext, Next, User, Code, RunsAway
<1> QED
  BY ONLY <1>1, <1>2, <1>3, <1>4, <1>5, <1>6, <1>7, <1>8, <1>9, <1>10, <1>11, <1>12, <1>13, <1>14, <1>15, <1>18

\* ImplementsEditor of LineStore.tla, for every size of the memory, of a line
\* number and of a byte: whatever lines a careful user types, moving a line up,
\* putting its header in front of it, taking the old line out and shuffling the new
\* one in store under its number exactly the text that was typed, in upper case
\* outside quotes, and leave every other line of the program as it was.  The user
\* is careful and the lengths of lines are bounded as they are for WellFormed.
THEOREM LineStoreImplementsEditor ==
    ASSUME ShortLines
    PROVE  CarefulSpec => ImplementsEditor
<1>1. Init => Editor!Init
  <2> SUFFICES ASSUME Init PROVE Editor!Init
    OBVIOUS
  <2>1. typed = <<>> /\ pc = "prompt" /\ program_end = 0
    BY DEF Init
  <2>2. Listing = <<>>
    <3>1. StoredLen = 0
      BY <2>1 DEF StoredLen
    <3> QED
      BY <3>1, EmptyListing
  <2>3. Mode = "line"
    BY <2>1 DEF Mode
  <2> QED
    BY <2>1, <2>2, <2>3 DEF Editor!Init
<1>2. IInv /\ IInv' /\ InBuffer /\ (TypedBound /\ Headed /\ Chained) /\ (Promised /\ BelowLimit /\ Idle) /\ [CarefulNext]_vars
        => [Editor!Next]_(Editor!vars)
  BY EditorStep
<1> QED
  BY <1>1, <1>2, LineStoreInvariant, TypedInvariant, ChainInvariant, PromisedInvariant, PTL
     DEF CarefulSpec, ImplementsEditor, Editor!Spec
=============================================================================
