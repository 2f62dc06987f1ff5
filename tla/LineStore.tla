----------------------------- MODULE LineStore -----------------------------
(***************************************************************************)
(* The line editor and the program store of basic.c: the part of           *)
(* basic_main() from `prompt' to `direct', with getln, findline, testnum   *)
(* and toUppercaseBuffer.                                                  *)
(*                                                                         *)
(* The array `program' is modelled byte by byte.  The stored program lies  *)
(* in 0 .. program_end-1 as lines of the form                              *)
(*     line number (LN bytes), length (1 byte), text, NL                   *)
(* A new line is typed from program_end+LN on, moved against the           *)
(* variables, given its header and merged, if need be by several little    *)
(* shuffles.  Nothing but the limit of getln keeps the line off the        *)
(* variables, and a line that starts above the limit is moved down, over   *)
(* the program.  The statements a direct line executes are in the module   *)
(* Interp; here they write a byte, clear the program, or read a line.      *)
(***************************************************************************)
EXTENDS Integers, Sequences

CONSTANTS
    LN,             \* sizeof(LINENUM), 4 in the code
    BYTE,           \* values of an uchar, 256 in the code
    VariablesBegin, \* variables_begin - program
    MemTop,         \* sizeof(program)
    MaxUInt,        \* MAX_UINT, the largest U_INT
    NL, SPACE, Quotes, LOWER, UPPER, ZERO,  \* character codes
    FnChars,        \* characters of a file name, see isValidFnChar
    Keys,           \* characters the user types
    Written,        \* addresses that statements write to
    Values,         \* bytes that they write
    MaxTyped,       \* bound: characters on a line that is being typed
    MaxLines        \* bound: lines typed in a session

Digits == ZERO .. ZERO + 9
Addr == 0 .. MemTop - 1
LineMod == BYTE ^ LN
LINENUM_END == LineMod - 1

ASSUME LineStoreConstants ==
    /\ LN \in Nat \ {0}
    /\ BYTE \in Nat \ {0}
    /\ VariablesBegin \in Nat
    /\ MemTop \in Nat
    /\ LN + 2 <= VariablesBegin
    /\ VariablesBegin + LN + 1 <= MemTop
    /\ MaxUInt \in Nat /\ MaxUInt >= 10 /\ MaxUInt % LineMod = LINENUM_END
    /\ ZERO \in Nat
    /\ {NL, SPACE, LOWER, UPPER} \cup Quotes \cup Keys \cup Digits \subseteq 0 .. BYTE - 1
    /\ NL \notin {SPACE, LOWER, UPPER} \cup Quotes \cup Keys \cup Digits
    /\ SPACE \notin Digits
    /\ Written \subseteq Addr
    /\ Values \subseteq 0 .. BYTE - 1
    /\ MaxTyped \in Nat
    /\ MaxLines \in Nat
    /\ \A k \in 0 .. LN : BYTE ^ k \in Nat \ {0}
    /\ BYTE ^ 0 = 1 /\ \A k \in 0 .. LN - 1 : BYTE ^ (k + 1) = BYTE * BYTE ^ k

VARIABLES
    mem,            \* the array program[]
    program_end,
    txtpos,
    linenum,
    linelen,        \* uchar linelen of basic_main
    start,          \* where the line is merged
    pc,             \* "prompt" and "input" are in getln, see PC
    typed,          \* history: the characters typed since getln began
    lines           \* history: the number of lines typed

vars == <<mem, program_end, txtpos, linenum, linelen, start, pc, typed, lines>>

PC == {"prompt",    \* getln('>')
       "input",     \* getln('?') of INPUT
       "entered",   \* getln('>') has returned
       "answered",  \* getln('?') has returned
       "numbered",  \* the line has its header
       "shuffle",   \* making room for the line
       "execute",   \* a direct line is executing
       "lost"}      \* the code has left `program', or loops for ever

\* Where getln starts to store.
Buffer == program_end + LN

\* e is the first address from a on whose byte in m is one of S.
IsFirst(m, e, a, S) ==
    /\ a <= e
    /\ m[e] \in S
    /\ \A i \in a .. (e - 1) : m[i] \notin S

\* The LINENUM at address a: its bytes, the lowest first.
NumAt(m, a) ==
    LET v[i \in 0 .. LN] == IF i = LN THEN 0 ELSE m[a + i] + BYTE * v[i + 1]
    IN  v[0]

Init ==
    /\ mem = [a \in Addr |-> 0]
    /\ program_end = 0
    /\ txtpos = LN
    /\ linenum = 0
    /\ linelen = 0
    /\ start = 0
    /\ pc = "prompt"
    /\ typed = <<>>
    /\ lines = 0

-----------------------------------------------------------------------------
(* getln                                                                   *)

InGetln == pc \in {"prompt", "input"}

\* A character one byte before the last place a line may end is refused.
Bell ==
    /\ InGetln
    /\ txtpos = VariablesBegin - 2
    /\ UNCHANGED vars

\* Mutant: the last place is one further up.
TypeOneMore(c) ==
    /\ InGetln
    /\ txtpos # VariablesBegin - 1
    /\ txtpos < MemTop
    /\ Len(typed) < MaxTyped
    /\ mem' = [mem EXCEPT ![txtpos] = c]
    /\ txtpos' = txtpos + 1
    /\ typed' = Append(typed, c)
    /\ UNCHANGED <<program_end, linenum, linelen, start, pc, lines>>

\* Any other is stored.
TypeChar(c) ==
    /\ InGetln
    /\ txtpos # VariablesBegin - 2
    /\ txtpos < MemTop
    /\ Len(typed) < MaxTyped
    /\ mem' = [mem EXCEPT ![txtpos] = c]
    /\ txtpos' = txtpos + 1
    /\ typed' = Append(typed, c)
    /\ UNCHANGED <<program_end, linenum, linelen, start, pc, lines>>

\* Or it would be, but the position has left `program'.
StoresOutside ==
    /\ InGetln
    /\ txtpos >= MemTop
    /\ pc' = "lost"
    /\ UNCHANGED <<mem, program_end, txtpos, linenum, linelen, start, typed, lines>>

\* Mutant: backspacing stops at the start of the array only.
BackspaceToStart ==
    /\ InGetln
    /\ txtpos # 0
    /\ txtpos' = txtpos - 1
    /\ typed' = IF typed = <<>> THEN <<>> ELSE SubSeq(typed, 1, Len(typed) - 1)
    /\ UNCHANGED <<mem, program_end, linenum, linelen, start, pc, lines>>

\* CTRLH: one byte back, unless the position is program_end.
Backspace ==
    /\ InGetln
    /\ txtpos # program_end
    /\ txtpos' = txtpos - 1
    /\ typed' = IF typed = <<>> THEN <<>> ELSE SubSeq(typed, 1, Len(typed) - 1)
    /\ UNCHANGED <<mem, program_end, linenum, linelen, start, pc, lines>>

\* Mutant: the line is not terminated.
EndLineWithoutNL ==
    /\ InGetln
    /\ txtpos < MemTop
    /\ lines < MaxLines
    /\ lines' = lines + 1
    /\ pc' = IF pc = "prompt" THEN "entered" ELSE "answered"
    /\ UNCHANGED <<mem, program_end, txtpos, linenum, linelen, start, typed>>

\* NL or CR: terminate the line where the position is, and return.
EndLine ==
    /\ InGetln
    /\ txtpos < MemTop
    /\ lines < MaxLines
    /\ lines' = lines + 1
    /\ mem' = [mem EXCEPT ![txtpos] = NL]
    /\ pc' = IF pc = "prompt" THEN "entered" ELSE "answered"
    /\ UNCHANGED <<program_end, txtpos, linenum, linelen, start, typed>>

\* Bound: the session is over.
SessionEnds ==
    /\ InGetln
    /\ lines = MaxLines
    /\ UNCHANGED vars

-----------------------------------------------------------------------------
(* From getln to the header.                                               *)

\* Mutant: quotation marks are ignored.
UppercasedInQuotes(e) ==
    [a \in Addr |-> IF a \in Buffer .. e - 1 /\ mem[a] = LOWER THEN UPPER ELSE mem[a]]

\* toUppercaseBuffer for the line that ends at e: quote[i] is the quotation
\* mark that is open when byte i is looked at.
Uppercased(e) ==
    LET quote[i \in Buffer .. e] ==
            IF i = Buffer THEN 0
            ELSE LET c == mem[i - 1]
                 IN  IF c = quote[i - 1] THEN 0
                     ELSE IF c \in Quotes THEN c ELSE quote[i - 1]
    IN  [a \in Addr |->
            IF a \in Buffer .. e - 1 /\ mem[a] = LOWER /\ quote[a] = 0 THEN UPPER ELSE mem[a]]

\* Where the first byte of the line lies once its NL is at variables_begin-1.
MovedTo(e) == VariablesBegin - 1 - (e - Buffer)

\* Mutant: the bytes the line leaves are cleared.
MovedUpAndCleared(m, e) ==
    [a \in Addr |->
        IF a \in MovedTo(e) .. VariablesBegin - 1 THEN m[a - MovedTo(e) + Buffer]
        ELSE IF a \in Buffer .. e THEN 0 ELSE m[a]]

\* "Move it to the end of program_memory": m with the line Buffer .. e copied, byte
\* after byte from its NL down.
MovedUp(m, e) ==
    [a \in Addr |->
        IF a \in MovedTo(e) .. VariablesBegin - 1 THEN m[a - MovedTo(e) + Buffer] ELSE m[a]]

\* The same for a line whose NL lies further up than variables_begin-1: a line that
\* is longer than the way down is copied over itself, and repeats its end.
MovedDown(m, e) ==
    LET way == e - (VariablesBegin - 1)
    IN  [a \in Addr |->
            IF a \in MovedTo(e) .. VariablesBegin - 1
            THEN m[e - ((VariablesBegin - 1 - a) % way)] ELSE m[a]]

\* testnum from address b on: `num' when byte i is looked at.
Num(m, b, i) ==
    LET num[j \in b .. i] ==
            IF j = b THEN 0
            ELSE IF m[j - 1] \in Digits /\ num[j - 1] < MaxUInt \div 10
                 THEN num[j - 1] * 10 + (m[j - 1] - ZERO)
                 ELSE num[j - 1]
    IN  num[i]

\* It stops before byte i, at the first that is no digit, or when the next
\* digit would overflow: then the number is MAX_UINT.
Stops(m, b, i) == m[i] \in Digits => Num(m, b, i) >= MaxUInt \div 10

TestNum(m, b, d) ==
    CASE b = d                         -> 0
      [] b # d /\ m[d] \in Digits      -> MaxUInt
      [] b # d /\ m[d] \notin Digits   -> Num(m, b, d)

ToPrompt ==
    /\ pc' = "prompt"
    /\ txtpos' = program_end' + LN
    /\ typed' = <<>>

\* The line, moved to m, has no number: execute it where it was typed.
DirectLine(m) ==
    /\ mem' = m
    /\ UNCHANGED <<program_end, start, linelen>>
    /\ IF m[Buffer] = NL
       THEN ToPrompt
       ELSE pc' = "execute" /\ txtpos' = Buffer /\ typed' = <<>>

\* The line is numbered n and its text starts at t: measure it, up to the NL at z,
\* with an uchar, and put the header in front of it.  If the NL is not among the
\* bytes an uchar can index, linelen comes round for ever; and the header of a line
\* that was moved to the start of `program' lies outside.
PutHeader(m, n, t, z) ==
    LET header == t - (LN + 1)
        length == (z + 1 - t + LN + 1) % BYTE
    IN  /\ linelen' = length
        /\ txtpos' = IF header >= 0 THEN header ELSE 0
        /\ mem' = [a \in Addr |->
                    IF a \in header .. header + LN - 1 THEN (n \div BYTE ^ (a - header)) % BYTE
                    ELSE IF a = header + LN THEN length ELSE m[a]]
        /\ pc' = IF z - t < BYTE /\ header >= 0 THEN "numbered" ELSE "lost"
        /\ UNCHANGED <<program_end, start, typed>>

\* Line number LINENUM_END: How?
BadNumber(m) ==
    /\ mem' = m
    /\ UNCHANGED <<program_end, start, linelen>>
    /\ ToPrompt

\* What basic_main does with the moved line m from a to its NL at z: skip blanks up
\* to b, read the digits up to d as an U_INT of which linenum keeps the low bytes,
\* skip blanks up to the text at t.
Dispatch(m, a, z) ==
    LET NonBlank == (0 .. BYTE - 1) \ {SPACE}
    IN  \E b \in a .. z :
          /\ IsFirst(m, b, a, NonBlank)
          /\ \E d \in b .. z :
               /\ \A i \in b .. (d - 1) : ~Stops(m, b, i)
               /\ Stops(m, b, d)
               /\ LET n == TestNum(m, b, d) % LineMod
                  IN  /\ n \in 0 .. LineMod - 1
                      /\ linenum' = n
                      /\ \/ n = 0 /\ DirectLine(m)
                         \/ n = LINENUM_END /\ n # 0 /\ BadNumber(m)
                         \/ /\ n \notin {0, LINENUM_END}
                            /\ \E t \in d .. z :
                                 IsFirst(m, t, d, NonBlank) /\ PutHeader(m, n, t, z)

\* What follows getln at the prompt: the first NL from the start of the buffer on
\* ends the line, which moves up.
LineEntered ==
    /\ pc = "entered"
    /\ \E e \in Buffer .. VariablesBegin - 1 :
          /\ IsFirst(mem, e, Buffer, {NL})
          /\ Dispatch(MovedUp(Uppercased(e), e), MovedTo(e), VariablesBegin - 1)

\* That NL lies in the variables or above them: the line moves down, over whatever is
\* there, and may end earlier than it did.
LineEnteredAbove ==
    /\ pc = "entered"
    /\ \E e \in VariablesBegin .. MemTop - 1 :
          /\ IsFirst(mem, e, Buffer, {NL})
          /\ MovedTo(e) >= 0
          /\ LET m == MovedDown(Uppercased(e), e)
             IN  \E z \in MovedTo(e) .. VariablesBegin - 1 :
                   /\ IsFirst(m, z, MovedTo(e), {NL})
                   /\ Dispatch(m, MovedTo(e), z)

\* The answer to INPUT is read where it was typed.
LineAnswered ==
    /\ pc = "answered"
    /\ \E e \in Buffer .. MemTop - 1 : IsFirst(mem, e, Buffer, {NL}) /\ mem' = Uppercased(e)
    /\ pc' = "execute"
    /\ typed' = <<>>
    /\ UNCHANGED <<program_end, txtpos, linenum, linelen, start>>

\* No NL lies in `program' where the line is supposed to start, or so far from there
\* that the line does not fit below the variables: the scan or the copy leaves it.
ScanRunsAway ==
    /\ pc \in {"entered", "answered"}
    /\ \A e \in Buffer .. MemTop - 1 :
          IsFirst(mem, e, Buffer, {NL}) => pc = "entered" /\ MovedTo(e) < 0
    /\ pc' = "lost"
    /\ UNCHANGED <<mem, program_end, txtpos, linenum, linelen, start, typed>>

-----------------------------------------------------------------------------
(* Merging a numbered line.                                                *)

\* Mutant: the first line with a greater number.
FindLineAfter ==
    LET line[a \in 0 .. MemTop + BYTE] ==
            IF a = program_end \/ a >= MemTop - LN \/ NumAt(mem, a) > linenum \/ mem[a + LN] = 0
            THEN a
            ELSE line[a + mem[a + LN]]
    IN  line[0]

\* findline from address a on: the first line with a number from linenum on.  The
\* search ends, too, where it leaves `program' or stays at a line of length 0.
FindLine ==
    LET line[a \in 0 .. MemTop + BYTE] ==
            IF a = program_end \/ a >= MemTop - LN \/ NumAt(mem, a) >= linenum \/ mem[a + LN] = 0
            THEN a
            ELSE line[a + mem[a + LN]]
    IN  line[0]

\* Is s what findline returns?
Found(s) == s = FindLine /\ (s = program_end \/ (s < MemTop - LN /\ NumAt(mem, s) >= linenum))

\* Is the line at s to be replaced or deleted?
Matches(s) == s # program_end /\ NumAt(mem, s) = linenum

\* The bytes that leave with the line at s.
Removed(s) == IF Matches(s) THEN mem[s + LN] ELSE 0

\* "Merge it into the rest of the program": the old line with this number goes;
\* without text, that is all.
MergeAt(s) ==
    /\ pc = "numbered"
    /\ Found(s)
    /\ s + Removed(s) <= program_end
    /\ program_end' = program_end - Removed(s)
    /\ mem' = [a \in Addr |-> IF a \in s .. program_end' - 1 THEN mem[a + Removed(s)] ELSE mem[a]]
    /\ UNCHANGED <<linenum, linelen>>
    /\ \/ mem'[txtpos + LN + 1] = NL /\ ToPrompt /\ UNCHANGED start
       \/ /\ mem'[txtpos + LN + 1] # NL
          /\ pc' = "shuffle"
          /\ start' = s
          /\ typed' = <<>>
          /\ UNCHANGED txtpos

Merge == \E s \in 0 .. program_end : MergeAt(s)

\* In a chain of lines that misses program_end, there is nothing to remove.
DeletePast ==
    /\ pc = "numbered"
    /\ \E s \in program_end + 1 .. MemTop - 1 : Found(s) /\ ~Matches(s)
    /\ mem[txtpos + LN + 1] = NL
    /\ UNCHANGED <<mem, program_end, linenum, linelen, start>>
    /\ ToPrompt

\* The length of what is to be moved is taken below zero, and it is unsigned; or the
\* search does not end in `program'.
MergeRunsAway ==
    /\ pc = "numbered"
    /\ \A s \in 0 .. MemTop :
          Found(s) => /\ s + Removed(s) > program_end
                      /\ Matches(s) \/ mem[txtpos + LN + 1] # NL
    /\ pc' = "lost"
    /\ UNCHANGED <<mem, program_end, txtpos, linenum, linelen, start, typed>>

\* Mutants: the room is one byte more than the line; one byte of the gap is kept.
OneByteMore == IF txtpos - program_end > linelen THEN linelen + 1 ELSE txtpos - program_end

GapButOne == IF txtpos - program_end - 1 > linelen THEN linelen ELSE txtpos - program_end - 1

\* The room an iteration makes.
SpaceToMake == IF txtpos - program_end > linelen THEN linelen ELSE txtpos - program_end

\* Mutant: the lines are moved from the bottom up, over themselves.
ShuffleForwards ==
    /\ pc = "shuffle"
    /\ linelen > 0
    /\ program_end <= txtpos
    /\ program_end' = program_end + SpaceToMake
    /\ mem' = [a \in Addr |->
                IF a \in start .. start + SpaceToMake - 1 THEN mem[txtpos + (a - start)]
                ELSE IF a \in start + SpaceToMake .. program_end' - 1
                     THEN mem[start + ((a - start) % SpaceToMake)]
                ELSE mem[a]]
    /\ txtpos' = txtpos + SpaceToMake
    /\ start' = start + SpaceToMake
    /\ linelen' = linelen - SpaceToMake
    /\ UNCHANGED <<linenum, pc, typed>>

\* One iteration of "make room for the new line": the lines from start on move
\* up by as much as the gap allows, and that part of the new line moves in.
Shuffle ==
    /\ pc = "shuffle"
    /\ linelen > 0
    /\ program_end <= txtpos
    /\ program_end' = program_end + SpaceToMake
    /\ mem' = [a \in Addr |->
                IF a \in start .. start + SpaceToMake - 1 THEN mem[txtpos + (a - start)]
                ELSE IF a \in start + SpaceToMake .. program_end' - 1 THEN mem[a - SpaceToMake]
                ELSE mem[a]]
    /\ txtpos' = txtpos + SpaceToMake
    /\ start' = start + SpaceToMake
    /\ linelen' = linelen - SpaceToMake
    /\ UNCHANGED <<linenum, pc, typed>>

\* The header lies below program_end: the room is taken below zero, and is all that
\* the line needs.  The lines that move up may cover it before it moves in.
ShuffleOver ==
    /\ pc = "shuffle"
    /\ linelen > 0
    /\ txtpos < program_end
    /\ program_end' = program_end + linelen
    /\ LET up == [a \in Addr |->
                    IF a \in start + linelen .. program_end' - 1 THEN mem[a - linelen] ELSE mem[a]]
           from(i) == IF start > txtpos THEN txtpos + (i % (start - txtpos)) ELSE txtpos + i
       IN  mem' = [a \in Addr |->
                    IF a \in start .. start + linelen - 1 THEN up[from(a - start)] ELSE up[a]]
    /\ txtpos' = txtpos + linelen
    /\ start' = start + linelen
    /\ linelen' = 0
    /\ UNCHANGED <<linenum, pc, typed>>

Merged ==
    /\ pc = "shuffle"
    /\ linelen = 0
    /\ UNCHANGED <<mem, program_end, linenum, linelen, start>>
    /\ ToPrompt

-----------------------------------------------------------------------------
(* What the statements of a direct line, or of the program it runs, do to  *)
(* the store.                                                              *)

\* The statements are done, with or without an error.
ExecuteEnds ==
    /\ pc = "execute"
    /\ UNCHANGED <<mem, program_end, linenum, linelen, start>>
    /\ ToPrompt

\* NEW, LOAD and CHAIN.
ClearProgram ==
    /\ pc = "execute"
    /\ program_end' = 0
    /\ UNCHANGED <<mem, linenum, linelen, start>>
    /\ ToPrompt

\* A byte of an assignment, of a frame or of a number that is printed; a POKE.
Write ==
    /\ pc = "execute"
    /\ \E a \in Written, c \in Values : mem' = [mem EXCEPT ![a] = c]
    /\ UNCHANGED <<program_end, txtpos, linenum, linelen, start, pc, typed>>

\* What a SAVE may find behind it: a stored program, or a direct line.
Statements ==
    {p \in Addr : p < program_end \/ (Buffer <= p /\ \A i \in Buffer .. p - 1 : mem[i] # NL)}

\* The byte behind the first name from p on, see filenameWord.
NameEnd(p, a) ==
    \E f \in p .. a - 1 :
        IsFirst(mem, f, p, FnChars) /\ IsFirst(mem, a, f, (0 .. BYTE - 1) \ FnChars)

\* SAVE: the byte behind the name becomes a NUL.
Save ==
    /\ pc = "execute"
    /\ \E p \in Statements, a \in Addr : NameEnd(p, a) /\ mem' = [mem EXCEPT ![a] = 0]
    /\ UNCHANGED <<program_end, linenum, linelen, start>>
    /\ ToPrompt

\* No name from there on.
SaveRunsAway ==
    /\ pc = "execute"
    /\ \E p \in Statements : \A a \in Addr : ~NameEnd(p, a)
    /\ pc' = "lost"
    /\ UNCHANGED <<mem, program_end, txtpos, linenum, linelen, start, typed>>

\* INPUT, and INPUT again after an answer that is no expression.
Input ==
    /\ pc = "execute"
    /\ pc' = "input"
    /\ txtpos' = Buffer
    /\ typed' = <<>>
    /\ UNCHANGED <<mem, program_end, linenum, linelen, start>>

User ==
    (\E c \in Keys : TypeChar(c)) \/ StoresOutside \/ Bell \/ Backspace \/ EndLine \/ SessionEnds

Code ==
    /\ \/ LineEntered \/ LineEnteredAbove \/ LineAnswered \/ ScanRunsAway
       \/ Merge \/ DeletePast \/ MergeRunsAway
       \/ Shuffle \/ ShuffleOver \/ Merged
       \/ ExecuteEnds \/ ClearProgram \/ Write \/ Save \/ SaveRunsAway \/ Input
    /\ UNCHANGED lines

\* Once lost, it does not come back.
StaysLost == pc = "lost" /\ UNCHANGED vars

Next == User \/ Code \/ StaysLost

Spec == Init /\ [][Next]_vars

-----------------------------------------------------------------------------
(* Users who take some care, a little or all of it.                        *)

\* No backspace on an empty line.
ErasesItsOwn == InGetln' => Buffer' <= txtpos'

\* No program that writes to itself: no POKE below program_end, no SAVE but in a
\* direct line.
KeepsItsText == pc = "execute" => \A a \in 0 .. program_end - 1 : mem'[a] = mem[a]

\* No character on a line that starts where getln must not store any more.
MindsTheLimit == InGetln' /\ Buffer' > VariablesBegin - 2 => txtpos' <= Buffer'

\* A user who types on when the memory is full.
PersistentNext == Next /\ ErasesItsOwn /\ KeepsItsText

PersistentSpec == Init /\ [][PersistentNext]_vars

CarefulNext == PersistentNext /\ MindsTheLimit

CarefulSpec == Init /\ [][CarefulNext]_vars

\* The code goes on with a line once it has been entered.
FairSpec == CarefulSpec /\ WF_vars(Code /\ pc # "execute")

-----------------------------------------------------------------------------
(* Properties.                                                             *)

TypeOK ==
    /\ mem \in [Addr -> 0 .. BYTE - 1]
    /\ program_end \in 0 .. MemTop
    /\ txtpos \in 0 .. MemTop + LN
    /\ linenum \in 0 .. LineMod - 1
    /\ linelen \in 0 .. BYTE - 1
    /\ start \in 0 .. MemTop
    /\ pc \in PC
    /\ typed \in Seq(Keys)
    /\ lines \in 0 .. MaxLines

\* The program as it will be when the line being merged is in: the lines below
\* start, what is left of the new line, the lines from start on.
StoredLen == program_end + (IF pc = "shuffle" THEN linelen ELSE 0)

Stored ==
    [i \in 0 .. StoredLen - 1 |->
        IF pc # "shuffle" \/ i < start THEN mem[i]
        ELSE IF i < start + linelen THEN mem[txtpos + (i - start)]
        ELSE mem[i - linelen]]

\* Only merging a line and executing a statement change the program: typing,
\* backspacing, moving the line up and every little shuffle leave it as it is,
\* however close to it they write.
StoreStable == [][pc \notin {"numbered", "execute"} => Stored' = Stored]_vars

\* What else damages the program, whoever types: a line without a NL below the
\* variables, moved down over it, and a line merged from below program_end.
\* As long as neither is at hand, typing, erasing, moving and shuffling are harmless.
Harmless ==
    /\ pc = "entered" => \E e \in Buffer .. VariablesBegin - 1 : mem[e] = NL
    /\ pc = "shuffle" => program_end <= txtpos

OnlyOverrunsDamage ==
    [][pc \notin {"numbered", "execute"} /\ Harmless => Stored' = Stored]_vars

\* The program never reaches the variables, not even while a line is merged.
BelowVariables == StoredLen < VariablesBegin

\* The comment on line 557: there is always a byte between the program and the
\* line to be merged, so each shuffle makes progress and none of them overwrites
\* what is left of the line.
ShuffleRoom == pc \in {"numbered", "shuffle"} => program_end < txtpos

\* The stored program is a chain of lines: ascending numbers, lengths that lead
\* from line to line and end at program_end, one NL in each, at its end.
WellFormed ==
    LET ok[a \in 0 .. StoredLen] ==
            \/ a = StoredLen
            \/ /\ a + LN < StoredLen
               /\ LET e == a + Stored[a + LN]
                  IN  /\ e \in a + LN + 3 .. StoredLen
                      /\ IsFirst(Stored, e - 1, a + LN + 1, {NL})
                      /\ e < StoredLen => NumAt(Stored, a) < NumAt(Stored, e)
                      /\ ok[e]
    IN  ok[0]

\* The comment on line 545 ("Terminate all strings with a NL"): when getln
\* returns, what lies from the start of the buffer to the first NL is what the
\* user typed and did not erase.
LineIsTyped ==
    pc \in {"entered", "answered"} =>
        /\ \A i \in 1 .. Len(typed) : mem[Buffer + i - 1] = typed[i]
        /\ mem[Buffer + Len(typed)] = NL

\* The comment on line 557: whatever is typed and erased, a line that started
\* below the limit of getln ends there, with its NL below the variables.
TypingBelowVariables ==
    InGetln /\ Buffer <= VariablesBegin - 2 => txtpos <= VariablesBegin - 2

\* A direct line that is no longer than half of the free memory is executed as
\* it was typed: moving a copy of it up has not overwritten its end.
DirectIntact ==
    [][pc = "entered" /\ pc' = "execute" /\ 2 * (Len(typed) + 1) <= VariablesBegin - Buffer =>
          /\ mem'[Buffer + Len(typed)] = NL
          /\ \A i \in 1 .. Len(typed) :
                mem'[Buffer + i - 1] \in {typed[i]} \cup (IF typed[i] = LOWER THEN {UPPER} ELSE {})]_vars

\* Merging ends: however little room is left, the line gets in and the prompt
\* comes back.
MergeEnds == pc \in {"numbered", "shuffle"} ~> pc = "prompt"

-----------------------------------------------------------------------------
(* What the byte shuffling implements.                                     *)

\* The text of the line at a of the program P.
TextAt(P, a) == [i \in 1 .. P[a + LN] - LN - 2 |-> P[a + LN + i]]

\* The program P of n bytes as a map from line numbers to texts.
LinesOf(P, n) ==
    LET from[a \in 0 .. n] ==
            IF a + LN < n /\ a + P[a + LN] \in a + 1 .. n
            THEN {a} \cup from[a + P[a + LN]]
            ELSE {}
    IN  [k \in {NumAt(P, a) : a \in from[0]} |->
            TextAt(P, CHOOSE a \in from[0] : NumAt(P, a) = k)]

Listing == LinesOf(Stored, StoredLen)

Mode ==
    CASE pc \in {"input", "answered"} -> "answer"
      [] pc = "execute"               -> "run"
      [] OTHER                        -> "line"

Editor == INSTANCE LineEditor WITH prog <- Listing, mode <- Mode

\* The byte shuffling of basic.c is an editor for numbered lines: what is
\* stored under a number is the text typed last after that number.
ImplementsEditor == Editor!Spec
=============================================================================
