---------------------------- MODULE StdioProofs -----------------------------
(***************************************************************************)
(* Proofs about Stdio.                                                     *)
(*                                                                         *)
(* Everything printed goes through putc, one character at a time.  What    *)
(* putc keeps is that the counter of a stream agrees with its buffer       *)
(* (GoodFile) and that what is shown and then what is buffered, taken      *)
(* together, only ever grows at its end: a flush moves characters from the *)
(* second to the first and leaves the sequence of both as it is.           *)
(***************************************************************************)
EXTENDS Stdio, DataInduction, SequenceTheorems

Mode == {"LBF", "FBF", "NBF"}

FILE == [file : {1, 2}, swr : BOOLEAN, base : BOOLEAN, mode : Mode, size : Nat,
         w : Int, lbfsize : Int, buf : Seq(Nat)]

Empty == << >>

\* A stream that has its buffer, whatever is in it.
HasBuffer(f) ==
    /\ f \in FILE
    /\ f.base /\ f.swr
    /\ f.size >= 1
    /\ f.mode = "NBF" => f.size = 1 /\ f.lbfsize = 0
    /\ f.mode = "FBF" => f.lbfsize = 0
    /\ f.mode = "LBF" => f.lbfsize = 0 - f.size

\* A stream with another buffer and another counter.
WithBuffer(f, b, v) == [f EXCEPT !.buf = b, !.w = v]

\* A stream that has just been given a buffer.
Ready(f, mode, size, lbfsize) ==
    [file |-> f.file, swr |-> TRUE, base |-> TRUE, mode |-> mode, size |-> size,
     w |-> 0, lbfsize |-> lbfsize, buf |-> f.buf]

\* What a stream is between two calls of putc.
GoodFile(f) ==
    /\ f \in FILE
    /\ f.base => f.swr /\ f.size >= 1 /\ Len(f.buf) <= f.size
    /\ ~f.base => f.size = 0 /\ f.w = 0 /\ f.lbfsize = 0 /\ f.buf = Empty /\ f.mode # "FBF"
    /\ f.base /\ f.mode = "NBF" => f.size = 1 /\ f.w = 0 /\ f.lbfsize = 0 /\ f.buf = Empty
    /\ f.base /\ f.mode = "FBF" => f.lbfsize = 0 /\ f.w = f.size - Len(f.buf)
    /\ f.base /\ f.mode = "LBF" => f.lbfsize = 0 - f.size /\ f.w = 0 - Len(f.buf)

\* A stream and the console, as putc takes and returns them.
State == [f : FILE, con : Seq(Nat), eof : BOOLEAN]

StateOf(f, con, eof) == [f |-> f, con |-> con, eof |-> eof]

\* What is shown, then what is still buffered.
All(S) == S.con \o S.f.buf

Char == [id : Nat, nl : BOOLEAN]

-----------------------------------------------------------------------------
LEMMA ConcatFacts ==
    ASSUME NEW s \in Seq(Nat), NEW t \in Seq(Nat), NEW x \in Nat
    PROVE  /\ s \o t \in Seq(Nat)
           /\ s \o Append(t, x) = Append(s \o t, x)
           /\ Append(t, x) \in Seq(Nat)
           /\ Len(Append(t, x)) = Len(t) + 1
  OBVIOUS

LEMMA EmptyFacts ==
    /\ Empty \in Seq(Nat) /\ Len(Empty) = 0
    /\ \A s \in Seq(Nat) : s \o Empty = s
    /\ \A s \in Seq(Nat) : Len(s) <= 0 => s = Empty
  BY DEF Empty

LEMMA FileFields ==
    ASSUME NEW f \in FILE
    PROVE  /\ f.file \in {1, 2} /\ f.swr \in BOOLEAN /\ f.base \in BOOLEAN /\ f.mode \in Mode
           /\ f.size \in Nat /\ f.w \in Int /\ f.lbfsize \in Int
           /\ f.buf \in Seq(Nat) /\ Len(f.buf) \in Nat
  BY DEF FILE

LEMMA WithBufferFields ==
    ASSUME NEW f \in FILE, NEW b \in Seq(Nat), NEW v \in Int
    PROVE  LET g == WithBuffer(f, b, v)
           IN  /\ g \in FILE
               /\ g.buf = b /\ g.w = v
               /\ g.file = f.file /\ g.mode = f.mode
               /\ g.size = f.size /\ g.lbfsize = f.lbfsize
  BY DEF FILE, WithBuffer

LEMMA WithBufferFlags ==
    ASSUME NEW f \in FILE, NEW b \in Seq(Nat), NEW v \in Int
    PROVE  LET g == WithBuffer(f, b, v)
           IN  (g.swr <=> f.swr) /\ (g.base <=> f.base)
  BY DEF FILE, WithBuffer

LEMMA StateFields ==
    ASSUME NEW S \in State
    PROVE  /\ S.f \in FILE /\ S.con \in Seq(Nat) /\ S.eof \in BOOLEAN
           /\ S = StateOf(S.f, S.con, S.eof)
  BY DEF State, StateOf

LEMMA StateOfFields ==
    ASSUME NEW f \in FILE, NEW con \in Seq(Nat), NEW e \in BOOLEAN
    PROVE  LET T == StateOf(f, con, e)
           IN  T \in State /\ T.f = f /\ T.con = con /\ (T.eof <=> e) /\ All(T) = con \o f.buf
  BY DEF State, StateOf, All

LEMMA StateWith ==
    ASSUME NEW S \in State, NEW g \in FILE
    PROVE  /\ [S EXCEPT !.f = g] = StateOf(g, S.con, S.eof)
           /\ [S EXCEPT !.f = g, !.eof = FALSE] = StateOf(g, S.con, FALSE)
<1> DEFINE T == [S EXCEPT !.f = g]
           U == [S EXCEPT !.f = g, !.eof = FALSE]
<1>1. T \in State /\ T.f = g /\ T.con = S.con /\ T.eof = S.eof
  BY DEF State
<1>2. U \in State /\ U.f = g /\ U.con = S.con /\ U.eof = FALSE
  BY DEF State
<1> HIDE DEF T, U
<1>3. T = StateOf(T.f, T.con, T.eof) /\ U = StateOf(U.f, U.con, U.eof)
  BY <1>1, <1>2, StateFields
<1> QED
  BY <1>1, <1>2, <1>3 DEF T, U

LEMMA StoreIs ==
    ASSUME NEW f \in FILE, NEW c \in Char
    PROVE  /\ Store(f, c) = WithBuffer(f, Append(f.buf, c.id), f.w - 1)
           /\ Store(f, c) \in FILE
           /\ Append(f.buf, c.id) \in Seq(Nat) /\ f.w - 1 \in Int
           /\ Len(Append(f.buf, c.id)) = Len(f.buf) + 1
<1>1. Store(f, c) = WithBuffer(f, Append(f.buf, c.id), f.w - 1)
  BY DEF Store, FILE, WithBuffer
<1>2. c.id \in Nat /\ f.buf \in Seq(Nat) /\ f.w \in Int
  BY FileFields DEF Char
<1>3. Append(f.buf, c.id) \in Seq(Nat) /\ f.w - 1 \in Int
      /\ Len(Append(f.buf, c.id)) = Len(f.buf) + 1
  BY <1>2
<1>4. Store(f, c) \in FILE
  <2> DEFINE b == Append(f.buf, c.id)
             v == f.w - 1
  <2>1. b \in Seq(Nat) /\ v \in Int /\ Store(f, c) = WithBuffer(f, b, v)
    BY <1>1, <1>3
  <2> HIDE DEF b, v
  <2> QED
    BY <2>1, WithBufferFields
<1> QED
  BY <1>1, <1>3, <1>4

\* A character put into a buffer with room for it.
LEMMA StoreGood ==
    ASSUME NEW f, GoodFile(f), NEW c \in Char,
           f.base, f.mode \in {"LBF", "FBF"}, Len(f.buf) + 1 <= f.size
    PROVE  LET g == Store(f, c)
           IN  /\ GoodFile(g)
               /\ g.file = f.file /\ (g.swr <=> f.swr) /\ g.mode = f.mode
               /\ g.buf = Append(f.buf, c.id)
<1>1. f \in FILE /\ c.id \in Nat /\ c.nl \in BOOLEAN
  BY DEF GoodFile, Char
<1>10. f.mode = "FBF" => f.lbfsize = 0 /\ f.w = f.size - Len(f.buf)
  BY DEF GoodFile
<1>11. f.mode = "LBF" => f.lbfsize = 0 - f.size /\ f.w = 0 - Len(f.buf)
  BY DEF GoodFile
<1> DEFINE g == Store(f, c)
           b == Append(f.buf, c.id)
           v == f.w - 1
<1>5. b \in Seq(Nat) /\ v \in Int /\ v = f.w - 1 /\ Len(b) = Len(f.buf) + 1
  BY <1>1, FileFields
<1>6. g = WithBuffer(f, b, v)
  BY <1>1 DEF Store, FILE, WithBuffer
<1> HIDE DEF g, b, v
<1>7. /\ g \in FILE
      /\ g.buf = b /\ g.w = v
      /\ g.file = f.file /\ g.mode = f.mode
      /\ g.size = f.size /\ g.lbfsize = f.lbfsize
  BY <1>1, <1>5, <1>6, WithBufferFields, Z3
<1>8. (g.swr <=> f.swr) /\ (g.base <=> f.base)
  BY <1>1, <1>5, <1>6, WithBufferFlags
<1>9. GoodFile(g)
  <2>1. g.base
    BY <1>8
  <2>2. g.swr
    BY <1>8 DEF GoodFile
  <2>3. f.w \in Int /\ f.size \in Nat /\ Len(f.buf) \in Nat /\ f.lbfsize \in Int
    BY <1>1, FileFields
  <2>4. Len(g.buf) <= g.size /\ g.size >= 1
    BY <1>5, <1>7, <2>3
  <2>5. g.mode \in {"LBF", "FBF"}
    BY <1>7
  <2>6. g.mode = "FBF" => g.lbfsize = 0 /\ g.w = g.size - Len(g.buf)
    BY <1>5, <1>7, <1>10, <2>3, SMTT(30)
  <2>7. g.mode = "LBF" => g.lbfsize = 0 - g.size /\ g.w = 0 - Len(g.buf)
    BY <1>5, <1>7, <1>11, <2>3
  <2> QED
    BY <1>7, <2>1, <2>2, <2>4, <2>5, <2>6, <2>7 DEF GoodFile
<1> QED
  BY <1>7, <1>8, <1>9 DEF g, b

\* putc goes the short way only when there is a buffer with room.
LEMMA ShortWayRoom ==
    ASSUME NEW f, GoodFile(f), NEW c \in Char, ShortWay(f, c)
    PROVE  f.base /\ f.mode \in {"LBF", "FBF"} /\ Len(f.buf) + 1 <= f.size
<1>1. f \in FILE /\ c.nl \in BOOLEAN
  BY DEF GoodFile, Char
<1>2. f.base
  BY <1>1, FileFields DEF ShortWay, GoodFile
<1>3. f.mode \in {"LBF", "FBF"}
  BY <1>1, <1>2, FileFields DEF ShortWay, GoodFile, Mode
<1>4. Len(f.buf) + 1 <= f.size
  BY <1>1, <1>2, <1>3, FileFields DEF ShortWay, GoodFile
<1> QED
  BY <1>2, <1>3, <1>4

\* __sflush_r moves the buffer to the console.
LEMMA FlushMoves ==
    ASSUME NEW f \in FILE, NEW con \in Seq(Nat), NEW e \in BOOLEAN, f.swr, f.base
    PROVE  \E failed \in BOOLEAN :
              __sflush_r(StateOf(f, con, e)) =
                 StateOf(WithBuffer(f, Empty, IF f.mode = "FBF" THEN f.size ELSE 0), con \o f.buf, failed)
<1> DEFINE failed == f.buf # << >> /\ _write(f.file, Len(f.buf)) <= 0
<1>1. failed \in BOOLEAN /\ f.file \in {1, 2}
  BY FileFields
<1>2. __sflush_r(StateOf(f, con, e)) =
         StateOf(WithBuffer(f, Empty, IF f.mode = "FBF" THEN f.size ELSE 0), con \o f.buf, failed)
  BY <1>1 DEF __sflush_r, Shown, WithBuffer, Empty, StateOf
<1> HIDE DEF failed
<1> QED
  BY <1>1, <1>2

LEMMA FlushGood ==
    ASSUME NEW f, HasBuffer(f), NEW con \in Seq(Nat), NEW e \in BOOLEAN
    PROVE  \E g \in FILE, failed \in BOOLEAN :
              /\ __sflush_r(StateOf(f, con, e)) = StateOf(g, con \o f.buf, failed)
              /\ GoodFile(g) /\ HasBuffer(g)
              /\ g.buf = Empty /\ g.file = f.file /\ g.mode = f.mode /\ g.size = f.size
<1> DEFINE v == IF f.mode = "FBF" THEN f.size ELSE 0
           g == WithBuffer(f, Empty, v)
<1>1. f \in FILE
  BY DEF HasBuffer
<1>2. f.swr /\ f.base
  BY DEF HasBuffer
<1>3. PICK failed \in BOOLEAN : __sflush_r(StateOf(f, con, e)) = StateOf(g, con \o f.buf, failed)
  BY <1>1, <1>2, FlushMoves
<1>4. v \in Int /\ (f.mode = "FBF" => v = f.size) /\ (f.mode # "FBF" => v = 0) /\ f.size \in Nat /\ f.mode \in Mode
  BY <1>1, FileFields
<1>5. Empty \in Seq(Nat) /\ Len(Empty) = 0
  BY EmptyFacts
<1> HIDE DEF v
<1>6. (g.swr <=> f.swr) /\ (g.base <=> f.base)
  BY <1>1, <1>4, <1>5, WithBufferFlags
<1>7. /\ g \in FILE
      /\ g.buf = Empty /\ g.w = v
      /\ g.file = f.file /\ g.mode = f.mode
      /\ g.size = f.size /\ g.lbfsize = f.lbfsize
  BY <1>1, <1>4, <1>5, WithBufferFields
<1> HIDE DEF g
<1>8. g.swr /\ g.base
  BY <1>2, <1>6
<1>9. HasBuffer(g)
  BY <1>7, <1>8 DEF HasBuffer
<1>10. GoodFile(g)
  <2>1. g.size >= 1 /\ Len(g.buf) <= g.size /\ Len(g.buf) = 0
    BY <1>4, <1>5, <1>7 DEF HasBuffer
  <2>2. g.mode = "NBF" => g.size = 1 /\ g.w = 0 /\ g.lbfsize = 0 /\ g.buf = Empty
    BY <1>4, <1>7 DEF HasBuffer
  <2>3. g.mode = "FBF" => g.lbfsize = 0 /\ g.w = g.size - Len(g.buf)
    BY <1>4, <1>7, <2>1 DEF HasBuffer
  <2>4. g.mode = "LBF" => g.lbfsize = 0 - g.size /\ g.w = 0 - Len(g.buf)
    BY <1>4, <1>7, <2>1 DEF HasBuffer
  <2> QED
    BY <1>7, <1>8, <2>1, <2>2, <2>3, <2>4 DEF GoodFile
<1> QED
  BY <1>3, <1>7, <1>9, <1>10

\* R is what a stream f and the console con are with c at the end.
Appended(R, f, con, c) ==
    \E g \in FILE, con2 \in Seq(Nat), e \in BOOLEAN :
        /\ R = StateOf(g, con2, e)
        /\ GoodFile(g)
        /\ g.file = f.file /\ g.swr /\ g.mode = f.mode
        /\ con2 \o g.buf = Append(con \o f.buf, c.id)
        /\ Len(con) <= Len(con2)

\* The end of __swbuf_r: a character stored where there is room, then a flush
\* if one is due.  Unless it is, the counter must have been right before.
LEMMA StoreThenFlush ==
    ASSUME NEW f, HasBuffer(f), NEW con \in Seq(Nat), NEW c \in Char,
           Len(f.buf) < f.size, GoodFile(f) \/ FlushDue(Store(f, c), c),
           NEW S, S = StateOf(Store(f, c), con, FALSE),
           NEW R, R = IF FlushDue(S.f, c) THEN __sflush_r(S) ELSE S
    PROVE  Appended(R, f, con, c)
<1> DEFINE h == Store(f, c)
           b == Append(f.buf, c.id)
           v == f.w - 1
<1>1. f \in FILE /\ c.id \in Nat
  BY DEF HasBuffer, Char
<1>2. h = WithBuffer(f, b, v) /\ b \in Seq(Nat) /\ v \in Int /\ Len(b) = Len(f.buf) + 1
  BY <1>1, StoreIs
<1>3. con \o b = Append(con \o f.buf, c.id) /\ con \o b \in Seq(Nat)
  BY <1>1, FileFields, ConcatFacts
<1>a. S.f = h /\ S = StateOf(h, con, FALSE)
  BY DEF StateOf
<1> HIDE DEF h, b, v
<1>4. (h.swr <=> f.swr) /\ (h.base <=> f.base)
  BY <1>1, <1>2, WithBufferFlags
<1>5. /\ h \in FILE
      /\ h.buf = b /\ h.w = v
      /\ h.file = f.file /\ h.mode = f.mode
      /\ h.size = f.size /\ h.lbfsize = f.lbfsize
  BY <1>1, <1>2, WithBufferFields, ZenonT(30)
<1>6. HasBuffer(h)
  <2>1. h.swr /\ h.base
    BY <1>4 DEF HasBuffer
  <2> QED
    BY <1>5, <2>1 DEF HasBuffer
<1>7. CASE FlushDue(h, c)
  <2>1. PICK g \in FILE, e \in BOOLEAN :
              /\ __sflush_r(StateOf(h, con, FALSE)) = StateOf(g, con \o h.buf, e)
              /\ GoodFile(g) /\ HasBuffer(g)
              /\ g.buf = Empty /\ g.file = h.file /\ g.mode = h.mode /\ g.size = h.size
    BY <1>6, FlushGood
  <2>2. (con \o b) \o g.buf = con \o b
    BY <1>3, <2>1, EmptyFacts
  <2>3. g.swr
    BY <2>1 DEF HasBuffer
  <2>4. R = StateOf(g, con \o b, e)
    BY <1>5, <1>7, <1>a, <2>1
  <2>5. g.file = f.file /\ g.mode = f.mode
    BY <1>5, <2>1
  <2>6. Len(con) <= Len(con \o b)
    BY <1>2
  <2> QED
    BY <1>3, <2>1, <2>2, <2>3, <2>4, <2>5, <2>6 DEF Appended
<1>8. CASE ~FlushDue(h, c)
  <2>1. GoodFile(f) /\ f.base
    BY <1>8 DEF HasBuffer, h
  <2>2. f.mode \in {"LBF", "FBF"}
    <3>1. Len(b) # f.size
      BY <1>5, <1>8 DEF FlushDue
    <3>2. f.mode = "NBF" => f.size = 1
      BY DEF HasBuffer
    <3> QED
      BY <1>1, <1>2, <3>1, <3>2, FileFields DEF Mode
  <2>3. Len(f.buf) + 1 <= f.size
    BY <1>1, FileFields
  <2>4. GoodFile(h)
    BY <2>1, <2>2, <2>3, StoreGood DEF h
  <2>5. h.swr
    BY <1>6 DEF HasBuffer
  <2>6. R = StateOf(h, con, FALSE)
    BY <1>8, <1>a
  <2>7. con \o h.buf = Append(con \o f.buf, c.id)
    BY <1>3, <1>5
  <2>8. Len(con) <= Len(con)
    OBVIOUS
  <2> QED
    BY <1>5, <2>4, <2>5, <2>6, <2>7, <2>8 DEF Appended
<1> QED
  BY <1>7, <1>8
\* __swsetup_r gives a stream without a buffer one, if only of one character.
LEMMA SetupGood ==
    ASSUME NEW f, GoodFile(f), ~f.base, NEW got \in BOOLEAN
    PROVE  LET g == __swsetup_r(f, got)
           IN  /\ GoodFile(g) /\ HasBuffer(g)
               /\ g.buf = Empty /\ g.file = f.file
               /\ f.mode = "NBF" => g.mode = "NBF"
<1> DEFINE g == __swsetup_r(f, got)
<1>1. f \in FILE /\ f.mode \in {"LBF", "NBF"} /\ f.w = 0 /\ f.lbfsize = 0 /\ f.buf = Empty
      /\ f.file \in {1, 2}
  BY FileFields DEF GoodFile, Mode
<1>2. \/ g = Ready(f, "NBF", 1, 0)
      \/ g = Ready(f, "LBF", BUFSIZ, 0 - BUFSIZ) /\ f.mode = "LBF"
  <2>1. CASE f.mode = "NBF" \/ ~got
    <3>1. __smakebuf_r(f, got) = [f EXCEPT !.base = TRUE, !.mode = "NBF", !.size = 1]
      BY <2>1 DEF __smakebuf_r
    <3>2. g = [[f EXCEPT !.base = TRUE, !.mode = "NBF", !.size = 1] EXCEPT !.swr = TRUE, !.w = 0]
      BY <1>1, <3>1 DEF __swsetup_r, FILE
    <3> QED
      BY <1>1, <3>2 DEF FILE, Ready
  <2>2. CASE f.mode = "LBF" /\ got
    <3>1. __smakebuf_r(f, got) = [f EXCEPT !.base = TRUE, !.size = BUFSIZ, !.mode = "LBF"]
      BY <1>1, <2>2 DEF __smakebuf_r, _isatty
    <3>2. g = [[f EXCEPT !.base = TRUE, !.size = BUFSIZ, !.mode = "LBF"]
                  EXCEPT !.swr = TRUE, !.w = 0, !.lbfsize = 0 - BUFSIZ]
      BY <1>1, <3>1 DEF __swsetup_r, FILE
    <3> QED
      BY <1>1, <2>2, <3>2 DEF FILE, Ready
  <2> QED
    BY <1>1, <2>1, <2>2
<1> HIDE DEF g
<1>3. BUFSIZ \in Nat /\ BUFSIZ >= 1
  BY StdioConstants
<1>4. /\ g.file = f.file /\ g.buf = Empty /\ g.w = 0
      /\ \/ g.mode = "NBF" /\ g.size = 1 /\ g.lbfsize = 0
         \/ g.mode = "LBF" /\ g.size = BUFSIZ /\ g.lbfsize = 0 - BUFSIZ /\ f.mode = "LBF"
  BY <1>1, <1>2 DEF Ready
<1>5. g.swr /\ g.base
  BY <1>2 DEF Ready
<1>6. g \in FILE
  <2>1. f.buf \in Seq(Nat)
    BY <1>1, EmptyFacts
  <2>2. CASE g = Ready(f, "NBF", 1, 0)
    BY <1>1, <2>1, <2>2 DEF Ready, FILE, Mode
  <2>3. CASE g = Ready(f, "LBF", BUFSIZ, 0 - BUFSIZ)
    BY <1>1, <1>3, <2>1, <2>3 DEF Ready, FILE, Mode
  <2> QED
    BY <1>2, <2>2, <2>3
<1>7. HasBuffer(g)
  BY <1>3, <1>4, <1>5, <1>6 DEF HasBuffer
<1>8. GoodFile(g)
  <2>1. Len(g.buf) = 0 /\ g.size >= 1 /\ g.size \in Nat
    BY <1>3, <1>4, EmptyFacts
  <2>2. g.mode = "NBF" => g.size = 1 /\ g.w = 0 /\ g.lbfsize = 0 /\ g.buf = Empty
    BY <1>4
  <2>3. g.mode # "FBF"
    BY <1>4
  <2>4. g.mode = "LBF" => g.lbfsize = 0 - g.size /\ g.w = 0 - Len(g.buf)
    BY <1>4, <2>1
  <2> QED
    BY <1>5, <1>6, <2>1, <2>2, <2>3, <2>4 DEF GoodFile
<1> QED
  BY <1>4, <1>7, <1>8 DEF g

\* R is what a stream f and the console con are with c at the end, or without it
\* and with EOF.
SwbufDone(R, f, con, c) ==
    \E h \in FILE, con2 \in Seq(Nat), e2 \in BOOLEAN :
        /\ R = StateOf(h, con2, e2)
        /\ GoodFile(h)
        /\ h.file = f.file /\ h.swr /\ (f.mode = "NBF" => h.mode = "NBF")
        /\ \/ con2 \o h.buf = Append(con \o f.buf, c.id)
           \/ con2 \o h.buf = con \o f.buf /\ e2
        /\ Len(con) <= Len(con2)

\* __swbuf_r, called for a character that cannot go the short way: it is stored
\* in order, or the flush before it has failed and EOF is returned.
LEMMA SwbufGood ==
    ASSUME NEW f, GoodFile(f), NEW con \in Seq(Nat), NEW e \in BOOLEAN,
           NEW c \in Char, ~ShortWay(f, c), NEW got \in BOOLEAN
    PROVE  SwbufDone(__swbuf_r(StateOf(f, con, e), c, got), f, con, c)
<1> DEFINE S == StateOf(f, con, e)
           f1 == [S.f EXCEPT !.w = S.f.lbfsize]
           g == IF f1.swr /\ f1.base THEN f1 ELSE __swsetup_r(f1, got)
           S1 == [S EXCEPT !.f = g, !.eof = FALSE]
           S2 == IF Len(g.buf) >= g.size THEN __sflush_r(S1) ELSE S1
           S3 == [S2 EXCEPT !.f = Store(S2.f, c)]
           R == IF S2.eof THEN S2 ELSE IF FlushDue(S3.f, c) THEN __sflush_r(S3) ELSE S3
<1>1. f \in FILE /\ c.id \in Nat /\ c.nl \in BOOLEAN
  BY DEF GoodFile, Char
<1>2. __swbuf_r(S, c, got) = R
  BY DEF __swbuf_r
<1> SUFFICES SwbufDone(R, f, con, c)
  BY <1>2
<1>3. S \in State /\ S.f = f /\ S.con = con
  BY <1>1, StateOfFields
<1>4. f1 = WithBuffer(f, f.buf, f.lbfsize)
  BY <1>1, <1>3 DEF FILE, WithBuffer
<1>5. f.buf \in Seq(Nat) /\ f.lbfsize \in Int /\ Len(f.buf) \in Nat /\ f.size \in Nat /\ f.mode \in Mode
  BY <1>1, FileFields
<1> HIDE DEF S, f1
<1>6. /\ f1 \in FILE
      /\ f1.buf = f.buf /\ f1.w = f.lbfsize
      /\ f1.file = f.file /\ f1.mode = f.mode
      /\ f1.size = f.size /\ f1.lbfsize = f.lbfsize
  BY <1>1, <1>4, <1>5, WithBufferFields, ZenonT(30)
<1>7. (f1.swr <=> f.swr) /\ (f1.base <=> f.base)
  BY <1>1, <1>4, <1>5, WithBufferFlags
<1>8. /\ HasBuffer(g) /\ g.buf = f.buf /\ g.file = f.file
      /\ (f.mode = "NBF" => g.mode = "NBF")
      /\ Len(g.buf) >= g.size \/ GoodFile(g) \/ FlushDue(Store(g, c), c)
  <2>1. CASE f.base
    <3>1. f.swr /\ f.size >= 1
      BY <2>1 DEF GoodFile
    <3>2. g = f1 /\ f1.swr /\ f1.base
      BY <1>7, <2>1, <3>1
    <3>3. /\ f.mode = "NBF" => f.size = 1 /\ f.lbfsize = 0 /\ f.w = 0 /\ f.buf = Empty
          /\ f.mode = "FBF" => f.lbfsize = 0 /\ f.w = f.size - Len(f.buf)
          /\ f.mode = "LBF" => f.lbfsize = 0 - f.size /\ f.w = 0 - Len(f.buf)
      BY <2>1 DEF GoodFile
    <3>4. HasBuffer(f1)
      BY <1>6, <3>1, <3>2, <3>3 DEF HasBuffer
    <3>5. Len(f.buf) >= f.size \/ f.mode = "NBF" \/ (f.mode = "LBF" /\ c.nl)
      BY <1>1, <1>5, <3>1, <3>3 DEF ShortWay, Mode
    <3>6. ASSUME f.mode = "NBF" \/ (f.mode = "LBF" /\ c.nl)
          PROVE  FlushDue(Store(f1, c), c)
      <4> DEFINE h == Store(f1, c)
                 b == Append(f1.buf, c.id)
                 v == f1.w - 1
      <4>1. h = WithBuffer(f1, b, v) /\ b \in Seq(Nat) /\ v \in Int /\ Len(b) = Len(f1.buf) + 1
        BY <1>6, StoreIs
      <4> HIDE DEF h, b, v
      <4>2. h.buf = b /\ h.size = f1.size /\ h.mode = f1.mode
        BY <1>6, <4>1, WithBufferFields
      <4>3. CASE f.mode = "NBF"
        <5>1. Len(b) = 1 /\ h.size = 1
          BY <1>6, <3>3, <4>1, <4>2, <4>3, EmptyFacts
        <5> QED
          BY <4>2, <5>1 DEF FlushDue, h
      <4>4. CASE f.mode = "LBF" /\ c.nl
        BY <1>6, <4>2, <4>4 DEF FlushDue, h
      <4> QED
        BY <3>6, <4>3, <4>4
    <3> HIDE DEF g
    <3>7. Len(g.buf) >= g.size \/ FlushDue(Store(g, c), c)
      BY <1>6, <3>2, <3>5, <3>6
    <3> QED
      BY <1>6, <3>2, <3>4, <3>7
  <2>2. CASE ~f.base
    <3>1. f.size = 0 /\ f.w = 0 /\ f.lbfsize = 0 /\ f.buf = Empty /\ f.mode # "FBF"
      BY <2>2 DEF GoodFile
    <3>2. ~f1.base
      BY <1>7, <2>2
    <3>3. GoodFile(f1)
      BY <1>6, <3>1, <3>2 DEF GoodFile
    <3>4. g = __swsetup_r(f1, got)
      BY <3>2
    <3> HIDE DEF g
    <3>5. /\ GoodFile(g) /\ HasBuffer(g)
          /\ g.buf = Empty /\ g.file = f1.file
          /\ f1.mode = "NBF" => g.mode = "NBF"
      BY <3>2, <3>3, <3>4, SetupGood
    <3> QED
      BY <1>6, <3>1, <3>5
  <2> QED
    BY <2>1, <2>2
<1> HIDE DEF g
<1>9. g \in FILE /\ g.size \in Nat /\ Len(g.buf) \in Nat /\ g.buf \in Seq(Nat)
  BY <1>8, FileFields DEF HasBuffer
<1>10. S1 = StateOf(g, con, FALSE)
  BY <1>3, <1>9, StateWith
<1>11. CASE Len(g.buf) >= g.size
  <2>1. PICK h \in FILE, failed \in BOOLEAN :
              /\ __sflush_r(StateOf(g, con, FALSE)) = StateOf(h, con \o g.buf, failed)
              /\ GoodFile(h) /\ HasBuffer(h)
              /\ h.buf = Empty /\ h.file = g.file /\ h.mode = g.mode /\ h.size = g.size
    BY <1>8, FlushGood
  <2> DEFINE con1 == con \o g.buf
  <2>2. con1 \in Seq(Nat) /\ con1 \o h.buf = con \o f.buf /\ Len(con) <= Len(con1)
    <3>1. con1 \in Seq(Nat) /\ con1 = con \o f.buf /\ Len(con) <= Len(con1)
      BY <1>8, <1>9
    <3> HIDE DEF con1
    <3> QED
      BY <2>1, <3>1, EmptyFacts
  <2>3. S2 = StateOf(h, con1, failed)
    BY <1>10, <1>11, <2>1
  <2> HIDE DEF S1, S2, con1
  <2>4. CASE failed
    <3>1. R = StateOf(h, con1, failed)
      <4>1. S2.eof
        BY <2>2, <2>3, <2>4, StateOfFields
      <4> QED
        BY <2>3, <4>1
    <3>2. h.swr /\ h.file = f.file /\ (f.mode = "NBF" => h.mode = "NBF")
      BY <1>8, <2>1 DEF HasBuffer
    <3> QED
      BY <2>1, <2>2, <2>4, <3>1, <3>2 DEF SwbufDone
  <2>5. CASE ~failed
    <3>1. ~S2.eof /\ S2 \in State /\ S2.f = h /\ S2.con = con1
      BY <2>2, <2>3, <2>5, StateOfFields
    <3>2. Store(h, c) \in FILE
      BY StoreIs
    <3>3. S3 = StateOf(Store(h, c), con1, FALSE)
      <4>1. [S2 EXCEPT !.f = Store(h, c)] = StateOf(Store(h, c), con1, S2.eof)
        BY <3>1, <3>2, StateWith
      <4>2. S2.eof = FALSE
        BY <3>1, StateFields
      <4> QED
        BY <3>1, <4>1, <4>2
    <3>4. Len(h.buf) < h.size
      BY <2>1, EmptyFacts, FileFields DEF HasBuffer
    <3> HIDE DEF S3
    <3>5. R = IF FlushDue(S3.f, c) THEN __sflush_r(S3) ELSE S3
      BY <3>1
    <3> HIDE DEF R
    <3>6. PICK h2 \in FILE, con2 \in Seq(Nat), e2 \in BOOLEAN :
                  /\ R = StateOf(h2, con2, e2)
                  /\ GoodFile(h2)
                  /\ h2.file = h.file /\ h2.swr /\ h2.mode = h.mode
                  /\ con2 \o h2.buf = Append(con1 \o h.buf, c.id)
                  /\ Len(con1) <= Len(con2)
      <4>1. HasBuffer(h) /\ (GoodFile(h) \/ FlushDue(Store(h, c), c))
        BY <2>1
      <4>2. con1 \in Seq(Nat)
        BY <2>2
      <4>3. Appended(R, h, con1, c)
        BY <3>3, <3>4, <3>5, <4>1, <4>2, StoreThenFlush
      <4> QED
        BY <4>3 DEF Appended
    <3>7. con2 \o h2.buf = Append(con \o f.buf, c.id)
      BY <2>2, <3>6
    <3>8. h2.swr /\ h2.file = f.file /\ (f.mode = "NBF" => h2.mode = "NBF")
      BY <1>8, <2>1, <3>6
    <3> QED
      <4>1. Len(con) <= Len(con2)
        BY <2>2, <3>6
      <4> QED
        BY <3>6, <3>7, <3>8, <4>1 DEF SwbufDone
  <2> QED
    BY <2>4, <2>5
<1>12. CASE Len(g.buf) < g.size
  <2>1. S2 = StateOf(g, con, FALSE)
    <3>1. ~(Len(g.buf) >= g.size)
      BY <1>9, <1>12
    <3> QED
      BY <1>10, <3>1
  <2> HIDE DEF S1, S2
  <2>2. ~S2.eof /\ S2 \in State /\ S2.f = g /\ S2.con = con
    BY <1>9, <2>1, StateOfFields
  <2>3. Store(g, c) \in FILE
    BY <1>9, StoreIs
  <2>4. S3 = StateOf(Store(g, c), con, FALSE)
    <3>1. [S2 EXCEPT !.f = Store(g, c)] = StateOf(Store(g, c), con, S2.eof)
      BY <2>2, <2>3, StateWith
    <3>2. S2.eof = FALSE
      BY <2>2, StateFields
    <3> QED
      BY <2>2, <3>1, <3>2
  <2> HIDE DEF S3
  <2>5. R = IF FlushDue(S3.f, c) THEN __sflush_r(S3) ELSE S3
    BY <2>2
  <2>6. GoodFile(g) \/ FlushDue(Store(g, c), c)
    BY <1>8, <1>9, <1>12
  <2> HIDE DEF R
  <2>7. PICK h2 \in FILE, con2 \in Seq(Nat), e2 \in BOOLEAN :
                /\ R = StateOf(h2, con2, e2)
                /\ GoodFile(h2)
                /\ h2.file = g.file /\ h2.swr /\ h2.mode = g.mode
                /\ con2 \o h2.buf = Append(con \o g.buf, c.id)
                /\ Len(con) <= Len(con2)
    <3>1. HasBuffer(g)
      BY <1>8
    <3>2. Appended(R, g, con, c)
      BY <3>1, <1>12, <2>4, <2>5, <2>6, StoreThenFlush
    <3> QED
      BY <3>2 DEF Appended
  <2>8. con2 \o h2.buf = Append(con \o f.buf, c.id)
    BY <1>8, <2>7
  <2>9. h2.swr /\ h2.file = f.file /\ (f.mode = "NBF" => h2.mode = "NBF")
    BY <1>8, <2>7
  <2> QED
    BY <2>7, <2>8, <2>9 DEF SwbufDone
<1>13. Len(g.buf) >= g.size \/ Len(g.buf) < g.size
  BY <1>9
<1> QED
  BY <1>11, <1>12, <1>13, Zenon
\* putc: the character is stored in order, or EOF is returned without it.
PutcDone(S, c, T) ==
    /\ T \in State /\ GoodFile(T.f)
    /\ T.f.file = S.f.file /\ (S.f.swr => T.f.swr) /\ (S.f.mode = "NBF" => T.f.mode = "NBF")
    /\ \/ All(T) = Append(All(S), c.id)
       \/ All(T) = All(S) /\ T.eof
    /\ Len(S.con) <= Len(T.con)

LEMMA PutcGood ==
    ASSUME NEW S \in State, GoodFile(S.f), NEW c \in Char, NEW got \in BOOLEAN
    PROVE  PutcDone(S, c, __sputc_r(S, c, got))
<1>1. PICK f, con, e : f = S.f /\ con = S.con /\ e = S.eof
  OBVIOUS
<1>2. f \in FILE /\ con \in Seq(Nat) /\ e \in BOOLEAN /\ S = StateOf(f, con, e)
  BY <1>1, StateFields
<1>3. GoodFile(f)
  BY <1>1
<1>4. All(S) = con \o f.buf
  BY <1>1 DEF All
<1>5. c.id \in Nat
  BY DEF Char
<1>6. CASE ShortWay(f, c)
  <2> DEFINE g == Store(f, c)
             T == [S EXCEPT !.f = g, !.eof = FALSE]
  <2>1. __sputc_r(S, c, got) = T
    BY <1>1, <1>6 DEF __sputc_r
  <2>2. f.base /\ f.mode \in {"LBF", "FBF"} /\ Len(f.buf) + 1 <= f.size
    BY <1>3, <1>6, ShortWayRoom
  <2>3. /\ GoodFile(g)
        /\ g.file = f.file /\ (g.swr <=> f.swr) /\ g.mode = f.mode
        /\ g.buf = Append(f.buf, c.id)
    BY <1>3, <2>2, StoreGood
  <2>4. g \in FILE
    BY <2>3 DEF GoodFile
  <2> HIDE DEF g
  <2>5. T = StateOf(g, con, FALSE)
    BY <1>1, <2>4, StateWith
  <2> HIDE DEF T
  <2>6. T \in State /\ T.f = g /\ All(T) = con \o g.buf /\ T.con = con
    BY <1>2, <2>4, <2>5, StateOfFields
  <2>7. All(T) = Append(All(S), c.id)
    BY <1>2, <1>4, <1>5, <2>3, <2>6, FileFields, ConcatFacts, SMTT(30)
  <2>8. Len(S.con) <= Len(T.con)
    <3>1. T.con = con
      BY <2>6
    <3>2. S.con = con
      BY <1>1
    <3>3. con \in Seq(Nat)
      BY <1>2
    <3>4. Len(con) <= Len(con)
      BY <3>3
    <3> QED
      BY <3>1, <3>2, <3>4
  <2> QED
    BY <1>1, <2>1, <2>3, <2>6, <2>7, <2>8 DEF PutcDone
<1>7. CASE ~ShortWay(f, c)
  <2>1. __sputc_r(S, c, got) = __swbuf_r(S, c, got)
    BY <1>1, <1>7 DEF __sputc_r
  <2>2. PICK h \in FILE, con2 \in Seq(Nat), e2 \in BOOLEAN :
              /\ __swbuf_r(StateOf(f, con, e), c, got) = StateOf(h, con2, e2)
              /\ GoodFile(h)
              /\ h.file = f.file /\ h.swr /\ (f.mode = "NBF" => h.mode = "NBF")
              /\ \/ con2 \o h.buf = Append(con \o f.buf, c.id)
                 \/ con2 \o h.buf = con \o f.buf /\ e2
              /\ Len(con) <= Len(con2)
    <3>1. SwbufDone(__swbuf_r(StateOf(f, con, e), c, got), f, con, c)
      BY <1>2, <1>3, <1>7, SwbufGood
    <3> QED
      BY <3>1 DEF SwbufDone
  <2> DEFINE T == StateOf(h, con2, e2)
  <2>3. T \in State /\ T.f = h /\ (T.eof <=> e2) /\ All(T) = con2 \o h.buf /\ T.con = con2
    BY StateOfFields
  <2>4. __sputc_r(S, c, got) = T
    BY <1>2, <2>1, <2>2
  <2> HIDE DEF T
  <2>5. \/ All(T) = Append(All(S), c.id)
        \/ All(T) = All(S) /\ T.eof
    BY <1>4, <2>2, <2>3
  <2> QED
    <3>1. h.file = S.f.file /\ h.swr /\ (S.f.mode = "NBF" => h.mode = "NBF")
      BY <1>1, <2>2
    <3>2. T \in State /\ GoodFile(T.f) /\ T.f = h
      BY <2>2, <2>3
    <3>3. Len(S.con) <= Len(T.con)
      BY <1>1, <2>2, <2>3
    <3>4. PutcDone(S, c, T)
      BY <3>1, <3>2, <3>3, <2>5 DEF PutcDone
    <3> QED
      BY <2>4, <3>4
<1> QED
  BY <1>6, <1>7

\* B is A with the characters n0 + 1 .. n0 + m behind it.
Extends(A, B, n0, m) ==
    /\ B \in Seq(Nat) /\ Len(B) = Len(A) + m
    /\ \A k \in 1 .. Len(A) : B[k] = A[k]
    /\ \A k \in 1 .. m : B[Len(A) + k] = n0 + k

\* What __sfputs_r makes of a text whose characters are numbered from n0 on: as
\* many of them as it could put are behind the rest, all unless it returned EOF.
SfputsDone(S, n0, n, T) ==
    /\ T \in State /\ GoodFile(T.f)
    /\ T.f.file = S.f.file /\ (S.f.swr => T.f.swr) /\ (S.f.mode = "NBF" => T.f.mode = "NBF")
    /\ \E m \in 0 .. n : Extends(All(S), All(T), n0, m) /\ (~T.eof => m = n)
    /\ Len(S.con) <= Len(T.con)

LEMMA AllType ==
    ASSUME NEW S \in State
    PROVE  All(S) \in Seq(Nat)
<1>1. PICK f, con : f = S.f /\ con = S.con
  OBVIOUS
<1>2. f \in FILE /\ con \in Seq(Nat)
  BY <1>1, StateFields
<1>3. f.buf \in Seq(Nat)
  BY <1>2, FileFields
<1>4. con \o f.buf \in Seq(Nat)
  BY <1>2, <1>3
<1> QED
  BY <1>1, <1>4 DEF All

LEMMA ExtendsByOne ==
    ASSUME NEW A \in Seq(Nat), NEW B, NEW n0 \in Nat, NEW m \in Nat, Extends(A, B, n0, m)
    PROVE  Extends(A, Append(B, n0 + m + 1), n0, m + 1)
<1>1. B \in Seq(Nat) /\ Len(B) = Len(A) + m /\ Len(A) \in Nat
  BY DEF Extends
<1> DEFINE C == Append(B, n0 + m + 1)
<1>2. C \in Seq(Nat) /\ Len(C) = Len(A) + (m + 1) /\ C[Len(A) + (m + 1)] = n0 + (m + 1)
  BY <1>1
<1>3. \A k \in 1 .. Len(B) : C[k] = B[k]
  BY <1>1
<1> HIDE DEF C
<1>4. ASSUME NEW k \in 1 .. Len(A) PROVE C[k] = A[k]
  BY <1>1, <1>3 DEF Extends
<1>5. ASSUME NEW k \in 1 .. m + 1 PROVE C[Len(A) + k] = n0 + k
  <2>1. CASE k = m + 1
    BY <1>2, <2>1
  <2>2. CASE k \in 1 .. m
    <3>1. Len(A) + k \in 1 .. Len(B)
      BY <1>1, <2>2
    <3>2. B[Len(A) + k] = n0 + k
      BY <2>2 DEF Extends
    <3> QED
      BY <1>3, <3>1, <3>2
  <2> QED
    BY <2>1, <2>2
<1> QED
  BY <1>2, <1>4, <1>5 DEF Extends, C
\* The loop of __sfputs_r has the value its recursive definition describes.
LEMMA SfputsLoop ==
    ASSUME NEW S \in State, GoodFile(S.f), NEW text \in Seq(Char), NEW got \in BOOLEAN
    PROVE  \E after :
              /\ after[0] = S
              /\ \A i \in 1 .. Len(text) :
                    after[i] = IF after[i - 1].eof THEN after[i - 1]
                               ELSE __sputc_r(after[i - 1], text[i], got)
              /\ __sfputs_r(S, text, got) = after[Len(text)]
<1> DEFINE n == Len(text)
           D == {T \in State : GoodFile(T.f)}
           Putc(T, i) == IF T.eof THEN T ELSE __sputc_r(T, text[i], got)
           step == [i \in 1 .. n |-> [T \in D |-> Putc(T, i)]]
           Solves(g) == g = [i \in 0 .. n |-> IF i = 0 THEN S
                                               ELSE IF g[i - 1].eof THEN g[i - 1]
                                               ELSE __sputc_r(g[i - 1], text[i], got)]
           after == CHOOSE g : Solves(g)
<1>1. n \in Nat /\ S \in D
  OBVIOUS
<1>2. ASSUME NEW i \in 1 .. n, NEW T \in D PROVE Putc(T, i) \in D
  <2>1. T \in State /\ GoodFile(T.f) /\ text[i] \in Char
    OBVIOUS
  <2>2. PutcDone(T, text[i], __sputc_r(T, text[i], got))
    BY <2>1, PutcGood
  <2> QED
    BY <2>1, <2>2 DEF PutcDone
<1>3. \E g : Solves(g)
  <2>1. step \in [1 .. n -> [D -> D]]
    <3> HIDE DEF D, Putc, n
    <3> QED
      BY <1>2
  <2>2. ASSUME NEW i \in 1 .. n, NEW T \in D PROVE step[i][T] = Putc(T, i)
    OBVIOUS
  <2> HIDE DEF step, D, Putc, n
  <2>a. PICK g : Follows(g, n, D, S, step)
    BY <1>1, <2>1, StepsExist
  <2>3. g \in [0 .. n -> D] /\ g[0] = S /\ \A i \in 1 .. n : g[i] = step[i][g[i - 1]]
    BY <2>a DEF Follows
  <2>4. ASSUME NEW i \in 1 .. n PROVE g[i] = Putc(g[i - 1], i)
    <3>1. i - 1 \in 0 .. n /\ g[i - 1] \in D
      BY <1>1, <2>3
    <3> QED
      BY <2>2, <2>3, <3>1
  <2> DEFINE h == [i \in 0 .. n |-> IF i = 0 THEN S ELSE Putc(g[i - 1], i)]
  <2>5. ASSUME NEW i \in 0 .. n PROVE g[i] = h[i]
    <3>1. CASE i = 0
      BY <2>3, <3>1
    <3>2. CASE i # 0
      <4>1. i \in 1 .. n
        BY <1>1, <3>2
      <4> QED
        BY <2>4, <3>2, <4>1
    <3> QED
      BY <3>1, <3>2
  <2>6. g = h
    BY <2>3, <2>5
  <2>7. Solves(g)
    BY <2>6 DEF Putc
  <2> QED
    BY <2>7
<1>4. Solves(after)
  <2> HIDE DEF Solves
  <2> QED
    BY <1>3
<1>5. __sfputs_r(S, text, got) = after[n]
  BY DEF __sfputs_r
<1> HIDE DEF after
<1>6. after[0] = S
  BY <1>1, <1>4
<1>7. ASSUME NEW i \in 1 .. n
      PROVE  after[i] = IF after[i - 1].eof THEN after[i - 1] ELSE __sputc_r(after[i - 1], text[i], got)
  <2>1. i \in 0 .. n /\ i # 0
    BY <1>1
  <2> QED
    BY <1>4, <2>1
<1> QED
  BY <1>5, <1>6, <1>7

\* __sfputs_r, by induction over the text.
LEMMA SfputsGood ==
    ASSUME NEW S \in State, GoodFile(S.f), ~S.eof, NEW text \in Seq(Char), NEW got \in BOOLEAN,
           NEW n0 \in Nat, \A i \in 1 .. Len(text) : text[i].id = n0 + i
    PROVE  SfputsDone(S, n0, Len(text), __sfputs_r(S, text, got))
<1> DEFINE n == Len(text)
<1>1. PICK after :
              /\ after[0] = S
              /\ \A i \in 1 .. Len(text) :
                    after[i] = IF after[i - 1].eof THEN after[i - 1]
                               ELSE __sputc_r(after[i - 1], text[i], got)
              /\ __sfputs_r(S, text, got) = after[Len(text)]
  BY SfputsLoop
<1>2. n \in Nat /\ All(S) \in Seq(Nat)
  BY AllType
<1> DEFINE I == {i \in 0 .. n : SfputsDone(S, n0, i, after[i])}
<1>3. 0 \in I
  <2>1. Extends(All(S), All(S), n0, 0)
    BY <1>2 DEF Extends
  <2> QED
    <3>1. Len(S.con) <= Len(S.con)
      BY StateFields
    <3> QED
      BY <1>1, <1>2, <2>1, <3>1 DEF SfputsDone
<1>4. ASSUME NEW i \in 1 .. n, i - 1 \in I PROVE i \in I
  <2> DEFINE T == after[i - 1]
             c == text[i]
  <2>1. SfputsDone(S, n0, i - 1, T) /\ i \in 0 .. n /\ i - 1 \in Nat
    BY <1>2, <1>4
  <2>2. after[i] = IF T.eof THEN T ELSE __sputc_r(T, c, got)
    BY <1>1
  <2>3. c \in Char /\ c.id = n0 + i
    OBVIOUS
  <2> HIDE DEF T, c
  <2>4. CASE T.eof
    <3>1. SfputsDone(S, n0, i, T)
      BY <2>1, <2>4 DEF SfputsDone
    <3> QED
      BY <2>1, <2>2, <2>4, <3>1
  <2>5. CASE ~T.eof
    <3> DEFINE U == __sputc_r(T, c, got)
    <3>1. T \in State /\ GoodFile(T.f)
      BY <2>1 DEF SfputsDone
    <3>2. PutcDone(T, c, U)
      BY <2>3, <3>1, PutcGood
    <3> HIDE DEF U
    <3>3. Extends(All(S), All(T), n0, i - 1)
      BY <2>1, <2>5 DEF SfputsDone
    <3>4. /\ U \in State /\ GoodFile(U.f)
          /\ U.f.file = S.f.file /\ (S.f.swr => U.f.swr) /\ (S.f.mode = "NBF" => U.f.mode = "NBF")
      BY <2>1, <3>2 DEF SfputsDone, PutcDone
    <3>5. \E m \in 0 .. i : Extends(All(S), All(U), n0, m) /\ (~U.eof => m = i)
      <4>1. CASE All(U) = Append(All(T), c.id)
        <5>1. Extends(All(S), Append(All(T), n0 + (i - 1) + 1), n0, (i - 1) + 1)
          BY <1>2, <2>1, <3>3, ExtendsByOne
        <5>2. n0 + (i - 1) + 1 = c.id /\ (i - 1) + 1 = i
          BY <2>3
        <5>3. Extends(All(S), All(U), n0, i)
          BY <4>1, <5>1, <5>2
        <5> QED
          BY <5>3
      <4>2. CASE All(U) = All(T) /\ U.eof
        BY <3>3, <4>2
      <4> QED
        BY <3>2, <4>1, <4>2 DEF PutcDone
    <3>7. Len(S.con) <= Len(U.con)
      <4>1. Len(S.con) \in Nat /\ Len(T.con) \in Nat /\ Len(U.con) \in Nat
        BY <3>1, <3>4, StateFields
      <4>2. Len(S.con) <= Len(T.con) /\ Len(T.con) <= Len(U.con)
        BY <2>1, <3>2 DEF SfputsDone, PutcDone
      <4> QED
        BY <4>1, <4>2
    <3>6. SfputsDone(S, n0, i, U)
      BY <3>4, <3>5, <3>7 DEF SfputsDone
    <3> QED
      BY <2>1, <2>2, <2>5, <3>6 DEF U
  <2> QED
    BY <2>4, <2>5
<1>5. n \in I
  <2> HIDE DEF I, n
  <2>1. 0 .. n \subseteq I
    BY <1>2, <1>3, <1>4, UpTo
  <2> QED
    BY <1>2, <2>1
<1> QED
  BY <1>1, <1>5
-----------------------------------------------------------------------------
(* The inductive invariant.                                                *)

From == {"out", "err", "direct"}
Printed == [from : From, nl : BOOLEAN]

\* con is shown and b is stdout's buffer when pr has been printed: every number is
\* that of a character printed, what is buffered is stdout's, the characters
\* of one printer are in order, and none is missing that was not reported.
OutputOK(con, b, pr, rep) ==
    LET A == con \o b
    IN  /\ \A k \in 1 .. Len(A) : A[k] \in 1 .. Len(pr)
        /\ \A k \in 1 .. Len(A) : Len(con) < k => pr[A[k]].from = "out"
        /\ \A i, j \in 1 .. Len(A) : i < j /\ pr[A[i]].from = pr[A[j]].from => A[i] < A[j]
        /\ \A id \in 1 .. Len(pr) : id \in rep \/ \E k \in 1 .. Len(A) : A[k] = id

\* pr2 is pr and n characters printed by `from'.
MorePrinted(pr, pr2, n, from) ==
    /\ Len(pr2) = Len(pr) + n
    /\ \A i \in 1 .. Len(pr) : pr2[i] = pr[i]
    /\ \A i \in 1 .. n : pr2[Len(pr) + i].from = from

\* Which of n characters after n0 are reported when m of them have been put.
MoreReported(rep, rep2, n0, n, m) ==
    /\ rep \subseteq rep2
    /\ m # n => n0 + 1 .. n0 + n \subseteq rep2

\* A flush.
LEMMA OutputMoved ==
    ASSUME NEW con \in Seq(Nat), NEW b \in Seq(Nat), NEW con2 \in Seq(Nat), NEW b2 \in Seq(Nat),
           con2 \o b2 = con \o b, Len(con) <= Len(con2),
           NEW pr, NEW rep, OutputOK(con, b, pr, rep)
    PROVE  OutputOK(con2, b2, pr, rep)
<1> DEFINE A == con \o b
<1>1. con2 \o b2 = A /\ Len(con) \in Nat /\ Len(con2) \in Nat /\ Len(A) \in Nat
  OBVIOUS
<1>2. /\ \A k \in 1 .. Len(A) : A[k] \in 1 .. Len(pr)
      /\ \A k \in 1 .. Len(A) : Len(con) < k => pr[A[k]].from = "out"
      /\ \A i, j \in 1 .. Len(A) : i < j /\ pr[A[i]].from = pr[A[j]].from => A[i] < A[j]
      /\ \A id \in 1 .. Len(pr) : id \in rep \/ \E k \in 1 .. Len(A) : A[k] = id
  BY DEF OutputOK
<1> HIDE DEF A
<1>3. \A k \in 1 .. Len(A) : Len(con2) < k => pr[A[k]].from = "out"
  BY <1>1, <1>2
<1> QED
  BY <1>1, <1>2, <1>3 DEF OutputOK

\* A call that prints on stdout.
LEMMA OutputAppended ==
    ASSUME NEW con \in Seq(Nat), NEW b \in Seq(Nat), NEW con2 \in Seq(Nat), NEW b2 \in Seq(Nat),
           NEW pr, NEW pr2, NEW rep, NEW rep2, Len(pr) \in Nat,
           NEW n \in Nat, NEW m \in 0 .. n,
           OutputOK(con, b, pr, rep),
           Extends(con \o b, con2 \o b2, Len(pr), m), Len(con) <= Len(con2),
           MorePrinted(pr, pr2, n, "out"), MoreReported(rep, rep2, Len(pr), n, m)
    PROVE  OutputOK(con2, b2, pr2, rep2)
<1> DEFINE A == con \o b
           B == con2 \o b2
           n0 == Len(pr)
           N == Len(A)
<1>1. A \in Seq(Nat) /\ B \in Seq(Nat) /\ Len(con) \in Nat /\ Len(con2) \in Nat /\ N \in Nat
  OBVIOUS
<1>2. /\ \A k \in 1 .. N : A[k] \in 1 .. n0
      /\ \A k \in 1 .. N : Len(con) < k => pr[A[k]].from = "out"
      /\ \A i, j \in 1 .. N : i < j /\ pr[A[i]].from = pr[A[j]].from => A[i] < A[j]
      /\ \A id \in 1 .. n0 : id \in rep \/ \E k \in 1 .. N : A[k] = id
  BY DEF OutputOK
<1>3. Len(B) = N + m /\ (\A k \in 1 .. N : B[k] = A[k]) /\ (\A k \in 1 .. m : B[N + k] = n0 + k)
  BY DEF Extends
<1>4. n0 \in Nat
  OBVIOUS
<1> HIDE DEF A, B, n0, N
<1>5. Len(pr2) = n0 + n /\ (\A i \in 1 .. n0 : pr2[i] = pr[i]) /\ \A i \in 1 .. n : pr2[n0 + i].from = "out"
  BY DEF MorePrinted, n0
<1>6. \A k \in 1 .. Len(B) : (k \in 1 .. N /\ B[k] = A[k]) \/ (k - N \in 1 .. m /\ B[k] = n0 + (k - N))
  <2> SUFFICES ASSUME NEW k \in 1 .. Len(B), k \notin 1 .. N
               PROVE  k - N \in 1 .. m /\ B[k] = n0 + (k - N)
    BY <1>3
  <2>1. k - N \in 1 .. m /\ k = N + (k - N)
    BY <1>1, <1>3
  <2> QED
    BY <1>3, <2>1
<1>7. ASSUME NEW k \in 1 .. Len(B) PROVE B[k] \in 1 .. Len(pr2)
  <2>1. CASE k \in 1 .. N /\ B[k] = A[k]
    BY <1>2, <1>4, <1>5, <2>1
  <2>2. CASE k - N \in 1 .. m /\ B[k] = n0 + (k - N)
    BY <1>4, <1>5, <2>2
  <2> QED
    BY <1>6, <2>1, <2>2
<1>8. ASSUME NEW k \in 1 .. Len(B), Len(con2) < k PROVE pr2[B[k]].from = "out"
  <2>1. Len(con) < k
    BY <1>1, <1>8
  <2>2. CASE k \in 1 .. N /\ B[k] = A[k]
    BY <1>2, <1>5, <2>1, <2>2
  <2>3. CASE k - N \in 1 .. m /\ B[k] = n0 + (k - N)
    <3>1. k - N \in 1 .. n
      BY <1>1, <2>3
    <3> QED
      BY <1>5, <2>3, <3>1
  <2> QED
    BY <1>6, <2>2, <2>3
<1>9. ASSUME NEW i \in 1 .. Len(B), NEW j \in 1 .. Len(B), i < j, pr2[B[i]].from = pr2[B[j]].from
      PROVE  B[i] < B[j]
  <2>1. CASE j \in 1 .. N /\ B[j] = A[j]
    <3>1. i \in 1 .. N /\ B[i] = A[i]
      <4>1. i \in 1 .. N
        BY <1>1, <1>9, <2>1
      <4> QED
        BY <1>3, <4>1
    <3>2. A[i] \in 1 .. n0 /\ A[j] \in 1 .. n0
      BY <1>2, <2>1, <3>1
    <3>3. pr2[B[i]] = pr[A[i]] /\ pr2[B[j]] = pr[A[j]]
      BY <1>5, <2>1, <3>1, <3>2, SMTT(30)
    <3>4. A[i] < A[j]
      BY <1>2, <1>9, <2>1, <3>1, <3>3
    <3> QED
      BY <2>1, <3>1, <3>4
  <2>2. CASE j - N \in 1 .. m /\ B[j] = n0 + (j - N)
    <3>1. CASE i \in 1 .. N /\ B[i] = A[i]
      BY <1>1, <1>2, <1>4, <2>2, <3>1, SMTT(30)
    <3>2. CASE i - N \in 1 .. m /\ B[i] = n0 + (i - N)
      BY <1>1, <1>4, <1>9, <2>2, <3>2
    <3> QED
      BY <1>6, <3>1, <3>2
  <2> QED
    BY <1>6, <2>1, <2>2
<1>10. ASSUME NEW id \in 1 .. Len(pr2) PROVE id \in rep2 \/ \E k \in 1 .. Len(B) : B[k] = id
  <2>1. CASE id \in 1 .. n0
    <3>1. CASE id \in rep
      BY <3>1 DEF MoreReported
    <3>2. CASE \E k \in 1 .. N : A[k] = id
      BY <1>1, <1>3, <3>2
    <3> QED
      BY <1>2, <2>1, <3>1, <3>2
  <2>2. CASE id \notin 1 .. n0
    <3>1. id - n0 \in 1 .. n /\ id = n0 + (id - n0) /\ id \in Nat
      BY <1>4, <1>5, <2>2
    <3>2. CASE m = n
      <4>1. id - n0 \in 1 .. m
        BY <3>1, <3>2
      <4>2. N + (id - n0) \in 1 .. Len(B)
        BY <1>1, <1>3, <1>4, <3>1, <4>1
      <4>3. B[N + (id - n0)] = id
        BY <1>3, <3>1, <4>1
      <4> QED
        BY <4>2, <4>3
    <3>3. CASE m # n
      <4>1. id \in n0 + 1 .. n0 + n
        BY <1>4, <3>1
      <4> QED
        BY <3>3, <4>1 DEF MoreReported, n0
    <3> QED
      BY <3>2, <3>3
  <2> QED
    BY <2>1, <2>2
<1> QED
  BY <1>7, <1>8, <1>9, <1>10 DEF OutputOK, B

\* Where the second of two sequences is found behind the first.
LEMMA ConcatAt ==
    ASSUME NEW s \in Seq(Nat), NEW t \in Seq(Nat), NEW k \in 1 .. Len(t)
    PROVE  (s \o t)[Len(s) + k] = t[k]
OBVIOUS

\* A call that prints past stdout, and leaves what stdout buffers behind it.
LEMMA OutputInserted ==
    ASSUME NEW con \in Seq(Nat), NEW b \in Seq(Nat), NEW con2 \in Seq(Nat),
           NEW pr, NEW pr2, NEW rep, NEW rep2, Len(pr) \in Nat,
           NEW n \in Nat, NEW m \in 0 .. n, NEW from, from # "out",
           OutputOK(con, b, pr, rep), Extends(con, con2, Len(pr), m),
           MorePrinted(pr, pr2, n, from), MoreReported(rep, rep2, Len(pr), n, m)
    PROVE  OutputOK(con2, b, pr2, rep2)
<1> DEFINE A == con \o b
           B == con2 \o b
           n0 == Len(pr)
           N == Len(con)
           L == Len(b)
<1>1. A \in Seq(Nat) /\ B \in Seq(Nat) /\ N \in Nat /\ L \in Nat /\ Len(A) = N + L
  OBVIOUS
<1>2. /\ \A k \in 1 .. N + L : A[k] \in 1 .. n0
      /\ \A k \in 1 .. N + L : N < k => pr[A[k]].from = "out"
      /\ \A i, j \in 1 .. N + L : i < j /\ pr[A[i]].from = pr[A[j]].from => A[i] < A[j]
      /\ \A id \in 1 .. n0 : id \in rep \/ \E k \in 1 .. N + L : A[k] = id
  BY <1>1 DEF OutputOK
<1>3. Len(con2) = N + m /\ (\A k \in 1 .. N : con2[k] = con[k]) /\ (\A k \in 1 .. m : con2[N + k] = n0 + k)
  BY DEF Extends
<1>4. n0 \in Nat /\ Len(B) = N + m + L
  <2>1. Len(B) = Len(con2) + L
    OBVIOUS
  <2> QED
    BY <1>3, <2>1
<1>5. /\ \A k \in 1 .. N : B[k] = A[k]
      /\ \A k \in 1 .. m : B[N + k] = n0 + k
      /\ \A k \in 1 .. L : B[N + m + k] = A[N + k]
  <2>1. ASSUME NEW k \in 1 .. N PROVE B[k] = A[k]
    BY <1>3
  <2>2. ASSUME NEW k \in 1 .. m PROVE B[N + k] = n0 + k
    <3>1. N + k \in 1 .. Len(con2)
      BY <1>1, <1>3
    <3> QED
      BY <1>3, <3>1
  <2>3. ASSUME NEW k \in 1 .. L PROVE B[N + m + k] = A[N + k]
    <3>1. B[Len(con2) + k] = b[k]
      BY ConcatAt
    <3>2. A[Len(con) + k] = b[k]
      BY ConcatAt
    <3> QED
      BY <1>1, <1>3, <3>1, <3>2
  <2> QED
    BY <2>1, <2>2, <2>3
<1> HIDE DEF A, B, n0, N, L
<1>6. Len(pr2) = n0 + n /\ (\A i \in 1 .. n0 : pr2[i] = pr[i]) /\ \A i \in 1 .. n : pr2[n0 + i].from = from
  BY DEF MorePrinted, n0
\* Where the characters of B come from.
<1> DEFINE Old(k, p) == p \in 1 .. N + L /\ B[k] = A[p]
           First(k) == k \in 1 .. N /\ Old(k, k)
           New(k) == k - N \in 1 .. m /\ B[k] = n0 + (k - N)
           Later(k) == k - m \in N + 1 .. N + L /\ Old(k, k - m)
<1>7. ASSUME NEW k \in 1 .. Len(B) PROVE First(k) \/ New(k) \/ Later(k)
  <2>1. CASE k <= N
    BY <1>1, <1>5, <2>1
  <2>2. CASE N < k /\ k <= N + m
    <3>1. k - N \in 1 .. m /\ k = N + (k - N)
      BY <1>1, <2>2
    <3> QED
      BY <1>5, <3>1
  <2>3. CASE N + m < k
    <3>1. k - m - N \in 1 .. L /\ k = N + m + (k - m - N) /\ k - m = N + (k - m - N)
          /\ k - m \in N + 1 .. N + L /\ k - m \in 1 .. N + L
      BY <1>1, <1>4, <2>3
    <3>2. B[N + m + (k - m - N)] = A[N + (k - m - N)]
      BY <1>5, <3>1
    <3> QED
      BY <3>1, <3>2
  <2> QED
    BY <1>1, <2>1, <2>2, <2>3
<1>8. ASSUME NEW k, NEW p, Old(k, p)
      PROVE  B[k] \in 1 .. n0 /\ B[k] \in 1 .. Len(pr2) /\ pr2[B[k]] = pr[A[p]]
  <2>1. p \in 1 .. N + L /\ B[k] = A[p]
    BY <1>8
  <2>2. A[p] \in 1 .. n0
    BY <1>2, <2>1
  <2>3. pr2[A[p]] = pr[A[p]]
    BY <1>6, <2>2
  <2> QED
    BY <1>4, <1>6, <2>1, <2>2, <2>3
<1>9. ASSUME NEW k \in Nat, New(k)
      PROVE  B[k] \in 1 .. Len(pr2) /\ B[k] > n0 /\ pr2[B[k]].from = from
  <2>1. k - N \in 1 .. n
    BY <1>1, <1>9
  <2> QED
    <3>1. B[k] = n0 + (k - N) /\ pr2[n0 + (k - N)].from = from
      BY <1>6, <1>9, <2>1
    <3>2. n0 + (k - N) \in 1 .. Len(pr2) /\ n0 + (k - N) > n0
      BY <1>4, <1>6, <2>1
    <3> QED
      BY <3>1, <3>2
<1>10. ASSUME NEW k \in Nat, Later(k) PROVE pr2[B[k]].from = "out"
  <2>1. pr2[B[k]] = pr[A[k - m]]
    BY <1>8, <1>10, ZenonT(30)
  <2>2. k - m \in 1 .. N + L /\ N < k - m
    BY <1>1, <1>10
  <2> QED
    BY <1>2, <2>1, <2>2
<1>11. ASSUME NEW k \in 1 .. Len(B) PROVE B[k] \in 1 .. Len(pr2)
  <2>1. k \in Nat
    OBVIOUS
  <2>2. CASE New(k)
    BY <1>9, <2>1, <2>2
  <2>3. CASE First(k) \/ Later(k)
    BY <1>8, <2>3
  <2> QED
    BY <1>7, <2>2, <2>3
<1>12. ASSUME NEW k \in 1 .. Len(B), Len(con2) < k PROVE pr2[B[k]].from = "out"
  <2>1. ~First(k) /\ ~New(k)
    BY <1>1, <1>3, <1>12
  <2> QED
    BY <1>7, <1>10, <2>1
<1>13. ASSUME NEW i \in 1 .. Len(B), NEW j \in 1 .. Len(B), i < j, pr2[B[i]].from = pr2[B[j]].from
       PROVE  B[i] < B[j]
  <2>1. ASSUME NEW p, NEW q, Old(i, p), Old(j, q), p < q PROVE B[i] < B[j]
    <3>1. pr2[B[i]] = pr[A[p]] /\ pr2[B[j]] = pr[A[q]]
      <4> HIDE DEF Old
      <4>1. pr2[B[i]] = pr[A[p]]
        BY <1>8, <2>1
      <4>2. pr2[B[j]] = pr[A[q]]
        BY <1>8, <2>1
      <4> QED
        BY <4>1, <4>2
    <3>2. p \in 1 .. N + L /\ q \in 1 .. N + L /\ B[i] = A[p] /\ B[j] = A[q]
      BY <2>1
    <3>3. pr[A[p]].from = pr[A[q]].from
      BY <1>13, <3>1
    <3> QED
      BY <1>2, <2>1, <3>2, <3>3
  <2>2. CASE First(i) /\ First(j)
    BY <1>13, <2>1, <2>2
  <2>3. CASE First(i) /\ Later(j)
    <3>1. i < j - m
      BY <1>1, <2>3
    <3> QED
      BY <2>1, <2>3, <3>1
  <2>4. CASE First(i) /\ New(j)
    <3>1. B[i] \in 1 .. n0
      BY <1>8, <2>4
    <3>2. j \in Nat
      OBVIOUS
    <3>3. B[j] > n0 /\ B[j] \in 1 .. Len(pr2)
      BY <1>9, <2>4, <3>2
    <3> QED
      BY <1>4, <1>6, <3>1, <3>3
  <2>5. CASE New(i) /\ New(j)
    BY <1>1, <1>4, <1>13, <2>5
  <2>6. CASE New(i) /\ Later(j)
    <3>1. pr2[B[i]].from = from
      BY <1>9, <2>6
    <3>2. pr2[B[j]].from = "out"
      BY <1>10, <2>6
    <3> QED
      BY <1>13, <3>1, <3>2
  <2>7. CASE Later(i) /\ Later(j)
    <3>1. i - m < j - m
      BY <1>13
    <3> QED
      BY <2>1, <2>7, <3>1
  <2>8. ~(New(i) /\ First(j)) /\ ~(Later(i) /\ First(j)) /\ ~(Later(i) /\ New(j))
    BY <1>1, <1>13, SMTT(30)
  <2> QED
    BY <1>7, <2>2, <2>3, <2>4, <2>5, <2>6, <2>7, <2>8
<1>14. ASSUME NEW id \in 1 .. Len(pr2) PROVE id \in rep2 \/ \E k \in 1 .. Len(B) : B[k] = id
  <2>1. CASE id \in 1 .. n0
    <3>1. CASE id \in rep
      BY <3>1 DEF MoreReported
    <3>2. CASE \E k \in 1 .. N + L : A[k] = id
      <4>1. PICK k \in 1 .. N + L : A[k] = id
        BY <3>2
      <4>2. CASE k \in 1 .. N
        <5>1. k \in 1 .. Len(B) /\ B[k] = id
          BY <1>1, <1>4, <1>5, <4>1, <4>2
        <5> QED
          BY <5>1
      <4>3. CASE k \notin 1 .. N
        <5>1. k - N \in 1 .. L /\ N + (k - N) = k
          BY <1>1, <4>3
        <5>2. N + m + (k - N) \in 1 .. Len(B)
          BY <1>1, <1>4, <5>1
        <5>3. B[N + m + (k - N)] = id
          BY <1>5, <4>1, <5>1
        <5> QED
          BY <5>2, <5>3
      <4> QED
        BY <4>2, <4>3
    <3> QED
      BY <1>2, <2>1, <3>1, <3>2
  <2>2. CASE id \notin 1 .. n0
    <3>1. id - n0 \in 1 .. n /\ id = n0 + (id - n0) /\ id \in Nat
      BY <1>4, <1>6, <2>2
    <3>2. CASE m = n
      <4>1. id - n0 \in 1 .. m
        BY <3>1, <3>2
      <4>2. N + (id - n0) \in 1 .. Len(B)
        BY <1>1, <1>4, <3>1, <4>1
      <4>3. B[N + (id - n0)] = id
        BY <1>5, <3>1, <4>1
      <4> QED
        BY <4>2, <4>3
    <3>3. CASE m # n
      <4>1. id \in n0 + 1 .. n0 + n
        BY <1>4, <3>1
      <4> QED
        BY <3>3, <4>1 DEF MoreReported, n0
    <3> QED
      BY <3>2, <3>3
  <2> QED
    BY <2>1, <2>2
<1> QED
  BY <1>11, <1>12, <1>13, <1>14 DEF OutputOK, B

StreamsOK ==
    /\ GoodFile(stdout) /\ stdout.file = 1 /\ stdout.swr
    /\ GoodFile(stderr) /\ stderr.file = 2 /\ stderr.mode = "NBF"
    /\ console \in Seq(Nat) /\ printed \in Seq(Printed)

IInv == StreamsOK /\ OutputOK(console, stdout.buf, printed, reported)

LEMMA StreamIs ==
    ASSUME NEW f \in FILE, console \in Seq(Nat)
    PROVE  /\ Stream(f) = StateOf(f, console, FALSE)
           /\ Stream(f) \in State /\ Stream(f).f = f /\ Stream(f).con = console
           /\ ~Stream(f).eof /\ All(Stream(f)) = console \o f.buf
<1>1. Stream(f) = StateOf(f, console, FALSE)
  BY DEF Stream, StateOf
<1> QED
  BY <1>1 DEF StateOf, State, All

LEMMA NumberedText ==
    ASSUME NEW text \in Seq(BOOLEAN), printed \in Seq(Printed)
    PROVE  /\ Numbered(text) \in Seq(Char) /\ Len(Numbered(text)) = Len(text)
           /\ \A i \in 1 .. Len(text) : Numbered(text)[i].id = Len(printed) + i
<1> DEFINE s == Numbered(text)
<1>1. Len(text) \in Nat /\ Len(printed) \in Nat /\ DOMAIN text = 1 .. Len(text)
  OBVIOUS
<1>2. s = [i \in 1 .. Len(text) |-> [id |-> Len(printed) + i, nl |-> text[i]]]
  BY <1>1 DEF Numbered
<1>3. ASSUME NEW i \in 1 .. Len(text) PROVE [id |-> Len(printed) + i, nl |-> text[i]] \in Char
  BY <1>1 DEF Char
<1>4. s \in [1 .. Len(text) -> Char]
  BY <1>2, <1>3
<1>5. \A i \in 1 .. Len(text) : s[i].id = Len(printed) + i
  BY <1>2
<1> HIDE DEF s
<1>6. s \in Seq(Char) /\ Len(s) = Len(text)
  BY <1>1, <1>4
<1> QED
  BY <1>5, <1>6 DEF s

LEMMA RecordedText ==
    ASSUME NEW text \in Seq(BOOLEAN), printed \in Seq(Printed), NEW from \in From,
           NEW eof, NEW m, ~eof => m = Len(text), Recorded(from, text, eof)
    PROVE  /\ printed' \in Seq(Printed)
           /\ MorePrinted(printed, printed', Len(text), from)
           /\ MoreReported(reported, reported', Len(printed), Len(text), m)
<1> DEFINE s == [i \in DOMAIN text |-> [from |-> from, nl |-> text[i]]]
<1>1. Len(text) \in Nat /\ Len(printed) \in Nat /\ DOMAIN text = 1 .. Len(text)
  OBVIOUS
<1>2. ASSUME NEW i \in 1 .. Len(text) PROVE [from |-> from, nl |-> text[i]] \in Printed
  BY <1>1 DEF Printed
<1>3. s \in [1 .. Len(text) -> Printed] /\ \A i \in 1 .. Len(text) : s[i].from = from
  BY <1>1, <1>2
<1>4. printed' = printed \o s
  BY DEF Recorded
<1> HIDE DEF s
<1>5. s \in Seq(Printed) /\ Len(s) = Len(text)
  BY <1>1, <1>3
<1>6. printed' \in Seq(Printed) /\ Len(printed') = Len(printed) + Len(text)
  <2>1. printed \o s \in Seq(Printed) /\ Len(printed \o s) = Len(printed) + Len(s)
    BY <1>5, ConcatProperties
  <2> QED
    BY <1>4, <1>5, <2>1
<1>7. ASSUME NEW i \in 1 .. Len(printed) PROVE printed'[i] = printed[i]
  BY <1>4, <1>5
<1>8. ASSUME NEW i \in 1 .. Len(text) PROVE printed'[Len(printed) + i].from = from
  <2>1. printed'[Len(printed) + i] = s[i]
    BY <1>4, <1>5
  <2> QED
    BY <1>3, <2>1
<1>9. MoreReported(reported, reported', Len(printed), Len(text), m)
  BY DEF Recorded, MoreReported
<1> QED
  BY <1>6, <1>7, <1>8, <1>9 DEF MorePrinted

LEMMA InitIInv == Init => IInv
<1> SUFFICES ASSUME Init PROVE IInv
  OBVIOUS
<1>1. stdout = std(1, TRUE, "LBF") /\ stderr = std(2, FALSE, "NBF") /\ console = << >> /\ printed = << >>
  BY DEF Init
<1>2. stdout \in FILE /\ stdout.file = 1 /\ stdout.swr /\ ~stdout.base /\ stdout.buf = << >>
      /\ stdout.size = 0 /\ stdout.w = 0 /\ stdout.lbfsize = 0 /\ stdout.mode = "LBF"
  BY <1>1 DEF std, FILE, Mode
<1>3. stderr \in FILE /\ stderr.file = 2 /\ ~stderr.base /\ stderr.buf = << >>
      /\ stderr.size = 0 /\ stderr.w = 0 /\ stderr.lbfsize = 0 /\ stderr.mode = "NBF"
  BY <1>1 DEF std, FILE, Mode
<1>4. GoodFile(stdout)
  BY <1>2 DEF GoodFile, Empty
<1>5. GoodFile(stderr)
  BY <1>3 DEF GoodFile, Empty
<1>6. console \o stdout.buf = << >> /\ Len(console \o stdout.buf) = 0 /\ Len(printed) = 0
  <2>1. << >> \o << >> = << >> /\ Len(<< >>) = 0
    OBVIOUS
  <2> QED
    BY <1>1, <1>2, <2>1
<1>7. OutputOK(console, stdout.buf, printed, reported)
  BY <1>6 DEF OutputOK
<1>8. console \in Seq(Nat) /\ printed \in Seq(Printed)
  BY <1>1
<1>9. stdout.file = 1 /\ stdout.swr
  BY <1>2
<1>10. stderr.file = 2 /\ stderr.mode = "NBF"
  BY <1>3
<1> QED
  BY <1>4, <1>5, <1>7, <1>8, <1>9, <1>10 DEF IInv, StreamsOK

LEMMA PrintOutKeeps ==
    ASSUME IInv, NEW text \in Texts, NEW got \in BOOLEAN, PrintOut(text, got)
    PROVE  IInv'
<1> DEFINE S == Stream(stdout)
           s == Numbered(text)
           T == __sfputs_r(S, s, got)
           n == Len(text)
<1>1. text \in Seq(BOOLEAN) /\ n \in Nat /\ Len(printed) \in Nat /\ printed \in Seq(Printed) /\ console \in Seq(Nat)
  BY StdioConstants DEF IInv, StreamsOK
<1>2. stdout \in FILE /\ GoodFile(stdout) /\ stdout.buf \in Seq(Nat)
  BY FileFields DEF IInv, StreamsOK, GoodFile
<1>3. S \in State /\ S.f = stdout /\ S.con = console /\ ~S.eof /\ All(S) = console \o stdout.buf
  BY <1>1, <1>2, StreamIs
<1>4. s \in Seq(Char) /\ Len(s) = n /\ \A i \in 1 .. Len(s) : s[i].id = Len(printed) + i
  BY <1>1, NumberedText
<1>5. stdout' = T.f /\ console' = T.con /\ Recorded("out", text, T.eof) /\ stderr' = stderr
  BY DEF PrintOut
<1> HIDE DEF S, s
<1>6. SfputsDone(S, Len(printed), n, T)
  BY <1>1, <1>2, <1>3, <1>4, SfputsGood
<1> HIDE DEF T, n
<1>7. PICK m \in 0 .. n : Extends(All(S), All(T), Len(printed), m) /\ (~T.eof => m = n)
  BY <1>6 DEF SfputsDone
<1>8. /\ T \in State /\ GoodFile(T.f) /\ T.f.file = stdout.file
      /\ Len(console) <= Len(T.con)
  BY <1>3, <1>6 DEF SfputsDone
<1>9. stdout.swr => T.f.swr
  BY <1>3, <1>6 DEF SfputsDone
<1>10. T.con \in Seq(Nat) /\ T.f \in FILE
  BY <1>8, StateFields
<1>11. stdout'.buf \in Seq(Nat) /\ All(T) = console' \o stdout'.buf
  BY <1>5, <1>10, FileFields DEF All
<1>12. /\ printed' \in Seq(Printed)
       /\ MorePrinted(printed, printed', n, "out")
       /\ MoreReported(reported, reported', Len(printed), n, m)
  BY <1>1, <1>5, <1>7, RecordedText DEF From, n
<1>13. OutputOK(console', stdout'.buf, printed', reported')
  <2>1. Extends(console \o stdout.buf, console' \o stdout'.buf, Len(printed), m)
    BY <1>3, <1>7, <1>11
  <2>2. OutputOK(console, stdout.buf, printed, reported) /\ console' \in Seq(Nat) /\ Len(console) <= Len(console')
    BY <1>5, <1>8, <1>10 DEF IInv
  <2> QED
    BY <1>1, <1>2, <1>11, <1>12, <2>1, <2>2, OutputAppended DEF n
<1>14. StreamsOK'
  <2>1. stdout'.swr
    BY <1>5, <1>9 DEF IInv, StreamsOK
  <2>2. GoodFile(stdout') /\ stdout'.file = 1
    BY <1>5, <1>8 DEF IInv, StreamsOK
  <2> QED
    BY <1>5, <1>10, <1>12, <2>1, <2>2 DEF IInv, StreamsOK
<1> QED
  BY <1>13, <1>14 DEF IInv
\* Printing on a stream without a buffer of its own leaves nothing behind.
LEMMA PrintErrKeeps ==
    ASSUME IInv, NEW text \in Texts, NEW got \in BOOLEAN, PrintErr(text, got)
    PROVE  IInv'
<1> DEFINE S == Stream(stderr)
           s == Numbered(text)
           T == __sfputs_r(S, s, got)
           n == Len(text)
<1>1. text \in Seq(BOOLEAN) /\ n \in Nat /\ Len(printed) \in Nat /\ printed \in Seq(Printed) /\ console \in Seq(Nat)
  BY StdioConstants DEF IInv, StreamsOK
<1>2. stderr \in FILE /\ GoodFile(stderr) /\ stderr.mode = "NBF" /\ stderr.file = 2
  BY DEF IInv, StreamsOK, GoodFile
<1>3. stderr.buf = Empty
  BY <1>2 DEF GoodFile
<1>4. S \in State /\ S.f = stderr /\ S.con = console /\ ~S.eof /\ All(S) = console
  BY <1>1, <1>2, <1>3, StreamIs, EmptyFacts
<1>5. s \in Seq(Char) /\ Len(s) = n /\ \A i \in 1 .. Len(s) : s[i].id = Len(printed) + i
  BY <1>1, NumberedText
<1>6. stderr' = T.f /\ console' = T.con /\ Recorded("err", text, T.eof) /\ stdout' = stdout
  BY DEF PrintErr
<1> HIDE DEF S, s
<1>7. SfputsDone(S, Len(printed), n, T)
  BY <1>1, <1>2, <1>4, <1>5, SfputsGood
<1> HIDE DEF T, n
<1>8. PICK m \in 0 .. n : Extends(console, All(T), Len(printed), m) /\ (~T.eof => m = n)
  BY <1>4, <1>7 DEF SfputsDone
<1>9. T \in State /\ GoodFile(stderr') /\ stderr'.file = 2 /\ stderr'.mode = "NBF"
  BY <1>2, <1>4, <1>6, <1>7 DEF SfputsDone
<1>10. console' \in Seq(Nat) /\ stderr'.buf = Empty
  BY <1>6, <1>9, StateFields DEF GoodFile
<1>11. All(T) = console'
  BY <1>6, <1>10, EmptyFacts DEF All
<1>12. /\ printed' \in Seq(Printed)
       /\ MorePrinted(printed, printed', n, "err")
       /\ MoreReported(reported, reported', Len(printed), n, m)
  BY <1>1, <1>6, <1>8, RecordedText DEF From, n
<1>13. OutputOK(console', stdout.buf, printed', reported')
  <2>1. OutputOK(console, stdout.buf, printed, reported)
    BY DEF IInv
  <2>2. stdout.buf \in Seq(Nat)
    BY FileFields DEF IInv, StreamsOK, GoodFile
  <2>3. Extends(console, console', Len(printed), m)
    BY <1>8, <1>11
  <2> HIDE DEF IInv
  <2> QED
    BY <1>1, <1>10, <1>12, <2>1, <2>2, <2>3, OutputInserted
<1>14. StreamsOK'
  <2>1. stdout'.swr
    BY <1>6 DEF IInv, StreamsOK
  <2>2. GoodFile(stdout') /\ stdout'.file = 1
    BY <1>6 DEF IInv, StreamsOK
  <2> QED
    BY <1>9, <1>10, <1>12, <2>1, <2>2 DEF StreamsOK
<1> QED
  BY <1>6, <1>13, <1>14 DEF IInv

LEMMA PrintDirectKeeps ==
    ASSUME IInv, NEW text \in Texts, PrintDirect(text)
    PROVE  IInv'
<1> DEFINE s == [i \in DOMAIN text |-> Len(printed) + i]
           n == Len(text)
<1>1. text \in Seq(BOOLEAN) /\ n \in Nat /\ Len(printed) \in Nat /\ printed \in Seq(Printed) /\ console \in Seq(Nat)
  BY StdioConstants DEF IInv, StreamsOK
<1>2. console' = console \o s /\ Recorded("direct", text, FALSE) /\ stdout' = stdout /\ stderr' = stderr
  BY DEF PrintDirect
<1>3. DOMAIN text = 1 .. n
  BY <1>1
<1>4. s \in Seq(Nat) /\ Len(s) = n /\ \A i \in 1 .. n : s[i] = Len(printed) + i
  BY <1>1, <1>3
<1> HIDE DEF s
<1>5. console' \in Seq(Nat) /\ Extends(console, console', Len(printed), n)
  <2>1. console' \in Seq(Nat) /\ Len(console') = Len(console) + n
    <3>1. console \o s \in Seq(Nat) /\ Len(console \o s) = Len(console) + Len(s)
      BY <1>1, <1>4, ConcatProperties
    <3> QED
      BY <1>2, <1>4, <3>1
  <2>2. \A k \in 1 .. Len(console) : console'[k] = console[k]
    BY <1>1, <1>2, <1>4
  <2>3. \A k \in 1 .. n : console'[Len(console) + k] = s[k]
    <3> SUFFICES ASSUME NEW k \in 1 .. Len(s) PROVE (console \o s)[Len(console) + k] = s[k]
      BY <1>2, <1>4
    <3> QED
      BY <1>1, <1>4
  <2> QED
    BY <1>4, <2>1, <2>2, <2>3 DEF Extends
<1>6. /\ printed' \in Seq(Printed)
      /\ MorePrinted(printed, printed', n, "direct")
      /\ MoreReported(reported, reported', Len(printed), n, n)
  BY <1>1, <1>2, RecordedText DEF From
<1> HIDE DEF n
<1>7. OutputOK(console', stdout.buf, printed', reported')
  <2>1. OutputOK(console, stdout.buf, printed, reported) /\ n \in 0 .. n
    BY <1>1 DEF IInv
  <2>2. stdout.buf \in Seq(Nat)
    BY FileFields DEF IInv, StreamsOK, GoodFile
  <2> QED
    BY <1>1, <1>5, <1>6, <2>1, <2>2, OutputInserted
<1>8. StreamsOK'
  <2>1. stdout'.swr
    BY <1>2 DEF IInv, StreamsOK
  <2>2. GoodFile(stdout') /\ stdout'.file = 1 /\ GoodFile(stderr') /\ stderr'.file = 2 /\ stderr'.mode = "NBF"
    BY <1>2 DEF IInv, StreamsOK
  <2> QED
    BY <1>5, <1>6, <2>1, <2>2 DEF StreamsOK
<1> QED
  BY <1>2, <1>7, <1>8 DEF IInv

\* T is what a flush makes of a stream f and the console con.
Flushed(T, f, con) ==
    /\ T \in State /\ GoodFile(T.f)
    /\ T.f.file = f.file /\ T.f.mode = f.mode /\ T.f.size = f.size
    /\ T.f.swr
    /\ T.f.buf = Empty
    /\ T.con = con \o f.buf

LEMMA FlushDone ==
    ASSUME NEW f, GoodFile(f), f.swr, NEW con \in Seq(Nat)
    PROVE  Flushed(__sflush_r(StateOf(f, con, FALSE)), f, con)
<1>1. f \in FILE
  BY DEF GoodFile
<1> DEFINE S == StateOf(f, con, FALSE)
           T == __sflush_r(S)
<1>2. S \in State /\ S.f = f /\ S.con = con
  BY <1>1, StateOfFields
<1>3. CASE f.base
  <2>1. f.mode = "NBF" => f.size = 1 /\ f.lbfsize = 0
    BY <1>3 DEF GoodFile
  <2>2. (f.mode = "FBF" => f.lbfsize = 0) /\ (f.mode = "LBF" => f.lbfsize = 0 - f.size) /\ f.size >= 1
    BY <1>3 DEF GoodFile
  <2>3. HasBuffer(f)
    BY <1>1, <1>3, <2>1, <2>2 DEF HasBuffer
  <2>4. PICK g \in FILE, failed \in BOOLEAN :
              /\ T = StateOf(g, con \o f.buf, failed)
              /\ GoodFile(g) /\ HasBuffer(g)
              /\ g.buf = Empty /\ g.file = f.file /\ g.mode = f.mode /\ g.size = f.size
    BY <2>3, FlushGood
  <2>5. con \o f.buf \in Seq(Nat)
    BY <1>1, FileFields
  <2> HIDE DEF T
  <2>6. T \in State /\ T.f = g /\ T.con = con \o f.buf
    <3>1. PICK con2 : con2 = con \o f.buf
      OBVIOUS
    <3>2. con2 \in Seq(Nat) /\ T = StateOf(g, con2, failed)
      BY <2>4, <2>5, <3>1
    <3>3. T \in State /\ T.f = g /\ T.con = con2
      BY <3>2 DEF StateOf, State
    <3> QED
      BY <3>1, <3>3
  <2>7. g.swr
    BY <2>4 DEF HasBuffer
  <2> QED
    BY <2>4, <2>6, <2>7 DEF Flushed, T
<1>4. CASE ~f.base
  <2>1. f.buf = Empty
    BY <1>4 DEF GoodFile
  <2>2. T = [S EXCEPT !.eof = FALSE]
    BY <1>2, <1>4 DEF __sflush_r
  <2>3. T \in State /\ T.f = f /\ T.con = con
    BY <1>2, <2>2 DEF State
  <2>4. con = con \o f.buf
    BY <2>1, EmptyFacts
  <2> HIDE DEF T
  <2> QED
    BY <2>1, <2>3, <2>4 DEF Flushed, T
<1> QED
  BY <1>3, <1>4

\* What is shown and buffered after a flush.
LEMMA FlushKeepsOutput ==
    ASSUME IInv, NEW T, Flushed(T, stdout, console)
    PROVE  T.con \in Seq(Nat) /\ OutputOK(T.con, Empty, printed, reported)
<1>1. stdout.buf \in Seq(Nat) /\ console \in Seq(Nat)
  BY FileFields DEF IInv, StreamsOK, GoodFile
<1>2. T.con = console \o stdout.buf
  BY DEF Flushed
<1>3. T.con \in Seq(Nat) /\ T.con \o Empty = console \o stdout.buf /\ Len(console) <= Len(T.con)
  <2>1. console \o stdout.buf \in Seq(Nat) /\ Len(console) <= Len(console \o stdout.buf)
    BY <1>1
  <2> QED
    BY <1>2, <2>1, EmptyFacts
<1>4. Empty \in Seq(Nat) /\ OutputOK(console, stdout.buf, printed, reported)
  BY EmptyFacts DEF IInv
<1> QED
  BY <1>1, <1>3, <1>4, OutputMoved

LEMMA FlushedStdout ==
    ASSUME IInv
    PROVE  Flushed(__sflush_r(Stream(stdout)), stdout, console)
<1>1. GoodFile(stdout) /\ stdout.swr /\ console \in Seq(Nat) /\ stdout \in FILE
  BY DEF IInv, StreamsOK, GoodFile
<1>2. Stream(stdout) = StateOf(stdout, console, FALSE)
  BY <1>1, StreamIs
<1> QED
  BY <1>1, <1>2, FlushDone

LEMMA FlushKeepsIInv ==
    ASSUME IInv, NEW T, Flushed(T, stdout, console),
           stdout' = T.f, console' = T.con, UNCHANGED <<stderr, printed, reported>>
    PROVE  IInv'
<1>1. T.con \in Seq(Nat) /\ OutputOK(T.con, Empty, printed, reported)
  BY FlushKeepsOutput
<1>2. stdout'.swr
  BY DEF Flushed
<1>3. GoodFile(stdout') /\ stdout'.file = 1 /\ stdout'.buf = Empty
  BY DEF Flushed, IInv, StreamsOK
<1>4. GoodFile(stderr') /\ stderr'.file = 2 /\ stderr'.mode = "NBF" /\ printed' \in Seq(Printed)
  BY DEF IInv, StreamsOK
<1>5. StreamsOK'
  BY <1>1, <1>2, <1>3, <1>4 DEF StreamsOK
<1> QED
  BY <1>1, <1>3, <1>5 DEF IInv

LEMMA FlushOutKeeps ==
    ASSUME IInv, FlushOut
    PROVE  IInv'
  BY FlushedStdout, FlushKeepsIInv DEF FlushOut
\* What setvbuf makes of a stream that has been flushed.
Vbuf(h, mode, size) ==
    LET f == [h EXCEPT !.lbfsize = 0, !.base = TRUE, !.mode = mode, !.size = size]
    IN  IF mode = "NBF" THEN [f EXCEPT !.w = 0]
        ELSE IF mode = "LBF" THEN [f EXCEPT !.w = 0, !.lbfsize = 0 - size]
        ELSE [f EXCEPT !.w = size]

LEMMA VbufGood ==
    ASSUME NEW h \in FILE, h.swr, h.buf = Empty, NEW mode \in Mode, NEW size \in Nat \ {0},
           mode = "NBF" => size = 1
    PROVE  LET g == Vbuf(h, mode, size)
           IN  GoodFile(g) /\ g.file = h.file /\ g.swr /\ g.buf = Empty
<1> DEFINE g == Vbuf(h, mode, size)
           v == IF mode = "FBF" THEN size ELSE 0
           l == IF mode = "LBF" THEN 0 - size ELSE 0
<1>1. g = [file |-> h.file, swr |-> h.swr, base |-> TRUE, mode |-> mode, size |-> size,
           w |-> v, lbfsize |-> l, buf |-> h.buf]
  BY DEF Vbuf, FILE, Mode
<1>2. g \in FILE /\ g.file = h.file /\ g.mode = mode /\ g.size = size /\ g.w = v /\ g.lbfsize = l /\ g.buf = Empty
  <2>1. v \in Int /\ l \in Int
    OBVIOUS
  <2> HIDE DEF v, l
  <2> QED
    BY <1>1, <2>1 DEF FILE
<1>3. g.swr /\ g.base
  BY <1>1
<1> HIDE DEF g
<1>4. GoodFile(g)
  BY <1>2, <1>3, EmptyFacts DEF GoodFile, Mode
<1> QED
  BY <1>2, <1>3, <1>4 DEF g

LEMMA SetvbufKeeps ==
    ASSUME IInv, NEW mode \in Mode, NEW size \in Nat \ {0}, mode = "NBF" => size = 1, setvbuf(mode, size)
    PROVE  IInv'
<1> DEFINE S == __sflush_r(Stream(stdout))
<1>1. Flushed(S, stdout, console)
  BY FlushedStdout
<1>2. stdout' = Vbuf(S.f, mode, size) /\ console' = S.con /\ UNCHANGED <<stderr, printed, reported>>
  BY DEF setvbuf, Vbuf, Drained
<1> HIDE DEF S
<1>3. S.f \in FILE /\ S.f.swr /\ S.f.buf = Empty /\ S.f.file = 1
  BY <1>1, StateFields DEF Flushed, IInv, StreamsOK
<1>4. GoodFile(stdout') /\ stdout'.file = 1 /\ stdout'.buf = Empty
  BY <1>2, <1>3, VbufGood
<1>5. stdout'.swr
  BY <1>2, <1>3, VbufGood
<1>6. S.con \in Seq(Nat) /\ OutputOK(S.con, Empty, printed, reported)
  BY <1>1, FlushKeepsOutput
<1>7. GoodFile(stderr') /\ stderr'.file = 2 /\ stderr'.mode = "NBF" /\ printed' \in Seq(Printed)
  BY <1>2 DEF IInv, StreamsOK
<1>8. StreamsOK'
  BY <1>2, <1>4, <1>5, <1>6, <1>7 DEF StreamsOK
<1> QED
  BY <1>2, <1>4, <1>6, <1>8 DEF IInv

LEMMA UnchangedKeeps ==
    ASSUME IInv, UNCHANGED outVars
    PROVE  IInv'
  BY DEF IInv, StreamsOK, outVars

LEMMA RefillKeeps ==
    ASSUME IInv, NEW got \in BOOLEAN, Refill(got)
    PROVE  IInv'
<1> DEFINE S == lflush(Stream(stdout))
<1>1. stdout' = S.f /\ console' = S.con /\ UNCHANGED <<stderr, printed, reported>>
  BY DEF Refill
<1>2. CASE S = __sflush_r(Stream(stdout))
  BY <1>1, <1>2, FlushedStdout, FlushKeepsIInv
<1>3. CASE S = Stream(stdout)
  BY <1>1, <1>3, UnchangedKeeps DEF Stream, outVars
<1> QED
  BY <1>2, <1>3 DEF lflush

LEMMA NextKeeps ==
    ASSUME IInv, [Next]_vars
    PROVE  IInv'
<1>1. ASSUME NEW t \in Texts, NEW got \in BOOLEAN, PrintOut(t, got) PROVE IInv'
  BY <1>1, PrintOutKeeps
<1>2. ASSUME NEW t \in Texts, NEW got \in BOOLEAN, PrintErr(t, got) PROVE IInv'
  BY <1>2, PrintErrKeeps
<1>3. ASSUME NEW t \in Texts, PrintDirect(t) PROVE IInv'
  BY <1>3, PrintDirectKeeps
<1>4. CASE FlushOut
  BY <1>4, FlushOutKeeps
<1>5. ASSUME NEW size \in BufSizes \cup {BUFSIZ}, setvbuf("LBF", size) \/ setvbuf("FBF", size) PROVE IInv'
  BY <1>5, StdioConstants, SetvbufKeeps DEF Mode
<1>6. CASE setvbuf("NBF", 1)
  BY <1>6, SetvbufKeeps DEF Mode
<1>7. ASSUME NEW got \in BOOLEAN, Refill(got) PROVE IInv'
  BY <1>7, RefillKeeps
<1>8. CASE Getc
  BY <1>8, UnchangedKeeps DEF Getc
<1>9. CASE FileCalls
  BY <1>9, UnchangedKeeps DEF FileCalls, _open, _close, ReadFile, WriteFile, Transfer, _swilseek
<1>10. CASE UNCHANGED vars
  BY <1>10, UnchangedKeeps DEF vars, outVars
<1> QED
  BY <1>1, <1>2, <1>3, <1>4, <1>5, <1>6, <1>7, <1>8, <1>9, <1>10 DEF Next, Output, Input

LEMMA StdioInvariant == Spec => []IInv
  BY InitIInv, NextKeeps, PTL DEF Spec
-----------------------------------------------------------------------------
(* The properties of the streams.                                          *)

LEMMA FitsOne ==
    ASSUME NEW f, GoodFile(f)
    PROVE  /\ Len(f.buf) <= f.size
           /\ f.swr /\ f.base /\ f.mode # "NBF" =>
                 f.w = f.size + f.lbfsize * (IF f.mode = "LBF" THEN 1 ELSE 0) - Len(f.buf)
<1>1. f \in FILE
  BY DEF GoodFile
<1>2. f.size \in Nat /\ f.w \in Int /\ f.lbfsize \in Int /\ Len(f.buf) \in Nat /\ f.mode \in Mode
  BY <1>1, FileFields
<1>3. Len(f.buf) <= f.size
  <2>1. CASE f.base
    BY <2>1 DEF GoodFile
  <2>2. CASE ~f.base
    <3>1. f.buf = Empty /\ f.size = 0
      BY <2>2 DEF GoodFile
    <3> QED
      BY <3>1, EmptyFacts
  <2> QED
    BY <2>1, <2>2
<1>4. ASSUME f.base, f.mode = "LBF" PROVE f.w = f.size + f.lbfsize * 1 - Len(f.buf)
  BY <1>2, <1>4 DEF GoodFile
<1>5. ASSUME f.base, f.mode = "FBF" PROVE f.w = f.size + f.lbfsize * 0 - Len(f.buf)
  <2>1. f.lbfsize = 0 /\ f.w = f.size - Len(f.buf)
    BY <1>5 DEF GoodFile
  <2> QED
    BY <1>2, <2>1
<1> QED
  BY <1>2, <1>3, <1>4, <1>5 DEF Mode

\* BufferFits of Stdio.tla for every buffer size, text and sequence of putc,
\* fflush and setvbuf: the counter putc decrements agrees with what the
\* buffer holds, so that no character is stored behind the buffer.
THEOREM StdioBufferFits == Spec => []BufferFits
<1>1. IInv => BufferFits
  BY FitsOne DEF IInv, StreamsOK, BufferFits, Streams
<1> QED
  BY <1>1, StdioInvariant, PTL

\* stderr never keeps a character back.
LEMMA StderrBufferEmpty ==
    ASSUME IInv
    PROVE  stderr.buf = Empty
  BY DEF IInv, StreamsOK, GoodFile

\* InOrder of Stdio.tla for every buffer size and text: the characters of one
\* printer reach the console in the order it printed them and none twice,
\* though every write to the console is taken for a failure.
THEOREM StdioInOrder == Spec => []InOrder
<1>1. ASSUME IInv PROVE InOrder
  <2> DEFINE A == console \o stdout.buf
  <2>1. console \in Seq(Nat) /\ stdout.buf \in Seq(Nat) /\ printed \in Seq(Printed)
    BY <1>1, FileFields DEF IInv, StreamsOK, GoodFile
  <2>2. \A i, j \in 1 .. Len(A) : i < j /\ printed[A[i]].from = printed[A[j]].from => A[i] < A[j]
    BY <1>1 DEF IInv, OutputOK
  <2>3. console \o stderr.buf = console
    BY <1>1, <2>1, StderrBufferEmpty, EmptyFacts
  <2>4. DOMAIN A = 1 .. Len(A) /\ DOMAIN console = 1 .. Len(console) /\ Len(A) \in Nat /\ Len(console) \in Nat
        /\ Len(console) <= Len(A)
    BY <2>1
  <2>5. \A k \in 1 .. Len(console) : A[k] = console[k] /\ k \in 1 .. Len(A)
    BY <2>1
  <2> HIDE DEF A
  <2>6. ASSUME NEW from \in {"out", "err", "direct"}, NEW all,
               all = A \/ all = console,
               NEW i \in DOMAIN all, NEW j \in DOMAIN all,
               printed[all[i]].from = from, printed[all[j]].from = from, i < j
        PROVE  all[i] < all[j]
    <3>1. i \in 1 .. Len(A) /\ j \in 1 .. Len(A) /\ all[i] = A[i] /\ all[j] = A[j]
      BY <2>4, <2>5, <2>6
    <3> QED
      BY <2>2, <2>6, <3>1
  <2>7. ASSUME NEW from \in {"out", "err", "direct"}
        PROVE  LET f   == IF from = "err" THEN stderr ELSE stdout
                   all == console \o f.buf
               IN  all = A \/ all = console
    BY <2>3 DEF A
  <2> QED
    BY <2>6, <2>7 DEF InOrder
<1> QED
  BY <1>1, StdioInvariant, PTL

\* NoSilentLoss of Stdio.tla for every buffer size and text: a character that
\* is neither shown nor buffered is one of a call that returned EOF.
THEOREM StdioNoSilentLoss == Spec => []NoSilentLoss
<1>1. ASSUME IInv PROVE NoSilentLoss
  <2> DEFINE A == console \o stdout.buf
  <2>1. console \in Seq(Nat) /\ stdout.buf \in Seq(Nat) /\ printed \in Seq(Printed)
    BY <1>1, FileFields DEF IInv, StreamsOK, GoodFile
  <2>2. \A id \in 1 .. Len(printed) : id \in reported \/ \E k \in 1 .. Len(A) : A[k] = id
    BY <1>1 DEF IInv, OutputOK
  <2>3. ASSUME NEW k \in 1 .. Len(A) PROVE A[k] \in ToSet(console) \cup Buffered
    <3>1. CASE k \in 1 .. Len(console)
      <4>1. A[k] = console[k] /\ k \in DOMAIN console
        BY <2>1, <3>1
      <4> QED
        BY <4>1 DEF ToSet
    <3>2. CASE k \notin 1 .. Len(console)
      <4>1. k - Len(console) \in DOMAIN stdout.buf /\ A[k] = stdout.buf[k - Len(console)]
        BY <2>1, <3>2
      <4>2. A[k] \in ToSet(stdout.buf)
        BY <4>1 DEF ToSet
      <4>3. ToSet(stdout.buf) \subseteq Buffered
        BY DEF Buffered, Streams
      <4> QED
        BY <4>2, <4>3
    <3> QED
      BY <3>1, <3>2
  <2>4. DOMAIN printed = 1 .. Len(printed)
    BY <2>1
  <2> HIDE DEF A
  <2> QED
    BY <2>2, <2>3, <2>4 DEF NoSilentLoss
<1> QED
  BY <1>1, StdioInvariant, PTL

-----------------------------------------------------------------------------
(* Input and the table of open files.                                      *)

Entry == [handle : Int, pos : Int]
Table == [Slots -> Entry]

\* findslot in a table t.
FirstOf(held) == IF held = {} THEN NoSlot ELSE CHOOSE i \in held : \A j \in held : i <= j
Find(t, fh) == FirstOf({i \in Slots : t[i].handle = fh})

LEMMA FindIsLeast ==
    ASSUME NEW t, NEW fh
    PROVE  \/ Find(t, fh) = NoSlot /\ \A i \in Slots : t[i].handle # fh
           \/ /\ Find(t, fh) \in Slots /\ t[Find(t, fh)].handle = fh
              /\ \A j \in Slots : t[j].handle = fh => Find(t, fh) <= j
<1> DEFINE held == {i \in Slots : t[i].handle = fh}
<1>1. CASE held = {}
  BY <1>1 DEF Find, FirstOf
<1>2. CASE held # {}
  <2>1. held \subseteq Nat
    BY DEF Slots
  <2>2. \E i \in held : \A j \in held : i <= j
    BY <1>2, <2>1, LeastElement
  <2>3. Find(t, fh) = CHOOSE i \in held : \A j \in held : i <= j
    BY <1>2 DEF Find, FirstOf
  <2>4. Find(t, fh) \in held /\ \A j \in held : Find(t, fh) <= j
    BY <2>2, <2>3
  <2> QED
    BY <2>4
<1> QED
  BY <1>1, <1>2

\* What findslot finds, NoSlot being no slot.
LEMMA FindFacts ==
    ASSUME NEW t, NEW fh
    PROVE  /\ Find(t, fh) # NoSlot => Find(t, fh) \in Slots /\ t[Find(t, fh)].handle = fh
           /\ \A i \in Slots : t[i].handle = fh => Find(t, fh) # NoSlot /\ Find(t, fh) <= i
           /\ \A i \in Slots : t[i].handle = fh /\ (\A j \in Slots : t[j].handle = fh => i <= j) => Find(t, fh) = i
<1>1. NoSlot \notin Slots
  BY StdioConstants DEF NoSlot, Slots
<1>2. Slots \subseteq Int
  BY DEF Slots
<1> DEFINE k == Find(t, fh)
<1>3. \/ k = NoSlot /\ \A i \in Slots : t[i].handle # fh
      \/ k \in Slots /\ t[k].handle = fh /\ \A j \in Slots : t[j].handle = fh => k <= j
  BY FindIsLeast
<1> HIDE DEF k
<1>4. k # NoSlot => k \in Slots /\ t[k].handle = fh
  BY <1>3
<1>5. \A i \in Slots : t[i].handle = fh => k # NoSlot /\ k <= i
  BY <1>1, <1>3
<1>6. ASSUME NEW i \in Slots, t[i].handle = fh, \A j \in Slots : t[j].handle = fh => i <= j PROVE k = i
  <2>1. k \in Slots /\ k <= i /\ i <= k
    BY <1>3, <1>6
  <2> QED
    BY <1>2, <2>1
<1> QED
  BY <1>4, <1>5, <1>6 DEF k

\* The one file that is open is the one findslot finds, at its own position.
FilesOK(t, n, sh, e) ==
    /\ n > 1 => sh
    /\ n = 1 /\ ~sh => Find(t, 0) # NoSlot /\ t[Find(t, 0)].pos = e

FilesInv ==
    /\ unread \in Int /\ inbuf \in Int
    /\ openfiles \in Table /\ files \in Nat /\ expected \in Int /\ shared \in BOOLEAN
    /\ FilesOK(openfiles, files, shared, expected)

LEMMA FindslotIs == \A fh : findslot(fh) = Find(openfiles, fh)
  BY DEF findslot, Find, FirstOf

LEMMA FilesInit == Init => FilesInv
<1> SUFFICES ASSUME Init PROVE FilesInv
  OBVIOUS
<1>1. unread = -1 /\ inbuf = 0 /\ files = 0 /\ expected = 0 /\ shared = FALSE
      /\ openfiles = [i \in Slots |-> [handle |-> 0, pos |-> 0]]
  BY DEF Init
<1>2. openfiles \in Table
  BY <1>1 DEF Table, Entry
<1>3. FilesOK(openfiles, files, shared, expected)
  BY <1>1 DEF FilesOK
<1>4. unread \in Int /\ inbuf \in Int /\ files \in Nat /\ expected \in Int
  BY <1>1
<1>5. shared \in BOOLEAN
  BY <1>1
<1> QED
  BY <1>2, <1>3, <1>4, <1>5 DEF FilesInv

\* Another position for the file findslot finds.
MovedTo(t, i, p) == [t EXCEPT ![i].pos = p]

LEMMA Moved ==
    ASSUME NEW t \in Table, NEW i \in Slots, NEW p \in Int
    PROVE  /\ MovedTo(t, i, p) \in Table /\ MovedTo(t, i, p)[i].pos = p
           /\ Find(MovedTo(t, i, p), 0) = Find(t, 0)
<1> DEFINE t2 == MovedTo(t, i, p)
<1>1. t2 \in Table /\ t2[i].pos = p
  BY DEF Table, Entry, MovedTo
<1>2. \A k \in Slots : t2[k].handle = t[k].handle
  BY DEF Table, Entry, MovedTo
<1> HIDE DEF t2
<1>3. {k \in Slots : t2[k].handle = 0} = {k \in Slots : t[k].handle = 0}
  BY <1>2
<1>4. Find(t2, 0) = Find(t, 0)
  BY <1>3, Zenon DEF Find
<1> QED
  BY <1>1, <1>4 DEF t2

LEMMA RefillFiles ==
    ASSUME FilesInv, NEW got \in BOOLEAN, Refill(got)
    PROVE  FilesInv'
<1> DEFINE size == IF unread # -1 THEN inbuf ELSE IF got THEN BUFSIZ ELSE 1
           slot == Find(openfiles, 0)
<1>1. size \in Int
  BY StdioConstants DEF FilesInv
<1>2. _read(size) = size
  BY <1>1 DEF _read, do_AngelSWI
<1>3. /\ inbuf' = size /\ unread' = _read(size) - 1
      /\ openfiles' = IF slot = NoSlot THEN openfiles
                      ELSE [openfiles EXCEPT ![slot].pos = openfiles[slot].pos + _read(size)]
      /\ expected' = IF files = 0 THEN expected ELSE expected + _read(size)
      /\ files' = files /\ shared' = shared
  <2>1. findslot(0) = slot
    BY FindslotIs
  <2> HIDE DEF slot
  <2> QED
    BY <2>1 DEF Refill, Refilled
<1> HIDE DEF size
<1>4. openfiles \in Table /\ expected \in Int /\ files \in Nat /\ shared \in BOOLEAN
  BY DEF FilesInv
<1>5. inbuf' \in Int /\ unread' \in Int /\ expected' \in Int
  BY <1>1, <1>2, <1>3, <1>4
<1>6. CASE slot = NoSlot
  <2>1. files = 1 => shared
    BY <1>4, <1>6 DEF FilesInv, FilesOK
  <2> QED
    BY <1>3, <1>4, <1>5, <1>6, <2>1 DEF FilesInv, FilesOK
<1>7. CASE slot # NoSlot
  <2>1. slot \in Slots
    BY <1>7, FindFacts
  <2> DEFINE p == openfiles[slot].pos + _read(size)
  <2>2. openfiles[slot].pos \in Int /\ p \in Int
    BY <1>1, <1>2, <1>4, <2>1 DEF Table, Entry
  <2>3. openfiles' = MovedTo(openfiles, slot, p)
    BY <1>3, <1>7 DEF MovedTo
  <2>4. openfiles[slot].pos = expected /\ files = 1 => p = expected'
    BY <1>3
  <2> HIDE DEF p, slot
  <2>5. openfiles' \in Table /\ openfiles'[slot].pos = p /\ Find(openfiles', 0) = Find(openfiles, 0)
    BY <1>4, <2>1, <2>2, <2>3, Moved
  <2>6. FilesOK(openfiles', files', shared', expected')
    BY <1>3, <1>7, <2>4, <2>5 DEF FilesInv, FilesOK, slot
  <2> QED
    BY <1>3, <1>4, <1>5, <2>5, <2>6 DEF FilesInv
<1> QED
  BY <1>6, <1>7

\* A call on the open file that sets its position to p, and should set it to e.
LEMMA PositionFiles ==
    ASSUME FilesInv, NEW p \in Int, NEW e \in Int, findslot(0) # NoSlot,
           openfiles' = MovedTo(openfiles, findslot(0), p), expected' = e,
           UNCHANGED <<inVars, files, shared>>,
           openfiles[findslot(0)].pos = expected => p = e
    PROVE  FilesInv'
<1> DEFINE slot == Find(openfiles, 0)
<1>1. findslot(0) = slot
  BY FindslotIs
<1>2. slot # NoSlot /\ slot \in Slots
  BY <1>1, FindFacts
<1>3. openfiles \in Table /\ files' = files /\ shared' = shared /\ unread' = unread /\ inbuf' = inbuf
  BY DEF FilesInv, inVars
<1>4. openfiles' = MovedTo(openfiles, slot, p)
  BY <1>1
<1>7. openfiles[slot].pos = expected => p = e
  BY <1>1
<1> HIDE DEF slot
<1>5. openfiles' \in Table /\ openfiles'[slot].pos = p /\ Find(openfiles', 0) = Find(openfiles, 0)
  BY <1>2, <1>3, <1>4, Moved
<1>6. FilesOK(openfiles', files', shared', expected')
  BY <1>7, <1>2, <1>3, <1>4, <1>5 DEF FilesInv, FilesOK, slot
<1> QED
  BY <1>3, <1>5, <1>6 DEF FilesInv

\* The position of the file findslot finds.
LEMMA PositionType ==
    ASSUME FilesInv, findslot(0) # NoSlot
    PROVE  openfiles[findslot(0)].pos \in Int
<1>1. findslot(0) \in Slots
  BY FindslotIs, FindFacts
<1> QED
  BY <1>1 DEF FilesInv, Table, Entry

LEMMA TransferFiles ==
    ASSUME FilesInv, NEW len \in Int, Transfer(len, len)
    PROVE  FilesInv'
<1> DEFINE pos == openfiles[findslot(0)].pos
           p == pos + len
           e == expected + len
<1>1. findslot(0) # NoSlot /\ openfiles' = MovedTo(openfiles, findslot(0), p) /\ expected' = e
      /\ UNCHANGED <<inVars, files, shared>>
  BY DEF Transfer, MovedTo
<1>2. p \in Int /\ e \in Int
  BY <1>1, PositionType DEF FilesInv
<1>3. pos = expected => p = e
  OBVIOUS
<1> HIDE DEF p, e
<1> QED
  BY <1>1, <1>2, <1>3, PositionFiles

LEMMA LseekFiles ==
    ASSUME FilesInv, NEW ptr \in Int, NEW dir, _swilseek(ptr, dir)
    PROVE  FilesInv'
<1> DEFINE pos == openfiles[findslot(0)].pos
           p == ptr + (IF dir = "CUR" THEN pos ELSE 0)
           e == ptr + (IF dir = "CUR" THEN expected ELSE 0)
<1>1. findslot(0) # NoSlot /\ openfiles' = MovedTo(openfiles, findslot(0), p) /\ expected' = e
      /\ UNCHANGED <<inVars, files, shared>>
  BY DEF _swilseek, do_AngelSWI, MovedTo
<1>2. p \in Int /\ e \in Int
  BY <1>1, PositionType DEF FilesInv
<1>3. pos = expected => p = e
  OBVIOUS
<1> HIDE DEF p, e
<1> QED
  BY <1>1, <1>2, <1>3, PositionFiles

LEMMA OpenFiles ==
    ASSUME FilesInv, _open
    PROVE  FilesInv'
<1> DEFINE slot == Find(openfiles, -1)
           t2 == [openfiles EXCEPT ![slot] = [handle |-> 0, pos |-> 0]]
<1>1. findslot(-1) = slot
  BY FindslotIs
<1>2. /\ slot # NoSlot /\ openfiles' = t2 /\ files' = files + 1 /\ expected' = 0
      /\ shared' = (shared \/ files > 0 \/ \E i \in Slots : i < slot /\ openfiles[i].handle = 0)
      /\ unread' = unread /\ inbuf' = inbuf
  BY <1>1 DEF _open, Claimed, do_AngelSWI, inVars
<1>3. openfiles \in Table /\ files \in Nat /\ shared \in BOOLEAN
  BY DEF FilesInv
<1>4. slot \in Slots /\ Slots \subseteq Int
  BY <1>2, FindFacts DEF Slots
<1> HIDE DEF slot
<1>5. t2 \in Table /\ t2[slot].handle = 0 /\ t2[slot].pos = 0 /\ \A i \in Slots : i # slot => t2[i] = openfiles[i]
  BY <1>3, <1>4 DEF Table, Entry
<1> HIDE DEF t2
<1>6. ASSUME ~shared' PROVE Find(t2, 0) = slot
  <2>0. ~\E i \in Slots : i < slot /\ openfiles[i].handle = 0
    BY <1>2, <1>6, Zenon
  <2>1. ASSUME NEW j \in Slots, t2[j].handle = 0 PROVE slot <= j
    <3>1. CASE j = slot
      BY <1>4, <3>1
    <3>2. CASE j # slot
      <4>1. openfiles[j].handle = 0
        BY <1>5, <2>1, <3>2
      <4>2. ~(j < slot)
        BY <2>0, <4>1
      <4> QED
        BY <1>4, <4>2
    <3> QED
      BY <3>1, <3>2
  <2> QED
    BY <1>4, <1>5, <2>1, FindFacts
<1>7. shared' \in BOOLEAN
  BY <1>2
<1>8. FilesOK(t2, files', shared', expected')
  <2>0. files > 0 => shared'
    BY <1>2, Zenon
  <2>1. files' > 1 => shared'
    BY <1>2, <1>3, <2>0
  <2> QED
    BY <1>2, <1>5, <1>6, <2>1 DEF FilesOK
<1> QED
  BY <1>2, <1>3, <1>5, <1>7, <1>8 DEF FilesInv

LEMMA CloseFiles ==
    ASSUME FilesInv, _close
    PROVE  FilesInv'
<1> DEFINE slot == Find(openfiles, 0)
<1>1. findslot(0) = slot
  BY FindslotIs
<1>2. /\ slot # NoSlot /\ openfiles' = [openfiles EXCEPT ![slot].handle = -1]
      /\ files' = (IF files > 0 THEN files - 1 ELSE 0) /\ shared' = shared /\ expected' = expected
      /\ unread' = unread /\ inbuf' = inbuf
  BY <1>1 DEF _close, inVars
<1>3. openfiles \in Table /\ files \in Nat
  BY DEF FilesInv
<1>4. slot \in Slots
  BY <1>2, FindFacts
<1>5. openfiles' \in Table
  BY <1>2, <1>3, <1>4 DEF Table, Entry
<1>6. files' \in Nat /\ (files' >= 1 => shared')
  BY <1>2, <1>3 DEF FilesInv, FilesOK
<1> QED
  BY <1>2, <1>5, <1>6 DEF FilesInv, FilesOK

LEMMA FilesNext ==
    ASSUME FilesInv, [Next]_vars
    PROVE  FilesInv'
<1>1. ASSUME NEW got \in BOOLEAN, Refill(got) PROVE FilesInv'
  BY <1>1, RefillFiles
<1>2. CASE Getc
  BY <1>2 DEF Getc, FilesInv, fileVars
<1>3. CASE _open
  BY <1>3, OpenFiles
<1>4. CASE _close
  BY <1>4, CloseFiles
<1>5. ASSUME NEW n \in Counts, ReadFile(n) PROVE FilesInv'
  <2>1. n \in Int /\ _read(n) = n
    BY StdioConstants DEF _read, do_AngelSWI
  <2> QED
    BY <1>5, <2>1, TransferFiles DEF ReadFile
<1>6. ASSUME NEW n \in Counts, WriteFile(n) PROVE FilesInv'
  <2>1. n \in Nat /\ n \in Int
    BY StdioConstants
  <2>2. _write(0, n) = IF n = 0 THEN -1 ELSE n
    BY <2>1 DEF _write, _swiwrite
  <2>3. (IF _write(0, n) = -1 THEN 0 ELSE _write(0, n)) = n
    BY <2>1, <2>2
  <2> QED
    BY <1>6, <2>1, <2>3, TransferFiles DEF WriteFile
<1>7. ASSUME NEW n \in Offsets, NEW dir \in {"SET", "CUR", "END"}, _swilseek(n, dir) PROVE FilesInv'
  BY <1>7, StdioConstants, LseekFiles
<1>8. CASE Output
  BY <1>8 DEF Output, PrintOut, PrintErr, PrintDirect, FlushOut, setvbuf, FilesInv, fileVars, inVars
<1>9. CASE UNCHANGED vars
  BY <1>9 DEF FilesInv, vars, fileVars, inVars
<1> QED
  BY <1>1, <1>2, <1>3, <1>4, <1>5, <1>6, <1>7, <1>8, <1>9 DEF Next, Input, FileCalls

LEMMA FilesInvariant == Spec => []FilesInv
  BY FilesInit, FilesNext, PTL DEF Spec

\* OwnPosition of Stdio.tla for every size of the table and every sequence of
\* calls: the file that is open alone is at the position that the reads, writes
\* and seeks of its descriptor add up to, refills of stdin under the same handle
\* included, and not at one left by an earlier user of its slot.
THEOREM StdioOwnPosition == Spec => []OwnPosition
<1>1. FilesInv => OwnPosition
  BY FindslotIs DEF FilesInv, FilesOK, OwnPosition
<1> QED
  BY <1>1, FilesInvariant, PTL

\* A refill empties a stdout that is line buffered; one without a buffer holds
\* nothing.
LEMMA RefillEmpties ==
    ASSUME IInv, NEW got \in BOOLEAN, Refill(got)
    PROVE  stdout'.buf = << >> \/ stdout'.mode = "FBF"
<1> DEFINE S == lflush(Stream(stdout))
<1>1. stdout' = S.f /\ stdout \in FILE /\ GoodFile(stdout) /\ stdout.swr /\ console \in Seq(Nat)
  BY DEF Refill, IInv, StreamsOK, GoodFile
<1>2. Stream(stdout).f = stdout
  BY <1>1, StreamIs
<1>3. CASE stdout.mode = "LBF"
  <2>1. S = __sflush_r(Stream(stdout))
    BY <1>1, <1>2, <1>3 DEF lflush
  <2> QED
    BY <1>1, <2>1, FlushedStdout DEF Flushed, Empty
<1>4. CASE stdout.mode # "LBF"
  <2>1. stdout' = stdout
    BY <1>1, <1>2, <1>4 DEF lflush
  <2>2. stdout.mode \in {"NBF", "FBF"}
    BY <1>1, <1>4, FileFields DEF Mode
  <2>3. stdout.mode = "NBF" => stdout.buf = Empty
    BY <1>1 DEF GoodFile
  <2> QED
    BY <2>1, <2>2, <2>3 DEF Empty
<1> QED
  BY <1>3, <1>4

LEMMA RefillShows ==
    ASSUME IInv, NoSilentLoss', NEW got \in BOOLEAN, Refill(got)
    PROVE  unseen' = {}
<1> DEFINE S == lflush(Stream(stdout))
<1>1. /\ stdout' = S.f /\ console' = S.con /\ unseen' = HeldBack(S)
      /\ stderr' = stderr /\ printed' = printed /\ reported' = reported
  BY DEF Refill
<1>2. CASE S.f.mode = "FBF"
  BY <1>1, <1>2 DEF HeldBack
<1>3. CASE S.f.mode # "FBF"
  <2>1. stdout'.buf = << >> /\ stderr'.buf = << >>
    BY <1>1, <1>3, RefillEmpties, StderrBufferEmpty DEF Empty
  <2>2. Buffered' = {}
    BY <2>1 DEF Buffered, Streams, ToSet
  <2>3. DOMAIN printed \ ToSet(console') \subseteq reported
    BY <1>1, <2>2 DEF NoSilentLoss
  <2> QED
    BY <1>1, <1>3, <2>3 DEF HeldBack
<1> QED
  BY <1>2, <1>3

\* PromptShown of Stdio.tla for every buffer size and text: a read that goes to
\* the console finds all that was printed to a line buffered or unbuffered
\* stdout shown, or its loss reported.
THEOREM StdioPromptShown == Spec => []PromptShown
<1>1. Init => PromptShown
  BY DEF Init, PromptShown
<1>2. ASSUME IInv, NoSilentLoss', PromptShown, [Next]_vars PROVE PromptShown'
  <2>1. CASE \E got \in BOOLEAN : Refill(got)
    BY <1>2, <2>1, RefillShows DEF PromptShown
  <2>2. CASE Getc
    BY <1>2, <2>2 DEF PromptShown, Getc
  <2>3. CASE Output
    BY <1>2, <2>3 DEF PromptShown, Output, PrintOut, PrintErr, PrintDirect, FlushOut, setvbuf, inVars
  <2>4. CASE FileCalls
    BY <1>2, <2>4 DEF PromptShown, FileCalls, _open, _close, ReadFile, WriteFile, Transfer, _swilseek, inVars
  <2>5. CASE UNCHANGED vars
    BY <1>2, <2>5 DEF PromptShown, vars, inVars
  <2> QED
    BY <1>2, <2>1, <2>2, <2>3, <2>4, <2>5 DEF Next, Input
<1> QED
  BY <1>1, <1>2, StdioInvariant, StdioNoSilentLoss, PTL DEF Spec
=============================================================================
