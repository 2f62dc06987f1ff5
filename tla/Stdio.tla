------------------------------- MODULE Stdio --------------------------------
(***************************************************************************)
(* Character output and input of the C library: the streams of newlib      *)
(* (putc, puts, fputs, printf, fflush, setvbuf, getc) on top of the system *)
(* calls of sys/x64uefi/syscalls.c, whose host is a dummy and whose        *)
(* console is that of the firmware.                                        *)
(*                                                                         *)
(* The library is built without _FVWRITE_IN_STREAMIO: whatever prints,     *)
(* prints character by character with putc and stops at the first EOF.     *)
(* The characters the program prints are numbered; `printed' records for   *)
(* each who printed it and whether it is a newline.  On the console one    *)
(* number stands for what ub_outchar shows (carriage return included).     *)
(***************************************************************************)
EXTENDS Integers, Sequences, FiniteSets, SequencesExt

CONSTANTS
    BUFSIZ,
    MAX_OPEN_FILES,
    Texts,          \* what one call prints: sequences of "is a newline"
    BufSizes,       \* sizes passed to setvbuf
    Counts,         \* lengths passed to read and write
    Offsets,        \* offsets passed to lseek
    MaxPrinted,     \* bound: characters printed
    MaxPos          \* bound: file position, either way

ASSUME StdioConstants ==
    /\ BUFSIZ \in Nat \ {0} /\ BufSizes \subseteq Nat \ {0}
    /\ MAX_OPEN_FILES \in Nat
    /\ Texts \subseteq Seq(BOOLEAN)
    /\ Counts \subseteq Nat /\ Offsets \subseteq Int
    /\ MaxPrinted \in Nat /\ MaxPos \in Nat

VARIABLES
    uses,           \* which of the two independent halves this behaviour runs
    stdout, stderr, \* FILE
    unread,         \* stdin->_r, or -1 before stdin has a buffer
    inbuf,          \* stdin->_bf._size
    unseen,         \* history: what the reader of the console had not been shown
    openfiles,      \* the table of syscalls.c
    console,        \* numbers of the characters shown
    printed,        \* history: the characters printed, [from, nl]
    reported,       \* history: characters of calls that returned EOF
    files,          \* history: successful opens without a close
    shared,         \* history: two files have been open at a time
    expected        \* history: where the open file should be positioned

outVars == <<stdout, stderr, console, printed, reported>>
inVars == <<unread, inbuf, unseen>>
fileVars == <<openfiles, files, shared, expected>>
vars == <<uses, outVars, inVars, fileVars>>

-----------------------------------------------------------------------------
(* System calls.                                                           *)

do_AngelSWI == 0

Slots == 1 .. MAX_OPEN_FILES
NoSlot == MAX_OPEN_FILES + 1

findslot(fh) ==
    LET held == {i \in Slots : openfiles[i].handle = fh}
    IN  IF held = {} THEN NoSlot ELSE CHOOSE i \in held : \A j \in held : i <= j

\* What _swiwrite returns, which its caller takes for the bytes not written.
_swiwrite(file, len) == IF file \in {1, 2} THEN len ELSE 0

Shown(file, s) == IF file \in {1, 2} THEN s ELSE << >>

_write(file, len) ==
    LET x == _swiwrite(file, len)
    IN  IF x \in {-1, len} THEN -1 ELSE len - x

\* The dummy host reports 0 bytes not read; the buffer keeps what it had.
_read(len) == len - do_AngelSWI

-----------------------------------------------------------------------------
(* Streams.  S is a stream and the console, and whether EOF was returned.  *)

\* Mutant: the buffer is only emptied when the write succeeds.
FlushKeeps(S) ==
    LET f    == S.f
        t    == _write(f.file, Len(f.buf))
        idle == ~f.swr \/ ~f.base \/ f.buf = << >>
    IN  IF idle THEN [S EXCEPT !.eof = FALSE]
        ELSE [f   |-> IF t <= 0 THEN f ELSE [f EXCEPT !.buf = << >>, !.w = IF f.mode = "FBF" THEN f.size ELSE 0],
              con |-> S.con \o Shown(f.file, f.buf),
              eof |-> t <= 0]

\* __sflush_r: the buffer is empty again before the result of the write is
\* looked at.
__sflush_r(S) ==
    LET f       == S.f
        nothing == ~f.swr \/ ~f.base
        failed  == f.buf # << >> /\ _write(f.file, Len(f.buf)) <= 0
    IN  IF nothing THEN [S EXCEPT !.eof = FALSE]
        ELSE [f   |-> [f EXCEPT !.buf = << >>, !.w = IF f.mode = "FBF" THEN f.size ELSE 0],
              con |-> S.con \o Shown(f.file, f.buf),
              eof |-> failed]

_isatty(file) == file <= 2

\* __smakebuf_r, where `got' says whether malloc had memory.
__smakebuf_r(f, got) ==
    IF f.mode = "NBF" \/ ~got THEN [f EXCEPT !.base = TRUE, !.mode = "NBF", !.size = 1]
    ELSE [f EXCEPT !.base = TRUE, !.size = BUFSIZ, !.mode = IF _isatty(f.file) THEN "LBF" ELSE @]

__swsetup_r(f, got) ==
    LET g == IF f.base THEN f ELSE __smakebuf_r(f, got)
    IN  IF g.mode = "LBF" THEN [g EXCEPT !.swr = TRUE, !.w = 0, !.lbfsize = 0 - g.size]
        ELSE [g EXCEPT !.swr = TRUE, !.w = IF g.mode = "NBF" THEN 0 ELSE g.size]

Store(f, c) == [f EXCEPT !.w = @ - 1, !.buf = Append(@, c.id)]

FlushDue(f, c) == Len(f.buf) = f.size \/ (f.mode = "LBF" /\ c.nl)

__swbuf_r(S, c, got) ==
    LET f  == [S.f EXCEPT !.w = S.f.lbfsize]
        g  == IF f.swr /\ f.base THEN f ELSE __swsetup_r(f, got)
        S1 == [S EXCEPT !.f = g, !.eof = FALSE]
        S2 == IF Len(g.buf) >= g.size THEN __sflush_r(S1) ELSE S1
        S3 == [S2 EXCEPT !.f = Store(S2.f, c)]
    IN  IF S2.eof THEN S2 ELSE IF FlushDue(S3.f, c) THEN __sflush_r(S3) ELSE S3

\* Mutant: one character too many goes the short way.
RoomForOneMore(f, c) == f.w - 1 >= 0 \/ (f.w >= f.lbfsize /\ ~c.nl)

\* Whether putc puts c into the buffer without a call.
ShortWay(f, c) == f.w - 1 >= 0 \/ (f.w - 1 >= f.lbfsize /\ ~c.nl)

__sputc_r(S, c, got) ==
    IF ShortWay(S.f, c) THEN [S EXCEPT !.f = Store(S.f, c), !.eof = FALSE] ELSE __swbuf_r(S, c, got)

\* __sfputs_r, and the loops of puts and fputs: up to the first EOF.
__sfputs_r(S, text, got) ==
    LET after[i \in 0 .. Len(text)] ==
            IF i = 0 THEN S
            ELSE IF after[i - 1].eof THEN after[i - 1]
            ELSE __sputc_r(after[i - 1], text[i], got)
    IN  after[Len(text)]

Stream(f) == [f |-> f, con |-> console, eof |-> FALSE]

-----------------------------------------------------------------------------
\* std(): stdout is line buffered, stderr unbuffered; neither has a buffer.
std(file, swr, mode) ==
    [file |-> file, swr |-> swr, base |-> FALSE, mode |-> mode, size |-> 0,
     w |-> 0, lbfsize |-> 0, buf |-> << >>]

Init ==
    /\ uses \in {"console", "files"}
    /\ stdout = std(1, TRUE, "LBF")
    /\ stderr = std(2, FALSE, "NBF")
    /\ unread = -1
    /\ inbuf = 0
    /\ unseen = {}
    /\ openfiles = [i \in Slots |-> [handle |-> 0, pos |-> 0]]
    /\ console = << >>
    /\ printed = << >>
    /\ reported = {}
    /\ files = 0
    /\ shared = FALSE
    /\ expected = 0

Numbered(text) == [i \in DOMAIN text |-> [id |-> Len(printed) + i, nl |-> text[i]]]

\* The history of a call that printed text.
Recorded(from, text, eof) ==
    /\ printed' = printed \o [i \in DOMAIN text |-> [from |-> from, nl |-> text[i]]]
    /\ reported' = IF eof THEN reported \cup (Len(printed) + 1 .. Len(printed) + Len(text)) ELSE reported

RoomFor(text) == Len(printed) + Len(text) <= MaxPrinted

\* printf, puts, fputs, putchar.
PrintOut(text, got) ==
    LET S == __sfputs_r(Stream(stdout), Numbered(text), got)
    IN  /\ RoomFor(text)
        /\ stdout' = S.f
        /\ console' = S.con
        /\ Recorded("out", text, S.eof)
        /\ UNCHANGED <<stderr, inVars, fileVars>>

\* fprintf(stderr, ...), perror.
PrintErr(text, got) ==
    LET S == __sfputs_r(Stream(stderr), Numbered(text), got)
    IN  /\ RoomFor(text)
        /\ stderr' = S.f
        /\ console' = S.con
        /\ Recorded("err", text, S.eof)
        /\ UNCHANGED <<stdout, inVars, fileVars>>

\* ub_puts, ub_printf and the interpreter's own output go past the streams.
PrintDirect(text) ==
    /\ RoomFor(text)
    /\ console' = console \o [i \in DOMAIN text |-> Len(printed) + i]
    /\ Recorded("direct", text, FALSE)
    /\ UNCHANGED <<stdout, stderr, inVars, fileVars>>

FlushOut ==
    LET S == __sflush_r(Stream(stdout))
    IN  /\ stdout' = S.f
        /\ console' = S.con
        /\ UNCHANGED <<stderr, printed, reported, inVars, fileVars>>

\* Mutant: setvbuf leaves out the flush.
Unflushed(S) == [S EXCEPT !.f.buf = << >>]

\* The flush setvbuf begins with.
Drained(S) == __sflush_r(S)

\* setvbuf(stdout, ...): a buffer of the size asked for, or of BUFSIZ when
\* malloc refuses that, or none.
setvbuf(mode, size) ==
    LET S == Drained(Stream(stdout))
        f == [S.f EXCEPT !.lbfsize = 0, !.base = TRUE, !.mode = mode, !.size = size]
    IN  /\ stdout' = IF mode = "NBF" THEN [f EXCEPT !.w = 0]
                     ELSE IF mode = "LBF" THEN [f EXCEPT !.w = 0, !.lbfsize = 0 - size]
                     ELSE [f EXCEPT !.w = size]
        /\ console' = S.con
        /\ UNCHANGED <<stderr, printed, reported, inVars, fileVars>>

-----------------------------------------------------------------------------
(* Input.                                                                  *)

\* Mutant: the streams are not flushed before a read.
NoFlush(S) == S

\* lflush, for the one stream that can be line buffered.
lflush(S) == IF S.f.mode = "LBF" /\ S.f.swr THEN __sflush_r(S) ELSE S

\* What is left after a refill of `size' bytes and the character returned.
Refilled(size) == _read(size) - 1

\* The history of a refill: what stdout was to show by the newline or at once,
\* and neither showed nor reported as lost.
HeldBack(S) ==
    IF S.f.mode = "FBF" THEN {}
    ELSE {i \in DOMAIN printed : printed[i].from = "out"} \ (ToSet(S.con) \cup reported)

\* getc(stdin) with an empty buffer: __srefill_r.  The terminal makes stdin
\* line buffered, or a malloc that fails unbuffered; both flush.
Refill(got) ==
    LET size == IF unread # -1 THEN inbuf ELSE IF got THEN BUFSIZ ELSE 1
        S    == lflush(Stream(stdout))
        slot == findslot(0)
    IN  /\ unread <= 0
        /\ inbuf' = size
        /\ unread' = Refilled(size)
        /\ stdout' = S.f
        /\ console' = S.con
        /\ unseen' = HeldBack(S)
        /\ slot # NoSlot => openfiles[slot].pos + size <= MaxPos
        /\ openfiles' = IF slot = NoSlot THEN openfiles ELSE [openfiles EXCEPT ![slot].pos = @ + _read(size)]
        /\ expected' = IF files = 0 THEN expected ELSE expected + _read(size)
        /\ UNCHANGED <<stderr, printed, reported, files, shared>>

Getc ==
    /\ unread > 0
    /\ unread' = unread - 1
    /\ UNCHANGED <<inbuf, unseen, outVars, fileVars>>

-----------------------------------------------------------------------------
(* Files.  The dummy host gives every file the handle 0.                   *)

\* Mutant: a new file starts where the last user of its slot was.
StalePos(i) == [openfiles EXCEPT ![i].handle = do_AngelSWI]

Claimed(i) == [openfiles EXCEPT ![i] = [handle |-> do_AngelSWI, pos |-> 0]]

_open ==
    /\ findslot(-1) # NoSlot
    /\ openfiles' = Claimed(findslot(-1))
    /\ files' = files + 1
    /\ shared' = (shared \/ files > 0 \/ \E i \in Slots : i < findslot(-1) /\ openfiles[i].handle = 0)
    /\ expected' = 0
    /\ UNCHANGED <<outVars, inVars>>

_close ==
    /\ findslot(0) # NoSlot
    /\ openfiles' = [openfiles EXCEPT ![findslot(0)].handle = -1]
    /\ files' = IF files > 0 THEN files - 1 ELSE 0
    /\ shared' = shared
    /\ UNCHANGED <<outVars, inVars, expected>>

\* read and write of a file move its position by what they are said to have done.
Transfer(len, done) ==
    LET slot == findslot(0)
    IN  /\ files > 0
        /\ slot # NoSlot
        /\ openfiles[slot].pos + len <= MaxPos
        /\ openfiles' = [openfiles EXCEPT ![slot].pos = @ + done]
        /\ expected' = expected + len
        /\ UNCHANGED <<outVars, inVars, files, shared>>

ReadFile(len)  == Transfer(len, _read(len))
WriteFile(len) == Transfer(len, IF _write(0, len) = -1 THEN 0 ELSE _write(0, len))

\* lseek: SEEK_CUR adds to the position kept here, SEEK_END to the length the
\* host reports.
_swilseek(ptr, dir) ==
    LET slot == findslot(0)
        to   == ptr + (IF dir = "CUR" THEN openfiles[slot].pos ELSE do_AngelSWI)
    IN  /\ files > 0
        /\ slot # NoSlot
        /\ to \in -MaxPos .. MaxPos
        /\ openfiles' = [openfiles EXCEPT ![slot].pos = to]
        /\ expected' = ptr + (IF dir = "CUR" THEN expected ELSE 0)
        /\ UNCHANGED <<outVars, inVars, files, shared>>

Output ==
    \/ \E t \in Texts, got \in BOOLEAN : PrintOut(t, got) \/ PrintErr(t, got)
    \/ \E t \in Texts : PrintDirect(t)
    \/ FlushOut
    \/ \E size \in BufSizes \cup {BUFSIZ} : setvbuf("LBF", size) \/ setvbuf("FBF", size)
    \/ setvbuf("NBF", 1)

Input ==
    \/ \E got \in BOOLEAN : Refill(got)
    \/ Getc

FileCalls ==
    \/ _open
    \/ _close
    \/ \E n \in Counts : ReadFile(n) \/ WriteFile(n)
    \/ \E ptr \in Offsets, dir \in {"SET", "CUR", "END"} : _swilseek(ptr, dir)

\* Bound: output and file table share no state (only input touches both), so
\* a behaviour uses one of them.
Next ==
    /\ \/ uses = "console" /\ Output
       \/ uses = "files" /\ FileCalls
       \/ Input
    /\ uses' = uses

Spec == Init /\ [][Next]_vars

-----------------------------------------------------------------------------
Streams == {stdout, stderr}
Buffered == UNION {ToSet(f.buf) : f \in Streams}

\* No mixture of putc, flushes that fail and changes of the buffering mode
\* makes putc write behind its buffer: the counter it relies on agrees with
\* what the buffer holds.
BufferFits ==
    \A f \in Streams :
        /\ Len(f.buf) <= f.size
        /\ f.swr /\ f.base /\ f.mode # "NBF" => f.w = f.size + f.lbfsize * (IF f.mode = "LBF" THEN 1 ELSE 0) - Len(f.buf)

\* What is shown, and then what is still buffered, of each printer's output is
\* in the order it was printed, and nothing is shown twice, though every write
\* to the console is taken for a failure.
InOrder ==
    \A from \in {"out", "err", "direct"} :
        LET f   == IF from = "err" THEN stderr ELSE stdout
            all == console \o f.buf
        IN  \A i, j \in DOMAIN all :
                /\ printed[all[i]].from = from
                /\ printed[all[j]].from = from
                /\ i < j
                => all[i] < all[j]

\* Output that never appears is output of a call that returned EOF.
NoSilentLoss == DOMAIN printed \ (ToSet(console) \cup Buffered) \subseteq reported

\* Whenever the library goes to the console for characters, all that was printed
\* to stdout before, unless it is fully buffered, is on the console or its loss
\* was reported: nobody is asked for input by a prompt that is still in a buffer.
\* (Characters that an earlier refill left over are handed out without a flush.)
PromptShown == unseen = {}

\* As long as no second file is open, lseek reports the position that the reads,
\* writes and seeks of that descriptor since its open add up to (the refills of
\* stdin among them, which has the same handle), not one left by an earlier user.
OwnPosition == files = 1 /\ ~shared => openfiles[findslot(0)].pos = expected
=============================================================================
