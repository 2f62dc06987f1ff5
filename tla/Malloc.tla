------------------------------- MODULE Malloc -------------------------------
(***************************************************************************)
(* The allocator of newlib as UEFI_Libc links it (_mallocr.c: mALLOc,      *)
(* fREe, rEALLOc, cALLOc, malloc_extend_top, malloc_trim), composed with   *)
(* the break that ub_sbrk provides.                                        *)
(*                                                                         *)
(* Addresses and sizes are counted in words of SIZE_SZ bytes, so a chunk   *)
(* is aligned when its address is even.  A chunk is named by its address;  *)
(* `head' holds the size field (without and with its PREV_INUSE bit) and   *)
(* the prev_size field of the chunks that exist.  A prev_size the user may *)
(* overwrite is 0.  A bin is the sequence of its chunks, first to last,    *)
(* and only the bins with chunks are listed; bin 1 is last_remainder.      *)
(***************************************************************************)
EXTENDS Integers, Sequences, FiniteSets, FiniteSetsExt

CONSTANTS
    PageSize,       \* malloc_getpagesize, and PAGE_SIZE of ub_sbrk.c
    InitialPages,   \* INITIALPAGES of ub_sbrk.c
    InitialBase,    \* INITIAL_BASE of ub_sbrk.c
    AddrMod,        \* where addresses wrap
    HeapMax,        \* bound: no memory above this address
    TrimThreshold,  \* trim_threshold
    IntMax,         \* INT_MAX, in words
    Requests,       \* the sizes callers ask malloc for, in words
    Resizes,        \* the sizes callers ask realloc for
    Arrays,         \* the pairs (n, elem_size) callers pass to calloc
    MaxBlocks,      \* bound: blocks held at a time
    ForeignSizes,   \* what other callers of sbrk ask for
    ForeignMax      \* bound: words held by other callers of sbrk

\* The heap starts on a page; sizes of blocks are far below the address
\* space, so that only a request may wrap; and nobody else lowers the break.
ASSUME MallocConstants ==
    /\ PageSize \in Nat \ {0} /\ PageSize % 2 = 0
    /\ InitialPages \in Nat \ {0}
    /\ InitialBase \in Nat \ {0} /\ InitialBase % PageSize = 0
    /\ HeapMax \in Nat /\ IntMax \in Nat /\ AddrMod \in Nat /\ TrimThreshold \in Nat
    /\ InitialBase + InitialPages * PageSize <= HeapMax
    /\ HeapMax + IntMax + PageSize + 4 < AddrMod
    /\ Requests \subseteq 0 .. AddrMod - 1
    /\ Resizes \subseteq 0 .. AddrMod - 1
    /\ \A a \in Arrays : a[1] \in Nat /\ a[2] \in Nat
    /\ ForeignSizes \subseteq 1 .. AddrMod - HeapMax - 2

VARIABLES
    h,              \* av_ and the boundary tags: [head, bins, binblocks, top]
    sbrk_base,
    sbrked_mem,
    live,           \* chunk -> [size, intact] of the blocks callers hold
    pc,             \* where the call that is under way stands
    call,           \* its arguments and locals
    foreign,        \* words other callers of sbrk have obtained
    heap_base, heap_current, heap_limit, ret    \* the break

Brk == INSTANCE Break

brkVars == <<heap_base, heap_current, heap_limit, ret>>
vars == <<h, sbrk_base, sbrked_mem, live, pc, call, foreign, brkVars>>

NULL == -1              \* no chunk
INITIAL_TOP == -2       \* bin_at(0), which no chunk is
NO_BASE == -1           \* (char* )(-1) in sbrk_base
MINSIZE == 4            \* sizeof(struct malloc_chunk)
SMALL == 64             \* MAX_SMALLBIN_SIZE
LAST_REMAINDER == 1
PREV_INUSE == TRUE      \* the low bit of a size field: the chunk below is in use
CLEAR == FALSE

NoCall == [op |-> "none", old |-> NULL, req |-> 0, nb |-> 0, size |-> 0,
           brk |-> 0, front |-> 0, correction |-> 0]

\* The function f with the value x at p.
Put(f, p, x) == [c \in DOMAIN f \cup {p} |-> IF c = p THEN x ELSE f[c]]

\* The function f without its values at P.
Drop(f, P) == [c \in DOMAIN f \ P |-> f[c]]

Even(n) == 2 * (n \div 2)
PageUp(n) == ((n + PageSize - 1) \div PageSize) * PageSize

request2size(req) ==
    IF (req + 2) % AddrMod < MINSIZE + 1 THEN MINSIZE ELSE Even((req + 2) % AddrMod)

\* Mutant: only INT_MAX is looked at, and a request that wraps passes.
WrapPasses(req) == request2size(req) > IntMax

TooLarge(req) == request2size(req) > IntMax \/ request2size(req) < req

-----------------------------------------------------------------------------
(* Chunks and bins.                                                        *)

chunksize(H, p) == IF p = INITIAL_TOP THEN 0 ELSE H.head[p].size
next_chunk(H, p) == p + chunksize(H, p)
prev_chunk(H, p) == p - H.head[p].prev_size
prev_inuse(H, p) == H.head[p].prev_inuse
inuse(H, p) == prev_inuse(H, next_chunk(H, p))

Tag(prev_size, size, prev_inuse_bit) ==
    [prev_size |-> prev_size, size |-> size, prev_inuse |-> prev_inuse_bit]

\* set_head: the prev_size field is left alone; that of a chunk made just now
\* lies in what was the body of another.
set_head(H, p, size, bit) ==
    LET prev_size == IF p \in DOMAIN H.head THEN H.head[p].prev_size ELSE 0
    IN  [H EXCEPT !.head = Put(@, p, Tag(prev_size, size, bit))]

set_head_size(H, p, size) == [H EXCEPT !.head[p].size = size]

\* The chunk before p goes to a caller, whose data reaches into p's prev_size.
set_inuse(H, p) == [H EXCEPT !.head[p] = Tag(0, @.size, TRUE)]

set_foot(H, p, size) == [H EXCEPT !.head[p + size].prev_size = size]

\* The heads in P are now inside a larger chunk.
Absorb(H, P) == [H EXCEPT !.head = Drop(@, P)]

Bin(H, i) == IF i \in DOMAIN H.bins THEN H.bins[i] ELSE << >>

InBin(H, i, p) == \E k \in DOMAIN Bin(H, i) : Bin(H, i)[k] = p

SetBin(H, i, s) == [H EXCEPT !.bins = IF s = << >> THEN Drop(@, {i}) ELSE Put(@, i, s)]

bin_index(size) ==
    LET k == size \div 64
    IN  CASE k = 0     -> size
          [] k \in 1 .. 4    -> 56 + size \div 8
          [] k \in 5 .. 20   -> 91 + k
          [] k \in 21 .. 84  -> 110 + size \div 512
          [] k \in 85 .. 340 -> 119 + size \div 4096
          [] k \in 341 .. 1364 -> 124 + size \div 32768
          [] OTHER -> 126

Block(i) == i \div 4    \* BINBLOCKWIDTH

\* Mutant: a chunk goes to the front of its bin, whatever its size.
UnsortedLink(H, p, size) ==
    LET i == bin_index(size)
    IN  [SetBin(H, i, <<p>> \o Bin(H, i)) EXCEPT !.binblocks = @ \cup {Block(i)}]

\* frontlink: in front of the first chunk of the bin that is not larger.
frontlink(H, p, size) ==
    LET i == bin_index(size)
        b == Bin(H, i)
        k == Cardinality({j \in DOMAIN b : size < chunksize(H, b[j])})
        s == SubSeq(b, 1, k) \o <<p>> \o SubSeq(b, k + 1, Len(b))
    IN  [SetBin(H, i, s) EXCEPT !.binblocks = @ \cup {Block(i)}]

unlink(H, p) ==
    LET i == CHOOSE j \in DOMAIN H.bins : InBin(H, j, p)
        b == H.bins[i]
        k == CHOOSE j \in DOMAIN b : b[j] = p
    IN  IF \E j \in DOMAIN H.bins : InBin(H, j, p)
        THEN SetBin(H, i, SubSeq(b, 1, k - 1) \o SubSeq(b, k + 1, Len(b)))
        ELSE H

link_last_remainder(H, p) == SetBin(H, LAST_REMAINDER, <<p>>)
clear_last_remainder(H) == SetBin(H, LAST_REMAINDER, << >>)

-----------------------------------------------------------------------------
(* fREe                                                                    *)

FreeIntoTop(H, p) ==
    LET back == ~prev_inuse(H, p)
        q    == IF back THEN prev_chunk(H, p) ELSE p
        size == chunksize(H, p) + chunksize(H, H.top) + (IF back THEN H.head[p].prev_size ELSE 0)
        H1   == Absorb(IF back THEN unlink(H, q) ELSE H, {p, H.top} \ {q})
    IN  [set_head(H1, q, size, PREV_INUSE) EXCEPT !.top = q]

FreeIntoBins(H, p) ==
    LET next  == next_chunk(H, p)
        back  == ~prev_inuse(H, p)
        q     == IF back THEN prev_chunk(H, p) ELSE p
        islr  == back /\ InBin(H, LAST_REMAINDER, q)
        H1    == IF back /\ ~islr THEN unlink(H, q) ELSE H
        forth == ~inuse(H, next)
        nextlr == forth /\ ~islr /\ InBin(H1, LAST_REMAINDER, next)
        H2    == IF nextlr THEN link_last_remainder(H1, q)
                 ELSE IF forth THEN unlink(H1, next)
                 ELSE set_head(H1, next, chunksize(H, next), CLEAR)
        size  == chunksize(H, p) + (IF back THEN H.head[p].prev_size ELSE 0)
                                 + (IF forth THEN chunksize(H, next) ELSE 0)
        gone  == (IF back THEN {p} ELSE {}) \cup (IF forth THEN {next} ELSE {})
        H3    == set_foot(set_head(Absorb(H2, gone), q, size, PREV_INUSE), q, size)
    IN  IF islr \/ nextlr THEN H3 ELSE frontlink(H3, q, size)

fREe(H, p) == IF next_chunk(H, p) = H.top THEN FreeIntoTop(H, p) ELSE FreeIntoBins(H, p)

\* After a merge with top, fREe calls malloc_trim if top has grown too large.
Extra(H) == ((chunksize(H, H.top) - MINSIZE + PageSize - 1) \div PageSize - 1) * PageSize

TrimDue(before, after) ==
    /\ after.top # before.top
    /\ chunksize(after, after.top) >= TrimThreshold
    /\ Extra(after) >= PageSize

-----------------------------------------------------------------------------
(* mALLOc                                                                  *)

\* The chunk a walk from the last to the first of bin i stops at.
LastFitting(H, i, nb) ==
    LET fits == {k \in DOMAIN Bin(H, i) : chunksize(H, Bin(H, i)[k]) >= nb}
    IN  IF fits = {} THEN NULL ELSE Bin(H, i)[Max(fits)]

is_small_request(nb) == nb < SMALL - 1

\* The chunk of the request's own bin that fits with less than MINSIZE to spare.
ExactFit(H, nb) ==
    LET small == IF Bin(H, nb) # << >> THEN Bin(H, nb) ELSE Bin(H, nb + 1)
        large == LastFitting(H, bin_index(nb), nb)
    IN  IF is_small_request(nb) THEN (IF small = << >> THEN NULL ELSE small[Len(small)])
        ELSE IF large # NULL /\ chunksize(H, large) - nb < MINSIZE THEN large
        ELSE NULL

\* Mutant: the scan of a large request always starts one bin later.
NextBin(H, nb) == IF is_small_request(nb) THEN nb + 2 ELSE bin_index(nb) + 1

\* Where the scan of the bins begins: a large bin with chunks that are too
\* large for an exact fit is scanned again.
ScanFrom(H, nb) ==
    IF is_small_request(nb) THEN nb + 2
    ELSE IF LastFitting(H, bin_index(nb), nb) # NULL THEN bin_index(nb)
    ELSE bin_index(nb) + 1

TakeWhole(H, victim) ==
    [h |-> set_inuse(unlink(H, victim), next_chunk(H, victim)), victim |-> victim]

\* Mutant: the footer of the remainder is not written.
SplitNoFoot(H, victim, nb) ==
    LET remainder == victim + nb
        size      == chunksize(H, victim) - nb
        H1        == link_last_remainder(unlink(H, victim), remainder)
        H2        == set_head(set_head(H1, victim, nb, PREV_INUSE), remainder, size, PREV_INUSE)
    IN  [h |-> H2, victim |-> victim]

SplitChunk(H, victim, nb) ==
    LET remainder == victim + nb
        size      == chunksize(H, victim) - nb
        H1        == link_last_remainder(unlink(H, victim), remainder)
        H2        == set_head(set_head(H1, victim, nb, PREV_INUSE), remainder, size, PREV_INUSE)
    IN  [h |-> set_foot(H2, remainder, size), victim |-> victim]

TakeOrSplit(H, victim, nb) ==
    IF chunksize(H, victim) - nb >= MINSIZE THEN SplitChunk(H, victim, nb) ELSE TakeWhole(H, victim)

\* The blocks searched to the end are empty.  The one the search began in is
\* looked at again, from its first bin to the one before.
Emptied(H, passed, start) ==
    {b \in passed : b = Block(start) => \A i \in 4 * b .. start - 1 : Bin(H, i) = << >>}

\* The smallest bin from idx on, in a marked block, with a chunk that fits.
BestFit(H, nb, idx) ==
    LET marked == {b \in H.binblocks : b >= Block(idx)}
        start  == IF Block(idx) \in marked THEN idx ELSE 4 * Min(marked)
        fits   == {i \in DOMAIN H.bins :
                      i >= start /\ Block(i) \in marked /\ LastFitting(H, i, nb) # NULL}
        passed == {b \in marked : \A i \in fits : b < Block(i)}
        H1     == [H EXCEPT !.binblocks = @ \ Emptied(H, passed, start)]
    IN  IF marked = {} THEN [h |-> H, victim |-> NULL]
        ELSE IF fits = {} THEN [h |-> H1, victim |-> NULL]
        ELSE TakeOrSplit(H1, LastFitting(H, Min(fits), nb), nb)

\* Everything mALLOc tries before it turns to top.
FromBins(H, nb) ==
    LET exact == ExactFit(H, nb)
        left  == IF Bin(H, LAST_REMAINDER) = << >> THEN NULL ELSE Bin(H, LAST_REMAINDER)[1]
        H1    == IF left = NULL THEN H
                 ELSE frontlink(clear_last_remainder(H), left, chunksize(H, left))
    IN  IF exact # NULL THEN TakeWhole(H, exact)
        ELSE IF left # NULL /\ chunksize(H, left) >= nb THEN TakeOrSplit(H, left, nb)
        ELSE BestFit(H1, nb, ScanFrom(H, nb))

TopFits(H, nb) == chunksize(H, H.top) >= nb + MINSIZE

FromTop(H, nb) ==
    LET H1 == set_head(set_head(H, H.top + nb, chunksize(H, H.top) - nb, PREV_INUSE), H.top, nb, PREV_INUSE)
    IN  [H1 EXCEPT !.top = @ + nb]

-----------------------------------------------------------------------------
(* The calls.  Everything between two calls of ub_sbrk is one step.        *)

Init ==
    /\ h = [head |-> << >>, bins |-> << >>, binblocks |-> {}, top |-> INITIAL_TOP]
    /\ sbrk_base = NO_BASE
    /\ sbrked_mem = 0
    /\ live = << >>
    /\ pc = "idle"
    /\ call = NoCall
    /\ foreign = {}
    /\ Brk!Init

\* The answer of ub_sbrk is looked at once.
AnswerRead == ret' = Brk!NULL /\ UNCHANGED <<heap_base, heap_current, heap_limit>>

\* Return to the caller, through malloc_trim when fREe has made top too large.
ReturnVia(before, after) ==
    /\ h' = after
    /\ pc' = IF TrimDue(before, after) THEN "trim" ELSE "idle"
    /\ call' = NoCall

Fail ==
    /\ pc' = "idle"
    /\ call' = NoCall
    /\ UNCHANGED live

\* The block `old', of which `copied' words were kept, is now at newp.
Moved(old, newp, copied, req) ==
    LET intact == live[old].intact /\ (copied >= live[old].size \/ copied >= req)
    IN  live' = Put(Drop(live, {old}), newp, [size |-> req, intact |-> intact])

\* split: the chunk newp of newsize words serves a request of nb; what is left
\* over is made a chunk in use and given to fREe.
SplitRest(H, old, newp, newsize, nb, copied, req) ==
    LET rest == newp + nb
        H1   == set_head(set_head_size(H, newp, nb), rest, newsize - nb, PREV_INUSE)
        H2   == set_inuse(H1, newp + newsize)
        H3   == set_inuse(set_head_size(H, newp, newsize), newp + newsize)
    IN  /\ IF newsize - nb >= MINSIZE THEN ReturnVia(H2, fREe(H2, rest)) ELSE ReturnVia(H3, H3)
        /\ Moved(old, newp, copied, req)

\* mALLOc returns chunk v to the call c.
Deliver(c, H, v) ==
    \/ /\ c.op = "malloc"
       /\ ReturnVia(H, H)
       /\ live' = Put(live, v, [size |-> c.req, intact |-> TRUE])
    \/ /\ c.op = "realloc"
       /\ v = next_chunk(H, c.old)
       /\ SplitRest(Absorb(H, {v}), c.old, c.old, chunksize(H, c.old) + chunksize(H, v), c.nb, AddrMod, c.req)
    \/ /\ c.op = "realloc"
       /\ v # next_chunk(H, c.old)
       /\ ReturnVia(H, fREe(H, c.old))
       /\ Moved(c.old, v, chunksize(H, c.old) - 1, c.req)

sbrk_size(nb) == IF sbrk_base = NO_BASE THEN nb + MINSIZE ELSE PageUp(nb + MINSIZE)

mALLOc(op, old, req) ==
    LET nb  == request2size(req)
        c   == [NoCall EXCEPT !.op = op, !.old = old, !.req = req, !.nb = nb, !.size = sbrk_size(nb)]
        got == FromBins(h, nb)
    IN  /\ ~TooLarge(req)
        /\ \/ got.victim # NULL /\ Deliver(c, got.h, got.victim)
           \/ got.victim = NULL /\ TopFits(got.h, nb) /\ Deliver(c, FromTop(got.h, nb), got.h.top)
           \/ /\ got.victim = NULL
              /\ ~TopFits(got.h, nb)
              /\ h' = got.h
              /\ pc' = "extend"
              /\ call' = c
              /\ UNCHANGED live
        /\ UNCHANGED <<sbrk_base, sbrked_mem, foreign, brkVars>>

Malloc(req) ==
    /\ pc = "idle"
    /\ Cardinality(DOMAIN live) < MaxBlocks
    /\ mALLOc("malloc", NULL, req)

\* The product of n and elem_size is checked, and the block cleared whole.
Calloc(n, elem_size) ==
    /\ pc = "idle"
    /\ Cardinality(DOMAIN live) < MaxBlocks
    /\ n * elem_size < AddrMod
    /\ mALLOc("malloc", NULL, n * elem_size)

Free(p) ==
    /\ pc = "idle"
    /\ ReturnVia(h, fREe(h, p))
    /\ live' = Drop(live, {p})
    /\ UNCHANGED <<sbrk_base, sbrked_mem, foreign, brkVars>>

-----------------------------------------------------------------------------
(* malloc_extend_top                                                       *)

old_end == next_chunk(h, h.top)

ExtendCall ==
    /\ pc = "extend"
    /\ Brk!Call(call.size)
    /\ pc' = "extended"
    /\ UNCHANGED <<h, sbrk_base, sbrked_mem, live, call, foreign>>

MorecoreFailed == ret = Brk!ERROR \/ (h.top # INITIAL_TOP /\ ret < old_end)

ExtendFails ==
    /\ pc = "extended"
    /\ MorecoreFailed
    /\ Fail
    /\ AnswerRead
    /\ UNCHANGED <<h, sbrk_base, sbrked_mem, foreign>>

ContinuesTop == h.top # INITIAL_TOP /\ ret = old_end /\ old_end % PageSize = 0

\* mALLOc goes on with the new top.
UseTop(H) ==
    IF TopFits(H, call.nb) THEN Deliver(call, FromTop(H, call.nb), H.top) ELSE h' = H /\ Fail

ExtendInPlace ==
    /\ pc = "extended"
    /\ ~MorecoreFailed
    /\ ContinuesTop
    /\ sbrked_mem' = sbrked_mem + call.size
    /\ UseTop(set_head(h, h.top, chunksize(h, h.top) + call.size, PREV_INUSE))
    /\ AnswerRead
    /\ UNCHANGED <<sbrk_base, foreign>>

\* Mutant: the correction leaves out the words skipped for alignment.
NoFront(brk, front) == (PageSize - ((brk + front + call.size) % PageSize)) % PageSize

Correction(brk, front) == (front + PageSize - ((brk + front + call.size) % PageSize)) % PageSize

\* The new space does not continue top: align its start and its end.
ExtendElsewhere ==
    LET front == ret % 2
    IN  /\ pc = "extended"
        /\ ~MorecoreFailed
        /\ ~ContinuesTop
        /\ sbrk_base' = IF sbrk_base = NO_BASE THEN ret ELSE sbrk_base
        /\ sbrked_mem' = sbrked_mem + call.size + (IF sbrk_base = NO_BASE THEN 0 ELSE ret - old_end)
        /\ call' = [call EXCEPT !.brk = ret + front, !.front = front, !.correction = Correction(ret, front)]
        /\ pc' = "correct"
        /\ AnswerRead
        /\ UNCHANGED <<h, live, foreign>>

CorrectCall ==
    /\ pc = "correct"
    /\ Brk!Call(call.correction)
    /\ pc' = "corrected"
    /\ UNCHANGED <<h, sbrk_base, sbrked_mem, live, call, foreign>>

\* Mutant: no room is taken off the old top for the fenceposts.
FenceBehind(H, old_top) ==
    LET size == Even(chunksize(H, old_top))
        H1   == set_head_size(H, old_top, size)
        H2   == set_head(set_head(H1, old_top + size, 1, PREV_INUSE), old_top + size + 1, 1, PREV_INUSE)
    IN  IF size >= MINSIZE THEN fREe(H2, old_top) ELSE H2

\* The rest of the old top is closed with two fenceposts and freed.
FenceOff(H, old_top) ==
    LET size == Even(chunksize(H, old_top) - 3)
        H1   == set_head_size(H, old_top, size)
        H2   == set_head(set_head(H1, old_top + size, 1, PREV_INUSE), old_top + size + 1, 1, PREV_INUSE)
    IN  IF size >= MINSIZE THEN fREe(H2, old_top) ELSE H2

NewTop ==
    LET end == IF ret = Brk!ERROR THEN call.brk + call.size - call.front ELSE ret + call.correction
        H1  == [set_head(h, call.brk, end - call.brk, PREV_INUSE) EXCEPT !.top = call.brk]
    IN  IF h.top = INITIAL_TOP THEN H1
        ELSE IF chunksize(h, h.top) < MINSIZE THEN set_head(H1, call.brk, 0, PREV_INUSE)
        ELSE FenceOff(H1, h.top)

ExtendEnds ==
    /\ pc = "corrected"
    /\ sbrked_mem' = sbrked_mem + (IF ret = Brk!ERROR THEN 0 ELSE call.correction)
    /\ UseTop(NewTop)
    /\ AnswerRead
    /\ UNCHANGED <<sbrk_base, foreign>>

-----------------------------------------------------------------------------
(* rEALLOc                                                                 *)

\* Mutant: the words of a block that moves down are not copied.
ShiftNoCopy(old, prev, newsize, nb, req, H) ==
    SplitRest(H, old, prev, newsize, nb, 0, req)

\* The block moves down to prev: its usable words are copied first.
ShiftDown(old, prev, newsize, nb, req, H) ==
    SplitRest(H, old, prev, newsize, nb, chunksize(h, old) - 1, req)

\* The block at newp ends at nb; the rest of top is the new top.
IntoTop(H, old, newp, nb, copied, req) ==
    LET newsize == H.top + chunksize(H, H.top) - newp
        gone    == {old, H.top} \ {newp}
        H1      == set_head(Absorb(H, gone), newp + nb, newsize - nb, PREV_INUSE)
        H2      == [set_head_size(H1, newp, nb) EXCEPT !.top = newp + nb]
    IN  ReturnVia(H2, H2) /\ Moved(old, newp, copied, req)

Realloc(old, req) ==
    LET nb       == request2size(req)
        oldsize  == chunksize(h, old)
        next     == next_chunk(h, old)
        attop    == next = h.top
        nextfree == ~attop /\ ~inuse(h, next)
        nextsize == IF attop \/ nextfree THEN chunksize(h, next) ELSE 0
        forward  == \/ attop /\ oldsize + nextsize >= nb + MINSIZE
                    \/ nextfree /\ oldsize + nextsize >= nb
        prevfree == ~prev_inuse(h, old)
        prev     == prev_chunk(h, old)
        prevsize == IF prevfree THEN chunksize(h, prev) ELSE 0
        bothways == \/ attop /\ prevsize + oldsize + nextsize >= nb + MINSIZE
                    \/ nextfree /\ prevsize + oldsize + nextsize >= nb
        backward == prevsize + oldsize >= nb
    IN  /\ pc = "idle"
        /\ ~TooLarge(req)
        /\ \/ /\ oldsize >= nb
              /\ SplitRest(h, old, old, oldsize, nb, AddrMod, req)
              /\ UNCHANGED <<sbrk_base, sbrked_mem, foreign, brkVars>>
           \/ /\ oldsize < nb /\ forward /\ attop
              /\ IntoTop(h, old, old, nb, AddrMod, req)
              /\ UNCHANGED <<sbrk_base, sbrked_mem, foreign, brkVars>>
           \/ /\ oldsize < nb /\ forward /\ nextfree
              /\ SplitRest(Absorb(unlink(h, next), {next}), old, old, oldsize + nextsize, nb, AddrMod, req)
              /\ UNCHANGED <<sbrk_base, sbrked_mem, foreign, brkVars>>
           \/ /\ oldsize < nb /\ ~forward /\ prevfree /\ bothways /\ attop
              /\ IntoTop(unlink(h, prev), old, prev, nb, oldsize - 1, req)
              /\ UNCHANGED <<sbrk_base, sbrked_mem, foreign, brkVars>>
           \/ /\ oldsize < nb /\ ~forward /\ prevfree /\ bothways /\ nextfree
              /\ ShiftDown(old, prev, prevsize + oldsize + nextsize, nb, req,
                           Absorb(unlink(unlink(h, next), prev), {old, next}))
              /\ UNCHANGED <<sbrk_base, sbrked_mem, foreign, brkVars>>
           \/ /\ oldsize < nb /\ ~forward /\ prevfree /\ ~bothways /\ backward
              /\ ShiftDown(old, prev, prevsize + oldsize, nb, req, Absorb(unlink(h, prev), {old}))
              /\ UNCHANGED <<sbrk_base, sbrked_mem, foreign, brkVars>>
           \/ /\ oldsize < nb /\ ~forward /\ ~(prevfree /\ (bothways \/ backward))
              /\ mALLOc("realloc", old, req)

-----------------------------------------------------------------------------
(* malloc_trim, called by fREe with top_pad = 0.                           *)

TrimSkipped ==
    /\ pc = "trim"
    /\ heap_current # old_end
    /\ pc' = "idle"
    /\ UNCHANGED <<h, sbrk_base, sbrked_mem, live, call, foreign, brkVars>>

TrimCall ==
    /\ pc = "trim"
    /\ heap_current = old_end
    /\ Brk!Call(AddrMod - Extra(h))
    /\ pc' = "trimmed"
    /\ UNCHANGED <<h, sbrk_base, sbrked_mem, live, call, foreign>>

TrimEnds ==
    LET left == IF ret = Brk!ERROR THEN heap_current - h.top ELSE chunksize(h, h.top) - Extra(h)
    IN  /\ pc = "trimmed"
        /\ h' = IF left >= MINSIZE THEN set_head(h, h.top, left, PREV_INUSE) ELSE h
        /\ sbrked_mem' = IF ret # Brk!ERROR THEN sbrked_mem - Extra(h)
                         ELSE IF left >= MINSIZE THEN heap_current - sbrk_base
                         ELSE sbrked_mem
        /\ pc' = "idle"
        /\ AnswerRead
        /\ UNCHANGED <<sbrk_base, live, call, foreign>>

-----------------------------------------------------------------------------
\* Another caller of sbrk, between two calls of the allocator.
ForeignSbrk(n) ==
    /\ pc = "idle"
    /\ Cardinality(foreign) + n <= ForeignMax
    /\ Brk!Call(n)
    /\ foreign' = foreign \cup (IF ret' = Brk!ERROR THEN {} ELSE ret' .. (ret' + n - 1))
    /\ UNCHANGED <<h, sbrk_base, sbrked_mem, live, pc, call>>

\* What the thread does inside a call, once it has begun.
Step ==
    \/ ExtendCall
    \/ ExtendFails
    \/ ExtendInPlace
    \/ ExtendElsewhere
    \/ CorrectCall
    \/ ExtendEnds
    \/ TrimSkipped
    \/ TrimCall
    \/ TrimEnds

Next ==
    \/ Step
    \/ \E req \in Requests : Malloc(req)
    \/ \E a \in Arrays : Calloc(a[1], a[2])
    \/ \E p \in DOMAIN live : Free(p)
    \/ \E p \in DOMAIN live, req \in Resizes : Realloc(p, req)
    \/ \E n \in ForeignSizes : ForeignSbrk(n)

Spec == Init /\ [][Next]_vars

-----------------------------------------------------------------------------
(* Properties.                                                             *)

Chunks == DOMAIN h.head
FreeChunks == UNION {{h.bins[i][k] : k \in DOMAIN h.bins[i]} : i \in DOMAIN h.bins}
Fences == {c \in Chunks \ {h.top} : chunksize(h, c) < MINSIZE}
After(c) == c + chunksize(h, c)

\* The chunks lie side by side without overlapping, nothing but top and the
\* last fencepost of a segment (whose address is odd) is without a successor,
\* a chunk is free, held by a caller, top, or too small to be used (a fencepost,
\* or the rest of an old top in front of it), none of them takes in a
\* word another caller of sbrk was given, and a caller's block ends before the
\* size field of the next chunk.
Tiled ==
    /\ \A c, d \in Chunks : c < d => After(c) <= d
    /\ \A c \in Chunks : c = h.top \/ After(c) \in Chunks \/ (c \in Fences /\ c % 2 = 1)
    /\ \A c \in Chunks, w \in foreign : w < c \/ After(c) <= w
    /\ Chunks = FreeChunks \cup DOMAIN live \cup Fences \cup ({h.top} \ {INITIAL_TOP})
    /\ \A c \in DOMAIN live : live[c].size <= chunksize(h, c) - 1

\* What do_check_free_chunk and do_check_inuse_chunk assert: the tags of a
\* chunk tell whether its neighbour below is free and how large it is, and no
\* free chunk has a free neighbour.
BoundaryTags ==
    \A c \in Chunks \ ({h.top} \cup Fences) :
        LET next == After(c)
        IN  /\ chunksize(h, c) >= MINSIZE /\ chunksize(h, c) % 2 = 0 /\ c % 2 = 0
            /\ prev_inuse(h, next) = (c \notin FreeChunks)
            /\ c \in FreeChunks => /\ h.head[next].prev_size = chunksize(h, c)
                                   /\ next \notin FreeChunks /\ next # h.top
                                   /\ prev_inuse(h, c)

\* A free chunk is in one bin, the one of its size or the last remainder;
\* large bins are sorted; and the block of a bin with chunks is marked, so
\* that no search passes it by.
BinsSound ==
    /\ \A i \in DOMAIN h.bins : \A k \in DOMAIN h.bins[i] :
          /\ i \in {LAST_REMAINDER, bin_index(chunksize(h, h.bins[i][k]))}
          /\ \A j \in DOMAIN h.bins : \A l \in DOMAIN h.bins[j] :
                /\ h.bins[i][k] = h.bins[j][l] => i = j /\ k = l
                /\ i = j /\ k < l => chunksize(h, h.bins[i][k]) >= chunksize(h, h.bins[i][l])
    /\ \A i \in DOMAIN h.bins : i = LAST_REMAINDER \/ Block(i) \in h.binblocks
    /\ DOMAIN h.bins \cap {LAST_REMAINDER} # {} => Len(h.bins[LAST_REMAINDER]) = 1

\* The heap is only extended when no free chunk would do: no search misses one.
ExtendsWhenNeeded ==
    pc = "extend" => \A c \in FreeChunks : chunksize(h, c) < call.nb

\* What malloc_extend_top asserts at its end, and do_check_chunk: top ends at a
\* page boundary, where the memory that is accounted for ends; and as long as
\* nobody else calls sbrk that is the break, so that the next extension
\* continues top and malloc_trim may give memory back.
TopAtPageEnd ==
    pc \in {"idle", "extend", "trim"} /\ h.top # INITIAL_TOP =>
        /\ old_end % PageSize = 0
        /\ old_end = sbrk_base + sbrked_mem
        /\ chunksize(h, h.top) >= MINSIZE
        /\ foreign = {} => heap_current = old_end

\* The allocator with its chunks, bins and calls of ub_sbrk is an allocator.
Abstract == INSTANCE Allocator WITH
    Requests <- Requests \cup Resizes \cup {a[1] * a[2] : a \in Arrays},
    blocks   <- live
ImplementsAllocator == Abstract!Spec
=============================================================================
