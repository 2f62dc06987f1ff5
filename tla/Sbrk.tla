-------------------------------- MODULE Sbrk --------------------------------
(***************************************************************************)
(* The program break of UEFI_Libc: ub_sbrk() of ub_sbrk.c on top of the    *)
(* firmware's AllocatePages boot service.                                  *)
(*                                                                         *)
(* An address is a natural number below AddrMod (pointer arithmetic wraps  *)
(* there, as `unsigned long' does), NULL is 0 and (VOID * )-1 is the       *)
(* largest address.  A page is the number of its first byte divided by     *)
(* PageSize.  The firmware and its drivers own the pages in `taken' and    *)
(* may take and release pages between two calls; the pages in `owned' were *)
(* handed to ub_sbrk.                                                      *)
(***************************************************************************)
EXTENDS Integers, FiniteSets

CONSTANTS
    PageSize,       \* PAGE_SIZE, bytes per page
    InitialPages,   \* INITIALPAGES, pages asked for by the first call
    InitialPage,    \* INITIAL_BASE / PAGE_SIZE
    LastPage,       \* the firmware hands out pages 1 .. LastPage
    AddrMod,        \* 2^64 in the code: where addresses wrap
    MaxIncrement    \* bound: the largest growth one call asks for

ASSUME SbrkConstants ==
    /\ PageSize \in Nat \ {0}
    /\ InitialPages \in Nat \ {0}
    /\ InitialPage \in Nat \ {0}
    /\ LastPage \in Nat
    /\ InitialPage + InitialPages - 1 <= LastPage
    /\ MaxIncrement \in Nat
    /\ AddrMod \in Nat
    /\ (InitialPage + LastPage) * PageSize + MaxIncrement < AddrMod - 1

VARIABLES
    heap_base,      \* static VOID *heap_base
    heap_current,   \* static VOID *heap_current, the break
    heap_limit,     \* static VOID *heap_limit
    ret,            \* what the latest call returned
    owned,          \* pages AllocatePages has given to ub_sbrk
    taken,          \* pages held by the firmware and its drivers
    origin,         \* history: the value the break started from
    adjacent        \* history: every AllocateAnyPages answer began at heap_limit

vars == <<heap_base, heap_current, heap_limit, ret, owned, taken, origin, adjacent>>

Pages == 1 .. LastPage
NULL == 0
ERROR == AddrMod - 1                    \* (VOID * )-1
InitialBase == InitialPage * PageSize   \* INITIAL_BASE

\* n pages from page p on.
Run(p, n) == p .. (p + n - 1)

\* The pages nobody holds (external).
Free == Pages \ (owned \cup taken)

\* AllocatePages(AllocateAddress, ...) succeeds only on free pages (external).
InitialFree == Run(InitialPage, InitialPages) \subseteq Free

-----------------------------------------------------------------------------
Init ==
    /\ heap_base = NULL
    /\ heap_current = NULL
    /\ heap_limit = NULL
    /\ ret = NULL
    /\ owned = {}
    /\ taken \in SUBSET Pages
    /\ origin = NULL
    /\ adjacent = TRUE

\* ub_sbrk(0): the current break.
Query ==
    /\ ret' = heap_current
    /\ UNCHANGED <<heap_base, heap_current, heap_limit, owned, taken, origin, adjacent>>

\* The first call with an increment, when the fixed range is not free: the
\* in-out parameter keeps INITIAL_BASE, so heap_base is no longer NULL.
FirstFails ==
    /\ heap_base = NULL
    /\ ~InitialFree
    /\ heap_base' = InitialBase
    /\ ret' = ERROR
    /\ UNCHANGED <<heap_current, heap_limit, owned, taken, origin, adjacent>>

\* The heap as the second half of ub_sbrk sees it, with the fixed range
\* obtained first if this is the first call.
Base   == IF heap_base = NULL THEN InitialBase ELSE heap_base
Cur    == IF heap_base = NULL THEN InitialBase ELSE heap_current
Lim    == IF heap_base = NULL THEN InitialBase + InitialPages * PageSize ELSE heap_limit
Own    == IF heap_base = NULL THEN Run(InitialPage, InitialPages) ELSE owned
Origin == IF heap_base = NULL THEN InitialBase ELSE origin

HeapReady == heap_base # NULL \/ InitialFree

\* AllocatePages(AllocateAnyPages, ...) may answer with any n consecutive
\* free pages, and fails when there are none (external).
AnyRun(n) == {p \in Pages : Run(p, n) \subseteq Pages \ (Own \cup taken)}

NewBreak(increment) == (Cur + increment) % AddrMod

\* Mutant: the division forgets to round up.
RoundedDown(new_break) == (new_break - Lim) \div PageSize

AdditionalPages(new_break) == (new_break - Lim + PageSize - 1) \div PageSize

\* Mutant: the status of the first AllocatePages is not looked at.
StatusIgnored(increment) ==
    /\ NewBreak(increment) <= Lim
    /\ heap_base' = Base
    /\ heap_current' = NewBreak(increment)
    /\ heap_limit' = Lim
    /\ owned' = Own
    /\ origin' = Origin
    /\ ret' = Cur
    /\ UNCHANGED <<taken, adjacent>>

\* Mutant: the new break is returned, not the old one.
ReturnsNewBreak(increment) ==
    /\ HeapReady
    /\ NewBreak(increment) <= Lim
    /\ heap_base' = Base
    /\ heap_current' = NewBreak(increment)
    /\ heap_limit' = Lim
    /\ owned' = Own
    /\ origin' = Origin
    /\ ret' = NewBreak(increment)
    /\ UNCHANGED <<taken, adjacent>>

\* The new break lies inside the pages already counted in.
MoveBreak(increment) ==
    /\ HeapReady
    /\ NewBreak(increment) <= Lim
    /\ heap_base' = Base
    /\ heap_current' = NewBreak(increment)
    /\ heap_limit' = Lim
    /\ owned' = Own
    /\ origin' = Origin
    /\ ret' = Cur
    /\ UNCHANGED <<taken, adjacent>>

\* Mutant: the limit becomes the new break, not the end of its last page.
LimitAtBreak(increment, p) ==
    LET additional_pages == AdditionalPages(NewBreak(increment))
    IN  /\ HeapReady
        /\ NewBreak(increment) > Lim
        /\ p \in AnyRun(additional_pages)
        /\ heap_base' = Base
        /\ heap_current' = NewBreak(increment)
        /\ heap_limit' = NewBreak(increment)
        /\ owned' = Own \cup Run(p, additional_pages)
        /\ origin' = Origin
        /\ adjacent' = (adjacent /\ p * PageSize = Lim)
        /\ ret' = Cur
        /\ UNCHANGED taken

\* More pages are needed; the firmware answers with the run that starts at
\* page p.  The address it stores in heap_limit is overwritten by hl, and the
\* limit is raised as if the run began there.
GrowAt(increment, p) ==
    LET additional_pages == AdditionalPages(NewBreak(increment))
    IN  /\ HeapReady
        /\ NewBreak(increment) > Lim
        /\ p \in AnyRun(additional_pages)
        /\ heap_base' = Base
        /\ heap_current' = NewBreak(increment)
        /\ heap_limit' = Lim + additional_pages * PageSize
        /\ owned' = Own \cup Run(p, additional_pages)
        /\ origin' = Origin
        /\ adjacent' = (adjacent /\ p * PageSize = Lim)
        /\ ret' = Cur
        /\ UNCHANGED taken

\* Mutant: the limit is raised before the status is looked at.
RaisedAnyway(increment) ==
    /\ HeapReady
    /\ NewBreak(increment) > Lim
    /\ AnyRun(AdditionalPages(NewBreak(increment))) = {}
    /\ heap_base' = Base
    /\ heap_current' = Cur
    /\ heap_limit' = Lim + AdditionalPages(NewBreak(increment)) * PageSize
    /\ owned' = Own
    /\ origin' = Origin
    /\ ret' = ERROR
    /\ UNCHANGED <<taken, adjacent>>

\* No such run: the call fails, but a fixed range obtained by this very call
\* stays with the heap.
GrowFails(increment) ==
    /\ HeapReady
    /\ NewBreak(increment) > Lim
    /\ AnyRun(AdditionalPages(NewBreak(increment))) = {}
    /\ heap_base' = Base
    /\ heap_current' = Cur
    /\ heap_limit' = Lim
    /\ owned' = Own
    /\ origin' = Origin
    /\ ret' = ERROR
    /\ UNCHANGED <<taken, adjacent>>

\* ub_sbrk(increment) with increment # 0, as one call.
ub_sbrk(increment) ==
    \/ FirstFails
    \/ MoveBreak(increment)
    \/ \E p \in Pages : GrowAt(increment, p)
    \/ GrowFails(increment)

\* malloc_extend_top asks for more; malloc_trim passes -extra, at most what
\* lies between the start of the heap and the break.
Extend  == \E n \in 1 .. MaxIncrement : ub_sbrk(n)
Release == \E n \in 1 .. (heap_current - origin) : ub_sbrk(AddrMod - n)

-----------------------------------------------------------------------------
(* Other users of the boot services (external).                            *)

FirmwareTakes(p) ==
    /\ p \in Free
    /\ taken' = taken \cup {p}
    /\ UNCHANGED <<heap_base, heap_current, heap_limit, ret, owned, origin, adjacent>>

FirmwareReleases(p) ==
    /\ p \in taken
    /\ taken' = taken \ {p}
    /\ UNCHANGED <<heap_base, heap_current, heap_limit, ret, owned, origin, adjacent>>

Next ==
    \/ Query
    \/ Extend
    \/ Release
    \/ \E p \in Pages : FirmwareTakes(p) \/ FirmwareReleases(p)

Spec == Init /\ [][Next]_vars

-----------------------------------------------------------------------------
\* A caller sees no more than the abstract break: it only moves as far as a
\* call asks, a refused call leaves it where it is, and a move that stays
\* inside the limit is never refused, whatever the firmware does meanwhile.
Promise == INSTANCE Break WITH HeapMax <- (InitialPage + LastPage) * PageSize
ImplementsBreak == Promise!Spec

\* The three statics and the result are addresses, and no page has two owners.
TypeOK ==
    /\ heap_base \in {NULL, InitialBase}
    /\ {heap_current, heap_limit, ret} \subseteq 0 .. AddrMod - 1
    /\ origin \in {NULL, InitialBase}
    /\ adjacent \in BOOLEAN
    /\ owned \subseteq Pages
    /\ taken \subseteq Pages
    /\ owned \cap taken = {}

\* However calls, failures and releases alternate, the break never passes the
\* limit: the rounding of additional_pages always covers the request.
BreakInLimit == origin <= heap_current /\ heap_current <= heap_limit

\* The limit accounts for exactly the pages the firmware handed over: no call,
\* failed ones included, loses a page or counts one in that was never given.
PagesAccounted == Cardinality(owned) * PageSize = heap_limit - origin

\* The pages between the start of the heap and its limit.
HeapPages == {p \in 0 .. heap_limit : origin <= p * PageSize /\ p * PageSize < heap_limit}

\* As long as the firmware happens to extend the heap where it ends, the heap
\* consists of the pages it was given.
AdjacentHeapOwned == adjacent => HeapPages = owned

\* What the comment on line 57 of ub_sbrk.c says of growth (new memory is
\* obtained for it): the pages of the heap are the program's.
HeapOwned == HeapPages \subseteq owned
=============================================================================
