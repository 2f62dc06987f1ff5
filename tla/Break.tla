------------------------------- MODULE Break --------------------------------
(***************************************************************************)
(* What ub_sbrk promises its caller: the break, the limit up to which it   *)
(* can move without the firmware, and calls that may be refused.  Which    *)
(* pages stand behind the addresses is left to Sbrk, which implements this *)
(* module; malloc is composed with it.                                     *)
(***************************************************************************)
EXTENDS Integers

CONSTANTS
    PageSize,       \* PAGE_SIZE of ub_sbrk.c
    InitialPages,   \* INITIALPAGES
    InitialBase,    \* INITIAL_BASE
    AddrMod,        \* 2^64 in the code: where addresses wrap
    HeapMax         \* the firmware never has memory for a limit above this

VARIABLES
    heap_base,
    heap_current,
    heap_limit,
    ret

vars == <<heap_base, heap_current, heap_limit, ret>>

NULL == 0
ERROR == AddrMod - 1

Init ==
    /\ heap_base = NULL
    /\ heap_current = NULL
    /\ heap_limit = NULL
    /\ ret = NULL

\* The heap after the fixed range has been obtained, if this is the first call.
Cur == IF heap_base = NULL THEN InitialBase ELSE heap_current
Lim == IF heap_base = NULL THEN InitialBase + InitialPages * PageSize ELSE heap_limit

NewBreak(increment) == (Cur + increment) % AddrMod
NewLimit(new_break) == Lim + ((new_break - Lim + PageSize - 1) \div PageSize) * PageSize

Query ==
    /\ ret' = heap_current
    /\ UNCHANGED <<heap_base, heap_current, heap_limit>>

\* The fixed range is refused: from now on the heap starts at address 0.
FirstRefused ==
    /\ heap_base = NULL
    /\ heap_base' = InitialBase
    /\ ret' = ERROR
    /\ UNCHANGED <<heap_current, heap_limit>>

\* A move inside the limit is never refused.
Move(increment) ==
    /\ NewBreak(increment) <= Lim
    /\ heap_base' = InitialBase
    /\ heap_current' = NewBreak(increment)
    /\ heap_limit' = Lim
    /\ ret' = Cur

Grow(increment) ==
    /\ NewBreak(increment) > Lim
    /\ NewLimit(NewBreak(increment)) <= HeapMax
    /\ heap_base' = InitialBase
    /\ heap_current' = NewBreak(increment)
    /\ heap_limit' = NewLimit(NewBreak(increment))
    /\ ret' = Cur

GrowRefused(increment) ==
    /\ NewBreak(increment) > Lim
    /\ heap_base' = InitialBase
    /\ heap_current' = Cur
    /\ heap_limit' = Lim
    /\ ret' = ERROR

\* ub_sbrk(increment), the zero increment included.
Call(increment) ==
    \/ increment = 0 /\ Query
    \/ increment # 0 /\ FirstRefused
    \/ increment # 0 /\ Move(increment)
    \/ increment # 0 /\ Grow(increment)
    \/ increment # 0 /\ GrowRefused(increment)

Next == \E increment \in 0 .. AddrMod - 1 : Call(increment)

Spec == Init /\ [][Next]_vars
=============================================================================
