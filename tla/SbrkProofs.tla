----------------------------- MODULE SbrkProofs -----------------------------
(***************************************************************************)
(* Proofs about Sbrk, for every page size, memory size and fixed base      *)
(* range.                                                                  *)
(***************************************************************************)
EXTENDS Sbrk, FiniteSetTheorems, TLAPS

\* Before the first call that allocates, nothing has been set up.
Untouched ==
    heap_base = NULL =>
        /\ heap_current = NULL
        /\ heap_limit = NULL
        /\ origin = NULL
        /\ owned = {}
        /\ adjacent

\* The inductive invariant: the four invariants the run checks, and Untouched.
IInv ==
    /\ TypeOK
    /\ BreakInLimit
    /\ PagesAccounted
    /\ AdjacentHeapOwned
    /\ Untouched

-----------------------------------------------------------------------------
(* Arithmetic of ub_sbrk.                                                  *)

\* Comparing page numbers is comparing the addresses of the pages.
LEMMA PageOrder ==
    ASSUME NEW a \in Nat, NEW b \in Nat, NEW P \in Nat \ {0}
    PROVE  (a < b) <=> (a * P < b * P)
OBVIOUS

\* additional_pages covers the missing bytes, with less than a page to spare.
LEMMA RoundUp ==
    ASSUME NEW a \in Nat \ {0}, NEW P \in Nat \ {0}
    PROVE  /\ (a + P - 1) \div P \in Nat \ {0}
           /\ a <= ((a + P - 1) \div P) * P
           /\ ((a + P - 1) \div P) * P < a + P
OBVIOUS

\* Pointers wrap at M.
LEMMA Wrap ==
    ASSUME NEW M \in Nat \ {0}, NEW a \in 0 .. M - 1
    PROVE  a % M = a /\ (a + M) % M = a
OBVIOUS

\* Pages counted together take the bytes they take apart.
LEMMA PageSum ==
    ASSUME NEW a \in Nat, NEW b \in Nat, NEW P \in Nat
    PROVE  (a + b) * P = a * P + b * P /\ a * P \in Nat
OBVIOUS

\* A run of n pages has n elements.
LEMMA RunSize ==
    ASSUME NEW p \in Nat, NEW n \in Nat
    PROVE  IsFiniteSet(Run(p, n)) /\ Cardinality(Run(p, n)) = n
BY FS_Interval DEF Run

\* The pages from page a up to page b are those whose first byte lies between.
LEMMA PagesBetween ==
    ASSUME NEW a \in Nat, NEW b \in Nat, NEW P \in Nat \ {0}
    PROVE  {q \in 0 .. b * P : a * P <= q * P /\ q * P < b * P} = a .. (b - 1)
<1>1. ASSUME NEW q \in Nat
      PROVE  a * P <= q * P <=> a <= q
  BY PageOrder
<1>2. ASSUME NEW q \in Nat
      PROVE  q * P < b * P <=> q < b
  BY PageOrder
<1>3. b <= b * P
  OBVIOUS
<1>. QED
  BY <1>1, <1>2, <1>3
-----------------------------------------------------------------------------
(* The heap as the second half of a call sees it.                          *)

\* The heap after the first range has been obtained satisfies the invariant.
LEMMA ReadyHeap ==
    ASSUME IInv, HeapReady
    PROVE  /\ Base = InitialBase
           /\ Cur \in Nat /\ Lim \in Nat /\ Origin \in {NULL, InitialBase}
           /\ Own \subseteq Pages /\ Own \cap taken = {}
           /\ IsFiniteSet(Own)
           /\ Origin <= Cur /\ Cur <= Lim
           /\ Cardinality(Own) * PageSize = Lim - Origin
           /\ Lim <= (InitialPage + LastPage) * PageSize
           /\ adjacent => {q \in 0 .. Lim : Origin <= q * PageSize /\ q * PageSize < Lim} = Own
<1>. USE SbrkConstants DEF NULL
<1>1. InitialBase \in Nat /\ InitialBase # NULL
  BY DEF InitialBase
<1>2. IsFiniteSet(Pages) /\ Cardinality(Pages) = LastPage
  BY FS_Interval DEF Pages
<1>3. CASE heap_base # NULL
  <2>1. heap_base = InitialBase /\ Base = InitialBase /\ Cur = heap_current /\ Lim = heap_limit
        /\ Own = owned /\ Origin = origin
    BY <1>3 DEF Base, Cur, Lim, Own, Origin, IInv, TypeOK
  <2>2. /\ heap_current \in Nat /\ heap_limit \in Nat
    BY DEF IInv, TypeOK
  <2>3. IsFiniteSet(owned) /\ Cardinality(owned) \in Nat /\ Cardinality(owned) <= LastPage
    BY <1>2, FS_Subset, FS_CardinalityType DEF IInv, TypeOK
  <2>4. Cardinality(owned) * PageSize <= LastPage * PageSize
    BY <2>3, PageOrder
  <2>5. heap_limit <= (InitialPage + LastPage) * PageSize
    BY <1>1, <2>2, <2>3, <2>4 DEF IInv, TypeOK, PagesAccounted, InitialBase
  <2>. QED
    BY <2>1, <2>2, <2>3, <2>5 DEF IInv, TypeOK, BreakInLimit, PagesAccounted, AdjacentHeapOwned, HeapPages
<1>4. CASE heap_base = NULL
  <2>1. /\ Base = InitialBase /\ Cur = InitialBase /\ Origin = InitialBase
        /\ Lim = InitialBase + InitialPages * PageSize
        /\ Own = Run(InitialPage, InitialPages)
    BY <1>4 DEF Base, Cur, Lim, Own, Origin
  <2>2. IsFiniteSet(Own) /\ Cardinality(Own) = InitialPages
    BY <2>1, RunSize
  <2>3. Own \subseteq Pages /\ Own \cap taken = {}
    BY <1>4, <2>1 DEF HeapReady, InitialFree, Free
  <2>4. Lim = (InitialPage + InitialPages) * PageSize
    BY <2>1 DEF InitialBase
  <2>5. {q \in 0 .. Lim : Origin <= q * PageSize /\ q * PageSize < Lim} = Own
    BY <2>1, <2>4, PagesBetween DEF InitialBase, Run
  <2>6. Lim <= (InitialPage + LastPage) * PageSize /\ Lim \in Nat /\ Cur <= Lim
    <3>1. InitialPage + InitialPages <= InitialPage + LastPage
      OBVIOUS
    <3>. QED
      BY <1>1, <2>1, <2>4, <3>1, PageOrder
  <2>. QED
    BY <1>1, <2>1, <2>2, <2>3, <2>5, <2>6
<1>. QED
  BY <1>3, <1>4
-----------------------------------------------------------------------------
(* Every step preserves the invariant.                                     *)

LEMMA InitIInv == Init => IInv
<1>. SUFFICES ASSUME Init PROVE IInv
  OBVIOUS
<1>. USE SbrkConstants DEF Init, NULL
<1>1. TypeOK
  BY DEF TypeOK, InitialBase
<1>2. BreakInLimit
  BY DEF BreakInLimit
<1>3. PagesAccounted
  BY FS_EmptySet DEF PagesAccounted
<1>4. AdjacentHeapOwned
  BY DEF AdjacentHeapOwned, HeapPages
<1>. QED
  BY <1>1, <1>2, <1>3, <1>4 DEF IInv, Untouched

\* A step that leaves the heap alone: only the result or the firmware's own
\* pages change.
LEMMA HeapAlone ==
    ASSUME IInv, ret' \in 0 .. AddrMod - 1, taken' \subseteq Pages, owned \cap taken' = {},
           UNCHANGED <<heap_base, heap_current, heap_limit, owned, origin, adjacent>>
    PROVE  IInv'
BY DEF IInv, TypeOK, BreakInLimit, PagesAccounted, AdjacentHeapOwned, HeapPages, Untouched

LEMMA QueryIInv == IInv /\ Query => IInv'
BY HeapAlone DEF Query, IInv, TypeOK

LEMMA FirmwareIInv ==
    ASSUME IInv, NEW p \in Pages, FirmwareTakes(p) \/ FirmwareReleases(p)
    PROVE  IInv'
BY HeapAlone DEF FirmwareTakes, FirmwareReleases, Free, IInv, TypeOK

LEMMA FirstFailsIInv == IInv /\ FirstFails => IInv'
<1>. SUFFICES ASSUME IInv, FirstFails PROVE IInv'
  OBVIOUS
<1>. USE SbrkConstants DEF NULL
<1>1. ERROR \in 0 .. AddrMod - 1
  BY DEF ERROR
<1>2. TypeOK'
  BY <1>1 DEF IInv, TypeOK, FirstFails
<1>3. InitialBase # NULL
  BY DEF InitialBase
<1>. QED
  BY <1>2, <1>3 DEF IInv, BreakInLimit, PagesAccounted, AdjacentHeapOwned, HeapPages, Untouched, FirstFails

\* The increments of Extend and Release are the moves of the break by a
\* distance: no pointer of a growing call wraps, and that of a releasing call
\* wraps exactly once.
LEMMA BreakMoves ==
    ASSUME IInv, HeapReady
    PROVE  /\ \A n \in 1 .. MaxIncrement :
                NewBreak(n) = Cur + n /\ NewBreak(n) \in 0 .. AddrMod - 1
           /\ \A n \in 1 .. (heap_current - origin) :
                NewBreak(AddrMod - n) = Cur - n /\ Origin <= NewBreak(AddrMod - n)
                /\ NewBreak(AddrMod - n) <= Lim /\ NewBreak(AddrMod - n) \in 0 .. AddrMod - 1
<1>. USE SbrkConstants
<1>1. Cur \in Nat /\ Lim \in Nat /\ Origin \in Nat /\ Origin <= Cur /\ Cur <= Lim
      /\ Lim <= (InitialPage + LastPage) * PageSize
  BY ReadyHeap DEF NULL, InitialBase
<1>2. ASSUME NEW n \in 1 .. MaxIncrement
      PROVE  NewBreak(n) = Cur + n /\ NewBreak(n) \in 0 .. AddrMod - 1
  <2>1. Cur + n \in 0 .. AddrMod - 1
    BY <1>1
  <2>. QED
    BY <2>1, Wrap DEF NewBreak
<1>3. ASSUME NEW n \in 1 .. (heap_current - origin)
      PROVE  NewBreak(AddrMod - n) = Cur - n /\ Origin <= NewBreak(AddrMod - n)
             /\ NewBreak(AddrMod - n) <= Lim /\ NewBreak(AddrMod - n) \in 0 .. AddrMod - 1
  <2>0. heap_current \in Nat /\ origin \in Nat
    BY DEF IInv, TypeOK, NULL, InitialBase
  <2>1. heap_base # NULL
    BY <2>0 DEF IInv, Untouched, NULL
  <2>2. Cur = heap_current /\ Origin = origin
    BY <2>1 DEF Cur, Origin
  <2>3. Cur - n \in 0 .. AddrMod - 1 /\ Origin <= Cur - n /\ Cur - n <= Lim
    BY <1>1, <2>0, <2>2
  <2>4. Cur + (AddrMod - n) = (Cur - n) + AddrMod
    BY <2>3, <1>1, <2>0
  <2>. QED
    BY <2>3, <2>4, Wrap DEF NewBreak
<1>. QED
  BY <1>2, <1>3

\* Both kinds of increment lead to a break that is an address at or above the
\* start of the heap.
SoundIncrement(i) == NewBreak(i) \in 0 .. AddrMod - 1 /\ Origin <= NewBreak(i)

LEMMA MoveBreakIInv ==
    ASSUME IInv, NEW i, SoundIncrement(i), MoveBreak(i)
    PROVE  IInv'
<1>. USE SbrkConstants
<1>1. HeapReady
  BY DEF MoveBreak
<1>2. /\ Cur \in 0 .. AddrMod - 1 /\ Lim \in 0 .. AddrMod - 1
  BY <1>1, ReadyHeap DEF NULL, InitialBase
<1>3. TypeOK'
  BY <1>1, <1>2, ReadyHeap DEF MoveBreak, SoundIncrement, TypeOK, IInv
<1>4. BreakInLimit'
  BY DEF MoveBreak, SoundIncrement, BreakInLimit
<1>5. PagesAccounted'
  BY <1>1, ReadyHeap DEF MoveBreak, PagesAccounted
<1>6. AdjacentHeapOwned'
  BY <1>1, ReadyHeap DEF MoveBreak, AdjacentHeapOwned, HeapPages
<1>7. Untouched'
  BY <1>1, ReadyHeap DEF MoveBreak, Untouched, NULL, InitialBase
<1>. QED
  BY <1>3, <1>4, <1>5, <1>6, <1>7 DEF IInv

LEMMA GrowFailsIInv ==
    ASSUME IInv, NEW i, GrowFails(i)
    PROVE  IInv'
<1>. USE SbrkConstants
<1>1. HeapReady
  BY DEF GrowFails
<1>2. /\ Cur \in 0 .. AddrMod - 1 /\ Lim \in 0 .. AddrMod - 1 /\ ERROR \in 0 .. AddrMod - 1
  BY <1>1, ReadyHeap DEF NULL, InitialBase, ERROR
<1>3. TypeOK'
  BY <1>1, <1>2, ReadyHeap DEF GrowFails, TypeOK, IInv
<1>4. BreakInLimit'
  BY <1>1, ReadyHeap DEF GrowFails, BreakInLimit
<1>5. PagesAccounted'
  BY <1>1, ReadyHeap DEF GrowFails, PagesAccounted
<1>6. AdjacentHeapOwned'
  BY <1>1, ReadyHeap DEF GrowFails, AdjacentHeapOwned, HeapPages
<1>7. Untouched'
  BY <1>1, ReadyHeap DEF GrowFails, Untouched, NULL, InitialBase
<1>. QED
  BY <1>3, <1>4, <1>5, <1>6, <1>7 DEF IInv

\* Growth: the pages added are new, they are as many as the limit is raised
\* by, and if they start at the limit the heap stays contiguous.
LEMMA GrowAtIInv ==
    ASSUME IInv, NEW i, SoundIncrement(i), NEW p \in Pages, GrowAt(i, p)
    PROVE  IInv'
<1>. DEFINE n == AdditionalPages(NewBreak(i))
            Added == Run(p, n)
<1>. USE SbrkConstants
<1>1. HeapReady /\ NewBreak(i) > Lim /\ p \in AnyRun(n)
  BY DEF GrowAt
<1>2. /\ Base = InitialBase
      /\ Cur \in Nat /\ Lim \in Nat /\ Origin \in {NULL, InitialBase}
      /\ Own \subseteq Pages /\ Own \cap taken = {} /\ IsFiniteSet(Own)
      /\ Origin <= Cur /\ Cur <= Lim
      /\ Cardinality(Own) * PageSize = Lim - Origin
      /\ Lim <= (InitialPage + LastPage) * PageSize
  BY <1>1, ReadyHeap
<1>2a. Origin \in Nat /\ NewBreak(i) \in Nat /\ Cardinality(Own) \in Nat /\ p \in Nat
  BY <1>2, FS_CardinalityType DEF NULL, InitialBase, SoundIncrement, Pages
<1>3. /\ n \in Nat \ {0}
      /\ NewBreak(i) - Lim <= n * PageSize
  <2>1. NewBreak(i) - Lim \in Nat \ {0}
    BY <1>1, <1>2, <1>2a
  <2>. QED
    BY <2>1, RoundUp DEF AdditionalPages
<1>4. Added \subseteq Pages /\ Added \cap Own = {} /\ Added \cap taken = {}
  BY <1>1 DEF AnyRun
<1>5. IsFiniteSet(Added) /\ Cardinality(Added) = n
  BY <1>2a, <1>3, RunSize
<1>. HIDE DEF n, Added
<1>6. IsFiniteSet(Own \cup Added) /\ Cardinality(Own \cup Added) = Cardinality(Own) + n
  <2>1. Cardinality(Own \cap Added) = 0
    BY <1>4, FS_EmptySet
  <2>. QED
    BY <1>2, <1>2a, <1>3, <1>5, <2>1, FS_Union
<1>7. Cardinality(Own \cup Added) <= LastPage
  <2>1. IsFiniteSet(Pages) /\ Cardinality(Pages) = LastPage
    BY FS_Interval DEF Pages
  <2>. QED
    BY <1>2, <1>4, <2>1, FS_Subset
<1>8. (Cardinality(Own) + n) * PageSize = Lim + n * PageSize - Origin
  BY <1>2, <1>2a, <1>3, PageSum
<1>9. Lim + n * PageSize \in 0 .. AddrMod - 1
  <2>1. (Cardinality(Own) + n) * PageSize <= LastPage * PageSize
    BY <1>2a, <1>3, <1>6, <1>7, PageOrder
  <2>. QED
    BY <1>2, <1>2a, <1>3, <1>8, <2>1 DEF NULL, InitialBase
<1>10. TypeOK'
  <2>1. Cur \in 0 .. AddrMod - 1
    BY <1>2
  <2>. QED
    BY <1>2, <1>4, <1>9, <2>1 DEF GrowAt, SoundIncrement, TypeOK, IInv, n, Added
<1>11. BreakInLimit'
  <2>1. origin' = Origin /\ heap_current' = NewBreak(i) /\ heap_limit' = Lim + n * PageSize
    BY DEF GrowAt, n
  <2>2. n * PageSize \in Nat
    BY <1>3, PageSum
  <2>. QED
    BY <1>2, <1>2a, <1>3, <2>1, <2>2 DEF SoundIncrement, BreakInLimit
<1>12. PagesAccounted'
  <2>1. origin' = Origin /\ owned' = Own \cup Added /\ heap_limit' = Lim + n * PageSize
    BY DEF GrowAt, n, Added
  <2>2. Cardinality(owned') * PageSize = (Cardinality(Own) + n) * PageSize
    BY <1>6, <2>1
  <2>3. Cardinality(owned') * PageSize = heap_limit' - origin'
    BY <1>2, <1>2a, <1>3, <1>8, <2>1, <2>2
  <2>. QED
    BY <2>3, Zenon DEF PagesAccounted
<1>13. AdjacentHeapOwned'
  <2>. SUFFICES ASSUME adjacent, p * PageSize = Lim
                PROVE  {q \in 0 .. Lim + n * PageSize :
                          Origin <= q * PageSize /\ q * PageSize < Lim + n * PageSize} = Own \cup Added
    BY DEF GrowAt, AdjacentHeapOwned, HeapPages, n, Added
  <2>1. {q \in 0 .. Lim : Origin <= q * PageSize /\ q * PageSize < Lim} = Own
    BY <1>1, ReadyHeap
  <2>2. PICK o \in Nat : Origin = o * PageSize
    BY <1>2 DEF NULL, InitialBase
  <2>3. Lim + n * PageSize = (p + n) * PageSize
    BY <1>2a, <1>3, PageSum
  <2>4. Own = o .. (p - 1)
    BY <2>1, <2>2, <1>2a, PagesBetween, ZenonT(30)
  <2>5. {q \in 0 .. Lim + n * PageSize :
            Origin <= q * PageSize /\ q * PageSize < Lim + n * PageSize} = o .. (p + n - 1)
    <3>1. PICK e \in Nat : e = p + n
      BY <1>2a, <1>3
    <3>2. {q \in 0 .. e * PageSize :
              o * PageSize <= q * PageSize /\ q * PageSize < e * PageSize} = o .. (e - 1)
      BY PagesBetween
    <3>3. Lim + n * PageSize = e * PageSize /\ o .. (p + n - 1) = o .. (e - 1)
      BY <1>2, <1>2a, <1>3, <2>3, <3>1
    <3>. QED
      BY <2>2, <3>2, <3>3, Zenon
  <2>6. o <= p
    <3>1. ~(p * PageSize < o * PageSize)
      BY <1>2, <1>2a, <2>2
    <3>. QED
      BY <1>2a, <3>1, PageOrder
  <2>. QED
    BY <2>4, <2>5, <2>6, <1>2a, <1>3 DEF Run, Added
<1>14. Untouched'
  BY <1>2 DEF GrowAt, Untouched, NULL, InitialBase
<1>. QED
  BY <1>10, <1>11, <1>12, <1>13, <1>14 DEF IInv

LEMMA CallIInv ==
    ASSUME IInv, NEW i, HeapReady => SoundIncrement(i), ub_sbrk(i)
    PROVE  IInv'
BY FirstFailsIInv, MoveBreakIInv, GrowAtIInv, GrowFailsIInv DEF ub_sbrk, MoveBreak, GrowAt

LEMMA NextIInv == IInv /\ [Next]_vars => IInv'
<1>. SUFFICES ASSUME IInv, [Next]_vars PROVE IInv'
  OBVIOUS
<1>1. CASE Query
  BY <1>1, QueryIInv
<1>2. CASE Extend
  <2>1. PICK n \in 1 .. MaxIncrement : ub_sbrk(n)
    BY <1>2 DEF Extend
  <2>2. HeapReady => SoundIncrement(n)
    BY BreakMoves, ReadyHeap, SbrkConstants DEF SoundIncrement, NULL, InitialBase
  <2>. QED
    BY <2>1, <2>2, CallIInv
<1>3. CASE Release
  <2>1. PICK n \in 1 .. (heap_current - origin) : ub_sbrk(AddrMod - n)
    BY <1>3 DEF Release
  <2>2. HeapReady => SoundIncrement(AddrMod - n)
    BY BreakMoves DEF SoundIncrement
  <2>. QED
    BY <2>1, <2>2, CallIInv
<1>4. CASE \E p \in Pages : FirmwareTakes(p) \/ FirmwareReleases(p)
  BY <1>4, FirmwareIInv
<1>5. CASE UNCHANGED vars
  BY <1>5 DEF vars, IInv, TypeOK, BreakInLimit, PagesAccounted, AdjacentHeapOwned, HeapPages, Untouched
<1>. QED
  BY <1>1, <1>2, <1>3, <1>4, <1>5 DEF Next

\* The invariant holds of every behaviour of ub_sbrk, whatever the page size,
\* the fixed range and the pages the firmware answers with.
THEOREM SbrkInvariant == Spec => []IInv
BY InitIInv, NextIInv, PTL DEF Spec

\* The statics of ub_sbrk are always addresses, and no page it was given is
\* also the firmware's.
THEOREM SbrkTypeOK == Spec => []TypeOK
BY SbrkInvariant, PTL DEF IInv

\* The break never passes the limit.
THEOREM SbrkBreakInLimit == Spec => []BreakInLimit
BY SbrkInvariant, PTL DEF IInv

\* The limit counts every page AllocatePages gave, and no other.
THEOREM SbrkPagesAccounted == Spec => []PagesAccounted
BY SbrkInvariant, PTL DEF IInv

\* The heap is made of pages the program owns as long as every growth was
\* answered with the pages that follow it.
THEOREM SbrkAdjacentHeapOwned == Spec => []AdjacentHeapOwned
BY SbrkInvariant, PTL DEF IInv
-----------------------------------------------------------------------------
(* Every step is one the abstract break allows.                            *)

\* The limit stays below what the memory of the machine can hold.
LEMMA LimitAfter ==
    ASSUME IInv'
    PROVE  heap_limit' <= (InitialPage + LastPage) * PageSize
<1>. USE SbrkConstants
<1>1. IsFiniteSet(Pages) /\ Cardinality(Pages) = LastPage
  BY FS_Interval DEF Pages
<1>2. owned' \subseteq Pages /\ heap_limit' \in Nat /\ origin' \in {0, InitialBase}
  BY DEF IInv, TypeOK, NULL
<1>3. Cardinality(owned') \in Nat /\ Cardinality(owned') <= LastPage
  BY <1>1, <1>2, FS_Subset, FS_CardinalityType
<1>4. Cardinality(owned') * PageSize <= LastPage * PageSize
  BY <1>3, PageOrder
<1>5. Cardinality(owned') * PageSize = heap_limit' - origin'
  BY DEF IInv, PagesAccounted
<1>6. origin' \in Nat /\ origin' <= InitialPage * PageSize
  BY <1>2 DEF InitialBase
<1>7. (InitialPage + LastPage) * PageSize = InitialPage * PageSize + LastPage * PageSize
  BY PageSum
<1>. QED
  BY <1>2, <1>3, <1>4, <1>5, <1>6, <1>7

\* One call of ub_sbrk is one call of the abstract break.
LEMMA CallRefines ==
    ASSUME IInv, IInv', NEW i \in 0 .. AddrMod - 1, i # 0, ub_sbrk(i)
    PROVE  Promise!Call(i)
<1>. USE DEF Promise!Call, Promise!NULL, Promise!ERROR, NULL, ERROR
<1>1. Promise!Cur = Cur /\ Promise!Lim = Lim /\ Promise!NewBreak(i) = NewBreak(i)
  BY DEF Promise!Cur, Promise!Lim, Promise!NewBreak, Cur, Lim, NewBreak
<1>2. HeapReady => Base = InitialBase
  BY ReadyHeap
<1>3. CASE FirstFails
  BY <1>3 DEF FirstFails, Promise!FirstRefused
<1>4. CASE MoveBreak(i)
  BY <1>1, <1>2, <1>4 DEF MoveBreak, Promise!Move
<1>5. CASE \E p \in Pages : GrowAt(i, p)
  <2>1. PICK p \in Pages : GrowAt(i, p)
    BY <1>5
  <2>2. heap_limit' = Promise!NewLimit(NewBreak(i))
    BY <1>1, <2>1 DEF GrowAt, AdditionalPages, Promise!NewLimit
  <2>3. heap_limit' <= (InitialPage + LastPage) * PageSize
    BY LimitAfter
  <2>. QED
    BY <1>1, <1>2, <2>1, <2>2, <2>3 DEF GrowAt, Promise!Grow
<1>6. CASE GrowFails(i)
  BY <1>1, <1>2, <1>6 DEF GrowFails, Promise!GrowRefused
<1>. QED
  BY <1>3, <1>4, <1>5, <1>6 DEF ub_sbrk

LEMMA StepRefines ==
    IInv /\ IInv' /\ [Next]_vars => [Promise!Next]_(Promise!vars)
<1>. SUFFICES ASSUME IInv, IInv', [Next]_vars
              PROVE  Promise!Next \/ UNCHANGED Promise!vars
  OBVIOUS
<1>. USE SbrkConstants
<1>1. CASE Query
  BY <1>1 DEF Query, Promise!Next, Promise!Call, Promise!Query
<1>2. CASE Extend
  <2>1. PICK n \in 1 .. MaxIncrement : ub_sbrk(n)
    BY <1>2 DEF Extend
  <2>2. n \in 0 .. AddrMod - 1 /\ n # 0
    OBVIOUS
  <2>. QED
    BY <2>1, <2>2, CallRefines DEF Promise!Next
<1>3. CASE Release
  <2>1. PICK n \in 1 .. (heap_current - origin) : ub_sbrk(AddrMod - n)
    BY <1>3 DEF Release
  <2>2. heap_current \in 0 .. AddrMod - 1 /\ origin \in Nat
    BY DEF IInv, TypeOK, NULL, InitialBase
  <2>3. AddrMod - n \in 0 .. AddrMod - 1 /\ AddrMod - n # 0
    BY <2>2
  <2>. QED
    BY <2>1, <2>3, CallRefines DEF Promise!Next
<1>4. CASE \E p \in Pages : FirmwareTakes(p) \/ FirmwareReleases(p)
  BY <1>4 DEF FirmwareTakes, FirmwareReleases, Promise!vars
<1>5. CASE UNCHANGED vars
  BY <1>5 DEF vars, Promise!vars
<1>. QED
  BY <1>1, <1>2, <1>3, <1>4, <1>5 DEF Next

\* ub_sbrk implements the abstract break malloc is built on, for every page
\* size and whatever pages the firmware hands out or withholds.
THEOREM SbrkImplementsBreak == Spec => ImplementsBreak
<1>1. Init => Promise!Init
  BY DEF Init, Promise!Init, NULL, Promise!NULL
<1>2. IInv /\ IInv' /\ [Next]_vars => [Promise!Next]_(Promise!vars)
  BY StepRefines
<1>. QED
  BY <1>1, <1>2, SbrkInvariant, PTL DEF Spec, ImplementsBreak, Promise!Spec
=============================================================================
