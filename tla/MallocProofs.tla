---------------------------- MODULE MallocProofs ----------------------------
(***************************************************************************)
(* The invariant of the allocator and what follows from it: the properties *)
(* of Malloc, and that Malloc implements Allocator.  Between the calls of  *)
(* ub_sbrk that a call makes, the heap stays sound; what the invariant     *)
(* says of the break, of sbrked_mem and of the locals of the call depends  *)
(* on pc.                                                                  *)
(***************************************************************************)
EXTENDS MallocHeapProofs

-----------------------------------------------------------------------------
(* The invariant, and how a call returns.                                  *)

\* The blocks L lie in their chunks of H, with what callers put there.
Held(H, L) == \A c \in DOMAIN L : L[c].size \in Nat /\ L[c].size <= H.head[c].size - 1 /\ L[c].intact

\* Before the first chunk.
NoHeap(H, L) == H = [head |-> << >>, bins |-> << >>, binblocks |-> {}, top |-> INITIAL_TOP] /\ L = << >>

HasTop(H) == H.top # INITIAL_TOP

HeapInv(H, L, W) ==
    IF HasTop(H) THEN HeapOK(H, DOMAIN L, W) /\ Held(H, L) /\ TopEnd(H) % PageSize = 0
    ELSE NoHeap(H, L)

BreakInv ==
    /\ heap_base \in {0, InitialBase} /\ heap_current \in Nat /\ heap_limit \in Nat /\ ret \in Nat
    /\ heap_limit % PageSize = 0 /\ heap_current <= heap_limit /\ heap_limit <= HeapMax
    /\ heap_base = 0 => heap_current = 0 /\ heap_limit = 0
    /\ foreign \subseteq Nat /\ \A w \in foreign : w < heap_current

\* Top ends at b or, if others have called sbrk, below.
BreakFrom(H, W, b) == HasTop(H) => TopEnd(H) <= b /\ (W = {} => b = TopEnd(H))

Accounted ==
    IF HasTop(h) THEN sbrk_base \in Nat /\ sbrked_mem \in Int /\ TopEnd(h) = sbrk_base + sbrked_mem
    ELSE sbrk_base = NO_BASE /\ sbrked_mem = 0

\* The sizes callers ask for.
AllRequests == Requests \cup Resizes \cup {a[1] * a[2] : a \in Arrays}

\* c is a call for nb words, which extends the heap by size words.
CallOK(c, L) ==
    /\ DOMAIN c = DOMAIN NoCall
    /\ c.op \in {"malloc", "realloc"} /\ (c.op = "realloc" => c.old \in DOMAIN L)
    /\ c.req \in Nat /\ c.req < AddrMod /\ c.req \in AllRequests
    /\ c.nb \in Nat /\ c.nb % 2 = 0 /\ c.nb >= MINSIZE /\ c.req <= c.nb - 1 /\ c.nb <= IntMax

SizeOK(c) ==
    /\ c.size \in Nat /\ c.size >= c.nb + MINSIZE /\ c.size < c.nb + MINSIZE + PageSize
    /\ HasTop(h) => c.size % PageSize = 0

Extended ==
    \/ ret = AddrMod - 1 /\ BreakFrom(h, foreign, heap_current)
    \/ /\ ret = heap_current - call.size /\ heap_base = InitialBase
       /\ \A w \in foreign : w < ret
       /\ BreakFrom(h, foreign, ret)

\* The new memory starts at call.brk - call.front.
NewSpace ==
    /\ call.brk \in Nat /\ call.brk % 2 = 0 /\ call.front \in {0, 1} /\ call.brk - call.front >= 0
    /\ heap_base = InitialBase
    /\ \A w \in foreign : w < call.brk - call.front
    /\ HasTop(h) => TopEnd(h) <= call.brk - call.front /\ foreign # {}
    /\ sbrk_base \in Nat /\ sbrked_mem \in Int /\ sbrk_base + sbrked_mem = call.brk - call.front + call.size
    /\ call.correction \in 0 .. PageSize - 1
    /\ (call.brk - call.front + call.size + call.correction) % PageSize = 0

PcInv ==
    /\ pc \in {"idle", "extend", "extended", "correct", "corrected", "trim", "trimmed"}
    /\ pc \in {"idle", "trim", "trimmed"} => call = NoCall
    /\ pc \in {"trim", "trimmed"} => HasTop(h) /\ Extra(h) >= PageSize
    /\ pc \in {"idle", "extend", "trim"} => BreakFrom(h, foreign, heap_current)
    /\ pc \notin {"correct", "corrected"} => Accounted
    /\ pc \in {"extend", "extended", "correct", "corrected"} => CallOK(call, live) /\ SizeOK(call)
    /\ pc = "extend" => \A c \in Elems(h.bins) : h.head[c].size < call.nb
    /\ pc = "extended" => Extended
    /\ pc \in {"correct", "corrected"} => NewSpace
    /\ pc = "correct" => heap_current = call.brk - call.front + call.size
    /\ pc = "corrected" => /\ ret = call.brk - call.front + call.size
                           /\ heap_current = ret + call.correction
    /\ pc = "trimmed" => ret # AddrMod - 1 /\ heap_current = TopEnd(h) - Extra(h)

\* The inductive invariant.
IInv == HeapInv(h, live, foreign) /\ BreakInv /\ PcInv

Given(n) == [size |-> n, intact |-> TRUE]

\* A block of req words is new, or is what became of another.
Outcome(req) ==
    \/ \E v : v \notin DOMAIN live /\ live' = Put(live, v, Given(req))
    \/ \E old \in DOMAIN live : \E v : v \notin DOMAIN live \ {old} /\ live' = Put(Drop(live, {old}), v, Given(req))

\* A call has returned, and top ends at e.
Settled(W, e) ==
    /\ HeapOK(h', DOMAIN live', W) /\ Held(h', live') /\ TopEnd(h') = e
    /\ pc' \in {"idle", "trim"} /\ (pc' = "trim" => Extra(h') >= PageSize) /\ call' = NoCall

\* A sound heap has a top.
LEMMA TopThere ==
    ASSUME NEW H, NEW U, NEW W, HeapOK(H, U, W)
    PROVE  HasTop(H) /\ H.top \in Nat /\ H.head[H.top].size \in Nat /\ H.head[H.top].size >= MINSIZE
           /\ TopEnd(H) = H.top + H.head[H.top].size /\ TopEnd(H) \in Nat
           /\ chunksize(H, H.top) = H.head[H.top].size /\ next_chunk(H, H.top) = TopEnd(H)
<1>1. H.top \in Nat /\ H.head[H.top].size \in Nat /\ H.head[H.top].size >= MINSIZE
  BY HeapParts
<1>2. H.top # INITIAL_TOP
  BY <1>1 DEF INITIAL_TOP
<1>3. chunksize(H, H.top) = H.head[H.top].size /\ next_chunk(H, H.top) = H.top + H.head[H.top].size
  BY <1>1, ChunkSizeFacts
<1> QED BY <1>1, <1>2, <1>3 DEF HasTop, TopEnd

\* The call returns with the sound heap A.
LEMMA ReturnSettles ==
    ASSUME NEW A, NEW B, ReturnVia(B, A), NEW W, HeapOK(A, DOMAIN live', W), Held(A, live')
    PROVE  Settled(W, TopEnd(A))
<1>1. h' = A /\ call' = NoCall /\ pc' = IF TrimDue(B, A) THEN "trim" ELSE "idle"
  BY DEF ReturnVia
<1>2. pc' \in {"idle", "trim"} /\ (pc' = "trim" => TrimDue(B, A))
  BY <1>1
<1>3. pc' = "trim" => Extra(A) >= PageSize
  BY <1>2 DEF TrimDue
<1> QED BY <1>1, <1>2, <1>3 DEF Settled

LEMMA DropFacts ==
    ASSUME NEW f, NEW P
    PROVE  DOMAIN Drop(f, P) = DOMAIN f \ P /\ \A c \in DOMAIN f \ P : Drop(f, P)[c] = f[c]
  BY DEF Drop

LEMMA GivenFacts ==
    ASSUME NEW n
    PROVE  Given(n).size = n /\ Given(n).intact
  BY DEF Given

\* What the block old held is intact in its new place.
LEMMA MovedGiven ==
    ASSUME NEW old, NEW newp, NEW copied, NEW req, Moved(old, newp, copied, req),
           live[old].intact, copied >= live[old].size \/ copied >= req
    PROVE  live' = Put(Drop(live, {old}), newp, Given(req))
<1> DEFINE f(b) == Put(Drop(live, {old}), newp, [size |-> req, intact |-> b])
           b0 == live[old].intact /\ (copied >= live[old].size \/ copied >= req)
<1>1. live' = f(b0)
  BY DEF Moved
<1>2. b0 = TRUE
  OBVIOUS
<1> HIDE DEF b0
<1>3. live' = f(TRUE)
  BY <1>1, <1>2
<1> QED BY <1>3 DEF Given

\* The heap after a block has moved to lo.
LEMMA MovedHeld ==
    ASSUME NEW H, NEW W, NEW old, old \in DOMAIN live, Held(H, live),
           NEW V, V = DOMAIN live \ {old}, NEW lo, NEW nb, NEW G, Resized(H, V, W, lo, nb, G),
           NEW copied, NEW req, Moved(old, lo, copied, req), copied >= live[old].size \/ copied >= req,
           req \in Nat, nb \in Nat, req <= nb - 1
    PROVE  HeapOK(G, DOMAIN live', W) /\ Held(G, live') /\ TopEnd(G) = TopEnd(H) /\ Outcome(req)
<1>1. /\ HeapOK(G, V \cup {lo}, W) /\ TopEnd(G) = TopEnd(H)
      /\ lo \notin V /\ G.head[lo].size >= nb
      /\ \A c \in V : G.head[c].size = H.head[c].size
  BY DEF Resized
<1>2. live[old].intact
  BY DEF Held
<1>3. live' = Put(Drop(live, {old}), lo, Given(req))
  BY <1>2, MovedGiven
<1>4. DOMAIN Drop(live, {old}) = V /\ \A c \in V : Drop(live, {old})[c] = live[c]
  BY DropFacts
<1>5. DOMAIN live' = V \cup {lo} /\ live'[lo] = Given(req) /\ \A c \in V : live'[c] = live[c]
  <2> DEFINE f == Drop(live, {old})
  <2> HIDE DEF f
  <2>1. live' = Put(f, lo, Given(req)) /\ DOMAIN f = V /\ \A c \in V : f[c] = live[c]
    BY <1>3, <1>4 DEF f
  <2>2. DOMAIN live' = DOMAIN f \cup {lo} /\ live'[lo] = Given(req) /\ \A c \in DOMAIN f \ {lo} : live'[c] = f[c]
    BY ONLY <2>1 DEF Put
  <2> QED BY <1>1, <2>1, <2>2
<1>6. live'[lo].size = req /\ live'[lo].intact
  BY <1>5, GivenFacts
<1>7. Held(G, live')
  <2>1. ASSUME NEW c \in DOMAIN live' PROVE live'[c].size \in Nat /\ live'[c].size <= G.head[c].size - 1 /\ live'[c].intact
    <3>1. CASE c = lo
      <4>1. G.head[lo].size \in Nat
        BY <1>1, HeapParts
      <4> QED BY <1>1, <1>6, <3>1, <4>1
    <3>2. CASE c \in V
      <4>1. c \in DOMAIN live /\ live'[c] = live[c] /\ G.head[c].size = H.head[c].size
        BY <1>1, <1>5, <3>2
      <4> QED BY <4>1 DEF Held
    <3> QED BY <1>5, <3>1, <3>2
  <2> QED BY <2>1 DEF Held
<1>8. Outcome(req)
  BY <1>1, <1>3 DEF Outcome
<1>9. HeapOK(G, DOMAIN live', W)
  BY <1>1, <1>5
<1> QED BY <1>1, <1>7, <1>8, <1>9

\* split, as rEALLOc ends: the block has its new size.
LEMMA SplitRestSettles ==
    ASSUME NEW H, NEW U, NEW W, HeapOK(H, U, W), TopEnd(H) % 2 = 0,
           NEW K, NEW R, NEW lo, NEW hi, ResizeReady(H, U, W, K, R, lo, hi),
           NEW old, old \in DOMAIN live, Held(H, live), U \ R = DOMAIN live \ {old},
           NEW newsize, newsize = hi - lo,
           NEW nb, nb \in Nat, nb % 2 = 0, nb >= MINSIZE, newsize >= nb,
           NEW copied, NEW req, SplitRest(K, old, lo, newsize, nb, copied, req),
           copied >= live[old].size \/ copied >= req, req \in Nat, req <= nb - 1
    PROVE  Settled(W, TopEnd(H)) /\ Outcome(req)
<1> DEFINE H2 == set_inuse(set_head(set_head_size(K, lo, nb), lo + nb, newsize - nb, PREV_INUSE), lo + newsize)
           H3 == set_inuse(set_head_size(K, lo, newsize), lo + newsize)
<1>1. Moved(old, lo, copied, req)
  BY DEF SplitRest
<1>2. lo \in Nat /\ hi \in Nat /\ lo + newsize = hi
  BY DEF ResizeReady
<1>3. CASE newsize - nb >= MINSIZE
  <2> DEFINE G == fREe(H2, lo + nb)
  <2>1. ReturnVia(H2, G)
    BY <1>3 DEF SplitRest
  <2>2. H2 = set_inuse(set_head(set_head_size(K, lo, nb), lo + nb, hi - lo - nb, PREV_INUSE), hi)
    BY <1>2
  <2> HIDE DEF H2
  <2>3. Resized(H, U \ R, W, lo, nb, G)
    <3>1. hi - lo - nb >= MINSIZE
      BY <1>3
    <3> QED BY <2>2, <3>1, ResizeSplit
  <2> HIDE DEF G
  <2>4. HeapOK(G, DOMAIN live', W) /\ Held(G, live') /\ TopEnd(G) = TopEnd(H) /\ Outcome(req)
    BY <1>1, <2>3, MovedHeld
  <2> QED BY <2>1, <2>4, ReturnSettles
<1>4. CASE ~(newsize - nb >= MINSIZE)
  <2>1. ReturnVia(H3, H3)
    BY <1>4 DEF SplitRest
  <2>2. H3 = set_inuse(set_head_size(K, lo, hi - lo), hi)
    BY <1>2
  <2> HIDE DEF H3
  <2>3. Resized(H, U \ R, W, lo, nb, H3)
    BY <2>2, ResizeWhole
  <2>4. HeapOK(H3, DOMAIN live', W) /\ Held(H3, live') /\ TopEnd(H3) = TopEnd(H) /\ Outcome(req)
    BY <1>1, <2>3, MovedHeld
  <2> QED BY <2>1, <2>4, ReturnSettles
<1> QED BY <1>3, <1>4

\* H holds chunk v for the call c, besides the blocks callers hold.
Obtained(H, W, c, v) ==
    /\ HeapOK(H, DOMAIN live \cup {v}, W) /\ TopEnd(H) % 2 = 0 /\ Held(H, live)
    /\ v \notin DOMAIN live /\ H.head[v].size >= c.nb

\* mALLOc delivers a chunk to malloc.
LEMMA DeliverNew ==
    ASSUME NEW c, CallOK(c, live), NEW H, NEW W, NEW v, Obtained(H, W, c, v),
           ReturnVia(H, H), live' = Put(live, v, [size |-> c.req, intact |-> TRUE])
    PROVE  Settled(W, TopEnd(H)) /\ Outcome(c.req)
<1>1. /\ HeapOK(H, DOMAIN live \cup {v}, W) /\ Held(H, live)
      /\ v \notin DOMAIN live /\ H.head[v].size >= c.nb
      /\ c.req \in Nat /\ c.nb \in Nat /\ c.req <= c.nb - 1
  BY DEF Obtained, CallOK
<1>2. live' = Put(live, v, Given(c.req))
  BY DEF Given
<1>3. DOMAIN live' = DOMAIN live \cup {v} /\ live'[v] = Given(c.req) /\ \A x \in DOMAIN live : live'[x] = live[x]
  BY ONLY <1>1, <1>2 DEF Put
<1>4. live'[v].size = c.req /\ live'[v].intact
  BY ONLY <1>3, GivenFacts
<1>5. Held(H, live')
  <2>1. ASSUME NEW x \in DOMAIN live' PROVE live'[x].size \in Nat /\ live'[x].size <= H.head[x].size - 1 /\ live'[x].intact
    <3>1. CASE x = v
      <4>1. H.head[v].size \in Nat
        BY <1>1, HeapParts
      <4> QED BY ONLY <1>1, <1>4, <3>1, <4>1
    <3>2. CASE x \in DOMAIN live
      BY ONLY <1>1, <1>3, <3>2 DEF Held
    <3> QED BY <1>3, <3>1, <3>2
  <2> QED BY <2>1 DEF Held
<1>6. Outcome(c.req)
  BY ONLY <1>1, <1>2 DEF Outcome
<1>7. HeapOK(H, DOMAIN live', W)
  BY ONLY <1>1, <1>3
<1>8. Settled(W, TopEnd(H))
  BY <1>5, <1>7, ReturnSettles
<1> QED BY <1>6, <1>8

\* realloc got the chunk above its block.
LEMMA DeliverNext ==
    ASSUME NEW c, CallOK(c, live), c.op = "realloc", NEW H, NEW W, NEW v, Obtained(H, W, c, v), v = next_chunk(H, c.old),
           SplitRest(Absorb(H, {v}), c.old, c.old, chunksize(H, c.old) + chunksize(H, v), c.nb, AddrMod, c.req)
    PROVE  Settled(W, TopEnd(H)) /\ Outcome(c.req)
<1> DEFINE U == DOMAIN live \cup {v}
           p == c.old
           m == v + H.head[v].size
           K == Absorb(H, {v})
           ns == chunksize(H, p) + chunksize(H, v)
<1>1. /\ HeapOK(H, U, W) /\ Held(H, live) /\ TopEnd(H) % 2 = 0
      /\ v \notin DOMAIN live /\ H.head[v].size >= c.nb
      /\ c.req \in Nat /\ c.nb \in Nat /\ c.req <= c.nb - 1 /\ c.req < AddrMod /\ c.nb % 2 = 0 /\ c.nb >= MINSIZE
      /\ p \in DOMAIN live
  BY DEF Obtained, CallOK
<1>2. p \in U /\ v \in U
  BY <1>1
<1> HIDE DEF U
<1>3. p \in Nat /\ v \in Nat /\ H.head[p].size \in Nat /\ H.head[v].size \in Nat
  BY ONLY <1>1, <1>2, UsedChunk
<1>4. v = p + H.head[p].size /\ ns = H.head[p].size + H.head[v].size
  <2>1. next_chunk(H, p) = p + H.head[p].size /\ chunksize(H, p) = H.head[p].size /\ chunksize(H, v) = H.head[v].size
    BY ONLY <1>3, ChunkSizeFacts
  <2> QED BY <2>1
<1>5. ResizeReady(H, U, W, K, {p, v}, p, m) /\ m - p = H.head[p].size + H.head[v].size
  <2> HIDE DEF p, ns
  <2>1. HeapOK(H, U, W) /\ p \in U /\ v \in U /\ v = p + H.head[p].size /\ m = v + H.head[v].size
    BY <1>1, <1>2, <1>4
  <2> HIDE DEF m
  <2>2. ResizeReady(H, U, W, Absorb(H, {v}), {p, v}, p, m) /\ m - p = H.head[p].size + H.head[v].size
    BY ONLY <2>1, ReadyNext
  <2> QED BY <2>2
<1> HIDE DEF K, m, ns
<1>6. U \ {p, v} = DOMAIN live \ {p}
  BY <1>1 DEF U
<1>7. SplitRest(K, p, p, ns, c.nb, AddrMod, c.req)
  BY DEF K, ns
<1>8. ns >= c.nb /\ ns = m - p
  BY ONLY <1>1, <1>3, <1>4, <1>5
<1>9. AddrMod >= c.req
  <2>1. AddrMod \in Nat
    BY MallocConstants
  <2> QED BY <1>1, <2>1
<1> HIDE DEF p
<1>10. Settled(W, TopEnd(H)) /\ Outcome(c.req)
  BY ONLY <1>1, <1>5, <1>6, <1>7, <1>8, <1>9, SplitRestSettles
<1> QED BY <1>10

\* realloc got a chunk elsewhere.
LEMMA DeliverFar ==
    ASSUME NEW c, CallOK(c, live), c.op = "realloc", NEW H, NEW W, NEW v, Obtained(H, W, c, v),
           ReturnVia(H, fREe(H, c.old)), Moved(c.old, v, chunksize(H, c.old) - 1, c.req)
    PROVE  Settled(W, TopEnd(H)) /\ Outcome(c.req)
<1> DEFINE U == DOMAIN live \cup {v}
           p == c.old
           G == fREe(H, p)
<1>1. /\ HeapOK(H, U, W) /\ Held(H, live) /\ TopEnd(H) % 2 = 0
      /\ v \notin DOMAIN live /\ H.head[v].size >= c.nb
      /\ c.req \in Nat /\ c.nb \in Nat /\ c.req <= c.nb - 1
      /\ p \in DOMAIN live
  BY DEF Obtained, CallOK
<1>2. p \in U /\ v \in U /\ p # v /\ U \ {p} = (DOMAIN live \ {p}) \cup {v} /\ v \notin DOMAIN live \ {p}
  BY <1>1
<1> HIDE DEF U
<1>3. Freed(H, U, W, p, G)
  BY ONLY <1>1, <1>2, FreeFacts
<1>a. ReturnVia(H, G) /\ Moved(p, v, chunksize(H, p) - 1, c.req)
  OBVIOUS
<1> HIDE DEF G, p
<1>4. Resized(H, DOMAIN live \ {p}, W, v, c.nb, G)
  <2>1. HeapOK(G, U \ {p}, W) /\ TopEnd(G) = TopEnd(H) /\ \A x \in U \ {p} : G.head[x].size = H.head[x].size
    BY ONLY <1>3 DEF Freed
  <2> QED BY ONLY <1>1, <1>2, <2>1 DEF Resized
<1>5. chunksize(H, p) - 1 >= live[p].size
  <2>1. p \in Nat /\ H.head[p].size \in Nat
    BY ONLY <1>1, <1>2, UsedChunk
  <2>2. chunksize(H, p) = H.head[p].size
    BY ONLY <2>1, ChunkSizeFacts
  <2>3. live[p].size \in Nat /\ live[p].size <= H.head[p].size - 1
    BY <1>1 DEF Held
  <2> QED BY ONLY <2>1, <2>2, <2>3
<1>6. HeapOK(G, DOMAIN live', W) /\ Held(G, live') /\ TopEnd(G) = TopEnd(H) /\ Outcome(c.req)
  BY ONLY <1>1, <1>a, <1>4, <1>5, MovedHeld
<1>7. Settled(W, TopEnd(H))
  BY ONLY <1>a, <1>6, ReturnSettles
<1> QED BY ONLY <1>6, <1>7

\* mALLOc delivers a chunk to whoever called it.
LEMMA DeliverSettles ==
    ASSUME NEW c, CallOK(c, live), NEW H, NEW W, NEW v, Obtained(H, W, c, v), Deliver(c, H, v)
    PROVE  Settled(W, TopEnd(H)) /\ Outcome(c.req)
<1>1. CASE c.op = "malloc" /\ ReturnVia(H, H) /\ live' = Put(live, v, [size |-> c.req, intact |-> TRUE])
  BY <1>1, DeliverNew
<1>2. CASE /\ c.op = "realloc" /\ v = next_chunk(H, c.old)
           /\ SplitRest(Absorb(H, {v}), c.old, c.old, chunksize(H, c.old) + chunksize(H, v), c.nb, AddrMod, c.req)
  BY <1>2, DeliverNext
<1>3. CASE /\ c.op = "realloc"
           /\ ReturnVia(H, fREe(H, c.old)) /\ Moved(c.old, v, chunksize(H, c.old) - 1, c.req)
  BY <1>3, DeliverFar
<1> QED BY <1>1, <1>2, <1>3 DEF Deliver

\* The block takes what it needs from top.
LEMMA IntoTopSettles ==
    ASSUME NEW H, NEW W, HeapOK(H, DOMAIN live, W), Held(H, live), NEW e, e = TopEnd(H), e % 2 = 0,
           NEW H0, BinsOK(H0), SameHeads(H, H0), NEW R, Elems(H0.bins) = Elems(H.bins) \ R,
           NEW lo, lo % 2 = 0, Span(H.head, R, lo, e), Spare(W, lo, e), H.top \in R,
           NEW old, old \in DOMAIN live, R \cap DOMAIN live = {old}, {old, H.top} \ {lo} = R \ {lo},
           NEW nb, nb \in Nat, nb % 2 = 0, nb >= MINSIZE, e - lo >= nb + MINSIZE,
           NEW copied, NEW req, IntoTop(H0, old, lo, nb, copied, req),
           copied >= live[old].size \/ copied >= req, req \in Nat, req <= nb - 1
    PROVE  Settled(W, e) /\ Outcome(req)
<1> DEFINE P == {old, H.top} \ {lo}
           s == e - lo - nb
           r == lo + nb
           G == [set_head_size(set_head(Absorb(H0, P), r, s, PREV_INUSE), lo, nb) EXCEPT !.top = r]
<1>1. H0.top = H.top /\ H0.head = H.head
  BY DEF SameHeads
<1>2. chunksize(H0, H0.top) = H.head[H.top].size /\ H.top \in Nat /\ H.head[H.top].size \in Nat /\ e = H.top + H.head[H.top].size
  BY <1>1, TopThere, ChunkSizeFacts
<1>a. lo \in Nat
  BY HeapParts DEF Span
<1>3. H0.top + chunksize(H0, H0.top) - lo = e - lo
  BY ONLY <1>1, <1>2, <1>a
<1>4. ReturnVia(G, G) /\ Moved(old, lo, copied, req)
  <2> DEFINE F(t, ns) == [set_head_size(set_head(Absorb(H0, {old, t} \ {lo}), lo + nb, ns - nb, PREV_INUSE), lo, nb)
                              EXCEPT !.top = lo + nb]
             n0 == H0.top + chunksize(H0, H0.top) - lo
  <2>1. ReturnVia(F(H0.top, n0), F(H0.top, n0)) /\ Moved(old, lo, copied, req)
    BY DEF IntoTop
  <2>2. G = F(H.top, e - lo)
    OBVIOUS
  <2> HIDE DEF F, G
  <2>3. H0.top = H.top /\ n0 = e - lo
    BY <1>1, <1>3
  <2> HIDE DEF n0
  <2> QED BY ONLY <2>1, <2>2, <2>3
<1> HIDE DEF P, s, r
<1>5. Resized(H, DOMAIN live \ R, W, lo, nb, G)
  <2>1. P = R \ {lo} /\ s = e - lo - nb /\ r = lo + nb
    BY DEF P, s, r
  <2> QED BY <2>1, IntoTopFacts
<1> HIDE DEF G
<1>6. DOMAIN live \ R = DOMAIN live \ {old}
  OBVIOUS
<1>7. HeapOK(G, DOMAIN live', W) /\ Held(G, live') /\ TopEnd(G) = TopEnd(H) /\ Outcome(req)
  BY <1>4, <1>5, <1>6, MovedHeld
<1> QED BY <1>4, <1>7, ReturnSettles

-----------------------------------------------------------------------------
(* Pages: rounding, the answers of ub_sbrk, the words other callers hold.  *)

LEMMA PageSizeFacts == PageSize \in Nat /\ PageSize > 0 /\ PageSize % 2 = 0
  BY MallocConstants

\* Multiples of a number.
LEMMA Multiples ==
    ASSUME NEW P \in Nat \ {0}, NEW a \in Int, NEW b \in Int, a % P = 0, b % P = 0
    PROVE  (a + b) % P = 0 /\ (a - b) % P = 0
<1>1. PICK j \in Int : a = j * P
  <2>1. a = (a \div P) * P
    OBVIOUS
  <2> QED BY <2>1
<1>2. PICK k \in Int : b = k * P
  <2>1. b = (b \div P) * P
    OBVIOUS
  <2> QED BY <2>1
<1>3. a + b = (j + k) * P /\ a - b = (j - k) * P
  BY <1>1, <1>2
<1>4. \A n \in Int : (n * P) % P = 0
  OBVIOUS
<1> QED BY <1>3, <1>4

LEMMA ProductMultiple ==
    ASSUME NEW P \in Nat \ {0}, NEW n \in Int
    PROVE  (n * P) % P = 0 /\ n * P \in Int
  OBVIOUS

\* Between multiples there is at least P.
LEMMA NextMultiple ==
    ASSUME NEW P \in Nat \ {0}, NEW a \in Int, NEW b \in Int, a % P = 0, b % P = 0, a - b < P
    PROVE  a <= b
<1>1. PICK j \in Int : a = j * P
  <2>1. a = (a \div P) * P
    OBVIOUS
  <2> QED BY <2>1
<1>2. PICK k \in Int : b = k * P
  <2>1. b = (b \div P) * P
    OBVIOUS
  <2> QED BY <2>1
<1>3. CASE j <= k
  BY <1>1, <1>2, <1>3
<1>4. CASE j >= k + 1
  <2>1. j * P >= (k + 1) * P
    BY <1>4
  <2>2. (k + 1) * P = k * P + P
    OBVIOUS
  <2> QED BY <1>1, <1>2, <2>1, <2>2
<1> QED BY <1>3, <1>4

\* A multiple of the page size is even.
LEMMA PageEven ==
    ASSUME NEW a \in Int, a % PageSize = 0
    PROVE  a % 2 = 0
<1>1. PageSize \in Nat \ {0} /\ PageSize % 2 = 0
  BY PageSizeFacts
<1>2. PICK j \in Int : a = j * PageSize
  <2>1. a = (a \div PageSize) * PageSize
    BY <1>1
  <2> QED BY <1>1, <2>1
<1>3. PICK k \in Int : PageSize = 2 * k
  <2>1. PageSize = 2 * (PageSize \div 2)
    BY <1>1
  <2> QED BY <1>1, <2>1
<1>4. a = 2 * (j * k) /\ j * k \in Int
  BY <1>2, <1>3
<1>5. \A n \in Int : (2 * n) % 2 = 0
  OBVIOUS
<1> QED BY <1>4, <1>5

LEMMA Rounding ==
    ASSUME NEW P \in Nat \ {0}, NEW a \in Nat, NEW q, q = (a + P - 1) \div P
    PROVE  q \in Nat /\ a <= q * P /\ q * P < a + P /\ q * P \in Nat /\ (q * P) % P = 0
<1>1. q \in Int /\ q * P <= a + P - 1 /\ a + P - 1 < q * P + P
  OBVIOUS
<1>2. q \in Nat
  OBVIOUS
<1>3. q * P \in Nat
  BY <1>2
<1>4. (q * P) % P = 0
  BY <1>2, ProductMultiple
<1>5. a <= q * P /\ q * P < a + P
  <2> DEFINE x == q * P
  <2>1. x \in Nat /\ x <= a + P - 1 /\ a + P - 1 < x + P
    BY <1>1, <1>3
  <2> HIDE DEF x
  <2>2. a <= x /\ x < a + P
    BY <2>1
  <2> QED BY <2>2 DEF x
<1> QED BY <1>2, <1>3, <1>4, <1>5

\* Sums of whole pages, and rounding up to one.
LEMMA PageUpFacts ==
    ASSUME NEW a \in Nat
    PROVE  PageUp(a) \in Nat /\ a <= PageUp(a) /\ PageUp(a) < a + PageSize /\ PageUp(a) % PageSize = 0
  BY PageSizeFacts, Rounding DEF PageUp

\* What malloc_trim gives back is whole pages, and leaves a chunk.
LEMMA ExtraFacts ==
    ASSUME NEW H, NEW n, n = chunksize(H, H.top), n \in Nat, n >= MINSIZE, Extra(H) >= PageSize
    PROVE  Extra(H) \in Nat /\ Extra(H) % PageSize = 0 /\ n - Extra(H) >= MINSIZE
<1> DEFINE P == PageSize
           q == (n - MINSIZE + P - 1) \div P
<1>1. P \in Nat \ {0}
  BY PageSizeFacts
<1>2. n - MINSIZE \in Nat
  BY DEF MINSIZE
<1> DEFINE a == n - MINSIZE
<1>3. q = (a + P - 1) \div P
  BY <1>1
<1> HIDE DEF a, q, P
<1>4. q \in Nat /\ q * P < a + P
  BY <1>1, <1>2, <1>3, Rounding DEF a
<1>5. Extra(H) = (q - 1) * P
  BY DEF Extra, q, P
<1>6. (q - 1) * P = q * P - P /\ (q - 1) * P \in Int /\ ((q - 1) * P) % P = 0
  BY <1>1, <1>4, ProductMultiple
<1>7. Extra(H) \in Int /\ Extra(H) % P = 0 /\ Extra(H) < a
  BY <1>1, <1>2, <1>4, <1>5, <1>6 DEF a
<1> QED BY <1>1, <1>2, <1>7 DEF a, P, MINSIZE

\* What a request is padded to.
LEMMA RequestFacts ==
    ASSUME NEW req, req \in 0 .. AddrMod - 1, ~TooLarge(req), NEW nb, nb = request2size(req)
    PROVE  nb \in Nat /\ nb % 2 = 0 /\ nb >= MINSIZE /\ req <= nb - 1 /\ nb <= IntMax /\ req \in Nat /\ req < AddrMod
<1> DEFINE M == AddrMod
           x == (req + 2) % M
<1>1. M \in Nat /\ M > 6 /\ req \in Nat /\ req < M /\ IntMax \in Nat
  <2>1. /\ HeapMax \in Nat /\ IntMax \in Nat /\ AddrMod \in Nat /\ PageSize \in Nat /\ InitialBase \in Nat /\ InitialBase > 0
        /\ InitialPages \in Nat /\ HeapMax + IntMax + PageSize + 4 < AddrMod /\ InitialBase + InitialPages * PageSize <= HeapMax
    BY MallocConstants
  <2>2. InitialPages * PageSize \in Nat
    BY <2>1
  <2>3. PageSize >= 2
    BY PageSizeFacts
  <2> QED BY <2>1, <2>2, <2>3
<1>2. nb <= IntMax /\ nb >= req /\ nb = IF x < 5 THEN 4 ELSE Even(x)
  <2>1. nb \in Int
    BY <1>1 DEF request2size, Even, MINSIZE
  <2> QED BY <1>1, <2>1 DEF TooLarge, request2size, MINSIZE
<1>3. CASE req + 2 < M
  <2>1. x = req + 2
    BY <1>1, <1>3
  <2>2. x < 5 \/ Even(x) = x \/ Even(x) = x - 1
    BY <1>1, <2>1 DEF Even
  <2>3. Even(x) \in Nat /\ Even(x) % 2 = 0
    BY <1>1, <2>1 DEF Even
  <2> QED BY <1>1, <1>2, <2>1, <2>2, <2>3 DEF MINSIZE
<1>4. CASE req + 2 >= M
  <2>1. x < 5
    BY <1>1, <1>4
  <2> QED BY <1>1, <1>2, <1>4, <2>1
<1> QED BY <1>1, <1>3, <1>4

Paged(a) == a % PageSize = 0

\* Whole pages add up to whole pages.
LEMMA PagedSum ==
    ASSUME NEW a, NEW b, a \in Int, b \in Int, Paged(a), Paged(b), NEW c
    PROVE  (c = a + b => Paged(c)) /\ (c = a - b => Paged(c))
<1>1. PageSize \in Nat \ {0} /\ a % PageSize = 0 /\ b % PageSize = 0
  BY MallocConstants DEF Paged
<1>2. (a + b) % PageSize = 0 /\ (a - b) % PageSize = 0
  BY <1>1, Multiples
<1> QED BY <1>2 DEF Paged

LEMMA PagedNext ==
    ASSUME NEW a, NEW b, a \in Int, b \in Int, Paged(a), Paged(b), a - b < PageSize
    PROVE  a <= b
<1>1. PageSize \in Nat \ {0} /\ a % PageSize = 0 /\ b % PageSize = 0
  BY MallocConstants DEF Paged
<1> QED BY <1>1, NextMultiple

\* What a call of ub_sbrk for n more words does to the break.
Raised(n) ==
    /\ heap_base' = InitialBase /\ heap_current' \in Nat /\ heap_limit' \in Nat /\ ret' \in Nat
    /\ heap_limit' % PageSize = 0 /\ heap_current' <= heap_limit' /\ heap_limit' <= HeapMax
    /\ heap_current' >= heap_current
    /\ \/ ret' = AddrMod - 1 /\ (heap_base # 0 => heap_current' = heap_current)
       \/ ret' = heap_current' - n /\ ret' >= heap_current /\ (heap_base # 0 => ret' = heap_current)

\* What the assumptions on the constants say of addresses.
LEMMA BreakConstants ==
    /\ PageSize \in Nat \ {0} /\ InitialBase \in Nat \ {0} /\ HeapMax \in Nat /\ AddrMod \in Nat
    /\ InitialBase % PageSize = 0 /\ (InitialBase + InitialPages * PageSize) % PageSize = 0
    /\ InitialBase + InitialPages * PageSize <= HeapMax /\ InitialBase + InitialPages * PageSize \in Nat
    /\ InitialBase <= InitialBase + InitialPages * PageSize /\ IntMax \in Nat
    /\ HeapMax + IntMax + PageSize + 4 < AddrMod
<1>1. /\ PageSize \in Nat \ {0} /\ InitialBase \in Nat \ {0} /\ HeapMax \in Nat /\ AddrMod \in Nat /\ IntMax \in Nat
      /\ InitialBase % PageSize = 0 /\ InitialPages \in Nat /\ HeapMax + IntMax + PageSize + 4 < AddrMod
      /\ InitialBase + InitialPages * PageSize <= HeapMax
  BY MallocConstants
<1>2. InitialPages * PageSize \in Nat /\ (InitialPages * PageSize) % PageSize = 0
  BY <1>1, ProductMultiple
<1>3. (InitialBase + InitialPages * PageSize) % PageSize = 0
  <2>1. Paged(InitialBase) /\ Paged(InitialPages * PageSize)
    BY <1>1, <1>2 DEF Paged
  <2> DEFINE x == InitialPages * PageSize
             y == InitialBase + x
  <2>2. x \in Int /\ Paged(x) /\ InitialBase \in Int /\ Paged(InitialBase)
    BY <1>1, <1>2, <2>1
  <2> HIDE DEF x
  <2>3. y = InitialBase + x
    OBVIOUS
  <2> HIDE DEF y
  <2>4. Paged(y)
    BY ONLY <2>2, <2>3, PagedSum
  <2> QED BY <2>4 DEF Paged, x, y
<1> QED BY <1>1, <1>2, <1>3

\* ub_sbrk with a positive increment: refused, or the break is raised.
LEMMA RaisedFacts ==
    ASSUME BreakInv, NEW n, n \in 1 .. AddrMod - HeapMax - 2, Brk!Call(n)
    PROVE  Raised(n)
<1> DEFINE cur == IF heap_base = 0 THEN InitialBase ELSE heap_current
           lim == IF heap_base = 0 THEN InitialBase + InitialPages * PageSize ELSE heap_limit
           nbk == cur + n
           nl == lim + ((nbk - lim + PageSize - 1) \div PageSize) * PageSize
<1>1. /\ heap_base \in {0, InitialBase} /\ heap_current \in Nat /\ heap_limit \in Nat
      /\ heap_limit % PageSize = 0 /\ heap_current <= heap_limit /\ heap_limit <= HeapMax
      /\ heap_base = 0 => heap_current = 0 /\ heap_limit = 0
  BY DEF BreakInv
<1>2. /\ PageSize \in Nat \ {0} /\ InitialBase \in Nat \ {0} /\ HeapMax \in Nat /\ AddrMod \in Nat
      /\ InitialBase % PageSize = 0 /\ (InitialBase + InitialPages * PageSize) % PageSize = 0
      /\ InitialBase + InitialPages * PageSize <= HeapMax /\ InitialBase + InitialPages * PageSize \in Nat
      /\ InitialBase <= InitialBase + InitialPages * PageSize
      /\ n \in Nat /\ n >= 1 /\ n + HeapMax <= AddrMod - 2
  BY BreakConstants
<1>3. /\ cur \in Nat /\ lim \in Nat /\ lim % PageSize = 0 /\ cur <= lim /\ lim <= HeapMax
      /\ cur >= heap_current /\ (heap_base # 0 => cur = heap_current)
  BY <1>1, <1>2
<1>4. Brk!Cur = cur /\ Brk!Lim = lim
  BY DEF Brk!Cur, Brk!Lim, Brk!NULL
<1> HIDE DEF cur, lim
<1>5. (cur + n) % AddrMod = nbk /\ nbk \in Nat
  BY <1>2, <1>3
<1>6. Brk!NewBreak(n) = nbk
  BY <1>4, <1>5 DEF Brk!NewBreak
<1>7. Brk!NewLimit(nbk) = nl
  BY <1>4 DEF Brk!NewLimit
<1> HIDE DEF nbk, nl
<1>8. CASE Brk!FirstRefused
  <2>1. heap_base = 0 /\ heap_base' = InitialBase /\ ret' = AddrMod - 1 /\ heap_current' = heap_current /\ heap_limit' = heap_limit
    BY <1>8 DEF Brk!FirstRefused, Brk!NULL, Brk!ERROR
  <2>2. AddrMod - 1 \in Nat
    BY <1>2
  <2> QED BY <1>1, <2>1, <2>2 DEF Raised
<1>9. CASE Brk!Move(n)
  <2>1. nbk <= lim /\ heap_base' = InitialBase /\ heap_current' = nbk /\ heap_limit' = lim /\ ret' = cur
    BY <1>4, <1>6, <1>9 DEF Brk!Move
  <2>2. nbk >= heap_current /\ cur = nbk - n
    BY <1>1, <1>2, <1>3 DEF nbk
  <2> QED BY <1>3, <1>5, <2>1, <2>2 DEF Raised
<1>10. CASE Brk!Grow(n)
  <2>1. nbk > lim /\ nl <= HeapMax /\ heap_base' = InitialBase /\ heap_current' = nbk /\ heap_limit' = nl /\ ret' = cur
    BY <1>4, <1>6, <1>7, <1>10 DEF Brk!Grow
  <2>2. nbk >= heap_current /\ cur = nbk - n
    BY <1>1, <1>2, <1>3 DEF nbk
  <2> DEFINE a == nbk - lim
             q == (a + PageSize - 1) \div PageSize
  <2>3. a \in Nat
    BY <1>3, <1>5, <2>1
  <2> HIDE DEF a
  <2>4. q \in Nat /\ a <= q * PageSize /\ q * PageSize \in Nat /\ (q * PageSize) % PageSize = 0
    BY <1>2, <2>3, Rounding
  <2>5. nl = lim + q * PageSize
    BY DEF nl, a
  <2> HIDE DEF q
  <2>6. nl % PageSize = 0
    <3> DEFINE x == q * PageSize
    <3>1. x \in Int /\ Paged(x) /\ Paged(lim) /\ lim \in Int /\ nl = lim + x
      BY <1>3, <2>4, <2>5 DEF Paged
    <3> HIDE DEF x
    <3>2. Paged(nl)
      BY ONLY <3>1, PagedSum
    <3> QED BY <3>2 DEF Paged
  <2>7. nl \in Nat /\ nbk <= nl
    <3> DEFINE x == q * PageSize
    <3>1. x \in Nat /\ a <= x /\ nl = lim + x
      BY <2>4, <2>5
    <3> HIDE DEF x
    <3> QED BY <1>3, <1>5, <2>3, <3>1 DEF a
  <2> QED BY <1>3, <1>5, <2>1, <2>2, <2>6, <2>7 DEF Raised
<1>11. CASE Brk!GrowRefused(n)
  <2>1. heap_base' = InitialBase /\ heap_current' = cur /\ heap_limit' = lim /\ ret' = AddrMod - 1
    BY <1>4, <1>11 DEF Brk!GrowRefused, Brk!ERROR
  <2>2. AddrMod - 1 \in Nat
    BY <1>2
  <2> QED BY <1>3, <2>1, <2>2 DEF Raised
<1> QED BY <1>2, <1>8, <1>9, <1>10, <1>11 DEF Brk!Call

\* A break below its limit moves up to a page boundary without the firmware.
LEMMA Aligned ==
    ASSUME BreakInv, heap_base # 0, NEW n, n \in 0 .. PageSize - 1, (heap_current + n) % PageSize = 0, Brk!Call(n)
    PROVE  /\ heap_base' = heap_base /\ heap_limit' = heap_limit /\ heap_current' = heap_current + n /\ ret' = heap_current
           /\ heap_current + n <= heap_limit
<1>1. /\ heap_base \in {0, InitialBase} /\ heap_current \in Nat /\ heap_limit \in Nat
      /\ heap_limit % PageSize = 0 /\ heap_current <= heap_limit /\ heap_limit <= HeapMax
  BY DEF BreakInv
<1>2. PageSize \in Nat \ {0} /\ HeapMax \in Nat /\ AddrMod \in Nat /\ HeapMax < AddrMod /\ n \in Nat /\ n < PageSize
  BY BreakConstants
<1>3. heap_current + n <= heap_limit
  <2>1. heap_current + n \in Int /\ heap_current + n - heap_limit < PageSize
    BY <1>1, <1>2
  <2> DEFINE x == heap_current + n
  <2>2. x \in Int /\ x - heap_limit < PageSize /\ Paged(x) /\ heap_limit \in Int /\ Paged(heap_limit)
    BY <1>1, <2>1 DEF Paged
  <2> HIDE DEF x
  <2>3. x <= heap_limit
    BY ONLY <2>2, PagedNext
  <2> QED BY <2>3 DEF x
<1>4. CASE n = 0
  <2>1. Brk!Query
    BY <1>4 DEF Brk!Call
  <2> QED BY <1>1, <1>3, <1>4, <2>1 DEF Brk!Query
<1>5. CASE n # 0
  <2>1. (heap_current + n) % AddrMod = heap_current + n
    BY <1>1, <1>2, <1>3
  <2>2. Brk!NewBreak(n) = heap_current + n /\ Brk!Lim = heap_limit /\ Brk!Cur = heap_current
    BY <2>1 DEF Brk!NewBreak, Brk!Cur, Brk!Lim, Brk!NULL
  <2>3. ~(heap_current + n > heap_limit)
    BY <1>1, <1>2, <1>3
  <2>4. Brk!Move(n)
    BY <1>5, <2>2, <2>3 DEF Brk!Call, Brk!FirstRefused, Brk!Grow, Brk!GrowRefused, Brk!NULL
  <2> QED BY <1>1, <1>3, <2>2, <2>4 DEF Brk!Move
<1> QED BY <1>4, <1>5

\* Lowering the break is never refused.
LEMMA Lowered ==
    ASSUME BreakInv, heap_base # 0, NEW n, n \in Nat, n > 0, n <= heap_current, Brk!Call(AddrMod - n)
    PROVE  heap_base' = heap_base /\ heap_limit' = heap_limit /\ heap_current' = heap_current - n /\ ret' = heap_current
<1>1. /\ heap_base \in {0, InitialBase} /\ heap_current \in Nat /\ heap_limit \in Nat
      /\ heap_current <= heap_limit /\ heap_limit <= HeapMax
  BY DEF BreakInv
<1>2. HeapMax \in Nat /\ AddrMod \in Nat /\ HeapMax < AddrMod /\ n < AddrMod /\ AddrMod - n # 0
  BY <1>1, BreakConstants
<1>3. (heap_current + (AddrMod - n)) % AddrMod = heap_current - n
  BY <1>1, <1>2
<1>4. Brk!NewBreak(AddrMod - n) = heap_current - n /\ Brk!Lim = heap_limit /\ Brk!Cur = heap_current
  BY <1>3 DEF Brk!NewBreak, Brk!Cur, Brk!Lim, Brk!NULL
<1>5. ~(heap_current - n > heap_limit)
  BY <1>1, <1>2
<1>6. Brk!Move(AddrMod - n)
  BY <1>2, <1>4, <1>5 DEF Brk!Call, Brk!FirstRefused, Brk!Grow, Brk!GrowRefused, Brk!NULL
<1> QED BY <1>1, <1>4, <1>6 DEF Brk!Move

\* A call that returns a sound heap leaves the invariant behind.
LEMMA SettledInv ==
    ASSUME NEW e, Settled(foreign, e), foreign' = foreign, BreakInv', e \in Int, e % PageSize = 0,
           e <= heap_current', foreign = {} => heap_current' = e,
           sbrk_base' \in Nat, sbrked_mem' \in Int, e = sbrk_base' + sbrked_mem'
    PROVE  IInv'
<1>1. /\ HeapOK(h', DOMAIN live', foreign) /\ Held(h', live') /\ TopEnd(h') = e
      /\ pc' \in {"idle", "trim"} /\ (pc' = "trim" => Extra(h') >= PageSize) /\ call' = NoCall
  BY DEF Settled
<1>2. HasTop(h')
  BY <1>1, TopThere
<1>3. HeapInv(h', live', foreign')
  BY <1>1, <1>2 DEF HeapInv
<1>4. BreakFrom(h', foreign', heap_current')
  BY <1>1 DEF BreakFrom
<1>5. Accounted'
  BY <1>1, <1>2 DEF Accounted
<1>6. PcInv'
  BY <1>1, <1>2, <1>4, <1>5 DEF PcInv
<1> QED BY <1>3, <1>6 DEF IInv

\* Where the heap stands between calls.
Standing ==
    /\ HasTop(h) /\ HeapOK(h, DOMAIN live, foreign) /\ Held(h, live) /\ TopEnd(h) \in Nat
    /\ TopEnd(h) % PageSize = 0 /\ TopEnd(h) % 2 = 0
    /\ TopEnd(h) <= heap_current /\ (foreign = {} => heap_current = TopEnd(h))
    /\ sbrk_base \in Nat /\ sbrked_mem \in Int /\ TopEnd(h) = sbrk_base + sbrked_mem
    /\ heap_base # 0

LEMMA StandingFacts ==
    ASSUME IInv, pc \in {"idle", "extend", "trim"}, HasTop(h)
    PROVE  Standing
<1>1. HeapOK(h, DOMAIN live, foreign) /\ Held(h, live) /\ TopEnd(h) % PageSize = 0
  BY DEF IInv, HeapInv
<1>2. BreakFrom(h, foreign, heap_current) /\ Accounted /\ BreakInv
  BY DEF IInv, PcInv
<1>3. TopEnd(h) <= heap_current /\ (foreign = {} => heap_current = TopEnd(h))
  BY <1>2 DEF BreakFrom
<1>4. sbrk_base \in Nat /\ sbrked_mem \in Int /\ TopEnd(h) = sbrk_base + sbrked_mem
  BY <1>2 DEF Accounted
<1>5. TopEnd(h) \in Nat /\ TopEnd(h) > 0
  <2>1. h.top \in Nat /\ h.head[h.top].size \in Nat /\ h.head[h.top].size >= MINSIZE /\ TopEnd(h) = h.top + h.head[h.top].size
    BY <1>1, TopThere
  <2> QED BY <2>1 DEF MINSIZE
<1>6. heap_base # 0
  <2>1. heap_base = 0 => heap_current = 0
    BY <1>2 DEF BreakInv
  <2> QED BY <1>3, <1>5, <2>1
<1>7. TopEnd(h) % 2 = 0
  BY <1>1, <1>5, PageEven
<1> QED BY <1>1, <1>3, <1>4, <1>5, <1>6, <1>7 DEF Standing

LEMMA BreakKept ==
    ASSUME BreakInv, UNCHANGED <<foreign, brkVars>>
    PROVE  BreakInv'
  BY DEF BreakInv, brkVars

\* The same, when the break has not been moved.
LEMMA IdleSettles ==
    ASSUME IInv, Standing, Settled(foreign, TopEnd(h)),
           UNCHANGED <<sbrk_base, sbrked_mem, foreign, brkVars>>
    PROVE  IInv'
<1>1. BreakInv'
  <2>1. BreakInv
    BY DEF IInv
  <2> QED BY <2>1, BreakKept
<1>2. sbrk_base' = sbrk_base /\ sbrked_mem' = sbrked_mem /\ foreign' = foreign /\ heap_current' = heap_current
  BY DEF brkVars
<1>3. /\ TopEnd(h) \in Int /\ TopEnd(h) % PageSize = 0
      /\ TopEnd(h) <= heap_current /\ (foreign = {} => heap_current = TopEnd(h))
      /\ sbrk_base \in Nat /\ sbrked_mem \in Int /\ TopEnd(h) = sbrk_base + sbrked_mem
  BY DEF Standing
<1> QED BY <1>1, <1>2, <1>3, SettledInv

\* free keeps the invariant and takes one block away.
LEMMA FreeStep ==
    ASSUME IInv, NEW p \in DOMAIN live, Free(p)
    PROVE  IInv' /\ live' = Drop(live, {p})
<1>1. /\ pc = "idle" /\ ReturnVia(h, fREe(h, p)) /\ live' = Drop(live, {p})
      /\ UNCHANGED <<sbrk_base, sbrked_mem, foreign, brkVars>>
  BY DEF Free
<1>2. HasTop(h)
  <2>1. ~HasTop(h) => live = << >>
    BY DEF IInv, HeapInv, NoHeap
  <2> QED BY <2>1
<1>3. Standing
  BY <1>1, <1>2, StandingFacts
<1>4. HeapOK(h, DOMAIN live, foreign) /\ Held(h, live) /\ TopEnd(h) % 2 = 0
  BY <1>3 DEF Standing
<1> DEFINE G == fREe(h, p)
<1>5. Freed(h, DOMAIN live, foreign, p, G)
  BY <1>4, FreeFacts
<1>6. ReturnVia(h, G)
  BY <1>1
<1> HIDE DEF G
<1>7. /\ HeapOK(G, DOMAIN live \ {p}, foreign) /\ TopEnd(G) = TopEnd(h)
      /\ \A c \in DOMAIN live \ {p} : G.head[c].size = h.head[c].size
  BY <1>5 DEF Freed
<1>8. DOMAIN live' = DOMAIN live \ {p} /\ \A c \in DOMAIN live \ {p} : live'[c] = live[c]
  BY <1>1, DropFacts
<1>9. Held(G, live')
  BY <1>4, <1>7, <1>8 DEF Held
<1>10. HeapOK(G, DOMAIN live', foreign)
  BY <1>7, <1>8
<1>11. Settled(foreign, TopEnd(h))
  BY <1>6, <1>7, <1>9, <1>10, ReturnSettles
<1> QED BY <1>1, <1>3, <1>11, IdleSettles

-----------------------------------------------------------------------------
(* mALLOc.                                                                 *)

\* The call mALLOc makes, once the request is known to fit an int.
CallOf(op, old, req, nb) ==
    [NoCall EXCEPT !.op = op, !.old = old, !.req = req, !.nb = nb, !.size = sbrk_size(nb)]

LEMMA CallParts ==
    ASSUME NEW op, NEW old, NEW req, NEW nb, NEW c, c = CallOf(op, old, req, nb)
    PROVE  c.op = op /\ c.old = old /\ c.req = req /\ c.nb = nb /\ c.size = sbrk_size(nb) /\ DOMAIN c = DOMAIN NoCall
  BY DEF CallOf, NoCall

\* The call that mALLOc begins.
LEMMA CallIsOK ==
    ASSUME NEW op, op \in {"malloc", "realloc"}, NEW old, op = "realloc" => old \in DOMAIN live,
           NEW req, req \in 0 .. AddrMod - 1, req \in AllRequests, ~TooLarge(req),
           NEW nb, nb = request2size(req), NEW c, c = CallOf(op, old, req, nb)
    PROVE  CallOK(c, live)
<1>1. c.op = op /\ c.old = old /\ c.req = req /\ c.nb = nb /\ DOMAIN c = DOMAIN NoCall
  BY CallParts
<1>2. nb \in Nat /\ nb % 2 = 0 /\ nb >= MINSIZE /\ req <= nb - 1 /\ nb <= IntMax /\ req \in Nat /\ req < AddrMod
  BY RequestFacts
<1> QED BY <1>1, <1>2 DEF CallOK

\* The sizes of the blocks are those of h.
LEMMA HeldOn ==
    ASSUME NEW H, Held(H, live), NEW G, \A x \in DOMAIN live : G.head[x].size = H.head[x].size
    PROVE  Held(G, live)
  BY DEF Held

\* Top serves the request.
LEMMA FromTopObtained ==
    ASSUME NEW H, NEW W, HeapOK(H, DOMAIN live, W), Held(H, live), TopEnd(H) % 2 = 0,
           NEW c, CallOK(c, live), TopFits(H, c.nb)
    PROVE  Obtained(FromTop(H, c.nb), W, c, H.top) /\ TopEnd(FromTop(H, c.nb)) = TopEnd(H)
<1> DEFINE G == FromTop(H, c.nb)
<1>1. c.nb \in Nat /\ c.nb % 2 = 0 /\ c.nb >= MINSIZE
  BY DEF CallOK
<1>2. H.head[H.top].size >= c.nb + MINSIZE
  BY TopThere DEF TopFits
<1>3. /\ HeapOK(G, DOMAIN live \cup {H.top}, W) /\ TopEnd(G) = TopEnd(H)
      /\ G.head[H.top].size = c.nb /\ H.top \notin DOMAIN live
      /\ \A x \in DOMAIN live : G.head[x].size = H.head[x].size
  BY <1>1, <1>2, FromTopFacts
<1> HIDE DEF G
<1>4. Held(G, live)
  BY <1>3, HeldOn
<1>5. G.head[H.top].size >= c.nb
  BY <1>1, <1>3
<1>6. Obtained(G, W, c, H.top)
  BY <1>3, <1>4, <1>5 DEF Obtained
<1> QED BY <1>3, <1>6 DEF G

\* The search goes on to malloc_extend_top.
Misses(H, c) ==
    /\ h' = H /\ pc' = "extend" /\ call' = c /\ UNCHANGED live
    /\ UNCHANGED <<sbrk_base, sbrked_mem, foreign, brkVars>>

\* What sbrk_size asks for: enough, and whole pages once there is a heap.
LEMMA SizeFacts ==
    ASSUME IInv, pc = "idle", NEW c, CallOK(c, live), c.size = sbrk_size(c.nb)
    PROVE  SizeOK(c)
<1>1. c.nb \in Nat /\ c.nb + MINSIZE \in Nat
  BY DEF CallOK, MINSIZE
<1>2. PageUp(c.nb + MINSIZE) \in Nat /\ c.nb + MINSIZE <= PageUp(c.nb + MINSIZE)
      /\ PageUp(c.nb + MINSIZE) < c.nb + MINSIZE + PageSize /\ PageUp(c.nb + MINSIZE) % PageSize = 0
  BY <1>1, PageUpFacts
<1>3. HasTop(h) => sbrk_base # NO_BASE
  BY DEF IInv, PcInv, Accounted, NO_BASE
<1>4. PageSize \in Nat /\ PageSize > 0
  BY PageSizeFacts
<1>5. CASE sbrk_base = NO_BASE
  BY <1>1, <1>3, <1>4, <1>5 DEF SizeOK, sbrk_size
<1>6. CASE sbrk_base # NO_BASE
  BY <1>1, <1>2, <1>6 DEF SizeOK, sbrk_size
<1> QED BY <1>5, <1>6

\* mALLOc has found nothing and is about to extend the heap.
LEMMA MissInv ==
    ASSUME IInv, pc = "idle", NEW c, CallOK(c, live), c.size = sbrk_size(c.nb), NEW H, Misses(H, c),
           HeapInv(H, live, foreign), HasTop(H) <=> HasTop(h), HasTop(h) => TopEnd(H) = TopEnd(h),
           \A x \in Elems(H.bins) : H.head[x].size < c.nb
    PROVE  IInv'
<1>1. /\ h' = H /\ pc' = "extend" /\ call' = c /\ live' = live /\ sbrk_base' = sbrk_base /\ sbrked_mem' = sbrked_mem
      /\ foreign' = foreign /\ heap_current' = heap_current /\ UNCHANGED <<foreign, brkVars>>
  BY DEF Misses, brkVars
<1>2. BreakInv'
  BY <1>1, BreakKept DEF IInv
<1>3. Accounted /\ BreakFrom(h, foreign, heap_current)
  BY DEF IInv, PcInv
<1>4. Accounted'
  BY <1>1, <1>3 DEF Accounted
<1>5. BreakFrom(h', foreign', heap_current')
  BY <1>1, <1>3 DEF BreakFrom
<1>6. SizeOK(c)
  BY SizeFacts
<1>7. SizeOK(call)'
  BY <1>1, <1>6 DEF SizeOK
<1>8. CallOK(call', live')
  BY <1>1
<1>9. PcInv'
  BY <1>1, <1>4, <1>5, <1>7, <1>8 DEF PcInv
<1> QED BY <1>1, <1>2, <1>9 DEF IInv

\* Without chunks there is nothing to find.
LEMMA EmptySearch ==
    ASSUME NEW H, NEW L, NoHeap(H, L), NEW nb, nb \in Nat, nb >= MINSIZE
    PROVE  FromBins(H, nb).h = H /\ FromBins(H, nb).victim = NULL /\ ~TopFits(H, nb) /\ Elems(H.bins) = {}
<1>1. H.bins = << >> /\ H.binblocks = {} /\ H.top = INITIAL_TOP /\ DOMAIN H.bins = {}
  BY DEF NoHeap
<1>2. \A i : Bin(H, i) = << >>
  BY <1>1 DEF Bin
<1>3. \A i : LastFitting(H, i, nb) = NULL
  <2> TAKE i
  <2>1. {k \in DOMAIN Bin(H, i) : chunksize(H, Bin(H, i)[k]) >= nb} = {}
    BY <1>2
  <2> QED BY <2>1 DEF LastFitting
<1>4. ExactFit(H, nb) = NULL
  BY <1>2, <1>3 DEF ExactFit
<1>5. \A i : BestFit(H, nb, i) = [h |-> H, victim |-> NULL]
  <2> TAKE i
  <2>1. {b \in H.binblocks : b >= Block(i)} = {}
    BY <1>1
  <2> QED BY <2>1 DEF BestFit
<1>6. FromBins(H, nb) = [h |-> H, victim |-> NULL]
  BY <1>2, <1>4, <1>5 DEF FromBins
<1>7. ~TopFits(H, nb)
  <2>1. chunksize(H, H.top) = 0
    BY <1>1 DEF chunksize
  <2> QED BY <2>1 DEF TopFits, MINSIZE
<1>8. Elems(H.bins) = {}
  BY <1>1 DEF Elems
<1> QED BY <1>6, <1>7, <1>8

\* mALLOc keeps the invariant, for malloc and for rEALLOc.
LEMMA MallocStep ==
    ASSUME IInv, pc = "idle", NEW op, op \in {"malloc", "realloc"}, NEW old, op = "realloc" => old \in DOMAIN live,
           NEW req, req \in 0 .. AddrMod - 1, req \in AllRequests, mALLOc(op, old, req)
    PROVE  IInv' /\ (UNCHANGED live \/ Outcome(req))
<1> DEFINE nb == request2size(req)
           c == CallOf(op, old, req, nb)
           got == FromBins(h, nb)
<1>1. /\ ~TooLarge(req)
      /\ \/ got.victim # NULL /\ Deliver(c, got.h, got.victim)
         \/ got.victim = NULL /\ TopFits(got.h, nb) /\ Deliver(c, FromTop(got.h, nb), got.h.top)
         \/ got.victim = NULL /\ ~TopFits(got.h, nb) /\ Misses(got.h, c)
      /\ UNCHANGED <<sbrk_base, sbrked_mem, foreign, brkVars>>
  BY DEF mALLOc, CallOf, Misses
<1> HIDE DEF nb, got
<1>2. CallOK(c, live)
  BY <1>1, CallIsOK DEF nb
<1>3. c.nb = nb /\ c.size = sbrk_size(c.nb) /\ c.req = req
  BY CallParts
<1> HIDE DEF c
<1>4. nb \in Nat /\ nb % 2 = 0 /\ nb >= MINSIZE
  BY <1>2, <1>3 DEF CallOK
<1>5. CASE ~HasTop(h)
  <2>1. NoHeap(h, live)
    BY <1>5 DEF IInv, HeapInv
  <2>2. got.h = h /\ got.victim = NULL /\ ~TopFits(h, nb) /\ Elems(h.bins) = {}
    BY <1>4, <2>1, EmptySearch DEF got
  <2>3. Misses(h, c)
    BY <1>1, <2>2
  <2>4. HeapInv(h, live, foreign)
    BY DEF IInv
  <2>5. IInv'
    BY <1>2, <1>3, <1>5, <2>2, <2>3, <2>4, MissInv
  <2> QED BY <2>3, <2>5 DEF Misses
<1>6. CASE HasTop(h)
  <2>1. Standing
    BY <1>6, StandingFacts
  <2>2. HeapOK(h, DOMAIN live, foreign) /\ Held(h, live) /\ TopEnd(h) % 2 = 0 /\ TopEnd(h) % PageSize = 0
    BY <2>1 DEF Standing
  <2>3. IF got.victim = NULL THEN Missed(h, DOMAIN live, foreign, nb, got) ELSE Taken(h, DOMAIN live, foreign, nb, got.victim, got)
    BY <1>4, <2>2, FromBinsFacts DEF got
  <2>4. CASE got.victim # NULL /\ Deliver(c, got.h, got.victim)
    <3> DEFINE v == got.victim
               G == got.h
    <3>1. /\ HeapOK(G, DOMAIN live \cup {v}, foreign) /\ TopEnd(G) = TopEnd(h)
          /\ v \notin DOMAIN live /\ G.head[v].size >= nb
          /\ \A x \in DOMAIN live : G.head[x].size = h.head[x].size
      BY <2>3, <2>4 DEF Taken
    <3>2. Obtained(G, foreign, c, v)
      <4>1. Held(G, live)
        BY <2>2, <3>1, HeldOn
      <4> QED BY <1>3, <2>2, <3>1, <4>1 DEF Obtained
    <3>3. Settled(foreign, TopEnd(G)) /\ Outcome(c.req)
      BY <1>2, <2>4, <3>2, DeliverSettles
    <3> QED BY <1>1, <1>3, <2>1, <3>1, <3>3, IdleSettles
  <2>5. CASE got.victim = NULL
    <3> DEFINE G == got.h
    <3>1. /\ HeapOK(G, DOMAIN live, foreign) /\ SameHeads(h, G) /\ TopEnd(G) = TopEnd(h)
          /\ \A x \in Elems(G.bins) : h.head[x].size < nb
      BY <2>3, <2>5 DEF Missed
    <3>2. G.head = h.head /\ G.top = h.top
      BY <3>1 DEF SameHeads
    <3>3. Held(G, live)
      BY <2>2, <3>2, HeldOn
    <3>4. CASE TopFits(G, nb) /\ Deliver(c, FromTop(G, nb), G.top)
      <4>1. Obtained(FromTop(G, c.nb), foreign, c, G.top) /\ TopEnd(FromTop(G, c.nb)) = TopEnd(G)
        BY <1>2, <1>3, <2>2, <3>1, <3>3, <3>4, FromTopObtained
      <4>2. Settled(foreign, TopEnd(h)) /\ Outcome(c.req)
        <5> DEFINE F == FromTop(G, c.nb)
        <5> HIDE DEF F
        <5>1. Obtained(F, foreign, c, G.top) /\ TopEnd(F) = TopEnd(h) /\ Deliver(c, F, G.top)
          BY <1>3, <3>1, <3>4, <4>1 DEF F
        <5>2. Settled(foreign, TopEnd(F)) /\ Outcome(c.req)
          BY <1>2, <5>1, DeliverSettles
        <5> QED BY <5>1, <5>2
      <4> QED BY <1>1, <1>3, <2>1, <4>2, IdleSettles
    <3>5. CASE ~TopFits(G, nb) /\ Misses(G, c)
      <4>1. HasTop(G)
        BY <1>6, <3>2 DEF HasTop
      <4>2. HeapInv(G, live, foreign)
        BY <2>2, <3>1, <3>3, <4>1 DEF HeapInv
      <4>3. \A x \in Elems(G.bins) : G.head[x].size < c.nb
        BY <1>3, <3>1, <3>2
      <4>4. IInv'
        BY <1>2, <1>3, <1>6, <3>1, <3>5, <4>1, <4>2, <4>3, MissInv
      <4> QED BY <3>5, <4>4 DEF Misses
    <3> QED BY <1>1, <2>5, <3>4, <3>5
  <2> QED BY <1>1, <2>4, <2>5
<1> QED BY <1>5, <1>6

-----------------------------------------------------------------------------
(* rEALLOc.                                                                *)

\* The block `old' of h is to hold req words, in a chunk of nb.
Resizing(W, old, nb, req) ==
    /\ HeapOK(h, DOMAIN live, W) /\ Held(h, live) /\ TopEnd(h) % 2 = 0 /\ old \in DOMAIN live
    /\ nb \in Nat /\ nb % 2 = 0 /\ nb >= MINSIZE /\ req \in Nat /\ req <= nb - 1

\* All the words of the block are kept.
Kept(old, copied, req) == copied >= live[old].size \/ copied >= req

LEMMA SplitReady ==
    ASSUME NEW W, NEW old, NEW nb, NEW req, Resizing(W, old, nb, req), NEW copied, Kept(old, copied, req),
           NEW K, NEW R, NEW lo, NEW hi, ResizeReady(h, DOMAIN live, W, K, R, lo, hi), R \cap DOMAIN live = {old},
           NEW newsize, newsize = hi - lo, newsize >= nb, SplitRest(K, old, lo, newsize, nb, copied, req)
    PROVE  Settled(W, TopEnd(h)) /\ Outcome(req)
<1>1. /\ HeapOK(h, DOMAIN live, W) /\ Held(h, live) /\ TopEnd(h) % 2 = 0 /\ old \in DOMAIN live
      /\ nb \in Nat /\ nb % 2 = 0 /\ nb >= MINSIZE /\ req \in Nat /\ req <= nb - 1
      /\ copied >= live[old].size \/ copied >= req
  BY DEF Resizing, Kept
<1>2. DOMAIN live \ R = DOMAIN live \ {old}
  OBVIOUS
<1> QED BY <1>1, <1>2, SplitRestSettles

\* The block and its neighbours before rEALLOc.
LEMMA ResizingFacts ==
    ASSUME NEW W, NEW old, NEW nb, NEW req, Resizing(W, old, nb, req)
    PROVE  /\ old \in Nat /\ old % 2 = 0 /\ h.head[old].size \in Nat /\ h.head[old].size >= MINSIZE
           /\ chunksize(h, old) = h.head[old].size /\ next_chunk(h, old) = old + h.head[old].size
           /\ old + h.head[old].size \in DOMAIN h.head /\ old + h.head[old].size \in Nat
           /\ live[old].size <= chunksize(h, old) - 1 /\ live[old].size \in Nat
<1>1. HeapOK(h, DOMAIN live, W) /\ Held(h, live) /\ old \in DOMAIN live
  BY DEF Resizing
<1>2. /\ old \in Nat /\ old % 2 = 0 /\ h.head[old].size \in Nat /\ h.head[old].size >= MINSIZE
      /\ old + h.head[old].size \in DOMAIN h.head /\ old + h.head[old].size \in Nat
  BY <1>1, UsedChunk
<1>3. chunksize(h, old) = h.head[old].size /\ next_chunk(h, old) = old + h.head[old].size
  BY <1>2, ChunkSizeFacts
<1>4. live[old].size \in Nat /\ live[old].size <= h.head[old].size - 1
  BY <1>1 DEF Held
<1>5. live[old].size <= chunksize(h, old) - 1
  BY ONLY <1>3, <1>4
<1> QED BY ONLY <1>2, <1>3, <1>4, <1>5

\* The chunk above a block: top, free or in use.
LEMMA NextFree ==
    ASSUME NEW W, NEW old, NEW nb, NEW req, Resizing(W, old, nb, req), NEW n, n = next_chunk(h, old), n # h.top, ~inuse(h, n)
    PROVE  n \in Elems(h.bins) /\ n \in Nat /\ h.head[n].size \in Nat /\ chunksize(h, n) = h.head[n].size
           /\ n = old + h.head[old].size
<1>1. HeapOK(h, DOMAIN live, W) /\ old \in DOMAIN live
  BY DEF Resizing
<1>2. n = old + h.head[old].size
  BY ResizingFacts
<1>3. n \in Elems(h.bins)
  BY <1>1, <1>2, AboveFacts
<1>4. n \in Nat /\ h.head[n].size \in Nat
  BY <1>1, <1>3, FreeChunk
<1>5. chunksize(h, n) = h.head[n].size
  BY <1>4, ChunkSizeFacts
<1> QED BY <1>2, <1>3, <1>4, <1>5

\* The chunk below a block, when it is free.
LEMMA PrevFree ==
    ASSUME NEW W, NEW old, NEW nb, NEW req, Resizing(W, old, nb, req), NEW q, q = prev_chunk(h, old), ~prev_inuse(h, old)
    PROVE  /\ q = old - h.head[old].prev_size /\ ~h.head[old].prev_inuse /\ q \in Elems(h.bins)
           /\ q \in Nat /\ q % 2 = 0 /\ h.head[q].size \in Nat /\ chunksize(h, q) = h.head[q].size /\ q + h.head[q].size = old
           /\ q # old /\ q # h.top /\ {q, old} \cap DOMAIN live = {old}
           /\ Span(h.head, {q, old}, q, old + h.head[old].size) /\ Spare(W, q, old + h.head[old].size)
<1>1. HeapOK(h, DOMAIN live, W) /\ old \in DOMAIN live
  BY DEF Resizing
<1>2. q = old - h.head[old].prev_size /\ ~h.head[old].prev_inuse
  BY DEF prev_chunk, prev_inuse
<1>3. q = Below(h, old)
  BY DEF Below
<1>4. BelowOK(h, DOMAIN live, W, old, q, old + h.head[old].size)
  BY <1>1, <1>3, BelowFacts
<1>5. /\ q \in Nat /\ q % 2 = 0 /\ h.top \notin {q, old} /\ {q, old} \cap DOMAIN live = {old}
      /\ Span(h.head, {q, old}, q, old + h.head[old].size) /\ Spare(W, q, old + h.head[old].size)
      /\ q \in Elems(h.bins) /\ q < old /\ h.head[q].size = h.head[old].prev_size
  BY <1>2, <1>4 DEF BelowOK
<1>6. old \in Nat /\ h.head[old].prev_size \in Nat
  BY <1>1, HeapParts
<1>7. chunksize(h, q) = h.head[q].size
  BY <1>5, ChunkSizeFacts
<1> QED BY <1>2, <1>5, <1>6, <1>7

\* The block is large enough; it grows forwards, backwards or both ways.
LEMMA ShrinkSettles ==
    ASSUME NEW W, NEW old, NEW nb, NEW req, Resizing(W, old, nb, req), NEW copied, Kept(old, copied, req),
           chunksize(h, old) >= nb, SplitRest(h, old, old, chunksize(h, old), nb, copied, req)
    PROVE  Settled(W, TopEnd(h)) /\ Outcome(req)
<1> DEFINE n == old + h.head[old].size
<1>0. chunksize(h, old) = h.head[old].size /\ h.head[old].size \in Nat /\ old \in Nat
  BY ResizingFacts
<1>1. HeapOK(h, DOMAIN live, W) /\ old \in DOMAIN live /\ chunksize(h, old) = h.head[old].size
  BY <1>0 DEF Resizing
<1>2. ResizeReady(h, DOMAIN live, W, h, {old}, old, n) /\ n - old = h.head[old].size
  BY <1>1, ReadyAlone
<1> HIDE DEF n
<1>3. {old} \cap DOMAIN live = {old} /\ chunksize(h, old) = n - old
  BY <1>1, <1>2
<1> QED BY <1>2, <1>3, SplitReady

LEMMA ForthSettles ==
    ASSUME NEW W, NEW old, NEW nb, NEW req, Resizing(W, old, nb, req), NEW copied, Kept(old, copied, req),
           NEW n, n = next_chunk(h, old), n # h.top, ~inuse(h, n),
           NEW ns, ns = chunksize(h, old) + chunksize(h, n), ns >= nb,
           SplitRest(Absorb(unlink(h, n), {n}), old, old, ns, nb, copied, req)
    PROVE  Settled(W, TopEnd(h)) /\ Outcome(req)
<1> DEFINE m == n + h.head[n].size
           K == Absorb(unlink(h, n), {n})
<1>0. chunksize(h, old) = h.head[old].size /\ h.head[old].size \in Nat /\ old \in Nat
  BY ResizingFacts
<1>1. HeapOK(h, DOMAIN live, W) /\ old \in DOMAIN live /\ chunksize(h, old) = h.head[old].size
  BY <1>0 DEF Resizing
<1>2. n \in Elems(h.bins) /\ chunksize(h, n) = h.head[n].size /\ n = old + h.head[old].size /\ n \in Nat /\ h.head[n].size \in Nat
  BY NextFree
<1>3. ResizeReady(h, DOMAIN live, W, K, {old, n}, old, m) /\ m - old = h.head[old].size + h.head[n].size
      /\ {old, n} \cap DOMAIN live = {old}
  <2>1. ASSUME NEW x, x = n + h.head[n].size
        PROVE  ResizeReady(h, DOMAIN live, W, Absorb(unlink(h, n), {n}), {old, n}, old, x)
    BY ONLY <1>1, <1>2, <2>1, ReadyForth
  <2>2. ASSUME NEW x, x = n + h.head[n].size
        PROVE  x - old = h.head[old].size + h.head[n].size
    BY ONLY <1>0, <1>2, <2>2
  <2>3. n \notin DOMAIN live
    BY ONLY <1>1, <1>2, FreeChunk
  <2>4. {old, n} \cap DOMAIN live = {old}
    BY ONLY <1>1, <2>3
  <2> QED BY <2>1, <2>2, <2>4
<1>4. SplitRest(K, old, old, ns, nb, copied, req)
  OBVIOUS
<1>6. ns = chunksize(h, old) + chunksize(h, n)
  OBVIOUS
<1> HIDE DEF m, K
<1>5. ns = m - old
  BY ONLY <1>0, <1>2, <1>3, <1>6
<1> QED BY <1>3, <1>4, <1>5, SplitReady

LEMMA BackSettles ==
    ASSUME NEW W, NEW old, NEW nb, NEW req, Resizing(W, old, nb, req), NEW copied, Kept(old, copied, req),
           NEW q, q = prev_chunk(h, old), ~prev_inuse(h, old),
           NEW ns, ns = chunksize(h, q) + chunksize(h, old), ns >= nb,
           SplitRest(Absorb(unlink(h, q), {old}), old, q, ns, nb, copied, req)
    PROVE  Settled(W, TopEnd(h)) /\ Outcome(req)
<1> DEFINE n == old + h.head[old].size
           K == Absorb(unlink(h, q), {old})
<1>0. chunksize(h, old) = h.head[old].size /\ h.head[old].size \in Nat /\ old \in Nat
  BY ResizingFacts
<1>1. HeapOK(h, DOMAIN live, W) /\ old \in DOMAIN live /\ chunksize(h, old) = h.head[old].size
  BY <1>0 DEF Resizing
<1>2. q = old - h.head[old].prev_size /\ ~h.head[old].prev_inuse /\ chunksize(h, q) = h.head[q].size /\ q \in Nat /\ h.head[q].size \in Nat
  BY PrevFree
<1>3. ResizeReady(h, DOMAIN live, W, K, {q, old}, q, n) /\ n - q = h.head[q].size + h.head[old].size
      /\ {q, old} \cap DOMAIN live = {old}
  <2>1. ASSUME NEW x, x = old + h.head[old].size
        PROVE  ResizeReady(h, DOMAIN live, W, Absorb(unlink(h, q), {old}), {q, old}, q, x)
    BY ONLY <1>1, <1>2, <2>1, ReadyBack
  <2>a. q + h.head[q].size = old
    BY PrevFree
  <2>b. ASSUME NEW x, x = old + h.head[old].size
        PROVE  x - q = h.head[q].size + h.head[old].size
    BY ONLY <1>0, <1>2, <2>a, <2>b
  <2>2. {q, old} \cap DOMAIN live = {old}
    BY PrevFree
  <2> QED BY <2>1, <2>b, <2>2
<1>4. SplitRest(K, old, q, ns, nb, copied, req)
  OBVIOUS
<1>6. ns = chunksize(h, q) + chunksize(h, old)
  OBVIOUS
<1> HIDE DEF n, K
<1>5. ns = n - q
  BY ONLY <1>0, <1>2, <1>3, <1>6
<1> QED BY <1>3, <1>4, <1>5, SplitReady

LEMMA BothSettles ==
    ASSUME NEW W, NEW old, NEW nb, NEW req, Resizing(W, old, nb, req), NEW copied, Kept(old, copied, req),
           NEW q, q = prev_chunk(h, old), ~prev_inuse(h, old),
           NEW n, n = next_chunk(h, old), n # h.top, ~inuse(h, n),
           NEW ns, ns = chunksize(h, q) + chunksize(h, old) + chunksize(h, n), ns >= nb,
           SplitRest(Absorb(unlink(unlink(h, n), q), {old, n}), old, q, ns, nb, copied, req)
    PROVE  Settled(W, TopEnd(h)) /\ Outcome(req)
<1> DEFINE m == n + h.head[n].size
           K == Absorb(unlink(unlink(h, n), q), {old, n})
<1>0. chunksize(h, old) = h.head[old].size /\ h.head[old].size \in Nat /\ old \in Nat
  BY ResizingFacts
<1>1. HeapOK(h, DOMAIN live, W) /\ old \in DOMAIN live /\ chunksize(h, old) = h.head[old].size
  BY <1>0 DEF Resizing
<1>2. q = old - h.head[old].prev_size /\ ~h.head[old].prev_inuse /\ chunksize(h, q) = h.head[q].size /\ q \in Nat /\ h.head[q].size \in Nat
  BY PrevFree
<1>a. n \in Elems(h.bins) /\ chunksize(h, n) = h.head[n].size /\ n = old + h.head[old].size /\ n \in Nat /\ h.head[n].size \in Nat
  BY NextFree
<1>3. ResizeReady(h, DOMAIN live, W, K, {q, old, n}, q, m) /\ m - q = h.head[q].size + h.head[old].size + h.head[n].size
      /\ {q, old, n} \cap DOMAIN live = {old}
  <2>1. ASSUME NEW x, x = n + h.head[n].size
        PROVE  ResizeReady(h, DOMAIN live, W, Absorb(unlink(unlink(h, n), q), {old, n}), {q, old, n}, q, x)
    BY ONLY <1>1, <1>2, <1>a, <2>1, ReadyBoth
  <2>a. q + h.head[q].size = old
    BY PrevFree
  <2>b. ASSUME NEW x, x = n + h.head[n].size
        PROVE  x - q = h.head[q].size + h.head[old].size + h.head[n].size
    BY ONLY <1>0, <1>2, <1>a, <2>a, <2>b
  <2>2. {q, old} \cap DOMAIN live = {old}
    BY PrevFree
  <2>3. n \notin DOMAIN live
    BY ONLY <1>1, <1>a, FreeChunk
  <2>4. {q, old, n} \cap DOMAIN live = {old}
    BY ONLY <2>2, <2>3
  <2> QED BY <2>1, <2>b, <2>4
<1>4. SplitRest(K, old, q, ns, nb, copied, req)
  OBVIOUS
<1>6. ns = chunksize(h, q) + chunksize(h, old) + chunksize(h, n)
  OBVIOUS
<1> HIDE DEF m, K
<1>5. ns = m - q
  BY ONLY <1>0, <1>2, <1>a, <1>3, <1>6
<1> QED BY <1>3, <1>4, <1>5, SplitReady

LEMMA SetsOfThree ==
    ASSUME NEW a, NEW b, NEW c
    PROVE  {a} \cup {b} = {a, b} /\ {a, b} \cup {c} = {a, b, c} /\ {b, c} \ {a} = {a, b, c} \ {a} /\ {a, b} \ {a} = {a, b} \ {a}
  OBVIOUS

\* The block below top takes what it needs from top.
LEMMA TopForthSettles ==
    ASSUME NEW W, NEW old, NEW nb, NEW req, Resizing(W, old, nb, req), NEW copied, Kept(old, copied, req),
           next_chunk(h, old) = h.top, chunksize(h, old) + chunksize(h, h.top) >= nb + MINSIZE,
           IntoTop(h, old, old, nb, copied, req)
    PROVE  Settled(W, TopEnd(h)) /\ Outcome(req)
<1>1. /\ HeapOK(h, DOMAIN live, W) /\ Held(h, live) /\ old \in DOMAIN live /\ TopEnd(h) % 2 = 0
      /\ nb \in Nat /\ nb % 2 = 0 /\ nb >= MINSIZE /\ req \in Nat /\ req <= nb - 1
      /\ (copied >= live[old].size \/ copied >= req)
  BY DEF Resizing, Kept
<1>2. /\ old \in Nat /\ old % 2 = 0 /\ h.head[old].size \in Nat /\ chunksize(h, old) = h.head[old].size
      /\ h.top = old + h.head[old].size
  BY ResizingFacts
<1>3. h.top \in Nat /\ h.head[h.top].size \in Nat /\ TopEnd(h) = h.top + h.head[h.top].size /\ chunksize(h, h.top) = h.head[h.top].size /\ TopEnd(h) \in Nat
  BY ONLY <1>1, TopThere
<1>4. Span(h.head, {old}, old, h.top) /\ Spare(W, old, h.top) /\ old \notin Elems(h.bins) /\ old # h.top
  BY ONLY <1>1, <1>2, UsedChunk
<1>5. /\ BinsOK(h) /\ Tiles(h.head, Elems(h.bins), DOMAIN live, h.top) /\ Avoids(h.head, W) /\ W \subseteq Nat
      /\ h.top \in DOMAIN h.head /\ h.top \notin Elems(h.bins) /\ h.top \notin DOMAIN live
  BY ONLY <1>1, HeapParts
<1>6. Span(h.head, {old} \cup {h.top}, old, h.top + h.head[h.top].size) /\ Spare(W, old, h.top + h.head[h.top].size)
  BY ONLY <1>4, <1>5, SpanJoin
<1>7. Span(h.head, {old, h.top}, old, TopEnd(h)) /\ Spare(W, old, TopEnd(h))
  BY ONLY <1>3, <1>6, SetsOfThree
<1>8. TopEnd(h) - old >= nb + MINSIZE
  <2>1. h.head[old].size + h.head[h.top].size >= nb + MINSIZE /\ MINSIZE \in Nat
    BY <1>2, <1>3 DEF MINSIZE
  <2> QED BY ONLY <1>1, <1>2, <1>3, <2>1
<1>9. Elems(h.bins) = Elems(h.bins) \ {old, h.top} /\ {old, h.top} \cap DOMAIN live = {old} /\ h.top \in {old, h.top} /\ SameHeads(h, h)
  BY <1>1, <1>4, <1>5 DEF SameHeads
<1>10. IntoTop(h, old, old, nb, copied, req)
  OBVIOUS
<1>11. Settled(W, TopEnd(h)) /\ Outcome(req)
  <2> DEFINE R == {old, h.top}
  <2>1. /\ Elems(h.bins) = Elems(h.bins) \ R /\ R \cap DOMAIN live = {old} /\ h.top \in R /\ {old, h.top} \ {old} = R \ {old}
        /\ Span(h.head, R, old, TopEnd(h)) /\ Spare(W, old, TopEnd(h))
    BY <1>7, <1>9
  <2> HIDE DEF R
  <2>2. SameHeads(h, h)
    BY <1>9
  <2> QED BY ONLY <1>1, <1>2, <1>5, <2>1, <2>2, <1>8, <1>10, IntoTopSettles
<1> QED BY <1>11

\* The same for a block with a free chunk below it, to which it moves.
LEMMA TopBothSettles ==
    ASSUME NEW W, NEW old, NEW nb, NEW req, Resizing(W, old, nb, req), NEW copied, Kept(old, copied, req),
           NEW q, q = prev_chunk(h, old), ~prev_inuse(h, old),
           next_chunk(h, old) = h.top, chunksize(h, q) + chunksize(h, old) + chunksize(h, h.top) >= nb + MINSIZE,
           IntoTop(unlink(h, q), old, q, nb, copied, req)
    PROVE  Settled(W, TopEnd(h)) /\ Outcome(req)
<1> DEFINE K == unlink(h, q)
<1>1. /\ HeapOK(h, DOMAIN live, W) /\ Held(h, live) /\ old \in DOMAIN live /\ TopEnd(h) % 2 = 0
      /\ nb \in Nat /\ nb % 2 = 0 /\ nb >= MINSIZE /\ req \in Nat /\ req <= nb - 1
      /\ (copied >= live[old].size \/ copied >= req)
  BY DEF Resizing, Kept
<1>2. /\ old \in Nat /\ old % 2 = 0 /\ h.head[old].size \in Nat /\ chunksize(h, old) = h.head[old].size
      /\ h.top = old + h.head[old].size
  BY ResizingFacts
<1>a. /\ q \in Elems(h.bins) /\ q \in Nat /\ q % 2 = 0 /\ h.head[q].size \in Nat /\ chunksize(h, q) = h.head[q].size
      /\ q + h.head[q].size = old /\ {q, old} \cap DOMAIN live = {old}
      /\ Span(h.head, {q, old}, q, old + h.head[old].size) /\ Spare(W, q, old + h.head[old].size)
  BY PrevFree
<1>3. h.top \in Nat /\ h.head[h.top].size \in Nat /\ TopEnd(h) = h.top + h.head[h.top].size /\ chunksize(h, h.top) = h.head[h.top].size /\ TopEnd(h) \in Nat
  BY ONLY <1>1, TopThere
<1>4. Span(h.head, {q, old}, q, h.top) /\ Spare(W, q, h.top)
  BY ONLY <1>2, <1>a
<1>5. /\ BinsOK(h) /\ Tiles(h.head, Elems(h.bins), DOMAIN live, h.top) /\ Avoids(h.head, W) /\ W \subseteq Nat
      /\ h.top \in DOMAIN h.head /\ h.top \notin Elems(h.bins) /\ h.top \notin DOMAIN live
  BY ONLY <1>1, HeapParts
<1>b. old \notin Elems(h.bins)
  BY ONLY <1>1, UsedChunk
<1>6. Span(h.head, {q, old} \cup {h.top}, q, h.top + h.head[h.top].size) /\ Spare(W, q, h.top + h.head[h.top].size)
  BY ONLY <1>4, <1>5, SpanJoin
<1>7. Span(h.head, {q, old, h.top}, q, TopEnd(h)) /\ Spare(W, q, TopEnd(h))
  BY ONLY <1>3, <1>6, SetsOfThree
<1>8. TopEnd(h) - q >= nb + MINSIZE
  <2>1. h.head[q].size + h.head[old].size + h.head[h.top].size >= nb + MINSIZE /\ MINSIZE \in Nat
    BY <1>2, <1>3, <1>a DEF MINSIZE
  <2> QED BY ONLY <1>1, <1>2, <1>3, <1>a, <2>1
<1>9. BinsOK(K) /\ SameHeads(h, K) /\ Elems(K.bins) = Elems(h.bins) \ {q}
  BY ONLY <1>5, <1>a, UnlinkFacts
<1>10. IntoTop(K, old, q, nb, copied, req)
  OBVIOUS
<1> HIDE DEF K
<1>11. Settled(W, TopEnd(h)) /\ Outcome(req)
  <2> DEFINE R == {q, old, h.top}
  <2>1. Elems(K.bins) = Elems(h.bins) \ R
    BY ONLY <1>5, <1>9, <1>b
  <2>2. R \cap DOMAIN live = {old} /\ h.top \in R
    BY ONLY <1>5, <1>a
  <2>3. {old, h.top} \ {q} = R \ {q}
    BY ONLY SetsOfThree
  <2>4. Span(h.head, R, q, TopEnd(h)) /\ Spare(W, q, TopEnd(h))
    BY ONLY <1>7
  <2> HIDE DEF R
  <2> QED BY ONLY <1>1, <1>2, <1>a, <1>9, <2>1, <2>2, <2>3, <2>4, <1>8, <1>10, IntoTopSettles
<1> QED BY <1>11

\* The seven ways of rEALLOc.
Ways(old, req, nb, next, prev) ==
    \/ chunksize(h, old) >= nb /\ SplitRest(h, old, old, chunksize(h, old), nb, AddrMod, req)
    \/ /\ next = h.top /\ chunksize(h, old) + chunksize(h, h.top) >= nb + MINSIZE
       /\ IntoTop(h, old, old, nb, AddrMod, req)
    \/ /\ next # h.top /\ ~inuse(h, next) /\ chunksize(h, old) + chunksize(h, next) >= nb
       /\ SplitRest(Absorb(unlink(h, next), {next}), old, old, chunksize(h, old) + chunksize(h, next), nb, AddrMod, req)
    \/ /\ ~prev_inuse(h, old) /\ next = h.top
       /\ chunksize(h, prev) + chunksize(h, old) + chunksize(h, h.top) >= nb + MINSIZE
       /\ IntoTop(unlink(h, prev), old, prev, nb, chunksize(h, old) - 1, req)
    \/ /\ ~prev_inuse(h, old) /\ next # h.top /\ ~inuse(h, next)
       /\ chunksize(h, prev) + chunksize(h, old) + chunksize(h, next) >= nb
       /\ SplitRest(Absorb(unlink(unlink(h, next), prev), {old, next}), old, prev,
                    chunksize(h, prev) + chunksize(h, old) + chunksize(h, next), nb, chunksize(h, old) - 1, req)
    \/ /\ ~prev_inuse(h, old) /\ chunksize(h, prev) + chunksize(h, old) >= nb
       /\ SplitRest(Absorb(unlink(h, prev), {old}), old, prev,
                    chunksize(h, prev) + chunksize(h, old), nb, chunksize(h, old) - 1, req)

\* The ways of rEALLOc without its seven guards.
LEMMA ReallocWays ==
    ASSUME NEW old, NEW req, Realloc(old, req)
    PROVE  /\ pc = "idle" /\ ~TooLarge(req)
           /\ \/ /\ Ways(old, req, request2size(req), next_chunk(h, old), prev_chunk(h, old))
                 /\ UNCHANGED <<sbrk_base, sbrked_mem, foreign, brkVars>>
              \/ mALLOc("realloc", old, req)
<1> DEFINE nb       == request2size(req)
           oldsize  == chunksize(h, old)
           next     == next_chunk(h, old)
           attop    == next = h.top
           nextfree == ~attop /\ ~inuse(h, next)
           nextsize == IF attop \/ nextfree THEN chunksize(h, next) ELSE 0
           forward  == \/ attop /\ oldsize + nextsize >= nb + MINSIZE
                       \/ nextfree /\ oldsize + nextsize >= nb
           prevfree == ~prev_inuse(h, old)
           prev     == prev_chunk(h, old)
           prevsize == IF prevfree THEN chunksize(h, prev) ELSE 0
           bothways == \/ attop /\ prevsize + oldsize + nextsize >= nb + MINSIZE
                       \/ nextfree /\ prevsize + oldsize + nextsize >= nb
           backward == prevsize + oldsize >= nb
           Still    == UNCHANGED <<sbrk_base, sbrked_mem, foreign, brkVars>>
<1>1. /\ pc = "idle"
      /\ ~TooLarge(req)
      /\ \/ /\ oldsize >= nb
            /\ SplitRest(h, old, old, oldsize, nb, AddrMod, req)
            /\ Still
         \/ /\ oldsize < nb /\ forward /\ attop
            /\ IntoTop(h, old, old, nb, AddrMod, req)
            /\ Still
         \/ /\ oldsize < nb /\ forward /\ nextfree
            /\ SplitRest(Absorb(unlink(h, next), {next}), old, old, oldsize + nextsize, nb, AddrMod, req)
            /\ Still
         \/ /\ oldsize < nb /\ ~forward /\ prevfree /\ bothways /\ attop
            /\ IntoTop(unlink(h, prev), old, prev, nb, oldsize - 1, req)
            /\ Still
         \/ /\ oldsize < nb /\ ~forward /\ prevfree /\ bothways /\ nextfree
            /\ SplitRest(Absorb(unlink(unlink(h, next), prev), {old, next}), old, prev,
                         prevsize + oldsize + nextsize, nb, oldsize - 1, req)
            /\ Still
         \/ /\ oldsize < nb /\ ~forward /\ prevfree /\ ~bothways /\ backward
            /\ SplitRest(Absorb(unlink(h, prev), {old}), old, prev, prevsize + oldsize, nb, oldsize - 1, req)
            /\ Still
         \/ mALLOc("realloc", old, req)
  BY DEF Realloc, ShiftDown
<1>2. /\ attop => nextsize = chunksize(h, h.top)
      /\ nextfree => nextsize = chunksize(h, next)
      /\ prevfree => prevsize = chunksize(h, prev)
      /\ nextfree <=> next # h.top /\ ~inuse(h, next)
      /\ attop <=> next = h.top
      /\ prevfree <=> ~prev_inuse(h, old)
  OBVIOUS
<1>3. /\ attop /\ forward => oldsize + nextsize >= nb + MINSIZE
      /\ nextfree /\ forward => oldsize + nextsize >= nb
      /\ attop /\ bothways => prevsize + oldsize + nextsize >= nb + MINSIZE
      /\ nextfree /\ bothways => prevsize + oldsize + nextsize >= nb
      /\ backward => prevsize + oldsize >= nb
  OBVIOUS
<1> HIDE DEF Still, attop, nextfree, prevfree, forward, bothways, backward, nextsize, prevsize, nb, next, prev, oldsize
<1>4. CASE mALLOc("realloc", old, req)
  BY <1>1, <1>4
<1>5. ASSUME ~mALLOc("realloc", old, req) PROVE Ways(old, req, nb, next, prev) /\ Still
  <2>1. oldsize = chunksize(h, old)
    BY DEF oldsize
  <2> QED BY <1>1, <1>2, <1>3, <1>5, <2>1 DEF Ways
<1> QED BY <1>1, <1>4, <1>5 DEF Still, nb, next, prev

\* rEALLOc keeps the invariant.
LEMMA ReallocStep ==
    ASSUME IInv, NEW old \in DOMAIN live, NEW req \in Resizes, Realloc(old, req)
    PROVE  IInv' /\ (UNCHANGED live \/ Outcome(req))
<1> DEFINE nb == request2size(req)
           next == next_chunk(h, old)
           prev == prev_chunk(h, old)
<1>1. req \in 0 .. AddrMod - 1 /\ req \in AllRequests
  BY MallocConstants DEF AllRequests
<1>2. pc = "idle" /\ ~TooLarge(req)
  BY ReallocWays
<1>3. CASE mALLOc("realloc", old, req)
  BY <1>1, <1>2, <1>3, MallocStep
<1>4. CASE Ways(old, req, nb, next, prev) /\ UNCHANGED <<sbrk_base, sbrked_mem, foreign, brkVars>>
  <2>1. HasTop(h)
    <3>1. ~HasTop(h) => live = << >>
      BY DEF IInv, HeapInv, NoHeap
    <3> QED BY <3>1
  <2>2. Standing
    BY <1>2, <2>1, StandingFacts
  <2>3. nb \in Nat /\ nb % 2 = 0 /\ nb >= MINSIZE /\ req <= nb - 1 /\ req \in Nat /\ req < AddrMod
    BY <1>1, <1>2, RequestFacts
  <2>4. Resizing(foreign, old, nb, req)
    <3>1. HeapOK(h, DOMAIN live, foreign) /\ Held(h, live) /\ TopEnd(h) % 2 = 0
      BY <2>2 DEF Standing
    <3> HIDE DEF nb
    <3> QED BY <2>3, <3>1 DEF Resizing
  <2>5. Kept(old, AddrMod, req)
    <3>1. AddrMod \in Nat
      BY MallocConstants
    <3> QED BY <2>3, <3>1 DEF Kept
  <2>6. Kept(old, chunksize(h, old) - 1, req)
    <3>1. live[old].size <= chunksize(h, old) - 1 /\ live[old].size \in Nat /\ h.head[old].size \in Nat /\ chunksize(h, old) = h.head[old].size
      BY <2>4, ResizingFacts
    <3> QED BY <3>1 DEF Kept
  <2>7. next = next_chunk(h, old) /\ prev = prev_chunk(h, old)
    OBVIOUS
  <2> HIDE DEF nb, next, prev
  <2> DEFINE k == chunksize(h, old) - 1
             sf == chunksize(h, old) + chunksize(h, next)
             sb == chunksize(h, prev) + chunksize(h, old)
             s2 == chunksize(h, prev) + chunksize(h, old) + chunksize(h, next)
  <2>8. \/ chunksize(h, old) >= nb /\ SplitRest(h, old, old, chunksize(h, old), nb, AddrMod, req)
        \/ /\ next = h.top /\ chunksize(h, old) + chunksize(h, h.top) >= nb + MINSIZE
           /\ IntoTop(h, old, old, nb, AddrMod, req)
        \/ /\ next # h.top /\ ~inuse(h, next) /\ sf >= nb
           /\ SplitRest(Absorb(unlink(h, next), {next}), old, old, sf, nb, AddrMod, req)
        \/ /\ ~prev_inuse(h, old) /\ next = h.top
           /\ chunksize(h, prev) + chunksize(h, old) + chunksize(h, h.top) >= nb + MINSIZE
           /\ IntoTop(unlink(h, prev), old, prev, nb, k, req)
        \/ /\ ~prev_inuse(h, old) /\ next # h.top /\ ~inuse(h, next) /\ s2 >= nb
           /\ SplitRest(Absorb(unlink(unlink(h, next), prev), {old, next}), old, prev, s2, nb, k, req)
        \/ /\ ~prev_inuse(h, old) /\ sb >= nb
           /\ SplitRest(Absorb(unlink(h, prev), {old}), old, prev, sb, nb, k, req)
    BY <1>4 DEF Ways
  <2>9. sf = chunksize(h, old) + chunksize(h, next) /\ sb = chunksize(h, prev) + chunksize(h, old)
        /\ s2 = chunksize(h, prev) + chunksize(h, old) + chunksize(h, next) /\ Kept(old, k, req)
    BY <2>6
  <2> HIDE DEF k, sf, sb, s2
  <2>10. Settled(foreign, TopEnd(h)) /\ Outcome(req)
    <3>1. CASE chunksize(h, old) >= nb /\ SplitRest(h, old, old, chunksize(h, old), nb, AddrMod, req)
      BY ONLY <2>4, <2>5, <3>1, ShrinkSettles
    <3>2. CASE /\ next = h.top /\ chunksize(h, old) + chunksize(h, h.top) >= nb + MINSIZE
               /\ IntoTop(h, old, old, nb, AddrMod, req)
      BY ONLY <2>4, <2>5, <2>7, <3>2, TopForthSettles
    <3>3. CASE /\ next # h.top /\ ~inuse(h, next) /\ sf >= nb
               /\ SplitRest(Absorb(unlink(h, next), {next}), old, old, sf, nb, AddrMod, req)
      BY ONLY <2>4, <2>5, <2>7, <2>9, <3>3, ForthSettles
    <3>4. CASE /\ ~prev_inuse(h, old) /\ next = h.top
               /\ chunksize(h, prev) + chunksize(h, old) + chunksize(h, h.top) >= nb + MINSIZE
               /\ IntoTop(unlink(h, prev), old, prev, nb, k, req)
      BY ONLY <2>4, <2>7, <2>9, <3>4, TopBothSettles
    <3>5. CASE /\ ~prev_inuse(h, old) /\ next # h.top /\ ~inuse(h, next) /\ s2 >= nb
               /\ SplitRest(Absorb(unlink(unlink(h, next), prev), {old, next}), old, prev, s2, nb, k, req)
      BY ONLY <2>4, <2>7, <2>9, <3>5, BothSettles
    <3>6. CASE /\ ~prev_inuse(h, old) /\ sb >= nb
               /\ SplitRest(Absorb(unlink(h, prev), {old}), old, prev, sb, nb, k, req)
      BY ONLY <2>4, <2>7, <2>9, <3>6, BackSettles
    <3> QED BY ONLY <2>8, <3>1, <3>2, <3>3, <3>4, <3>5, <3>6
  <2> QED BY <1>4, <2>2, <2>10, IdleSettles
<1> QED BY <1>3, <1>4, ReallocWays

-----------------------------------------------------------------------------
(* The calls of malloc and calloc, and other callers of sbrk.              *)

\* malloc and calloc keep the invariant.
LEMMA MallocIsStep ==
    ASSUME IInv, NEW req \in Requests, Malloc(req)
    PROVE  IInv' /\ (UNCHANGED live \/ Outcome(req))
<1>1. req \in 0 .. AddrMod - 1 /\ req \in AllRequests
  BY MallocConstants DEF AllRequests
<1>2. pc = "idle" /\ mALLOc("malloc", NULL, req)
  BY DEF Malloc
<1>3. "malloc" # "realloc"
  OBVIOUS
<1> QED BY <1>1, <1>2, <1>3, MallocStep

LEMMA CallocIsStep ==
    ASSUME IInv, NEW a \in Arrays, Calloc(a[1], a[2])
    PROVE  IInv' /\ (UNCHANGED live \/ Outcome(a[1] * a[2]))
<1> DEFINE req == a[1] * a[2]
<1>1. a[1] \in Nat /\ a[2] \in Nat /\ AddrMod \in Nat
  BY MallocConstants
<1>2. pc = "idle" /\ mALLOc("malloc", NULL, req) /\ req < AddrMod
  BY DEF Calloc
<1>3. req \in Nat
  BY <1>1
<1>4. req \in AllRequests
  BY DEF AllRequests
<1> HIDE DEF req
<1>5. req \in 0 .. AddrMod - 1
  BY <1>1, <1>2, <1>3
<1>6. "malloc" # "realloc"
  OBVIOUS
<1>7. IInv' /\ (UNCHANGED live \/ Outcome(req))
  BY <1>2, <1>4, <1>5, <1>6, MallocStep
<1> QED BY <1>7 DEF req

\* The break after a call that raised it.
LEMMA RaisedKeeps ==
    ASSUME BreakInv, NEW n, Raised(n), foreign' = foreign
    PROVE  BreakInv'
<1>1. InitialBase \in Nat \ {0}
  BY BreakConstants
<1>2. /\ heap_base' = InitialBase /\ heap_current' \in Nat /\ heap_limit' \in Nat /\ ret' \in Nat
      /\ heap_limit' % PageSize = 0 /\ heap_current' <= heap_limit' /\ heap_limit' <= HeapMax
      /\ heap_current' >= heap_current
  BY DEF Raised
<1>3. heap_current \in Nat /\ foreign \subseteq Nat /\ \A w \in foreign : w < heap_current
  BY DEF BreakInv
<1>4. \A w \in foreign : w < heap_current'
  BY <1>2, <1>3
<1> QED BY <1>1, <1>2, <1>3, <1>4 DEF BreakInv

\* Every chunk ends where top ends, or below.
LEMMA BelowTopEnd ==
    ASSUME NEW H, NEW U, NEW W, HeapOK(H, U, W), NEW c \in DOMAIN H.head
    PROVE  c + H.head[c].size <= TopEnd(H)
<1>1. /\ Tiles(H.head, Elems(H.bins), U, H.top) /\ H.top \in DOMAIN H.head /\ DOMAIN H.head \subseteq Nat
      /\ \A d \in DOMAIN H.head : H.head[d].size \in Nat /\ d <= H.top
  BY HeapParts
<1>2. \A d, e \in DOMAIN H.head : d < e => d + H.head[d].size <= e
  BY <1>1, Sized
<1>3. CASE c = H.top
  BY <1>1, <1>3 DEF TopEnd
<1>4. CASE c < H.top
  <2>1. c + H.head[c].size <= H.top
    BY <1>1, <1>2, <1>4
  <2> QED BY <1>1, <2>1 DEF TopEnd
<1> QED BY <1>1, <1>3, <1>4

LEMMA MoreForeign ==
    ASSUME NEW H, NEW U, NEW W, HeapOK(H, U, W), NEW X, X \subseteq Nat, \A w \in X : TopEnd(H) <= w
    PROVE  HeapOK(H, U, W \cup X)
<1>1. /\ Heads(H) /\ Bins(H.bins, H.head, H.binblocks) /\ Tiles(H.head, Elems(H.bins), U, H.top)
      /\ Avoids(H.head, W) /\ W \subseteq Nat
  BY DEF HeapOK
<1>2. DOMAIN H.head \subseteq Nat /\ TopEnd(H) \in Nat /\ \A c \in DOMAIN H.head : H.head[c].size \in Nat
  BY HeapParts, TopThere
<1>3. ASSUME NEW c \in DOMAIN H.head, NEW w \in W \cup X PROVE w < c \/ c + H.head[c].size <= w
  <2>1. CASE w \in W
    BY <1>1, <2>1 DEF Avoids
  <2>2. CASE w \in X
    <3>1. c + H.head[c].size <= TopEnd(H)
      BY BelowTopEnd
    <3> QED BY <1>2, <2>2, <3>1
  <2> QED BY <2>1, <2>2
<1> QED BY <1>1, <1>3 DEF HeapOK, Avoids

LEMMA NotTaken ==
    ASSUME NEW M, NEW N, NEW r, NEW c, NEW n, M \in Nat, N \in Nat, c \in Nat, n \in Nat, n >= 1,
           N < M - 1, c <= N, r = M - 1
    PROVE  ~(r = c - n)
  OBVIOUS

LEMMA TakenWords ==
    ASSUME NEW b, NEW r, NEW c, NEW n, r \in Nat, c \in Nat, n \in Nat, n >= 1, r = c - n, b \in Nat, r >= b
    PROVE  r \in r .. (r + n - 1) /\ \A w \in r .. (r + n - 1) : w \in Nat /\ b <= w /\ w < c
  OBVIOUS

\* Another caller of sbrk leaves the heap as it is.
LEMMA ForeignStep ==
    ASSUME IInv, NEW n \in ForeignSizes, ForeignSbrk(n)
    PROVE  IInv' /\ UNCHANGED live
<1>1. /\ pc = "idle" /\ Brk!Call(n)
      /\ foreign' = foreign \cup (IF ret' = Brk!ERROR THEN {} ELSE ret' .. (ret' + n - 1))
      /\ h' = h /\ sbrk_base' = sbrk_base /\ sbrked_mem' = sbrked_mem /\ live' = live /\ pc' = pc /\ call' = call
  BY DEF ForeignSbrk
<1>2. BreakInv /\ HeapInv(h, live, foreign) /\ PcInv
  BY DEF IInv
<1>3. n \in 1 .. AddrMod - HeapMax - 2
  BY MallocConstants
<1>4. Raised(n)
  BY <1>1, <1>2, <1>3, RaisedFacts
<1>5. /\ heap_base' = InitialBase /\ heap_current' \in Nat /\ heap_limit' \in Nat /\ ret' \in Nat
      /\ heap_current' <= heap_limit' /\ heap_limit' <= HeapMax
      /\ heap_current' >= heap_current
      /\ \/ ret' = AddrMod - 1 /\ (heap_base # 0 => heap_current' = heap_current)
         \/ ret' = heap_current' - n /\ ret' >= heap_current /\ (heap_base # 0 => ret' = heap_current)
  BY <1>4 DEF Raised
<1>6. AddrMod \in Nat /\ HeapMax \in Nat /\ HeapMax < AddrMod - 1 /\ n \in Nat /\ n >= 1
  BY <1>3, BreakConstants
<1>7. Accounted /\ BreakFrom(h, foreign, heap_current) /\ call = NoCall
  BY <1>1, <1>2 DEF PcInv
<1>8. Accounted'
  BY <1>1, <1>7 DEF Accounted
<1>9. HasTop(h) => Standing
  BY <1>1, StandingFacts
<1>10. CASE ret' = AddrMod - 1
  <2>1. foreign' = foreign
    BY <1>1, <1>10 DEF Brk!ERROR
  <2>2. BreakInv'
    BY <1>2, <1>4, <2>1, RaisedKeeps
  <2>3. HasTop(h) => heap_current' = heap_current
    <3>0. heap_current' \in Nat /\ heap_current' <= HeapMax
      BY <1>5, <1>6
    <3>1. ~(ret' = heap_current' - n)
      BY ONLY <1>6, <1>10, <3>0, NotTaken
    <3> QED BY <1>5, <1>9, <3>1 DEF Standing
  <2>4. BreakFrom(h', foreign', heap_current')
    BY <1>1, <1>7, <2>1, <2>3 DEF BreakFrom
  <2>5. PcInv'
    BY <1>1, <1>7, <1>8, <2>4 DEF PcInv
  <2> QED BY <1>1, <1>2, <2>1, <2>2, <2>5 DEF IInv
<1>11. CASE ret' # AddrMod - 1
  <2> DEFINE X == ret' .. (ret' + n - 1)
  <2>1. foreign' = foreign \cup X
    BY <1>1, <1>11 DEF Brk!ERROR
  <2>2. ret' = heap_current' - n /\ ret' >= heap_current /\ heap_current \in Nat
    BY <1>2, <1>5, <1>11 DEF BreakInv
  <2>a. ret' \in Nat /\ heap_current' \in Nat /\ n \in Nat /\ n >= 1
    BY <1>5, <1>6
  <2>b. ret' \in X /\ \A w \in X : w \in Nat /\ heap_current <= w /\ w < heap_current'
    BY <2>a, <2>2, TakenWords
  <2>3. X \subseteq Nat /\ (\A w \in X : heap_current <= w /\ w < heap_current') /\ ret' \in X
    BY ONLY <2>b
  <2> HIDE DEF X
  <2>4. BreakInv'
    <3>1. /\ heap_limit' % PageSize = 0 /\ InitialBase \in Nat \ {0}
      BY <1>4, BreakConstants DEF Raised
    <3>2. foreign \subseteq Nat /\ \A w \in foreign : w < heap_current
      BY <1>2 DEF BreakInv
    <3>3. \A w \in foreign' : w < heap_current'
      BY <1>5, <2>1, <2>2, <2>3, <3>2
    <3> QED BY <1>5, <2>1, <2>3, <3>1, <3>2, <3>3 DEF BreakInv
  <2>5. HeapInv(h', live', foreign')
    <3>1. CASE HasTop(h)
      <4>1. HeapOK(h, DOMAIN live, foreign) /\ Held(h, live) /\ TopEnd(h) % PageSize = 0
        BY <1>2, <3>1 DEF HeapInv
      <4>2. TopEnd(h) \in Nat /\ TopEnd(h) <= heap_current
        BY <1>9, <3>1 DEF Standing
      <4>3. \A w \in X : TopEnd(h) <= w
        BY <2>2, <2>3, <4>2
      <4>4. HeapOK(h, DOMAIN live, foreign \cup X)
        BY <2>3, <4>1, <4>3, MoreForeign
      <4> QED BY <1>1, <2>1, <3>1, <4>1, <4>4 DEF HeapInv
    <3>2. CASE ~HasTop(h)
      BY <1>1, <1>2, <3>2 DEF HeapInv
    <3> QED BY <3>1, <3>2
  <2>6. BreakFrom(h', foreign', heap_current')
    <3>1. foreign' # {}
      BY <2>1, <2>3
    <3>2. HasTop(h) => TopEnd(h) \in Nat /\ TopEnd(h) <= heap_current
      BY <1>9 DEF Standing
    <3>3. HasTop(h) => TopEnd(h) <= heap_current'
      BY <1>5, <2>2, <3>2
    <3> QED BY <1>1, <3>1, <3>3 DEF BreakFrom
  <2>7. PcInv'
    BY <1>1, <1>7, <1>8, <2>6 DEF PcInv
  <2> QED BY <2>4, <2>5, <2>7, <1>1 DEF IInv
<1> QED BY <1>10, <1>11

-----------------------------------------------------------------------------
(* malloc_extend_top.                                                      *)

\* The request to sbrk, and its answer.
LEMMA ExtensionSize ==
    ASSUME SizeOK(call), CallOK(call, live)
    PROVE  call.size \in 1 .. AddrMod - HeapMax - 2 /\ call.size \in Nat /\ call.size >= 8 /\ call.nb \in Nat
<1>1. /\ call.size \in Nat /\ call.size >= call.nb + MINSIZE /\ call.size < call.nb + MINSIZE + PageSize
      /\ call.nb \in Nat /\ call.nb >= MINSIZE /\ call.nb <= IntMax
  BY DEF SizeOK, CallOK
<1>2. /\ PageSize \in Nat /\ HeapMax \in Nat /\ AddrMod \in Nat /\ IntMax \in Nat
      /\ HeapMax + IntMax + PageSize + 4 < AddrMod
  BY BreakConstants
<1> QED BY <1>1, <1>2 DEF MINSIZE

LEMMA ExtendCallStep ==
    ASSUME IInv, ExtendCall
    PROVE  IInv' /\ UNCHANGED live
<1> DEFINE n == call.size
<1>1. /\ pc = "extend" /\ Brk!Call(n) /\ pc' = "extended"
      /\ h' = h /\ sbrk_base' = sbrk_base /\ sbrked_mem' = sbrked_mem /\ live' = live /\ call' = call /\ foreign' = foreign
  BY DEF ExtendCall
<1>2. BreakInv /\ HeapInv(h, live, foreign) /\ PcInv
  BY DEF IInv
<1>3. CallOK(call, live) /\ SizeOK(call) /\ Accounted /\ BreakFrom(h, foreign, heap_current)
  BY <1>1, <1>2 DEF PcInv
<1>4. n \in 1 .. AddrMod - HeapMax - 2
  BY <1>3, ExtensionSize
<1> HIDE DEF n
<1>5. Raised(n)
  BY <1>1, <1>2, <1>4, RaisedFacts
<1>6. BreakInv'
  BY <1>1, <1>2, <1>5, RaisedKeeps
<1>7. HasTop(h) => heap_base # 0
  BY <1>1, StandingFacts DEF Standing
<1>8. Extended'
  <2>1. CASE ret' = AddrMod - 1 /\ (heap_base # 0 => heap_current' = heap_current)
    <3>1. BreakFrom(h', foreign', heap_current')
      BY <1>1, <1>3, <1>7, <2>1 DEF BreakFrom
    <3> QED BY <2>1, <3>1 DEF Extended
  <2>2. CASE ret' = heap_current' - n /\ ret' >= heap_current /\ (heap_base # 0 => ret' = heap_current)
    <3>1. heap_base' = InitialBase /\ ret' \in Nat
      BY <1>5 DEF Raised
    <3>2. BreakFrom(h', foreign', ret')
      BY <1>1, <1>3, <1>7, <2>2 DEF BreakFrom
    <3>3. foreign \subseteq Nat /\ heap_current \in Nat /\ \A w \in foreign : w < heap_current
      BY <1>2 DEF BreakInv
    <3>4. \A w \in foreign : w < ret'
      BY <2>2, <3>1, <3>3
    <3>5. ret' = heap_current' - call.size
      BY <2>2 DEF n
    <3> QED BY <1>1, <3>1, <3>2, <3>4, <3>5 DEF Extended
  <2> QED BY <1>5, <2>1, <2>2 DEF Raised
<1>9. CallOK(call', live') /\ SizeOK(call)' /\ Accounted'
  BY <1>1, <1>3 DEF SizeOK, Accounted
<1>10. PcInv'
  BY <1>1, <1>8, <1>9 DEF PcInv
<1> QED BY <1>1, <1>2, <1>6, <1>10 DEF IInv

\* The answer of ub_sbrk has been looked at.
LEMMA ReadKeeps ==
    ASSUME BreakInv, AnswerRead, foreign' = foreign
    PROVE  BreakInv'
<1>1. ret' = 0 /\ heap_base' = heap_base /\ heap_current' = heap_current /\ heap_limit' = heap_limit
  BY DEF AnswerRead, Brk!NULL
<1> QED BY <1>1 DEF BreakInv

\* How the answer stands to the heap.
LEMMA AnswerFacts ==
    ASSUME BreakInv, Extended, CallOK(call, live), SizeOK(call), HasTop(h) => next_chunk(h, h.top) = TopEnd(h) /\ TopEnd(h) \in Nat
    PROVE  /\ MorecoreFailed => BreakFrom(h, foreign, heap_current)
           /\ ~MorecoreFailed => /\ ret = heap_current - call.size /\ heap_base = InitialBase
                                 /\ \A w \in foreign : w < ret
                                 /\ BreakFrom(h, foreign, ret)
<1>1. AddrMod \in Nat /\ HeapMax \in Nat /\ HeapMax < AddrMod - 1
  <2>1. IntMax \in Nat /\ PageSize \in Nat /\ AddrMod \in Nat /\ HeapMax \in Nat /\ HeapMax + IntMax + PageSize + 4 < AddrMod
    BY BreakConstants
  <2> QED BY <2>1
<1>2. heap_current \in Nat /\ heap_limit \in Nat /\ heap_current <= heap_limit /\ heap_limit <= HeapMax /\ ret \in Nat
  BY DEF BreakInv
<1>3. CASE ret = AddrMod - 1 /\ BreakFrom(h, foreign, heap_current)
  BY <1>3 DEF MorecoreFailed, Brk!ERROR
<1>4. CASE /\ ret = heap_current - call.size /\ heap_base = InitialBase
           /\ \A w \in foreign : w < ret
           /\ BreakFrom(h, foreign, ret)
  <2>1. call.size \in Nat /\ call.size >= 8
    BY ExtensionSize
  <2>2. ret # AddrMod - 1
    BY <1>1, <1>2, <1>4, <2>1
  <2>3. HasTop(h) => TopEnd(h) <= ret
    BY <1>4 DEF BreakFrom
  <2>4. ~MorecoreFailed
    BY <1>2, <2>2, <2>3 DEF MorecoreFailed, Brk!ERROR, old_end, HasTop
  <2> QED BY <1>4, <2>4
<1> QED BY <1>3, <1>4 DEF Extended

LEMMA ExtendedParts ==
    ASSUME IInv, pc = "extended"
    PROVE  /\ BreakInv /\ HeapInv(h, live, foreign) /\ Extended /\ Accounted /\ CallOK(call, live) /\ SizeOK(call)
           /\ HasTop(h) => next_chunk(h, h.top) = TopEnd(h) /\ TopEnd(h) \in Nat
<1>1. BreakInv /\ HeapInv(h, live, foreign) /\ Extended /\ Accounted /\ CallOK(call, live) /\ SizeOK(call)
  BY DEF IInv, PcInv
<1>2. HasTop(h) => HeapOK(h, DOMAIN live, foreign)
  BY <1>1 DEF HeapInv
<1>3. HasTop(h) => next_chunk(h, h.top) = TopEnd(h) /\ TopEnd(h) \in Nat
  BY <1>2, TopThere
<1> QED BY <1>1, <1>3

\* malloc returns NULL, and the heap is what it was.
LEMMA ExtendFailsStep ==
    ASSUME IInv, ExtendFails
    PROVE  IInv' /\ UNCHANGED live
<1>1. /\ pc = "extended" /\ MorecoreFailed /\ pc' = "idle" /\ call' = NoCall /\ live' = live /\ AnswerRead
      /\ h' = h /\ sbrk_base' = sbrk_base /\ sbrked_mem' = sbrked_mem /\ foreign' = foreign
  BY DEF ExtendFails, Fail
<1>2. /\ BreakInv /\ HeapInv(h, live, foreign) /\ Extended /\ Accounted /\ CallOK(call, live) /\ SizeOK(call)
      /\ HasTop(h) => next_chunk(h, h.top) = TopEnd(h) /\ TopEnd(h) \in Nat
  BY <1>1, ExtendedParts
<1>3. BreakFrom(h, foreign, heap_current)
  BY <1>1, <1>2, AnswerFacts
<1>4. heap_current' = heap_current
  BY <1>1 DEF AnswerRead
<1>5. BreakInv'
  BY <1>1, <1>2, ReadKeeps
<1>6. BreakFrom(h', foreign', heap_current') /\ Accounted'
  BY <1>1, <1>2, <1>3, <1>4 DEF BreakFrom, Accounted
<1>7. PcInv'
  BY <1>1, <1>6 DEF PcInv
<1> QED BY <1>1, <1>2, <1>5, <1>7 DEF IInv

\* mALLOc goes on with the new top, or gives up.
LEMMA UseTopSettles ==
    ASSUME NEW H, NEW W, HeapOK(H, DOMAIN live, W), Held(H, live), TopEnd(H) % 2 = 0, CallOK(call, live), UseTop(H)
    PROVE  Settled(W, TopEnd(H)) /\ (UNCHANGED live \/ Outcome(call.req))
<1>1. CASE TopFits(H, call.nb)
  <2> DEFINE F == FromTop(H, call.nb)
  <2>1. Deliver(call, F, H.top)
    BY <1>1 DEF UseTop
  <2>2. Obtained(F, W, call, H.top) /\ TopEnd(F) = TopEnd(H)
    BY <1>1, FromTopObtained
  <2> HIDE DEF F
  <2>3. Settled(W, TopEnd(F)) /\ Outcome(call.req)
    BY <2>1, <2>2, DeliverSettles
  <2> QED BY <2>2, <2>3
<1>2. CASE ~TopFits(H, call.nb)
  <2>1. h' = H /\ pc' = "idle" /\ call' = NoCall /\ live' = live
    BY <1>2 DEF UseTop, Fail
  <2> QED BY <2>1 DEF Settled
<1> QED BY <1>1, <1>2

\* Words below the end of top are below top.
LEMMA ForeignBelowTop ==
    ASSUME NEW H, NEW U, NEW W, HeapOK(H, U, W), NEW b, b \in Nat, b <= TopEnd(H), \A w \in W : w < b
    PROVE  \A w \in W : w < H.top
<1>1. H.top \in Nat /\ H.head[H.top].size \in Nat /\ TopEnd(H) = H.top + H.head[H.top].size
  BY TopThere
<1>2. Avoids(H.head, W) /\ W \subseteq Nat /\ H.top \in DOMAIN H.head
  BY HeapParts
<1>3. ASSUME NEW w \in W PROVE w < H.top
  <2>1. w < H.top \/ H.top + H.head[H.top].size <= w
    BY <1>2 DEF Avoids
  <2> QED BY <1>1, <1>2, <2>1
<1> QED BY <1>3

LEMMA Longer ==
    ASSUME NEW t, NEW s, NEW n, NEW e, t \in Nat, s \in Nat, n \in Nat, e = t + s
    PROVE  t + (s + n) = e + n /\ s + n \in Nat /\ s + n >= s /\ e + n \in Nat
  OBVIOUS

LEMMA Regain ==
    ASSUME NEW c, NEW n, NEW r, c \in Nat, n \in Nat, r = c - n, r \in Int
    PROVE  r + n = c
  OBVIOUS

LEMMA AddSame ==
    ASSUME NEW a, NEW b, NEW c, NEW n, a \in Int, b \in Int, n \in Nat, c = a + b
    PROVE  c + n = a + (b + n) /\ b + n \in Int
  OBVIOUS

\* The new memory continues top.
LEMMA ExtendInPlaceStep ==
    ASSUME IInv, ExtendInPlace
    PROVE  IInv' /\ (UNCHANGED live \/ Outcome(call.req))
<1> DEFINE n == call.size
           G == set_head(h, h.top, chunksize(h, h.top) + n, PREV_INUSE)
           e == TopEnd(h) + n
<1>1. /\ pc = "extended" /\ ~MorecoreFailed /\ ContinuesTop /\ sbrked_mem' = sbrked_mem + n
      /\ UseTop(G) /\ AnswerRead /\ sbrk_base' = sbrk_base /\ foreign' = foreign
  BY DEF ExtendInPlace
<1>2. /\ BreakInv /\ HeapInv(h, live, foreign) /\ Extended /\ Accounted /\ CallOK(call, live) /\ SizeOK(call)
      /\ HasTop(h) => next_chunk(h, h.top) = TopEnd(h) /\ TopEnd(h) \in Nat
  BY <1>1, ExtendedParts
<1>3. HasTop(h) /\ ret = TopEnd(h)
  BY <1>1, <1>2 DEF ContinuesTop, HasTop, old_end
<1>4. ret = heap_current - n /\ heap_base = InitialBase /\ (\A w \in foreign : w < ret) /\ BreakFrom(h, foreign, ret)
  BY <1>1, <1>2, AnswerFacts
<1>5. HeapOK(h, DOMAIN live, foreign) /\ Held(h, live) /\ TopEnd(h) % PageSize = 0 /\ TopEnd(h) \in Nat
  BY <1>2, <1>3 DEF HeapInv
<1>6. n \in Nat /\ n % PageSize = 0
  BY <1>2, <1>3 DEF SizeOK
<1>7. /\ h.top \in Nat /\ h.head[h.top].size \in Nat /\ h.head[h.top].size >= MINSIZE
      /\ TopEnd(h) = h.top + h.head[h.top].size /\ chunksize(h, h.top) = h.head[h.top].size
  BY <1>5, TopThere
<1> DEFINE s == h.head[h.top].size + n
<1> HIDE DEF n
<1>8. h.top + s = e /\ s \in Nat /\ s >= MINSIZE /\ e \in Nat
  <2>1. h.top + s = e /\ s \in Nat /\ s >= h.head[h.top].size /\ e \in Nat
    BY ONLY <1>6, <1>7, Longer
  <2> QED BY <1>7, <2>1 DEF MINSIZE
<1>9. e % PageSize = 0
  <2>1. Paged(n) /\ Paged(TopEnd(h)) /\ n \in Int /\ TopEnd(h) \in Int
    BY <1>5, <1>6 DEF Paged
  <2>2. Paged(e)
    BY <2>1, PagedSum
  <2> QED BY <2>2 DEF Paged
<1>10. e % 2 = 0
  BY <1>8, <1>9, PageEven
<1>11. e = heap_current
  <2>1. heap_current \in Nat
    BY <1>2 DEF BreakInv
  <2>2. TopEnd(h) = heap_current - n /\ TopEnd(h) \in Int
    BY <1>3, <1>4, <1>5
  <2>3. TopEnd(h) + n = heap_current
    BY ONLY <1>6, <2>1, <2>2, Regain
  <2> QED BY <2>3
<1>12. Spare(foreign, h.top, e)
  <2>a. TopEnd(h) \in Nat /\ TopEnd(h) <= TopEnd(h) /\ \A w \in foreign : w < TopEnd(h)
    BY <1>3, <1>4, <1>5
  <2>1. \A w \in foreign : w < h.top
    BY ONLY <1>5, <2>a, ForeignBelowTop
  <2> QED BY <2>1 DEF Spare
<1>13. UseTop(G) /\ G = set_head(h, h.top, s, PREV_INUSE)
  BY <1>1, <1>7
<1> HIDE DEF G, s, e
<1>14. TopSized(h, DOMAIN live, foreign, s, G)
  BY <1>5, <1>8, <1>10, <1>12, <1>13, TopSizedFacts
<1>15. /\ HeapOK(G, DOMAIN live, foreign) /\ TopEnd(G) = e
       /\ \A c \in DOMAIN live : G.head[c].size = h.head[c].size
  BY <1>8, <1>14 DEF TopSized
<1>16. Held(G, live)
  BY <1>5, <1>15, HeldOn
<1>17. Settled(foreign, e) /\ (UNCHANGED live \/ Outcome(call.req))
  <2>1. TopEnd(G) % 2 = 0
    BY <1>10, <1>15
  <2>2. Settled(foreign, TopEnd(G)) /\ (UNCHANGED live \/ Outcome(call.req))
    BY <1>2, <1>13, <1>15, <1>16, <2>1, UseTopSettles
  <2> QED BY <1>15, <2>2
<1>18. BreakInv'
  BY <1>1, <1>2, ReadKeeps
<1>19. heap_current' = e
  BY <1>1, <1>11 DEF AnswerRead
<1>20. sbrk_base' \in Nat /\ sbrked_mem' \in Int /\ e = sbrk_base' + sbrked_mem'
  <2>1. sbrk_base \in Nat /\ sbrked_mem \in Int /\ TopEnd(h) = sbrk_base + sbrked_mem
    BY <1>2, <1>3 DEF Accounted
  <2>2. TopEnd(h) + n = sbrk_base + (sbrked_mem + n) /\ sbrked_mem + n \in Int
    BY <1>6, <2>1, AddSame
  <2> QED BY <1>1, <2>1, <2>2 DEF e
<1>21. e <= heap_current' /\ (foreign = {} => heap_current' = e) /\ e \in Int
  BY <1>8, <1>19
<1>22. IInv'
  BY <1>1, <1>9, <1>17, <1>18, <1>20, <1>21, SettledInv
<1> QED BY <1>17, <1>22

\* The correction brings the end of the new space to a page.
LEMMA CorrectionFacts ==
    ASSUME NEW P, NEW r, NEW f, NEW n, NEW c, P \in Nat \ {0}, r \in Nat, f \in Nat, n \in Nat,
           c = (f + P - ((r + f + n) % P)) % P
    PROVE  c \in 0 .. P - 1 /\ (r + n + c) % P = 0
<1> DEFINE x == r + f + n
           y == x % P
           z == f + P - y
           q == x \div P
           k == z \div P
<1>1. x \in Int /\ y \in Int /\ q \in Int /\ x = q * P + y
  OBVIOUS
<1> HIDE DEF y, q
<1>2. z \in Int /\ c = z % P
  BY <1>1 DEF y
<1> HIDE DEF z
<1>3. c \in 0 .. P - 1 /\ k \in Int /\ z = k * P + c
  BY <1>2
<1> HIDE DEF k
<1>4. r + n + c = q * P - k * P + P
  BY <1>1, <1>3 DEF z
<1>5. q * P - k * P + P = (q - k + 1) * P
  BY <1>1, <1>3
<1>6. ((q - k + 1) * P) % P = 0
  BY <1>1, <1>3, ProductMultiple
<1> QED BY <1>3, <1>4, <1>5, <1>6

Corrected(c, x, y, z, d) == d = [c EXCEPT !.brk = x, !.front = y, !.correction = z]

LEMMA CorrectedCall ==
    ASSUME NEW c, DOMAIN c = DOMAIN NoCall, NEW x, NEW y, NEW z, NEW d,
           Corrected(c, x, y, z, d)
    PROVE  /\ d.brk = x /\ d.front = y /\ d.correction = z /\ DOMAIN d = DOMAIN c
           /\ d.op = c.op /\ d.old = c.old /\ d.req = c.req /\ d.nb = c.nb /\ d.size = c.size
<1>1. DOMAIN NoCall = {"op", "old", "req", "nb", "size", "brk", "front", "correction"}
  BY DEF NoCall
<1>2. \A f \in {"op", "old", "req", "nb", "size", "brk", "front", "correction"} : f \in DOMAIN c
  BY <1>1
<1> QED BY <1>2 DEF Corrected

LEMMA FrontFacts ==
    ASSUME NEW r, r \in Nat, NEW f, f = r % 2, NEW b, b = r + f
    PROVE  f \in {0, 1} /\ f \in Nat /\ b \in Nat /\ b % 2 = 0 /\ b - f = r
  OBVIOUS

LEMMA ElsewhereSum ==
    ASSUME NEW b, NEW m, NEW e, NEW r, NEW n, b \in Nat, m \in Int, e = b + m, r \in Nat, n \in Nat, e \in Int
    PROVE  b + (m + n + (r - e)) = r + n /\ m + n + (r - e) \in Int
  OBVIOUS

\* It does not: its start is aligned, and a correction asked for.
LEMMA ExtendElsewhereStep ==
    ASSUME IInv, ExtendElsewhere
    PROVE  IInv' /\ UNCHANGED live
<1> DEFINE front == ret % 2
           n == call.size
<1>1. /\ pc = "extended" /\ ~MorecoreFailed /\ ~ContinuesTop
      /\ sbrk_base' = IF sbrk_base = NO_BASE THEN ret ELSE sbrk_base
      /\ sbrked_mem' = sbrked_mem + n + (IF sbrk_base = NO_BASE THEN 0 ELSE ret - old_end)
      /\ call' = [call EXCEPT !.brk = ret + front, !.front = front, !.correction = Correction(ret, front)]
      /\ pc' = "correct" /\ AnswerRead /\ h' = h /\ live' = live /\ foreign' = foreign
  BY DEF ExtendElsewhere
<1>2. /\ BreakInv /\ HeapInv(h, live, foreign) /\ Extended /\ Accounted /\ CallOK(call, live) /\ SizeOK(call)
      /\ HasTop(h) => next_chunk(h, h.top) = TopEnd(h) /\ TopEnd(h) \in Nat
  BY <1>1, ExtendedParts
<1>3. ret = heap_current - n /\ heap_base = InitialBase /\ (\A w \in foreign : w < ret) /\ BreakFrom(h, foreign, ret)
  BY <1>1, <1>2, AnswerFacts
<1>4. n \in Nat /\ ret \in Nat /\ heap_current \in Nat
  BY <1>2 DEF SizeOK, BreakInv
<1> DEFINE b == ret + front
<1>5. front \in {0, 1} /\ front \in Nat /\ b \in Nat /\ b % 2 = 0 /\ b - front = ret
  <2>1. front = ret % 2
    OBVIOUS
  <2> HIDE DEF front
  <2>2. b = ret + front
    OBVIOUS
  <2> HIDE DEF b
  <2> QED BY ONLY <1>4, <2>1, <2>2, FrontFacts
<1> DEFINE c == Correction(ret, front)
<1>6. c \in 0 .. PageSize - 1 /\ (ret + n + c) % PageSize = 0
  <2>1. PageSize \in Nat \ {0}
    BY BreakConstants
  <2>2. c = (front + PageSize - ((ret + front + n) % PageSize)) % PageSize
    BY DEF Correction
  <2> HIDE DEF c, front, n
  <2> QED BY <1>4, <1>5, <2>1, <2>2, CorrectionFacts
<1>7. /\ call'.brk = ret + front /\ call'.front = front /\ call'.correction = c /\ DOMAIN call' = DOMAIN call
      /\ call'.op = call.op /\ call'.old = call.old /\ call'.req = call.req /\ call'.nb = call.nb /\ call'.size = call.size
  <2>1. DOMAIN call = DOMAIN NoCall
    BY <1>2 DEF CallOK
  <2>2. call' = [call EXCEPT !.brk = ret + front, !.front = front, !.correction = c]
    BY <1>1
  <2>3. Corrected(call, b, front, c, call')
    BY ONLY <2>2 DEF Corrected
  <2> HIDE DEF c, front, b
  <2>4. /\ call'.brk = b /\ call'.front = front /\ call'.correction = c /\ DOMAIN call' = DOMAIN call
        /\ call'.op = call.op /\ call'.old = call.old /\ call'.req = call.req /\ call'.nb = call.nb /\ call'.size = call.size
    BY ONLY <2>1, <2>3, CorrectedCall
  <2> QED BY <2>4 DEF b
<1> HIDE DEF c, front, b
<1>8. call'.brk \in Nat /\ call'.brk % 2 = 0 /\ call'.front \in {0, 1} /\ call'.brk - call'.front = ret
  <2>1. b \in Nat /\ b % 2 = 0 /\ front \in {0, 1} /\ b - front = ret
    BY ONLY <1>5
  <2>2. call'.brk = b /\ call'.front = front
    BY <1>7 DEF b
  <2> QED BY ONLY <2>1, <2>2
<1>9. sbrk_base' \in Nat /\ sbrked_mem' \in Int /\ sbrk_base' + sbrked_mem' = ret + n
  <2>1. CASE HasTop(h)
    <3>1. sbrk_base \in Nat /\ sbrked_mem \in Int /\ TopEnd(h) = sbrk_base + sbrked_mem /\ old_end = TopEnd(h) /\ TopEnd(h) \in Nat
      BY <1>2, <2>1 DEF Accounted, old_end
    <3>2. sbrk_base # NO_BASE
      BY <3>1 DEF NO_BASE
    <3>3. sbrk_base' = sbrk_base /\ sbrked_mem' = sbrked_mem + n + (ret - TopEnd(h))
      BY <1>1, <3>1, <3>2
    <3> HIDE DEF n
    <3>4. sbrk_base + (sbrked_mem + n + (ret - TopEnd(h))) = ret + n /\ sbrked_mem + n + (ret - TopEnd(h)) \in Int
      BY <1>4, <3>1, ElsewhereSum
    <3> QED BY <3>1, <3>3, <3>4
  <2>2. CASE ~HasTop(h)
    <3>1. sbrk_base = NO_BASE /\ sbrked_mem = 0
      BY <1>2, <2>2 DEF Accounted
    <3>2. sbrk_base' = ret /\ sbrked_mem' = 0 + n + 0
      BY <1>1, <3>1
    <3>3. 0 + n + 0 = n
      BY <1>4
    <3> QED BY <1>4, <3>2, <3>3
  <2> QED BY <2>1, <2>2
<1>10. HasTop(h') => TopEnd(h') <= ret /\ foreign' # {}
  <2>1. ASSUME HasTop(h) PROVE TopEnd(h) <= ret /\ foreign # {}
    <3>1. TopEnd(h) <= ret /\ (foreign = {} => ret = TopEnd(h))
      BY <1>3, <2>1 DEF BreakFrom
    <3>2. TopEnd(h) % PageSize = 0 /\ old_end = TopEnd(h)
      BY <1>2, <2>1 DEF HeapInv, old_end
    <3>3. ret # TopEnd(h)
      BY <1>1, <2>1, <3>2 DEF ContinuesTop, HasTop
    <3> QED BY <3>1, <3>3
  <2> QED BY <1>1, <2>1
<1>11. heap_base' = InitialBase /\ heap_current' = heap_current
  BY <1>1, <1>3 DEF AnswerRead
<1>12. heap_current = ret + n
  <2> HIDE DEF n
  <2>1. ret + n = heap_current
    <3>1. ret \in Int
      BY <1>4
    <3> QED BY <1>3, <1>4, <3>1, Regain
  <2> QED BY <2>1
<1>13. NewSpace'
  <2>1. call'.correction \in 0 .. PageSize - 1 /\ (ret + n + call'.correction) % PageSize = 0
    BY <1>6, <1>7
  <2>2. \A w \in foreign' : w < ret
    BY <1>1, <1>3
  <2>3. ret >= 0 /\ call'.size = n
    BY <1>4, <1>7
  <2> HIDE DEF n
  <2>4. /\ call'.brk - call'.front >= 0 /\ heap_base' = InitialBase
        /\ \A w \in foreign' : w < call'.brk - call'.front
        /\ HasTop(h') => TopEnd(h') <= call'.brk - call'.front /\ foreign' # {}
        /\ sbrk_base' + sbrked_mem' = call'.brk - call'.front + call'.size
        /\ (call'.brk - call'.front + call'.size + call'.correction) % PageSize = 0
    BY ONLY <1>8, <1>9, <1>10, <1>11, <2>1, <2>2, <2>3
  <2> QED BY <1>8, <1>9, <2>1, <2>4 DEF NewSpace
<1>14. heap_current' = call'.brk - call'.front + call'.size
  <2>1. call'.size = n
    BY <1>7
  <2> QED BY ONLY <1>8, <1>11, <1>12, <2>1
<1>15. CallOK(call', live') /\ SizeOK(call)'
  BY <1>1, <1>2, <1>7 DEF CallOK, SizeOK
<1>16. BreakInv'
  BY <1>1, <1>2, ReadKeeps
<1>17. PcInv'
  BY <1>1, <1>13, <1>14, <1>15 DEF PcInv
<1> QED BY <1>1, <1>2, <1>16, <1>17 DEF IInv

\* The correction is below a page, and is never refused.
LEMMA CorrectCallStep ==
    ASSUME IInv, CorrectCall
    PROVE  IInv' /\ UNCHANGED live
<1> DEFINE n == call.correction
<1>1. /\ pc = "correct" /\ Brk!Call(n) /\ pc' = "corrected"
      /\ h' = h /\ sbrk_base' = sbrk_base /\ sbrked_mem' = sbrked_mem /\ live' = live /\ call' = call /\ foreign' = foreign
  BY DEF CorrectCall
<1>2. BreakInv /\ HeapInv(h, live, foreign) /\ CallOK(call, live) /\ SizeOK(call) /\ NewSpace
      /\ heap_current = call.brk - call.front + call.size
  BY <1>1 DEF IInv, PcInv
<1>3. n \in 0 .. PageSize - 1 /\ (heap_current + n) % PageSize = 0 /\ heap_base # 0
  BY <1>2, BreakConstants DEF NewSpace
<1> HIDE DEF n
<1>4. /\ heap_base' = heap_base /\ heap_limit' = heap_limit /\ heap_current' = heap_current + n /\ ret' = heap_current
      /\ heap_current + n <= heap_limit
  BY <1>1, <1>2, <1>3, Aligned
<1>5. heap_current \in Nat /\ n \in Nat /\ heap_current + n \in Nat /\ heap_current <= heap_current + n
  BY <1>2, <1>3, BreakConstants DEF BreakInv
<1>6. BreakInv'
  <2>1. \A w \in foreign : w < heap_current + n
    BY <1>2, <1>5 DEF BreakInv
  <2> QED BY <1>1, <1>2, <1>3, <1>4, <1>5, <2>1 DEF BreakInv
<1>7. NewSpace'
  BY <1>1, <1>2, <1>4 DEF NewSpace
<1>8. ret' = call'.brk - call'.front + call'.size /\ heap_current' = ret' + call'.correction
  BY <1>1, <1>2, <1>4 DEF n
<1>9. CallOK(call', live') /\ SizeOK(call)'
  BY <1>1, <1>2 DEF SizeOK
<1>10. PcInv'
  BY <1>1, <1>7, <1>8, <1>9 DEF PcInv
<1> QED BY <1>1, <1>2, <1>6, <1>10 DEF IInv

\* The first top.
LEMMA FirstTop ==
    ASSUME NEW H, NEW L, NoHeap(H, L), NEW nt, nt \in Nat, nt % 2 = 0, NEW s, s \in Nat, s >= MINSIZE,
           NEW W, W \subseteq Nat, \A w \in W : w < nt,
           NEW G, G = [set_head(H, nt, s, PREV_INUSE) EXCEPT !.top = nt]
    PROVE  HeapOK(G, DOMAIN L, W) /\ TopEnd(G) = nt + s
<1> DEFINE K == set_head(H, nt, s, PREV_INUSE)
<1>1. H.head = << >> /\ H.bins = << >> /\ H.binblocks = {} /\ H.top = INITIAL_TOP /\ DOMAIN H.head = {} /\ DOMAIN H.bins = {} /\ DOMAIN L = {}
  BY DEF NoHeap
<1>2. Heads(H)
  <2>1. Shape(H)
    BY <1>1 DEF NoHeap, Shape
  <2>2. H.head \in [DOMAIN H.head -> TagRec]
    BY <1>1
  <2> QED BY <1>1, <2>1, <2>2 DEF Heads
<1>3. HeadUsed(H, K, nt, s)
  BY <1>2, SetHeadUsed
<1>4. G = [K EXCEPT !.top = nt]
  OBVIOUS
<1> HIDE DEF K
<1>5. /\ Heads(K) /\ DOMAIN K.head = {nt} /\ K.bins = << >> /\ K.binblocks = {}
      /\ K.head[nt].size = s /\ K.head[nt].prev_inuse
  BY <1>1, <1>3 DEF HeadUsed, SameBins
<1>6. Heads(G) /\ G.head = K.head /\ G.bins = << >> /\ G.binblocks = {} /\ G.top = nt
  <2>1. Heads(G) /\ G.head = K.head /\ SameBins(K, G) /\ G.top = nt
    BY ONLY <1>4, <1>5, SetTopFacts
  <2> QED BY <1>5, <2>1 DEF SameBins
<1>7. Bins(G.bins, G.head, G.binblocks)
  <2>a. DOMAIN G.bins = {}
    BY <1>6
  <2>b. \A f : f = << >> => f \in [DOMAIN f -> Seq(Nat)]
    OBVIOUS
  <2>1. DOMAIN G.bins = {} /\ G.bins \in [DOMAIN G.bins -> Seq(Nat)]
    BY <1>6, <2>a, <2>b
  <2> QED BY <2>1 DEF Bins
<1>8. Elems(G.bins) = {}
  BY <1>6 DEF Elems
<1>9. Tiles(G.head, {}, {}, nt)
  <2> DEFINE hd == G.head
  <2>1. hd \in [{nt} -> TagRec] /\ DOMAIN hd = {nt} /\ hd[nt].size = s /\ hd[nt].prev_inuse
    BY <1>5, <1>6 DEF Heads
  <2> HIDE DEF hd
  <2>2. s >= 1
    BY DEF MINSIZE
  <2>3. /\ hd \in [DOMAIN hd -> TagRec] /\ DOMAIN hd \subseteq Nat
        /\ nt \in DOMAIN hd /\ hd[nt].size >= MINSIZE
    BY <2>1
  <2>4. \A c \in DOMAIN hd : hd[c].size >= 1 /\ c <= nt /\ c = nt /\ hd[c].prev_inuse
    BY <2>1, <2>2
  <2>5. \A c, d \in DOMAIN hd : ~(c < d)
    BY <2>1
  <2>6. Tiles(hd, {}, {}, nt)
    BY <2>3, <2>4, <2>5 DEF Tiles
  <2> QED BY <2>6 DEF hd
<1>10. Avoids(G.head, W)
  BY <1>5, <1>6 DEF Avoids
<1>11. HeapOK(G, {}, W)
  BY <1>6, <1>7, <1>8, <1>9, <1>10 DEF HeapOK
<1>12. TopEnd(G) = nt + s
  BY <1>5, <1>6 DEF TopEnd
<1> QED BY <1>1, <1>11, <1>12

\* The old top is closed with fenceposts, and a new one begins at nt.
LEMMA SecondTop ==
    ASSUME NEW H, NEW U, NEW W, HeapOK(H, U, W), TopEnd(H) % 2 = 0, NEW nt, NEW s, Fresh(H, W, nt, s),
           NEW K, K = [set_head(H, nt, s, PREV_INUSE) EXCEPT !.top = nt],
           NEW t, t = H.top
    PROVE  TopMoved(H, U, W, nt, s, FenceOff(K, t))
<1>1. /\ Heads(H) /\ DOMAIN H.head \subseteq Nat /\ t \in DOMAIN H.head /\ t \in Nat /\ t % 2 = 0 /\ H.head[t].size \in Nat
      /\ H.head[t].size >= MINSIZE
  BY HeapParts
<1>2. nt \in Nat /\ s \in Nat /\ TopEnd(H) <= nt /\ TopEnd(H) = t + H.head[t].size
  BY DEF Fresh, TopEnd
<1>3. t # nt
  BY <1>1, <1>2 DEF MINSIZE
<1>4. H.head[t].size % 2 = 0
  BY <1>1, <1>2
<1> DEFINE z == H.head[t].size - 4
           f == t + z
<1>5. z = Even(H.head[t].size - 3) /\ z \in Nat /\ H.head[t].size = z + 4
  <2>1. Even(H.head[t].size - 3) = z /\ z \in Nat
    BY ONLY <1>1, <1>4, EvenParts
  <2>2. H.head[t].size = z + 4
    BY ONLY <1>1
  <2> QED BY ONLY <2>1, <2>2
<1>6. chunksize(K, t) = H.head[t].size
  <2> DEFINE K0 == set_head(H, nt, s, PREV_INUSE)
  <2>1. HeadUsed(H, K0, nt, s)
    BY <1>1, <1>2, SetHeadUsed
  <2>2. K = [K0 EXCEPT !.top = nt]
    OBVIOUS
  <2> HIDE DEF K0
  <2>3. Heads(K0) /\ K0.head[t] = H.head[t]
    BY <1>1, <1>3, <2>1 DEF HeadUsed
  <2>4. K.head = K0.head
    BY ONLY <2>2, <2>3, SetTopFacts
  <2>5. chunksize(K, t) = K.head[t].size
    BY <1>1, ChunkSizeFacts
  <2> QED BY <2>3, <2>4, <2>5
<1> DEFINE K1 == set_head_size(K, t, z)
           G == set_head(set_head(K1, f, 1, PREV_INUSE), f + 1, 1, PREV_INUSE)
           X == IF z >= MINSIZE THEN fREe(G, t) ELSE G
<1>7. FenceOff(K, t) = X
  <2> DEFINE y == Even(chunksize(K, t) - 3)
             g(n) == set_head(set_head(set_head_size(K, t, n), t + n, 1, PREV_INUSE), t + n + 1, 1, PREV_INUSE)
  <2>1. FenceOff(K, t) = IF y >= MINSIZE THEN fREe(g(y), t) ELSE g(y)
    BY DEF FenceOff
  <2>2. X = IF z >= MINSIZE THEN fREe(g(z), t) ELSE g(z)
    OBVIOUS
  <2>3. y = z
    BY <1>5, <1>6
  <2> HIDE DEF y, z, X, g
  <2> QED BY ONLY <2>1, <2>2, <2>3
<1>8. f = t + z /\ K1 = set_head_size(K, t, z) /\ G = set_head(set_head(K1, f, 1, PREV_INUSE), f + 1, 1, PREV_INUSE)
  OBVIOUS
<1>9. X = IF z >= MINSIZE THEN fREe(G, t) ELSE G
  OBVIOUS
<1> HIDE DEF X, G, K1, f, z
<1>10. Fence(H, nt, s, f, z, G)
  <2>1. HeapOK(H, U, W) /\ Fresh(H, W, nt, s) /\ K = [set_head(H, nt, s, PREV_INUSE) EXCEPT !.top = nt] /\ t = H.top
    OBVIOUS
  <2>2. Fence(H, nt, s, f, z, set_head(set_head(K1, f, 1, PREV_INUSE), f + 1, 1, PREV_INUSE))
    BY ONLY <1>5, <1>8, <2>1, FenceMade
  <2> QED BY ONLY <1>8, <2>2
<1>11. TopMoved(H, U, W, nt, s, X)
  <2>1. z \in Nat /\ H.head[H.top].size = z + 4 /\ f = H.top + z /\ Fence(H, nt, s, f, z, G)
    BY <1>5, <1>8, <1>10
  <2>2. HeapOK(H, U, W) /\ TopEnd(H) % 2 = 0 /\ Fresh(H, W, nt, s)
    OBVIOUS
  <2>3. X = IF z >= MINSIZE THEN fREe(G, H.top) ELSE G
    BY <1>9
  <2> QED BY ONLY <2>1, <2>2, <2>3, FenceFacts
<1> QED BY <1>7, <1>11

Sizes(b, f, n, c, r, e, s) ==
    /\ b \in Nat /\ f \in {0, 1} /\ b - f >= 0 /\ n \in Nat /\ n >= 8 /\ c \in Nat
    /\ r = b - f + n /\ e = r + c /\ s = e - b

LEMMA NewSize ==
    ASSUME NEW b, NEW f, NEW n, NEW c, NEW r, NEW e, NEW s, Sizes(b, f, n, c, r, e, s)
    PROVE  /\ s \in Nat /\ s >= MINSIZE /\ b + s = e /\ e \in Nat /\ r \in Nat
           /\ b - f \in Nat /\ b - f <= b /\ s = r + c - b
  BY DEF MINSIZE, Sizes

\* Where the new top is to be.
NewTopAt(b, s) ==
    /\ b = call.brk /\ b \in Nat /\ b % 2 = 0 /\ s \in Nat /\ s >= MINSIZE /\ b + s = heap_current
    /\ s = ret + call.correction - b /\ ret # AddrMod - 1 /\ ret \in Nat
    /\ (b + s) % 2 = 0 /\ (b + s) % PageSize = 0
    /\ foreign \subseteq Nat /\ \A w \in foreign : w < b
    /\ HasTop(h) => TopEnd(h) <= b
    /\ sbrk_base \in Nat /\ sbrked_mem \in Int /\ call.correction \in Nat
    /\ b + s = sbrk_base + (sbrked_mem + call.correction) /\ sbrked_mem + call.correction \in Int

\* The new top ends at a page, above all that other callers hold.
LEMMA NewTopPlace ==
    ASSUME BreakInv, CallOK(call, live), SizeOK(call), NewSpace, HasTop(h) => TopEnd(h) \in Nat,
           ret = call.brk - call.front + call.size, heap_current = ret + call.correction
    PROVE  NewTopAt(call.brk, heap_current - call.brk)
<1> DEFINE b == call.brk
           f == call.front
           n == call.size
           c == call.correction
           e == heap_current
           s == e - b
<1>1. /\ b \in Nat /\ b % 2 = 0 /\ f \in {0, 1} /\ b - f >= 0
      /\ \A w \in foreign : w < b - f
      /\ HasTop(h) => TopEnd(h) <= b - f
      /\ sbrk_base \in Nat /\ sbrked_mem \in Int /\ sbrk_base + sbrked_mem = b - f + n
      /\ c \in 0 .. PageSize - 1 /\ (b - f + n + c) % PageSize = 0
  BY DEF NewSpace
<1>2. n \in Nat /\ n >= 8
  BY ExtensionSize
<1>3. c \in Nat
  BY <1>1, BreakConstants
<1>4. ret = b - f + n /\ e = ret + c
  OBVIOUS
<1>5. foreign \subseteq Nat /\ heap_limit \in Nat /\ heap_limit <= HeapMax /\ e <= heap_limit
  BY DEF BreakInv
<1>a. sbrk_base + sbrked_mem = ret
  BY <1>1, <1>4
<1>c. s = e - b
  OBVIOUS
<1> HIDE DEF b, f, n, c, e, s
<1>b. b \in Nat /\ f \in {0, 1} /\ b - f >= 0 /\ n \in Nat /\ n >= 8 /\ c \in Nat /\ ret = b - f + n /\ e = ret + c
  BY <1>1, <1>2, <1>3, <1>4
<1>d. Sizes(b, f, n, c, ret, e, s)
  BY <1>b, <1>c DEF Sizes
<1>6. s \in Nat /\ s >= MINSIZE /\ b + s = e /\ e \in Nat /\ ret \in Nat /\ b - f \in Nat /\ b - f <= b /\ s = ret + c - b
  BY ONLY <1>d, NewSize
<1>7. \A w \in foreign : w < b
  BY <1>1, <1>5, <1>6
<1>8. HasTop(h) => TopEnd(h) <= b
  BY <1>1, <1>6
<1>9. (b + s) % PageSize = 0
  <2>1. b + s = b - f + n + c
    BY <1>4, <1>6
  <2> QED BY <1>1, <2>1
<1>10. (b + s) % 2 = 0
  <2>1. b + s \in Int
    BY <1>6
  <2> QED BY <1>9, <2>1, PageEven
<1>11. ret # AddrMod - 1
  <2>1. IntMax \in Nat /\ PageSize \in Nat /\ AddrMod \in Nat /\ HeapMax \in Nat /\ HeapMax + IntMax + PageSize + 4 < AddrMod
    BY BreakConstants
  <2>2. ret <= HeapMax
    <3>1. \A r, x, y, l : r \in Nat /\ x \in Nat /\ y = r + x /\ l \in Nat /\ y <= l /\ l <= HeapMax => r <= HeapMax
      BY ONLY <2>1
    <3>2. ret \in Nat /\ c \in Nat /\ e = ret + c /\ heap_limit \in Nat /\ e <= heap_limit /\ heap_limit <= HeapMax
      BY <1>3, <1>4, <1>5, <1>6
    <3> QED BY ONLY <3>1, <3>2
  <2>3. \A q : q \in Nat /\ q <= HeapMax => q # AddrMod - 1
    BY ONLY <2>1
  <2> QED BY ONLY <1>6, <2>2, <2>3
<1>12. b + s = sbrk_base + (sbrked_mem + c) /\ sbrked_mem + c \in Int
  <2>1. \A x, y, v, z, w : x \in Nat /\ y \in Int /\ v \in Nat /\ x + y = z /\ z \in Nat /\ w = z + v => w = x + (y + v) /\ y + v \in Int
    OBVIOUS
  <2>2. sbrk_base \in Nat /\ sbrked_mem \in Int /\ c \in Nat /\ sbrk_base + sbrked_mem = ret /\ ret \in Nat /\ b + s = ret + c
    BY <1>1, <1>3, <1>4, <1>6, <1>a
  <2> QED BY ONLY <2>1, <2>2
<1>13. s = ret + c - b
  BY <1>6
<1>14. b = call.brk /\ c = call.correction /\ e = heap_current
  BY DEF b, c, e
<1>15. NewTopAt(b, s)
  BY <1>1, <1>3, <1>5, <1>6, <1>7, <1>8, <1>9, <1>10, <1>11, <1>12, <1>13, <1>14 DEF NewTopAt
<1> QED BY <1>15 DEF b, s, e

\* It becomes top, and the rest of the old one is freed.
LEMMA NewTopFacts ==
    ASSUME HeapInv(h, live, foreign), NEW b, NEW s, NewTopAt(b, s)
    PROVE  HeapOK(NewTop, DOMAIN live, foreign) /\ Held(NewTop, live) /\ TopEnd(NewTop) = b + s
<1>1. /\ b = call.brk /\ b \in Nat /\ b % 2 = 0 /\ s \in Nat /\ s >= MINSIZE
      /\ s = ret + call.correction - b /\ ret # AddrMod - 1 /\ (b + s) % 2 = 0
      /\ foreign \subseteq Nat /\ \A w \in foreign : w < b
      /\ HasTop(h) => TopEnd(h) <= b
  BY DEF NewTopAt
<1> DEFINE K == [set_head(h, b, s, PREV_INUSE) EXCEPT !.top = b]
           N == NewTop
<1>2. /\ ~HasTop(h) => N = K
      /\ HasTop(h) => N = IF chunksize(h, h.top) < MINSIZE THEN set_head(K, b, 0, PREV_INUSE) ELSE FenceOff(K, h.top)
  <2> DEFINE x == IF ret = Brk!ERROR THEN call.brk + call.size - call.front ELSE ret + call.correction
             g(v) == [set_head(h, call.brk, v, PREV_INUSE) EXCEPT !.top = call.brk]
  <2>1. N = IF h.top = INITIAL_TOP THEN g(x - call.brk)
            ELSE IF chunksize(h, h.top) < MINSIZE THEN set_head(g(x - call.brk), call.brk, 0, PREV_INUSE)
            ELSE FenceOff(g(x - call.brk), h.top)
    BY DEF NewTop
  <2>a. x = ret + call.correction
    BY <1>1 DEF Brk!ERROR
  <2>2. x - call.brk = s
    <3> HIDE DEF x
    <3>1. call.brk = b /\ b \in Nat /\ s \in Nat /\ s = ret + call.correction - b
      BY <1>1
    <3>2. x \in Nat /\ x = b + s
      BY <1>1, <2>a DEF NewTopAt
    <3> QED BY ONLY <3>1, <3>2
  <2>3. g(s) = K
    BY <1>1
  <2>4. call.brk = b
    BY <1>1
  <2>5. h.top = INITIAL_TOP => N = g(s)
    <3> HIDE DEF x, g, K, N
    <3> QED BY ONLY <2>1, <2>2
  <2>6. h.top # INITIAL_TOP => N = IF chunksize(h, h.top) < MINSIZE THEN set_head(g(s), b, 0, PREV_INUSE) ELSE FenceOff(g(s), h.top)
    <3> HIDE DEF x, g, K, N
    <3> QED BY ONLY <2>1, <2>2, <2>4
  <2> HIDE DEF x, g, K, N
  <2> QED BY ONLY <2>3, <2>5, <2>6 DEF HasTop
<1>3. K = [set_head(h, b, s, PREV_INUSE) EXCEPT !.top = b]
  OBVIOUS
<1> HIDE DEF K, N
<1>4. CASE ~HasTop(h)
  <2>1. NoHeap(h, live)
    BY <1>4 DEF HeapInv
  <2>2. HeapOK(K, DOMAIN live, foreign) /\ TopEnd(K) = b + s
    <3>1. b \in Nat /\ b % 2 = 0 /\ s \in Nat /\ s >= MINSIZE /\ foreign \subseteq Nat /\ \A w \in foreign : w < b
      BY <1>1
    <3> QED BY ONLY <1>3, <2>1, <3>1, FirstTop
  <2>3. Held(K, live)
    <3>1. DOMAIN live = {}
      BY <2>1 DEF NoHeap
    <3> QED BY <3>1 DEF Held
  <2> QED BY <1>2, <1>4, <2>2, <2>3 DEF N
<1>5. CASE HasTop(h)
  <2>1. HeapOK(h, DOMAIN live, foreign) /\ Held(h, live) /\ TopEnd(h) % PageSize = 0
    BY <1>5 DEF HeapInv
  <2>2. TopEnd(h) \in Nat /\ chunksize(h, h.top) = h.head[h.top].size /\ h.head[h.top].size >= MINSIZE /\ h.head[h.top].size \in Nat
    BY <2>1, TopThere
  <2>3. TopEnd(h) % 2 = 0
    BY <2>1, <2>2, PageEven
  <2>4. Spare(foreign, b, b + s)
    BY <1>1 DEF Spare
  <2>5. Fresh(h, foreign, b, s)
    BY <1>1, <1>5, <2>4 DEF Fresh
  <2> DEFINE t == h.top
  <2>6. TopMoved(h, DOMAIN live, foreign, b, s, FenceOff(K, t))
    <3>1. t = h.top
      OBVIOUS
    <3> HIDE DEF t
    <3> QED BY ONLY <1>3, <2>1, <2>3, <2>5, <3>1, SecondTop
  <2>7. N = FenceOff(K, t)
    <3>1. ~(chunksize(h, h.top) < MINSIZE)
      BY <2>2 DEF MINSIZE
    <3> QED BY <1>2, <1>5, <3>1
  <2> HIDE DEF t
  <2>8. /\ HeapOK(N, DOMAIN live, foreign) /\ TopEnd(N) = b + s
        /\ \A x \in DOMAIN live : N.head[x].size = h.head[x].size
    BY <2>6, <2>7 DEF TopMoved
  <2>9. Held(N, live)
    BY <2>1, <2>8, HeldOn
  <2> QED BY <2>8, <2>9 DEF N
<1> QED BY <1>4, <1>5

\* The end of malloc_extend_top.
LEMMA ExtendEndsStep ==
    ASSUME IInv, ExtendEnds
    PROVE  IInv' /\ (UNCHANGED live \/ Outcome(call.req))
<1> DEFINE b == call.brk
           s == heap_current - call.brk
           e == b + s
           N == NewTop
<1>1. /\ pc = "corrected" /\ sbrked_mem' = sbrked_mem + (IF ret = AddrMod - 1 THEN 0 ELSE call.correction)
      /\ UseTop(N) /\ AnswerRead /\ sbrk_base' = sbrk_base /\ foreign' = foreign
  BY DEF ExtendEnds, Brk!ERROR
<1>2. /\ BreakInv /\ HeapInv(h, live, foreign) /\ CallOK(call, live) /\ SizeOK(call) /\ NewSpace
      /\ ret = call.brk - call.front + call.size /\ heap_current = ret + call.correction
  BY <1>1 DEF IInv, PcInv
<1>3. HasTop(h) => TopEnd(h) \in Nat
  BY <1>2, TopThere DEF HeapInv
<1>4. NewTopAt(b, s)
  BY <1>2, <1>3, NewTopPlace
<1> HIDE DEF b, s, N
<1>5. HeapOK(N, DOMAIN live, foreign) /\ Held(N, live) /\ TopEnd(N) = e
  BY <1>2, <1>4, NewTopFacts DEF N
<1>6. /\ e % 2 = 0 /\ e % PageSize = 0 /\ e = heap_current /\ ret # AddrMod - 1 /\ e \in Int
      /\ sbrk_base \in Nat /\ e = sbrk_base + (sbrked_mem + call.correction) /\ sbrked_mem + call.correction \in Int
  BY <1>4 DEF NewTopAt
<1> HIDE DEF e
<1>7. Settled(foreign, e) /\ (UNCHANGED live \/ Outcome(call.req))
  <2>1. TopEnd(N) % 2 = 0
    BY <1>5, <1>6
  <2>2. Settled(foreign, TopEnd(N)) /\ (UNCHANGED live \/ Outcome(call.req))
    BY <1>1, <1>2, <1>5, <2>1, UseTopSettles
  <2> QED BY <1>5, <2>2
<1>8. BreakInv'
  BY <1>1, <1>2, ReadKeeps
<1>9. heap_current' = e
  BY <1>1, <1>6 DEF AnswerRead
<1>10. sbrked_mem' = sbrked_mem + call.correction
  BY <1>1, <1>6
<1>11. sbrk_base' \in Nat /\ sbrked_mem' \in Int /\ e = sbrk_base' + sbrked_mem'
  BY ONLY <1>1, <1>6, <1>10
<1>12. e <= heap_current' /\ (foreign = {} => heap_current' = e)
  BY <1>6, <1>9
<1>13. IInv'
  BY <1>1, <1>6, <1>7, <1>8, <1>11, <1>12, SettledInv
<1> QED BY <1>7, <1>13

-----------------------------------------------------------------------------
(* malloc_trim.                                                            *)

\* Another caller has moved the break: nothing is given back.
LEMMA TrimSkippedStep ==
    ASSUME IInv, TrimSkipped
    PROVE  IInv' /\ UNCHANGED live
<1>1. /\ pc = "trim" /\ pc' = "idle" /\ UNCHANGED <<foreign, brkVars>>
      /\ h' = h /\ sbrk_base' = sbrk_base /\ sbrked_mem' = sbrked_mem /\ live' = live /\ call' = call /\ foreign' = foreign
      /\ heap_current' = heap_current
  BY DEF TrimSkipped, brkVars
<1>2. HeapInv(h, live, foreign) /\ BreakInv
  BY DEF IInv
<1>3. call = NoCall /\ BreakFrom(h, foreign, heap_current) /\ Accounted
  BY <1>1 DEF IInv, PcInv
<1>4. BreakInv'
  BY <1>1, <1>2, BreakKept
<1>5. Accounted'
  BY <1>1, <1>3 DEF Accounted
<1>6. PcInv'
  BY <1>1, <1>3, <1>5 DEF PcInv
<1> QED BY <1>1, <1>2, <1>4, <1>6 DEF IInv

\* What malloc_trim cuts off lies in top.
LEMMA TrimFacts ==
    ASSUME NEW H, NEW U, NEW W, HeapOK(H, U, W), Extra(H) >= PageSize,
           NEW x, x = Extra(H), NEW t, t = H.top, NEW z, z = chunksize(H, t), NEW e, e = TopEnd(H)
    PROVE  /\ x \in Nat /\ x % PageSize = 0 /\ x > 0 /\ x <= e /\ e \in Nat /\ z - x \in Nat /\ z - x >= MINSIZE
           /\ e - x = t + (z - x) /\ e - x \in Nat /\ t < e - x /\ e - x <= e /\ t \in Nat /\ z \in Nat
<1>1. t \in Nat /\ z \in Nat /\ z >= MINSIZE /\ e = t + z
  BY TopThere
<1>2. x \in Nat /\ x % PageSize = 0 /\ z - x >= MINSIZE
  BY <1>1, ExtraFacts
<1>3. x >= PageSize /\ PageSize \in Nat /\ PageSize > 0
  BY PageSizeFacts
<1>4. x > 0 /\ x <= e /\ e \in Nat /\ z - x \in Nat /\ e - x = t + (z - x) /\ e - x \in Nat /\ t < e - x /\ e - x <= e
  BY ONLY <1>1, <1>2, <1>3 DEF MINSIZE
<1> QED BY ONLY <1>1, <1>2, <1>4

\* The break is lowered into top.
LEMMA TrimCallStep ==
    ASSUME IInv, TrimCall
    PROVE  IInv' /\ UNCHANGED live
<1> DEFINE x == Extra(h)
           e == TopEnd(h)
           t == h.top
           z == chunksize(h, t)
<1>1. /\ pc = "trim" /\ heap_current = next_chunk(h, h.top) /\ Brk!Call(AddrMod - x) /\ pc' = "trimmed"
      /\ h' = h /\ sbrk_base' = sbrk_base /\ sbrked_mem' = sbrked_mem /\ live' = live /\ call' = call /\ foreign' = foreign
  BY DEF TrimCall, old_end
<1>2. /\ HeapInv(h, live, foreign) /\ BreakInv /\ HasTop(h) /\ Extra(h) >= PageSize /\ call = NoCall /\ Accounted
  BY <1>1 DEF IInv, PcInv
<1>3. HeapOK(h, DOMAIN live, foreign) /\ heap_base # 0
  BY <1>1, <1>2, StandingFacts DEF Standing
<1>4. heap_current = e
  BY <1>1, <1>3, TopThere
<1>5. x = Extra(h) /\ t = h.top /\ z = chunksize(h, t) /\ e = TopEnd(h)
  OBVIOUS
<1> HIDE DEF x, e, t, z
<1>6. /\ x \in Nat /\ x > 0 /\ x <= e /\ e \in Nat /\ e - x \in Nat /\ t < e - x /\ e - x <= e /\ t \in Nat
  BY <1>2, <1>3, <1>5, TrimFacts
<1>7. heap_base' = heap_base /\ heap_limit' = heap_limit /\ heap_current' = e - x /\ ret' = e
  <2>1. x <= heap_current
    BY <1>4, <1>6
  <2>2. heap_current' = heap_current - x
    BY <1>1, <1>2, <1>3, <1>6, <2>1, Lowered
  <2> QED BY <1>1, <1>2, <1>3, <1>4, <1>6, <2>1, <2>2, Lowered
<1>8. \A w \in foreign : w \in Nat /\ w < e - x
  <2>1. foreign \subseteq Nat /\ \A w \in foreign : w < e
    BY <1>2, <1>4 DEF BreakInv
  <2>2. e <= TopEnd(h)
    BY <1>5, <1>6
  <2>3. \A w \in foreign : w < h.top
    BY ONLY <1>3, <1>6, <2>1, <2>2, ForeignBelowTop
  <2> QED BY <1>5, <1>6, <2>1, <2>3
<1>9. heap_limit \in Nat /\ heap_limit <= HeapMax /\ e <= heap_limit
  BY <1>2, <1>4 DEF BreakInv
<1>10. e - x <= heap_limit
  <2>1. \A a, b, c : a \in Nat /\ b \in Nat /\ c \in Nat /\ a <= b /\ b <= c => a <= c
    OBVIOUS
  <2> QED BY <1>6, <1>9, <2>1
<1>11. ret' # AddrMod - 1
  <2>1. HeapMax \in Nat /\ AddrMod \in Nat /\ IntMax \in Nat /\ PageSize \in Nat /\ HeapMax + IntMax + PageSize + 4 < AddrMod
    BY BreakConstants
  <2>2. \A a, b : a \in Nat /\ b \in Nat /\ a <= b /\ b <= HeapMax => a # AddrMod - 1
    BY ONLY <2>1
  <2>3. e # AddrMod - 1
    BY ONLY <1>6, <1>9, <2>2
  <2> QED BY <1>7, <2>3
<1>12. BreakInv'
  <2>1. /\ heap_base \in {0, InitialBase} /\ heap_limit % PageSize = 0 /\ heap_limit \in Nat /\ heap_limit <= HeapMax
    BY <1>2 DEF BreakInv
  <2>2. heap_base' # 0
    BY <1>3, <1>7
  <2>3. heap_current' \in Nat /\ heap_current' <= heap_limit' /\ ret' \in Nat
    BY <1>6, <1>7, <1>10
  <2>4. foreign' \subseteq Nat /\ \A w \in foreign' : w < heap_current'
    BY <1>1, <1>7, <1>8
  <2> QED BY <1>7, <2>1, <2>2, <2>3, <2>4 DEF BreakInv
<1>13. Accounted'
  BY <1>1, <1>2 DEF Accounted
<1>14. heap_current' = TopEnd(h') - Extra(h')
  BY <1>1, <1>5, <1>7
<1>15. PcInv'
  BY <1>1, <1>2, <1>11, <1>13, <1>14 DEF PcInv
<1> QED BY <1>1, <1>2, <1>12, <1>15 DEF IInv

LEMMA TakeSame ==
    ASSUME NEW a, NEW b, NEW c, NEW n, a \in Int, b \in Int, n \in Nat, c = a + b
    PROVE  c - n = a + (b - n) /\ b - n \in Int
  OBVIOUS

\* Top ends at the break again.
LEMMA TrimEndsStep ==
    ASSUME IInv, TrimEnds
    PROVE  IInv' /\ UNCHANGED live
<1> DEFINE x == Extra(h)
           b == TopEnd(h)
           t == h.top
           z == chunksize(h, t)
           s == z - x
           e == b - x
           G == set_head(h, h.top, s, PREV_INUSE)
<1>1. /\ pc = "trimmed" /\ pc' = "idle" /\ AnswerRead
      /\ sbrk_base' = sbrk_base /\ live' = live /\ call' = call /\ foreign' = foreign
  BY DEF TrimEnds
<1>2. /\ HeapInv(h, live, foreign) /\ BreakInv /\ HasTop(h) /\ Extra(h) >= PageSize /\ call = NoCall /\ Accounted
      /\ ret # AddrMod - 1 /\ heap_current = e
  BY <1>1 DEF IInv, PcInv
<1>3. HeapOK(h, DOMAIN live, foreign) /\ Held(h, live) /\ b % PageSize = 0
  BY <1>2 DEF HeapInv
<1>4. /\ h' = IF s >= MINSIZE THEN G ELSE h
      /\ sbrked_mem' = sbrked_mem - x
  BY <1>2 DEF TrimEnds, Brk!ERROR
<1>5. x = Extra(h) /\ t = h.top /\ z = chunksize(h, t) /\ b = TopEnd(h) /\ s = z - x /\ e = b - x
  OBVIOUS
<1>6. G = set_head(h, h.top, s, PREV_INUSE)
  OBVIOUS
<1> HIDE DEF x, b, t, z, s, e, G
<1>7. x \in Nat /\ x % PageSize = 0 /\ b \in Nat /\ s \in Nat /\ s >= MINSIZE /\ e = t + s /\ e \in Nat /\ e <= b /\ t \in Nat
  <2>1. /\ x \in Nat /\ x % PageSize = 0 /\ b \in Nat /\ z - x \in Nat /\ z - x >= MINSIZE
        /\ b - x = t + (z - x) /\ b - x \in Nat /\ b - x <= b /\ t \in Nat
    BY <1>2, <1>3, <1>5, TrimFacts
  <2> QED BY <1>5, <2>1
<1>8. h' = G
  BY <1>4, <1>7
<1>9. e % PageSize = 0
  <2>1. Paged(b) /\ Paged(x) /\ b \in Int /\ x \in Int
    BY <1>3, <1>7 DEF Paged
  <2>2. Paged(e)
    BY <1>5, <2>1, PagedSum
  <2> QED BY <2>2 DEF Paged
<1>10. e % 2 = 0
  BY <1>7, <1>9, PageEven
<1>11. Spare(foreign, h.top, e)
  <2>1. \A w \in foreign : w < e
    BY <1>2 DEF BreakInv
  <2>2. e <= TopEnd(h)
    BY <1>5, <1>7
  <2>3. \A w \in foreign : w < h.top
    BY ONLY <1>3, <1>7, <2>1, <2>2, ForeignBelowTop
  <2> QED BY <2>3 DEF Spare
<1>12. TopSized(h, DOMAIN live, foreign, s, G)
  <2>1. e = h.top + s
    BY <1>5, <1>7
  <2> QED BY <1>3, <1>6, <1>7, <1>10, <1>11, <2>1, TopSizedFacts
<1>13. /\ HeapOK(G, DOMAIN live, foreign) /\ TopEnd(G) = e
       /\ \A c \in DOMAIN live : G.head[c].size = h.head[c].size
  BY <1>5, <1>7, <1>12 DEF TopSized
<1>14. Held(G, live)
  BY <1>3, <1>13, HeldOn
<1>15. Settled(foreign, e)
  BY <1>1, <1>2, <1>8, <1>13, <1>14 DEF Settled
<1>16. BreakInv'
  BY <1>1, <1>2, ReadKeeps
<1>17. heap_current' = e
  BY <1>1, <1>2 DEF AnswerRead
<1>18. sbrk_base' \in Nat /\ sbrked_mem' \in Int /\ e = sbrk_base' + sbrked_mem'
  <2>1. sbrk_base \in Nat /\ sbrked_mem \in Int /\ b = sbrk_base + sbrked_mem
    BY <1>2, <1>5 DEF Accounted
  <2>2. b - x = sbrk_base + (sbrked_mem - x) /\ sbrked_mem - x \in Int
    BY <1>7, <2>1, TakeSame
  <2> QED BY <1>1, <1>4, <1>5, <2>1, <2>2
<1>19. e <= heap_current' /\ (foreign = {} => heap_current' = e) /\ e \in Int
  BY <1>7, <1>17
<1>20. IInv'
  BY <1>1, <1>9, <1>15, <1>16, <1>18, <1>19, SettledInv
<1> QED BY <1>1, <1>20

-----------------------------------------------------------------------------
(* The invariant holds, and what follows.                                  *)

\* What a step may do to the blocks callers hold.
BlocksStep ==
    \/ UNCHANGED live
    \/ \E n \in AllRequests : Outcome(n)
    \/ \E p \in DOMAIN live : live' = Drop(live, {p})

\* The invariant holds at the start, and every step keeps it.
LEMMA InitIInv == Init => IInv
<1> SUFFICES ASSUME Init PROVE IInv
  OBVIOUS
<1>1. /\ h = [head |-> << >>, bins |-> << >>, binblocks |-> {}, top |-> INITIAL_TOP]
      /\ sbrk_base = NO_BASE /\ sbrked_mem = 0 /\ live = << >> /\ pc = "idle" /\ call = NoCall /\ foreign = {}
      /\ heap_base = 0 /\ heap_current = 0 /\ heap_limit = 0 /\ ret = 0
  BY DEF Init, Brk!Init, Brk!NULL
<1>2. ~HasTop(h) /\ NoHeap(h, live)
  BY <1>1 DEF HasTop, NoHeap
<1>3. HeapInv(h, live, foreign)
  BY <1>2 DEF HeapInv
<1>4. BreakInv
  <2>1. HeapMax \in Nat /\ PageSize \in Nat \ {0}
    BY MallocConstants
  <2>2. 0 % PageSize = 0
    BY <2>1
  <2> QED BY <1>1, <2>1, <2>2 DEF BreakInv
<1>5. BreakFrom(h, foreign, heap_current) /\ Accounted
  BY <1>1, <1>2 DEF BreakFrom, Accounted
<1>6. PcInv
  BY <1>1, <1>5 DEF PcInv
<1> QED BY <1>3, <1>4, <1>6 DEF IInv

LEMMA StutterIInv ==
    ASSUME IInv, UNCHANGED vars
    PROVE  IInv'
<1>1. /\ h' = h /\ sbrk_base' = sbrk_base /\ sbrked_mem' = sbrked_mem /\ live' = live /\ pc' = pc /\ call' = call
      /\ foreign' = foreign /\ UNCHANGED brkVars
  BY DEF vars
<1>2. heap_base' = heap_base /\ heap_current' = heap_current /\ heap_limit' = heap_limit /\ ret' = ret
  BY <1>1 DEF brkVars
<1>3. HeapInv(h, live, foreign) /\ BreakInv /\ PcInv
  BY DEF IInv
<1>4. BreakInv'
  BY <1>1, <1>3, BreakKept
<1>5. Accounted' = Accounted /\ Extended' = Extended /\ NewSpace' = NewSpace /\ SizeOK(call)' = SizeOK(call)
  BY <1>1, <1>2 DEF Accounted, Extended, NewSpace, SizeOK
<1>6. PcInv' = PcInv
  BY <1>1, <1>2, <1>5 DEF PcInv
<1> QED BY <1>1, <1>3, <1>4, <1>6 DEF IInv

LEMMA AskedFor ==
    ASSUME IInv, pc \in {"extend", "extended", "correct", "corrected"}
    PROVE  call.req \in AllRequests
  BY DEF IInv, PcInv, CallOK

LEMMA NextIInv ==
    ASSUME IInv, [Next]_vars
    PROVE  IInv' /\ BlocksStep
<1>1. ASSUME NEW req \in Requests, Malloc(req) PROVE IInv' /\ BlocksStep
  <2>1. req \in AllRequests
    BY DEF AllRequests
  <2> QED BY <1>1, <2>1, MallocIsStep DEF BlocksStep
<1>2. ASSUME NEW a \in Arrays, Calloc(a[1], a[2]) PROVE IInv' /\ BlocksStep
  <2>1. a[1] * a[2] \in AllRequests
    BY DEF AllRequests
  <2> QED BY <1>2, <2>1, CallocIsStep DEF BlocksStep
<1>3. ASSUME NEW p \in DOMAIN live, Free(p) PROVE IInv' /\ BlocksStep
  BY <1>3, FreeStep DEF BlocksStep
<1>4. ASSUME NEW p \in DOMAIN live, NEW req \in Resizes, Realloc(p, req) PROVE IInv' /\ BlocksStep
  <2>1. req \in AllRequests
    BY DEF AllRequests
  <2> QED BY <1>4, <2>1, ReallocStep DEF BlocksStep
<1>5. ASSUME NEW n \in ForeignSizes, ForeignSbrk(n) PROVE IInv' /\ BlocksStep
  BY <1>5, ForeignStep DEF BlocksStep
<1>6. CASE ExtendCall
  BY <1>6, ExtendCallStep DEF BlocksStep
<1>7. CASE ExtendFails
  BY <1>7, ExtendFailsStep DEF BlocksStep
<1>8. CASE ExtendInPlace
  <2>1. call.req \in AllRequests
    BY <1>8, AskedFor DEF ExtendInPlace
  <2> QED BY <1>8, <2>1, ExtendInPlaceStep DEF BlocksStep
<1>9. CASE ExtendElsewhere
  BY <1>9, ExtendElsewhereStep DEF BlocksStep
<1>10. CASE CorrectCall
  BY <1>10, CorrectCallStep DEF BlocksStep
<1>11. CASE ExtendEnds
  <2>1. call.req \in AllRequests
    BY <1>11, AskedFor DEF ExtendEnds
  <2> QED BY <1>11, <2>1, ExtendEndsStep DEF BlocksStep
<1>12. CASE TrimSkipped
  BY <1>12, TrimSkippedStep DEF BlocksStep
<1>13. CASE TrimCall
  BY <1>13, TrimCallStep DEF BlocksStep
<1>14. CASE TrimEnds
  BY <1>14, TrimEndsStep DEF BlocksStep
<1>15. CASE UNCHANGED vars
  BY <1>15, StutterIInv DEF BlocksStep, vars
<1>16. Step => IInv' /\ BlocksStep
  BY <1>6, <1>7, <1>8, <1>9, <1>10, <1>11, <1>12, <1>13, <1>14 DEF Step
<1> QED BY <1>1, <1>2, <1>3, <1>4, <1>5, <1>15, <1>16 DEF Next

\* From the invariant to the properties.
LEMMA FreeAreElems == FreeChunks = Elems(h.bins)
  BY DEF FreeChunks, Elems

LEMMA EmptyHeap ==
    ASSUME NoHeap(h, live)
    PROVE  Chunks = {} /\ FreeChunks = {} /\ DOMAIN live = {} /\ DOMAIN h.bins = {} /\ h.top = INITIAL_TOP
  BY DEF NoHeap, Chunks, FreeChunks

LEMMA HeapReady ==
    ASSUME IInv
    PROVE  NoHeap(h, live) \/ (HeapOK(h, DOMAIN live, foreign) /\ Held(h, live) /\ HasTop(h))
  BY DEF IInv, HeapInv

\* What the properties say of a chunk, in terms of its tag.
LEMMA ChunkFacts ==
    ASSUME HeapOK(h, DOMAIN live, foreign)
    PROVE  /\ Chunks \subseteq Nat /\ Chunks = DOMAIN h.head /\ h.top \in Chunks /\ h.top # INITIAL_TOP
           /\ \A c \in Chunks : c \in Nat /\ h.head[c].size \in Nat /\ chunksize(h, c) = h.head[c].size /\ After(c) = c + h.head[c].size
           /\ \A c : c \in Fences <=> c \in Chunks /\ c # h.top /\ h.head[c].size < MINSIZE
           /\ Tiles(h.head, FreeChunks, DOMAIN live, h.top)
<1>1. /\ Tiles(h.head, Elems(h.bins), DOMAIN live, h.top) /\ DOMAIN h.head \subseteq Nat /\ h.top \in DOMAIN h.head
      /\ \A c \in DOMAIN h.head : h.head[c].size \in Nat
  BY HeapParts
<1>2. \A c \in Chunks : c \in Nat /\ chunksize(h, c) = h.head[c].size
  BY <1>1, ChunkSizeFacts DEF Chunks
<1>3. \A c \in Chunks : After(c) = c + h.head[c].size
  BY <1>2 DEF After
<1>4. h.top # INITIAL_TOP
  BY <1>1 DEF INITIAL_TOP
<1>5. \A c : c \in Fences <=> c \in Chunks /\ c # h.top /\ h.head[c].size < MINSIZE
  BY <1>2 DEF Fences
<1> QED BY <1>1, <1>2, <1>3, <1>4, <1>5, FreeAreElems DEF Chunks

LEMMA TiledHolds ==
    ASSUME IInv
    PROVE  Tiled
<1>1. CASE NoHeap(h, live)
  <2>1. Chunks = {} /\ FreeChunks = {} /\ DOMAIN live = {} /\ h.top = INITIAL_TOP
    BY <1>1, EmptyHeap
  <2>2. Fences = {}
    BY <2>1 DEF Fences
  <2> QED BY <2>1, <2>2 DEF Tiled
<1>2. CASE HeapOK(h, DOMAIN live, foreign) /\ Held(h, live) /\ HasTop(h)
  <2> DEFINE hd == h.head
             F == FreeChunks
             U == DOMAIN live
             t == h.top
  <2>1. /\ Chunks \subseteq Nat /\ Chunks = DOMAIN hd /\ t \in Chunks /\ t # INITIAL_TOP
        /\ \A c \in Chunks : c \in Nat /\ hd[c].size \in Nat /\ chunksize(h, c) = hd[c].size /\ After(c) = c + hd[c].size
        /\ \A c : c \in Fences <=> c \in Chunks /\ c # t /\ hd[c].size < MINSIZE
        /\ Tiles(hd, F, U, t)
    BY <1>2, ChunkFacts
  <2>2. Avoids(hd, foreign)
    BY <1>2, HeapParts
  <2> HIDE DEF hd, F, t
  <2>3. /\ F \subseteq DOMAIN hd /\ U \subseteq DOMAIN hd
        /\ \A c, d \in DOMAIN hd : c < d => c + hd[c].size <= d
        /\ \A c \in F \cup U : c + hd[c].size \in DOMAIN hd
        /\ \A c \in DOMAIN hd : c \in F \cup U \cup {t} \/ (hd[c].size < MINSIZE /\ (c % 2 = 0 => c + hd[c].size \in DOMAIN hd))
    BY <2>1 DEF Tiles
  <2>4. \A c, d \in Chunks : c < d => After(c) <= d
    BY <2>1, <2>3
  <2>5. \A c \in Chunks : c = t \/ After(c) \in Chunks \/ (c \in Fences /\ c % 2 = 1)
    <3>1. ASSUME NEW c \in Chunks, c # t, After(c) \notin Chunks PROVE c \in Fences /\ c % 2 = 1
      <4>1. c \in DOMAIN hd /\ c \in Nat /\ c + hd[c].size \notin DOMAIN hd
        BY <2>1, <3>1
      <4>2. hd[c].size < MINSIZE /\ c % 2 # 0
        BY <2>3, <3>1, <4>1
      <4>3. c % 2 = 1
        BY <4>1, <4>2
      <4> QED BY <2>1, <3>1, <4>2, <4>3
    <3> QED BY <3>1
  <2>6. \A c \in Chunks, w \in foreign : w < c \/ After(c) <= w
    BY <2>1, <2>2 DEF Avoids
  <2>7. Chunks = F \cup U \cup Fences \cup ({t} \ {INITIAL_TOP})
    <3>1. ASSUME NEW c PROVE c \in Chunks <=> c \in F \cup U \cup Fences \cup ({t} \ {INITIAL_TOP})
      BY <2>1, <2>3
    <3> QED BY <3>1
  <2>8. \A c \in DOMAIN live : live[c].size <= chunksize(h, c) - 1
    <3>1. ASSUME NEW c \in DOMAIN live PROVE live[c].size <= chunksize(h, c) - 1
      <4>1. chunksize(h, c) = h.head[c].size
        BY <2>1, <2>3 DEF hd
      <4>2. live[c].size <= h.head[c].size - 1
        BY <1>2 DEF Held
      <4> QED BY <4>1, <4>2
    <3> QED BY <3>1
  <2> QED BY <2>4, <2>5, <2>6, <2>7, <2>8 DEF Tiled, F, t
<1> QED BY <1>1, <1>2, HeapReady

LEMMA TagsHold ==
    ASSUME IInv
    PROVE  BoundaryTags
<1>1. CASE NoHeap(h, live)
  BY <1>1, EmptyHeap DEF BoundaryTags
<1>2. CASE HeapOK(h, DOMAIN live, foreign) /\ Held(h, live) /\ HasTop(h)
  <2> DEFINE F == FreeChunks
             U == DOMAIN live
  <2>1. /\ Chunks = DOMAIN h.head
        /\ \A c \in Chunks : c \in Nat /\ h.head[c].size \in Nat /\ chunksize(h, c) = h.head[c].size /\ After(c) = c + h.head[c].size
        /\ \A c : c \in Fences <=> c \in Chunks /\ c # h.top /\ h.head[c].size < MINSIZE
        /\ Tiles(h.head, F, U, h.top)
    BY <1>2, ChunkFacts
  <2> SUFFICES ASSUME NEW c \in Chunks \ ({h.top} \cup Fences), NEW n, n = After(c)
      PROVE  /\ chunksize(h, c) >= MINSIZE /\ chunksize(h, c) % 2 = 0 /\ c % 2 = 0
             /\ h.head[n].prev_inuse = (c \notin F)
             /\ c \in F => /\ h.head[n].prev_size = chunksize(h, c)
                           /\ n \notin F /\ n # h.top
                           /\ h.head[c].prev_inuse
    BY DEF BoundaryTags, prev_inuse
  <2> HIDE DEF F
  <2>2. chunksize(h, c) = h.head[c].size /\ n = c + h.head[c].size /\ c \in DOMAIN h.head /\ c # h.top
    BY <2>1
  <2>3. c \in F \cup U
    <3>1. c \in F \cup U \cup {h.top} \/ h.head[c].size < MINSIZE
      BY <2>1, <2>2 DEF Tiles
    <3> QED BY <2>1, <2>2, <3>1
  <2>4. /\ c % 2 = 0 /\ h.head[c].size % 2 = 0 /\ h.head[c].size >= MINSIZE
        /\ n \in DOMAIN h.head /\ (h.head[n].prev_inuse <=> c \in U)
    BY <2>1, <2>2, <2>3 DEF Tiles
  <2>5. c \in F => h.head[n].prev_size = h.head[c].size /\ n \notin F /\ n # h.top /\ h.head[c].prev_inuse
    BY <2>1, <2>2 DEF Tiles
  <2>6. F \cap U = {} /\ h.head[n].prev_inuse \in BOOLEAN
    <3>1. F \cap U = {} /\ h.head \in [DOMAIN h.head -> TagRec]
      BY <2>1 DEF Tiles
    <3> QED BY <2>4, <3>1 DEF TagRec
  <2>7. h.head[n].prev_inuse <=> c \notin F
    BY <2>3, <2>4, <2>6
  <2>8. h.head[n].prev_inuse = (c \notin F)
    BY <2>6, <2>7
  <2> QED BY <2>2, <2>4, <2>5, <2>8
<1> QED BY <1>1, <1>2, HeapReady

LEMMA BinsHold ==
    ASSUME IInv
    PROVE  BinsSound
<1>1. CASE NoHeap(h, live)
  <2>1. DOMAIN h.bins = {}
    BY <1>1, EmptyHeap
  <2> QED BY <2>1 DEF BinsSound
<1>2. CASE HeapOK(h, DOMAIN live, foreign) /\ Held(h, live) /\ HasTop(h)
  <2> DEFINE B == h.bins
             hd == h.head
             blocks == h.binblocks
  <2>1. Bins(B, hd, blocks)
    BY <1>2 DEF HeapOK
  <2>2. \A c \in Chunks : chunksize(h, c) = hd[c].size
    BY <1>2, ChunkFacts
  <2>3. Elems(B) \subseteq Chunks
    BY <1>2, HeapParts DEF Chunks
  <2> HIDE DEF hd, blocks, B
  <2>4. \A i \in DOMAIN B : \A k \in DOMAIN B[i] : chunksize(h, B[i][k]) = hd[B[i][k]].size
    BY <2>2, <2>3, ElemsFacts
  <2>5. \A i \in DOMAIN B : \A k \in DOMAIN B[i] : i \in {LAST_REMAINDER, bin_index(chunksize(h, B[i][k]))}
    BY <2>1, <2>4 DEF Bins
  <2>6. \A i \in DOMAIN B : \A k \in DOMAIN B[i] : \A j \in DOMAIN B : \A l \in DOMAIN B[j] :
            B[i][k] = B[j][l] => i = j /\ k = l
    BY <2>1 DEF Bins
  <2>7. \A i \in DOMAIN B : \A k \in DOMAIN B[i] : \A j \in DOMAIN B : \A l \in DOMAIN B[j] :
            i = j /\ k < l => chunksize(h, B[i][k]) >= chunksize(h, B[i][l])
    <3>1. \A i \in DOMAIN B : \A k, l \in DOMAIN B[i] : k < l => hd[B[i][k]].size >= hd[B[i][l]].size
      BY <2>1 DEF Bins
    <3> QED BY <2>4, <3>1
  <2>8. \A i \in DOMAIN B : i = LAST_REMAINDER \/ Block(i) \in blocks
    BY <2>1 DEF Bins
  <2>9. DOMAIN B \cap {LAST_REMAINDER} # {} => Len(B[LAST_REMAINDER]) = 1
    BY <2>1 DEF Bins
  <2> QED BY <2>5, <2>6, <2>7, <2>8, <2>9 DEF BinsSound, B, blocks
<1> QED BY <1>1, <1>2, HeapReady

LEMMA NeedHolds ==
    ASSUME IInv
    PROVE  ExtendsWhenNeeded
<1>1. CASE NoHeap(h, live)
  BY <1>1, EmptyHeap DEF ExtendsWhenNeeded
<1>2. CASE HeapOK(h, DOMAIN live, foreign) /\ Held(h, live) /\ HasTop(h)
  <2>1. \A c \in Chunks : chunksize(h, c) = h.head[c].size
    BY <1>2, ChunkFacts
  <2>2. Elems(h.bins) \subseteq Chunks /\ FreeChunks = Elems(h.bins)
    BY <1>2, HeapParts, FreeAreElems DEF Chunks
  <2>3. pc = "extend" => \A c \in Elems(h.bins) : h.head[c].size < call.nb
    BY DEF IInv, PcInv
  <2> QED BY <2>1, <2>2, <2>3 DEF ExtendsWhenNeeded
<1> QED BY <1>1, <1>2, HeapReady

LEMMA PageEndHolds ==
    ASSUME IInv
    PROVE  TopAtPageEnd
<1> SUFFICES ASSUME pc \in {"idle", "extend", "trim"}, HasTop(h)
    PROVE  /\ old_end % PageSize = 0 /\ old_end = sbrk_base + sbrked_mem
           /\ chunksize(h, h.top) >= MINSIZE
           /\ foreign = {} => heap_current = old_end
  BY DEF TopAtPageEnd, HasTop
<1>1. Standing
  BY StandingFacts
<1>2. /\ HeapOK(h, DOMAIN live, foreign) /\ TopEnd(h) % PageSize = 0 /\ TopEnd(h) = sbrk_base + sbrked_mem
      /\ foreign = {} => heap_current = TopEnd(h)
  BY <1>1 DEF Standing
<1>3. old_end = TopEnd(h) /\ chunksize(h, h.top) = h.head[h.top].size /\ h.head[h.top].size >= MINSIZE
  BY <1>2, TopThere DEF old_end
<1> QED BY <1>2, <1>3

\* Two blocks lie apart.
LEMMA BlocksApart ==
    ASSUME NEW H, NEW L, NEW W, HeapInv(H, L, W), NEW a \in DOMAIN L, NEW b \in DOMAIN L, a # b
    PROVE  a + L[a].size <= b \/ b + L[b].size <= a
<1>1. HeapOK(H, DOMAIN L, W) /\ Held(H, L)
  <2>1. NoHeap(H, L) => DOMAIN L = {}
    BY DEF NoHeap
  <2> QED BY <2>1 DEF HeapInv
<1>2. /\ a \in DOMAIN H.head /\ b \in DOMAIN H.head /\ a \in Nat /\ b \in Nat
      /\ H.head[a].size \in Nat /\ H.head[b].size \in Nat
      /\ Tiles(H.head, Elems(H.bins), DOMAIN L, H.top)
  BY <1>1, HeapParts
<1>3. /\ a < b => a + H.head[a].size <= b
      /\ b < a => b + H.head[b].size <= a
  BY <1>2 DEF Tiles
<1>4. /\ L[a].size \in Nat /\ L[a].size <= H.head[a].size - 1
      /\ L[b].size \in Nat /\ L[b].size <= H.head[b].size - 1
  BY <1>1 DEF Held
<1>5. a < b => a + L[a].size <= b
  BY <1>2, <1>3, <1>4
<1>6. b < a => b + L[b].size <= a
  BY <1>2, <1>3, <1>4
<1> QED BY <1>2, <1>5, <1>6

\* A new block keeps clear of the others, as Allocator asks.
LEMMA MallocImplemented ==
    ASSUME IInv', NEW n \in AllRequests, NEW v, v \notin DOMAIN live, live' = Put(live, v, Given(n))
    PROVE  Abstract!Malloc
<1>1. DOMAIN live' = DOMAIN live \cup {v} /\ live'[v] = Given(n) /\ \A c \in DOMAIN live \ {v} : live'[c] = live[c]
  <2>1. live' = Put(live, v, Given(n))
    OBVIOUS
  <2> QED BY ONLY <2>1 DEF Put
<1>2. HeapInv(h', live', foreign')
  BY DEF IInv
<1>3. Abstract!Clear({}, v, n)
  <2>1. ASSUME NEW b \in DOMAIN live PROVE v + n <= b \/ b + live[b].size <= v
    <3>1. v \in DOMAIN live' /\ b \in DOMAIN live' /\ v # b
      BY <1>1
    <3>2. v + live'[v].size <= b \/ b + live'[b].size <= v
      BY ONLY <1>2, <3>1, BlocksApart
    <3>3. live'[v].size = n /\ live'[b] = live[b]
      BY <1>1, GivenFacts
    <3> QED BY <3>2, <3>3
  <2> QED BY <2>1 DEF Abstract!Clear
<1>4. live' = Abstract!With({}, v, n)
  BY DEF Abstract!With, Put, Given
<1>5. v \in DOMAIN live' \ DOMAIN live
  BY <1>1
<1> QED BY <1>3, <1>4, <1>5 DEF Abstract!Malloc, AllRequests

\* So does a block that has moved or grown.
LEMMA ReallocImplemented ==
    ASSUME IInv', NEW n \in AllRequests, NEW old \in DOMAIN live, NEW v, v \notin DOMAIN live \ {old},
           live' = Put(Drop(live, {old}), v, Given(n))
    PROVE  Abstract!Realloc
<1> DEFINE f == Drop(live, {old})
<1>1. DOMAIN f = DOMAIN live \ {old} /\ \A c \in DOMAIN live \ {old} : f[c] = live[c]
  BY DropFacts
<1>2. live' = Put(f, v, Given(n))
  OBVIOUS
<1> HIDE DEF f
<1>3. DOMAIN live' = DOMAIN f \cup {v} /\ live'[v] = Given(n) /\ \A c \in DOMAIN f \ {v} : live'[c] = f[c]
  BY ONLY <1>2 DEF Put
<1>4. HeapInv(h', live', foreign')
  BY DEF IInv
<1>5. Abstract!Clear({old}, v, n)
  <2>1. ASSUME NEW b \in DOMAIN live \ {old} PROVE v + n <= b \/ b + live[b].size <= v
    <3>1. v \in DOMAIN live' /\ b \in DOMAIN live' /\ v # b
      BY <1>1, <1>3
    <3>2. v + live'[v].size <= b \/ b + live'[b].size <= v
      BY ONLY <1>4, <3>1, BlocksApart
    <3>3. live'[v].size = n /\ live'[b] = live[b]
      BY <1>1, <1>3, <3>1, GivenFacts
    <3> QED BY <3>2, <3>3
  <2> QED BY <2>1 DEF Abstract!Clear
<1>6. live' = Abstract!With({old}, v, n)
  <2>1. live' = [c \in DOMAIN f \cup {v} |-> IF c = v THEN Given(n) ELSE f[c]]
    BY <1>2 DEF Put
  <2>2. live' = [c \in (DOMAIN live \ {old}) \cup {v} |-> IF c = v THEN Given(n) ELSE live[c]]
    BY <1>1, <2>1
  <2> QED BY <2>2 DEF Abstract!With, Given
<1>7. v \in DOMAIN live'
  BY <1>3
<1> QED BY <1>5, <1>6, <1>7 DEF Abstract!Realloc, AllRequests

LEMMA StepImplemented ==
    ASSUME IInv', BlocksStep
    PROVE  [Abstract!Next]_live
<1>1. CASE UNCHANGED live
  BY <1>1
<1>2. CASE \E p \in DOMAIN live : live' = Drop(live, {p})
  BY <1>2 DEF Abstract!Next, Abstract!Free, Abstract!Without, Drop
<1>3. ASSUME NEW n \in AllRequests, Outcome(n) PROVE [Abstract!Next]_live
  BY <1>3, MallocImplemented, ReallocImplemented DEF Outcome, Abstract!Next
<1> QED BY <1>1, <1>2, <1>3 DEF BlocksStep

\* For all sizes of pages, requests and heaps: the heap is sound at every call of
\* sbrk, and break, accounts and the locals of the call that is under way agree
\* (mALLOc, fREe, rEALLOc, cALLOc, malloc_extend_top, malloc_trim).
THEOREM MallocInvariant == Spec => []IInv
<1>1. IInv /\ [Next]_vars => IInv'
  BY NextIInv
<1> QED BY InitIInv, <1>1, PTL DEF Spec

\* Chunks never overlap each other or what other callers of sbrk were given, and
\* none is lost (unlink, frontlink, split_chunk and the fenceposts of _mallocr.c).
THEOREM MallocTiled == Spec => []Tiled
  BY MallocInvariant, TiledHolds, PTL

\* The tags written by set_head, set_foot and set_inuse are what
\* do_check_free_chunk and do_check_inuse_chunk assert, after every call.
THEOREM MallocBoundaryTags == Spec => []BoundaryTags
  BY MallocInvariant, TagsHold, PTL

\* frontlink and unlink keep large bins sorted, and no search of mALLOc clears
\* the mark of a block of bins that still holds a chunk.
THEOREM MallocBinsSound == Spec => []BinsSound
  BY MallocInvariant, BinsHold, PTL

\* malloc_extend_top is only called when no free chunk fits: the exact fit, the last
\* remainder and the scan of the marked blocks miss none.
THEOREM MallocExtendsWhenNeeded == Spec => []ExtendsWhenNeeded
  BY MallocInvariant, NeedHolds, PTL

\* Whatever other callers of sbrk do, and after every trim, top ends at a page and
\* sbrked_mem accounts for it, as malloc_extend_top asserts.
THEOREM MallocTopAtPageEnd == Spec => []TopAtPageEnd
  BY MallocInvariant, PageEndHolds, PTL

\* mALLOc, rEALLOc, cALLOc and fREe give out blocks that are large enough and do not
\* overlap, and rEALLOc keeps what the old block held.
THEOREM MallocImplementsAllocator == Spec => ImplementsAllocator
<1>1. Init => Abstract!Init
  BY DEF Init, Abstract!Init
<1>2. IInv /\ [Next]_vars => [Abstract!Next]_live
  BY NextIInv, StepImplemented
<1> QED BY MallocInvariant, <1>1, <1>2, PTL DEF Spec, ImplementsAllocator, Abstract!Spec
=============================================================================
