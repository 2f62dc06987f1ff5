----------------------------- MODULE Allocator ------------------------------
(***************************************************************************)
(* What malloc, free and realloc promise: blocks of memory that do not     *)
(* overlap, at least as large as was asked for, and a realloc that keeps   *)
(* what the old block held.  Addresses and sizes are counted in words of   *)
(* SIZE_SZ bytes.                                                          *)
(***************************************************************************)
EXTENDS Integers

CONSTANT Requests   \* the sizes callers ask for

VARIABLE blocks     \* address -> [size |-> words asked for, intact |-> data never lost]

\* n words from a on are in no block outside A.
Clear(A, a, n) ==
    \A b \in DOMAIN blocks \ A : a + n <= b \/ b + blocks[b].size <= a

Without(A) == [b \in DOMAIN blocks \ A |-> blocks[b]]

\* The blocks outside A, and a new one at a.
With(A, a, n) ==
    [b \in (DOMAIN blocks \ A) \cup {a} |-> IF b = a THEN [size |-> n, intact |-> TRUE] ELSE blocks[b]]

Init == blocks = << >>

\* A new block, wherever there is room.
Malloc == \E a \in DOMAIN blocks' \ DOMAIN blocks, n \in Requests :
    /\ Clear({}, a, n)
    /\ blocks' = With({}, a, n)

Free == \E b \in DOMAIN blocks : blocks' = Without({b})

\* The block b becomes the block a, which may be where b was.
Realloc == \E a \in DOMAIN blocks', b \in DOMAIN blocks, n \in Requests :
    /\ Clear({b}, a, n)
    /\ blocks' = With({b}, a, n)

\* A call that fails changes no block.
Next == Malloc \/ Free \/ Realloc

Spec == Init /\ [][Next]_blocks
=============================================================================
