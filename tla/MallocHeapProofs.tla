-------------------------- MODULE MallocHeapProofs --------------------------
(***************************************************************************)
(* What the operations of the allocator on its heap do to the boundary     *)
(* tags and the bins: fREe, the search of mALLOc, the ways of rEALLOc to   *)
(* resize a block in place, and what malloc_extend_top does to top.  A     *)
(* heap is sound (HeapOK) when its heads tile the memory (Tiles), its bins *)
(* hold the free chunks, each in the bin of its size and the large ones    *)
(* sorted (Bins), and no chunk takes in a word of another caller of sbrk   *)
(* (Avoids).  Each lemma on an operation says which sound heap comes out,  *)
(* where top ends, and that the other blocks keep their sizes.             *)
(***************************************************************************)
EXTENDS Malloc, DataInduction, FiniteSetTheorems, TLAPS

-----------------------------------------------------------------------------
(* Tiles: cutting chunks out, joining them, freeing and using them.        *)

TagRec == [prev_size : Nat, size : Nat, prev_inuse : BOOLEAN]

\* The chunks of hd tile the memory below the end of t, the top: F are free, U are
\* held by callers, and the others are fenceposts or what is left in front of one.
Tiles(hd, F, U, t) ==
    /\ hd \in [DOMAIN hd -> TagRec] /\ DOMAIN hd \subseteq Nat
    /\ t \in DOMAIN hd /\ t % 2 = 0 /\ hd[t].size >= MINSIZE /\ t \notin F /\ t \notin U
    /\ F \subseteq DOMAIN hd /\ U \subseteq DOMAIN hd /\ F \cap U = {}
    /\ \A c \in DOMAIN hd : hd[c].size >= 1 /\ c <= t
    /\ \A c, d \in DOMAIN hd : c < d => c + hd[c].size <= d
    /\ \A c \in F \cup U :
          /\ c % 2 = 0 /\ hd[c].size % 2 = 0 /\ hd[c].size >= MINSIZE
          /\ c + hd[c].size \in DOMAIN hd
          /\ hd[c + hd[c].size].prev_inuse <=> c \in U
    /\ \A c \in F :
          /\ hd[c + hd[c].size].prev_size = hd[c].size
          /\ c + hd[c].size \notin F /\ c + hd[c].size # t /\ hd[c].prev_inuse
    /\ \A c \in DOMAIN hd :
          c \in F \cup U \cup {t} \/ (hd[c].size < MINSIZE /\ (c % 2 = 0 => c + hd[c].size \in DOMAIN hd))
    /\ \A c \in DOMAIN hd :
          ~hd[c].prev_inuse => c - hd[c].prev_size \in F /\ hd[c - hd[c].prev_size].size = hd[c].prev_size

LEMMA EvenFacts ==
    ASSUME NEW a \in Int, NEW b \in Int, a % 2 = 0
    PROVE  (a + b) % 2 = b % 2 /\ (b - a) % 2 = b % 2
  OBVIOUS

\* hd2 is hd with the chunks from lo up to hi made anew: one in use from lo up
\* to mid, if there is room, and one from mid up to hi, which is free (F), in
\* use (U) or the top (T).
Recut(hd, F, U, t, lo, mid, hi, role, hd2, F2, U2, t2) ==
    /\ lo \in DOMAIN hd /\ mid \in Nat /\ hi \in Nat /\ role \in {"F", "U", "T"}
    /\ lo <= mid /\ hi - mid >= MINSIZE /\ (lo < mid => mid - lo >= MINSIZE)
    /\ lo % 2 = 0 /\ mid % 2 = 0 /\ hi % 2 = 0
    /\ hd2 \in [DOMAIN hd2 -> TagRec]
    /\ DOMAIN hd2 = {c \in DOMAIN hd : c < lo \/ hi <= c} \cup {lo, mid}
    /\ \A c \in DOMAIN hd2 : c \notin {lo, mid, hi} => hd2[c] = hd[c]
    /\ hd2[mid].size = hi - mid
    /\ lo < mid => hd2[lo].size = mid - lo /\ hd2[mid].prev_inuse
    /\ hd2[lo].prev_inuse <=> hd[lo].prev_inuse
    /\ ~hd[lo].prev_inuse => hd2[lo].prev_size = hd[lo].prev_size
    /\ role = "T" => t >= lo /\ \A c \in DOMAIN hd : c < hi
    /\ role # "T" => /\ hi \in DOMAIN hd /\ ~(lo <= t /\ t < hi)
                     /\ hd2[hi].size = hd[hi].size
                     /\ hd2[hi].prev_inuse <=> role = "U"
    /\ role = "F" => hd2[hi].prev_size = hi - mid /\ hi \notin F /\ hi # t
    /\ role # "U" /\ lo = mid => hd[lo].prev_inuse
    /\ F2 = {c \in F : c < lo \/ hi <= c} \cup (IF role = "F" THEN {mid} ELSE {})
    /\ U2 = {c \in U : c < lo \/ hi <= c} \cup (IF lo < mid THEN {lo} ELSE {}) \cup (IF role = "U" THEN {mid} ELSE {})
    /\ t2 = IF role = "T" THEN mid ELSE t

\* The main lemma on tiles: the chunks between lo and hi are cut anew, at
\* mid or not at all, and the two parts are given their roles.
LEMMA Rerun ==
    ASSUME NEW hd, NEW F, NEW U, NEW t, Tiles(hd, F, U, t),
           NEW lo, NEW mid, NEW hi, NEW role, NEW hd2, NEW F2, NEW U2, NEW t2,
           Recut(hd, F, U, t, lo, mid, hi, role, hd2, F2, U2, t2)
    PROVE  Tiles(hd2, F2, U2, t2)
<1>0. /\ lo \in DOMAIN hd /\ mid \in Nat /\ hi \in Nat /\ role \in {"F", "U", "T"}
      /\ lo <= mid /\ hi - mid >= MINSIZE /\ (lo < mid => mid - lo >= MINSIZE)
      /\ lo % 2 = 0 /\ mid % 2 = 0 /\ hi % 2 = 0
      /\ hd2 \in [DOMAIN hd2 -> TagRec]
      /\ DOMAIN hd2 = {c \in DOMAIN hd : c < lo \/ hi <= c} \cup {lo, mid}
      /\ \A c \in DOMAIN hd2 : c \notin {lo, mid, hi} => hd2[c] = hd[c]
      /\ hd2[mid].size = hi - mid
      /\ lo < mid => hd2[lo].size = mid - lo /\ hd2[mid].prev_inuse
      /\ hd2[lo].prev_inuse <=> hd[lo].prev_inuse
      /\ ~hd[lo].prev_inuse => hd2[lo].prev_size = hd[lo].prev_size
      /\ role = "T" => t >= lo /\ \A c \in DOMAIN hd : c < hi
      /\ role # "T" => /\ hi \in DOMAIN hd /\ ~(lo <= t /\ t < hi)
                       /\ hd2[hi].size = hd[hi].size
                       /\ hd2[hi].prev_inuse <=> role = "U"
      /\ role = "F" => hd2[hi].prev_size = hi - mid /\ hi \notin F /\ hi # t
      /\ role # "U" /\ lo = mid => hd[lo].prev_inuse
      /\ F2 = {c \in F : c < lo \/ hi <= c} \cup (IF role = "F" THEN {mid} ELSE {})
      /\ U2 = {c \in U : c < lo \/ hi <= c} \cup (IF lo < mid THEN {lo} ELSE {}) \cup (IF role = "U" THEN {mid} ELSE {})
      /\ t2 = IF role = "T" THEN mid ELSE t
  BY DEF Recut
<1> USE <1>0
<1> DEFINE D == DOMAIN hd
           D2 == DOMAIN hd2
<1> USE DEF MINSIZE
<1>1. /\ D \subseteq Nat /\ t \in D /\ F \subseteq D /\ U \subseteq D /\ F \cap U = {} /\ t \notin F /\ t \notin U
      /\ \A c \in D : hd[c] \in TagRec /\ hd[c].size \in Nat /\ hd[c].prev_size \in Nat /\ hd[c].size >= 1 /\ c <= t
      /\ \A c, d \in D : c < d => c + hd[c].size <= d
  BY DEF Tiles, TagRec
<1>2. \A c \in F \cup U :
          /\ c % 2 = 0 /\ hd[c].size % 2 = 0 /\ hd[c].size >= 4
          /\ c + hd[c].size \in DOMAIN hd
          /\ hd[c + hd[c].size].prev_inuse <=> c \in U
  BY DEF Tiles
<1>3. \A c \in F :
          /\ hd[c + hd[c].size].prev_size = hd[c].size
          /\ c + hd[c].size \notin F /\ c + hd[c].size # t /\ hd[c].prev_inuse
  BY DEF Tiles
<1>4. \A c \in DOMAIN hd :
          c \in F \cup U \cup {t} \/ (hd[c].size < 4 /\ (c % 2 = 0 => c + hd[c].size \in DOMAIN hd))
  BY DEF Tiles
<1>5. \A c \in DOMAIN hd :
          ~hd[c].prev_inuse => c - hd[c].prev_size \in F /\ hd[c - hd[c].prev_size].size = hd[c].prev_size
  BY DEF Tiles
<1>6. \A c \in D2 : hd2[c] \in TagRec /\ hd2[c].size \in Nat /\ hd2[c].prev_size \in Nat
  BY DEF TagRec
<1>7. D2 \subseteq Nat /\ lo \in D2 /\ mid \in D2 /\ t2 \in D2
  BY <1>1
<1>8. \A c \in D2 : c < lo => c \in D /\ hd2[c] = hd[c] /\ c + hd2[c].size <= lo
  BY <1>1
<1>9. \A c \in D2 : hi <= c => role # "T" /\ c \in D /\ hd2[c].size = hd[c].size /\ (c # hi => hd2[c] = hd[c])
  BY <1>1
<1>10. \A c \in D2 : c < lo \/ c = lo \/ c = mid \/ hi <= c
  OBVIOUS
\* What follows a chunk below the run, or at its end, is still there.
<1>11. \A c \in D : c < lo /\ c + hd[c].size \in D => c + hd[c].size \in D2
  BY <1>1
<1>12. \A c \in D : hi <= c /\ c + hd[c].size \in D => c + hd[c].size \in D2 /\ hi < c + hd[c].size
  BY <1>1
<1>13. \A c \in D2 : hd2[c].size >= 1 /\ c <= t2
  BY <1>1, <1>6, <1>7, <1>8, <1>9, <1>10
<1>14. \A c, d \in D2 : c < d => c + hd2[c].size <= d
  <2> SUFFICES ASSUME NEW c \in D2, NEW d \in D2, c < d PROVE c + hd2[c].size <= d
    OBVIOUS
  <2>1. CASE c < lo
    BY <1>1, <1>7, <1>8, <1>10, <2>1
  <2>2. CASE c = lo \/ c = mid
    BY <1>1, <1>7, <1>8, <1>10, <2>2
  <2>3. CASE hi <= c
    BY <1>1, <1>7, <1>9, <2>3
  <2> QED BY <1>10, <2>1, <2>2, <2>3
<1>15. F2 \subseteq D2 /\ U2 \subseteq D2 /\ F2 \cap U2 = {} /\ t2 \notin F2 /\ t2 \notin U2
  BY <1>1, <1>7
<1>16. t2 % 2 = 0 /\ hd2[t2].size >= 4
  <2>1. t % 2 = 0 /\ hd[t].size >= 4
    BY DEF Tiles
  <2> QED BY <1>1, <1>7, <1>8, <1>9, <2>1
<1>17. ASSUME NEW c \in F2 \cup U2
       PROVE  /\ c % 2 = 0 /\ hd2[c].size % 2 = 0 /\ hd2[c].size >= 4
              /\ c + hd2[c].size \in D2
              /\ hd2[c + hd2[c].size].prev_inuse <=> c \in U2
  <2>1. CASE c < lo
    <3>1. c \in D2 /\ c \in F \cup U /\ (c \in U2 <=> c \in U)
      BY <1>15, <1>17, <1>7, <2>1
    <3>2. hd2[c] = hd[c] /\ c + hd[c].size <= lo /\ c + hd[c].size \in D2
      BY <1>2, <1>8, <1>11, <3>1, <2>1
    <3>3. hd2[c + hd[c].size].prev_inuse <=> hd[c + hd[c].size].prev_inuse
      BY <1>1, <1>7, <1>8, <3>2
    <3> QED BY <1>2, <3>1, <3>2, <3>3
  <2>2. CASE c = lo \/ c = mid
    <3>1. CASE c = mid
      <4>1. mid + hd2[mid].size = hi /\ role # "T" /\ hi \in D2
        BY <1>1, <1>7, <1>17, <3>1
      <4>2. mid \in U2 <=> role = "U"
        BY <1>1, <1>7, <1>17, <3>1
      <4>3. (hi - mid) % 2 = 0
        BY EvenFacts
      <4>4. hd2[hi].prev_inuse <=> role = "U"
        BY <4>1
      <4>5. hd2[mid].size % 2 = 0 /\ hd2[mid].size >= 4
        BY <4>3
      <4> QED BY <3>1, <4>1, <4>2, <4>4, <4>5
    <3>2. CASE c = lo /\ lo < mid
      <4>1. lo + hd2[lo].size = mid /\ lo \in U2
        BY <1>1, <1>7, <3>2
      <4>3. (mid - lo) % 2 = 0
        BY <1>1, EvenFacts
      <4> QED BY <1>7, <3>2, <4>1, <4>3
    <3> QED BY <1>1, <2>2, <3>1, <3>2
  <2>3. CASE hi <= c
    <3>1. c \in D2 /\ c \in F \cup U /\ (c \in U2 <=> c \in U) /\ role # "T"
      BY <1>1, <1>9, <1>15, <1>17, <1>7, <2>3
    <3>2. hd2[c].size = hd[c].size /\ hi < c + hd[c].size /\ c + hd[c].size \in D2
      BY <1>2, <1>9, <1>12, <3>1, <2>3
    <3>3. hd2[c + hd[c].size] = hd[c + hd[c].size]
      BY <1>1, <1>7, <1>9, <3>2
    <3> QED BY <1>2, <3>1, <3>2, <3>3
  <2> QED BY <1>10, <1>15, <1>17, <2>1, <2>2, <2>3
<1>18. ASSUME NEW c \in F2
       PROVE  /\ hd2[c + hd2[c].size].prev_size = hd2[c].size
              /\ c + hd2[c].size \notin F2 /\ c + hd2[c].size # t2 /\ hd2[c].prev_inuse
  <2>1. CASE c < lo
    <3>1. c \in D2 /\ c \in F /\ hd2[c] = hd[c] /\ c + hd[c].size <= lo /\ c + hd[c].size \in D2
      BY <1>1, <1>2, <1>7, <1>8, <1>11, <1>15, <1>18, <2>1
    <3>2. ~hd[c + hd[c].size].prev_inuse
      BY <1>1, <1>2, <3>1
    <3>3. hd2[c + hd[c].size].prev_size = hd[c + hd[c].size].prev_size
      <4> DEFINE n == c + hd[c].size
      <4>1. CASE n = lo
        BY <3>2, <4>1
      <4>2. CASE n < lo
        BY <1>8, <3>1, <4>2
      <4> QED BY <1>1, <1>7, <3>1, <4>1, <4>2
    <3>4. c + hd[c].size \notin F2 /\ c + hd[c].size # t2
      BY <1>1, <1>3, <3>1, <3>2
    <3> QED BY <1>3, <3>1, <3>3, <3>4
  <2>2. CASE c = mid
    <3>1. role = "F" /\ mid + hd2[mid].size = hi
      BY <1>1, <2>2
    <3>2. hd2[mid].prev_inuse
      BY <1>1, <3>1
    <3>3. hi \notin F2 /\ hi # t2
      BY <3>1
    <3> QED BY <2>2, <3>1, <3>2, <3>3
  <2>3. CASE hi <= c
    <3>1. c \in D2 /\ c \in F /\ role # "T" /\ hi < c + hd[c].size /\ c + hd[c].size \in D2 /\ hd2[c].size = hd[c].size
      BY <1>1, <1>2, <1>9, <1>12, <1>15, <1>7, <2>3
    <3>2. hd2[c + hd[c].size] = hd[c + hd[c].size]
      BY <1>1, <1>7, <1>9, <3>1
    <3>3. hd2[c].prev_inuse
      <4>1. CASE c = hi
        BY <1>3, <3>1, <4>1
      <4>2. CASE c # hi
        BY <1>3, <1>9, <2>3, <3>1, <4>2
      <4> QED BY <4>1, <4>2
    <3>4. c + hd[c].size \notin F2 /\ c + hd[c].size # t2
      BY <1>1, <1>3, <3>1
    <3> QED BY <1>3, <3>1, <3>2, <3>3, <3>4
  <2>4. c < lo \/ c = mid \/ hi <= c
    BY <1>18, <1>10
  <2> QED BY <2>1, <2>2, <2>3, <2>4
<1>19. ASSUME NEW c \in D2
       PROVE  c \in F2 \cup U2 \cup {t2} \/ (hd2[c].size < 4 /\ (c % 2 = 0 => c + hd2[c].size \in D2))
  <2>1. CASE c < lo
    BY <1>1, <1>4, <1>8, <1>11, <2>1
  <2>2. CASE c = lo \/ c = mid
    BY <1>1, <2>2
  <2>3. CASE hi <= c
    BY <1>1, <1>4, <1>9, <1>12, <2>3
  <2> QED BY <1>10, <2>1, <2>2, <2>3
<1>20. ASSUME NEW c \in D2, ~hd2[c].prev_inuse
       PROVE  c - hd2[c].prev_size \in F2 /\ hd2[c - hd2[c].prev_size].size = hd2[c].prev_size
  <2>1. CASE c <= lo
    <3>1. c \in D /\ ~hd[c].prev_inuse /\ hd2[c].prev_size = hd[c].prev_size
      BY <1>1, <1>7, <1>8, <1>20, <2>1
    <3> DEFINE f == c - hd[c].prev_size
    <3>2. f \in F /\ f \in D /\ hd[f].size = hd[c].prev_size /\ f < lo
      BY <1>1, <1>5, <2>1, <3>1
    <3>3. f \in F2 /\ f \in D2
      BY <1>15, <3>2
    <3>4. hd2[f] = hd[f]
      BY <1>8, <3>2, <3>3
    <3> QED BY <3>1, <3>2, <3>3, <3>4
  <2>2. CASE c = mid /\ lo < mid
    BY <1>20, <2>2
  <2>3. CASE hi <= c
    <3>1. c \in D /\ role # "T"
      BY <1>9, <2>3
    <3>2. CASE c = hi
      BY <1>1, <1>20, <3>1, <3>2
    <3>3. CASE c # hi
      <4>1. hd2[c] = hd[c] /\ ~hd[c].prev_inuse
        BY <1>9, <1>20, <2>3, <3>3
      <4> DEFINE f == c - hd[c].prev_size
      <4>2. f \in F /\ f \in D /\ hd[f].size = hd[c].prev_size /\ f + hd[f].size = c
        BY <1>1, <1>5, <3>1, <4>1
      <4>3. hi <= f
        BY <1>1, <2>3, <3>1, <3>3, <4>2
      <4>4. f \in F2 /\ f \in D2
        BY <1>15, <4>2, <4>3
      <4> QED BY <1>9, <4>1, <4>2, <4>3, <4>4
    <3> QED BY <3>2, <3>3
  <2> QED BY <1>1, <1>7, <1>10, <2>1, <2>2, <2>3
<1> QED BY <1>7, <1>13, <1>14, <1>15, <1>16, <1>17, <1>18, <1>19, <1>20 DEF Tiles

\* The chunk before top is not free.
LEMMA TopPrevInuse ==
    ASSUME NEW hd, NEW F, NEW U, NEW t, Tiles(hd, F, U, t)
    PROVE  hd[t].prev_inuse
<1> SUFFICES ASSUME ~hd[t].prev_inuse PROVE FALSE
  OBVIOUS
<1> DEFINE f == t - hd[t].prev_size
<1>1. f \in F /\ hd[f].size = hd[t].prev_size /\ t \in Nat /\ hd[t].prev_size \in Nat
  BY DEF Tiles, TagRec
<1>2. f + hd[f].size = t
  BY <1>1
<1> QED BY <1>1, <1>2 DEF Tiles

\* The old top t ends in two fenceposts, and a new top begins at nt.
LEMMA Fenced ==
    ASSUME NEW hd, NEW F, NEW U, NEW t, Tiles(hd, F, U, t),
           NEW s \in Nat, hd[t].size = s + 4, s % 2 = 0,
           NEW nt \in Nat, nt % 2 = 0, t + hd[t].size <= nt,
           NEW hd2, NEW U2, hd2 \in [DOMAIN hd2 -> TagRec],
           DOMAIN hd2 = DOMAIN hd \cup {t + s, t + s + 1, nt},
           \A c \in DOMAIN hd \ {t} : hd2[c] = hd[c],
           hd2[t + s].size = 1, hd2[t + s].prev_inuse,
           hd2[t + s + 1].size = 1, hd2[t + s + 1].prev_inuse,
           hd2[nt].size >= MINSIZE, hd2[nt].prev_inuse,
           s > 0 => hd2[t].size = s /\ hd2[t].prev_inuse,
           U2 = IF s >= MINSIZE THEN U \cup {t} ELSE U
    PROVE  Tiles(hd2, F, U2, nt)
<1> DEFINE D == DOMAIN hd
           D2 == DOMAIN hd2
<1> USE DEF MINSIZE
<1>1. /\ D \subseteq Nat /\ t \in D /\ F \subseteq D /\ U \subseteq D /\ F \cap U = {} /\ t \notin F /\ t \notin U
      /\ t % 2 = 0
      /\ \A c \in D : hd[c] \in TagRec /\ hd[c].size \in Nat /\ hd[c].prev_size \in Nat /\ hd[c].size >= 1 /\ c <= t
      /\ \A c, d \in D : c < d => c + hd[c].size <= d
  BY DEF Tiles, TagRec
<1>2. \A c \in F \cup U :
          /\ c % 2 = 0 /\ hd[c].size % 2 = 0 /\ hd[c].size >= 4
          /\ c + hd[c].size \in DOMAIN hd
          /\ hd[c + hd[c].size].prev_inuse <=> c \in U
  BY DEF Tiles
<1>3. \A c \in F :
          /\ hd[c + hd[c].size].prev_size = hd[c].size
          /\ c + hd[c].size \notin F /\ c + hd[c].size # t /\ hd[c].prev_inuse
  BY DEF Tiles
<1>4. \A c \in DOMAIN hd :
          c \in F \cup U \cup {t} \/ (hd[c].size < 4 /\ (c % 2 = 0 => c + hd[c].size \in DOMAIN hd))
  BY DEF Tiles
<1>5. \A c \in DOMAIN hd :
          ~hd[c].prev_inuse => c - hd[c].prev_size \in F /\ hd[c - hd[c].prev_size].size = hd[c].prev_size
  BY DEF Tiles
<1>6. \A c \in D2 : hd2[c] \in TagRec /\ hd2[c].size \in Nat /\ hd2[c].prev_size \in Nat
  BY DEF TagRec
<1>7. /\ D2 \subseteq Nat /\ D \subseteq D2 /\ nt \in D2 /\ t \in D2 /\ t + s \in D2 /\ t + s + 1 \in D2
      /\ \A c \in D2 : c < t \/ c \in {t, t + s, t + s + 1, nt}
  BY <1>1
<1>8. \A c \in D2 : c < t => c \in D /\ hd2[c] = hd[c] /\ c + hd2[c].size <= t
  BY <1>1
<1>a. hd2[t].prev_inuse /\ hd[t].prev_inuse
  <2>1. CASE s = 0
    BY <1>1, <2>1, TopPrevInuse
  <2>2. CASE s > 0
    BY <2>2, TopPrevInuse
  <2> QED BY <2>1, <2>2
<1>9. ASSUME NEW c \in D PROVE hd2[c].prev_inuse <=> hd[c].prev_inuse
  <2>1. CASE c = t
    BY <1>a, <2>1
  <2>2. CASE c # t
    BY <2>2
  <2> QED BY <2>1, <2>2
<1>10. hd2[t].size >= 1 /\ t + hd2[t].size <= t + s + 1 /\ (s > 0 => t + hd2[t].size = t + s)
  <2>1. CASE s = 0
    <3>1. t + s = t
      BY <1>1, <2>1
    <3> QED BY <1>1, <2>1, <3>1
  <2>2. CASE s > 0
    BY <1>1, <2>2
  <2> QED BY <2>1, <2>2
<1>13. ASSUME NEW c \in D2 PROVE hd2[c].size >= 1 /\ c <= nt
  <2>1. CASE c < t
    BY <1>1, <1>8, <2>1
  <2>2. CASE c = t
    BY <1>1, <1>10, <2>2
  <2>3. CASE c \in {t + s, t + s + 1}
    BY <1>1, <2>3
  <2>4. CASE c = nt
    BY <1>6, <1>7, <2>4
  <2> QED BY <1>7, <2>1, <2>2, <2>3, <2>4
<1>14. \A c, d \in D2 : c < d => c + hd2[c].size <= d
  <2> SUFFICES ASSUME NEW c \in D2, NEW d \in D2, c < d PROVE c + hd2[c].size <= d
    OBVIOUS
  <2>1. CASE c < t
    BY <1>1, <1>7, <1>8, <2>1
  <2>2. CASE c = t
    <3>1. d \in {t + s, t + s + 1, nt}
      BY <1>1, <1>7, <2>2
    <3>2. CASE s = 0
      BY <1>1, <1>10, <2>2, <3>1, <3>2
    <3>3. CASE s > 0
      BY <1>1, <1>10, <2>2, <3>1, <3>3
    <3> QED BY <3>2, <3>3
  <2>3. CASE c = t + s \/ c = t + s + 1
    BY <1>1, <1>7, <2>3
  <2> QED BY <1>1, <1>7, <2>1, <2>2, <2>3
<1>15. F \subseteq D2 /\ U2 \subseteq D2 /\ F \cap U2 = {} /\ nt \notin F /\ nt \notin U2
  BY <1>1, <1>7
<1>17. ASSUME NEW c \in F \cup U2
       PROVE  /\ c % 2 = 0 /\ hd2[c].size % 2 = 0 /\ hd2[c].size >= 4
              /\ c + hd2[c].size \in D2
              /\ hd2[c + hd2[c].size].prev_inuse <=> c \in U2
  <2>1. CASE c = t
    <3>1. s >= 4 /\ c \in U2
      BY <1>1, <2>1
    <3> QED BY <1>1, <1>7, <2>1, <3>1
  <2>2. CASE c # t
    <3>1. c \in F \cup U /\ c \in D /\ c < t /\ (c \in U2 <=> c \in U)
      BY <1>1, <2>2
    <3>2. hd2[c] = hd[c] /\ c + hd[c].size \in D
      BY <1>2, <1>7, <1>8, <3>1
    <3> QED BY <1>2, <1>7, <1>9, <3>1, <3>2
  <2> QED BY <2>1, <2>2
<1>18. ASSUME NEW c \in F
       PROVE  /\ hd2[c + hd2[c].size].prev_size = hd2[c].size
              /\ c + hd2[c].size \notin F /\ c + hd2[c].size # nt /\ hd2[c].prev_inuse
  <2>1. c \in D /\ c < t /\ hd2[c] = hd[c] /\ c + hd[c].size \in D /\ c + hd[c].size # t
    BY <1>1, <1>2, <1>3, <1>7, <1>8
  <2>2. c + hd[c].size < t
    BY <1>1, <2>1
  <2> QED BY <1>1, <1>3, <1>7, <1>8, <2>1, <2>2
<1>19. ASSUME NEW c \in D2
       PROVE  c \in F \cup U2 \cup {nt} \/ (hd2[c].size < 4 /\ (c % 2 = 0 => c + hd2[c].size \in D2))
  <2>1. CASE c < t
    BY <1>1, <1>4, <1>7, <1>8, <2>1
  <2>2. CASE c = t /\ s > 0
    BY <1>1, <1>7, <1>10, <2>2
  <2>3. CASE c = t + s
    BY <1>1, <1>7, <2>3
  <2>4. CASE c = t + s + 1
    <3>1. c % 2 = 1
      BY <1>1, <2>4
    <3> QED BY <2>4, <3>1
  <2>5. c = t => s > 0 \/ c = t + s
    BY <1>1
  <2> QED BY <1>7, <2>1, <2>2, <2>3, <2>4, <2>5
<1>20. ASSUME NEW c \in D2, ~hd2[c].prev_inuse
       PROVE  c - hd2[c].prev_size \in F /\ hd2[c - hd2[c].prev_size].size = hd2[c].prev_size
  <2>1. c < t /\ c \in D /\ hd2[c] = hd[c]
    BY <1>7, <1>8, <1>a, <1>20
  <2> DEFINE f == c - hd[c].prev_size
  <2>2. f \in F /\ f \in D /\ hd[f].size = hd[c].prev_size /\ f < t
    BY <1>1, <1>5, <1>20, <2>1
  <2> QED BY <1>7, <1>8, <2>1, <2>2
<1> QED BY <1>7, <1>13, <1>14, <1>15, <1>17, <1>18, <1>19, <1>20 DEF Tiles

-----------------------------------------------------------------------------
(* Bins: taking a chunk out of one and putting it into one.                *)

\* The chunks in bins.
Elems(B) == UNION {{B[i][k] : k \in DOMAIN B[i]} : i \in DOMAIN B}

\* B are sound bins, and blocks are the blocks of bins that are marked.
Bins(B, hd, blocks) ==
    /\ B \in [DOMAIN B -> Seq(Nat)] /\ DOMAIN B \subseteq Nat
    /\ \A i \in DOMAIN B : B[i] # << >>
    /\ \A i, j \in DOMAIN B : \A k \in DOMAIN B[i], l \in DOMAIN B[j] : B[i][k] = B[j][l] => i = j /\ k = l
    /\ \A i \in DOMAIN B : \A k \in DOMAIN B[i] : i \in {LAST_REMAINDER, bin_index(hd[B[i][k]].size)}
    /\ \A i \in DOMAIN B : \A k, l \in DOMAIN B[i] : k < l => hd[B[i][k]].size >= hd[B[i][l]].size
    /\ \A i \in DOMAIN B : i = LAST_REMAINDER \/ Block(i) \in blocks
    /\ LAST_REMAINDER \in DOMAIN B => Len(B[LAST_REMAINDER]) = 1

LEMMA ElemsFacts ==
    ASSUME NEW B, NEW x
    PROVE  x \in Elems(B) <=> \E i \in DOMAIN B : \E k \in DOMAIN B[i] : B[i][k] = x
  BY DEF Elems

LEMMA InElems ==
    ASSUME NEW B, NEW i \in DOMAIN B, NEW k \in DOMAIN B[i]
    PROVE  B[i][k] \in Elems(B)
  BY DEF Elems

\* Sequences: joined, with an element put in, with one taken out.
LEMMA SeqFacts ==
    ASSUME NEW s \in Seq(Nat)
    PROVE  /\ Len(s) \in Nat /\ DOMAIN s = 1 .. Len(s) /\ DOMAIN s \subseteq Nat
           /\ s = << >> <=> Len(s) = 0
           /\ \A k \in DOMAIN s : s[k] \in Nat
  OBVIOUS

LEMMA Joined ==
    ASSUME NEW a \in Seq(Nat), NEW b \in Seq(Nat)
    PROVE  /\ a \o b \in Seq(Nat) /\ Len(a \o b) = Len(a) + Len(b)
           /\ \A j \in 1 .. Len(a) : (a \o b)[j] = a[j]
           /\ \A j \in Len(a) + 1 .. Len(a) + Len(b) : (a \o b)[j] = b[j - Len(a)]
  OBVIOUS

LEMMA InsertAt ==
    ASSUME NEW s \in Seq(Nat), NEW k \in 0 .. Len(s), NEW p \in Nat
    PROVE  LET r == SubSeq(s, 1, k) \o <<p>> \o SubSeq(s, k + 1, Len(s))
           IN  /\ r \in Seq(Nat) /\ Len(r) = Len(s) + 1 /\ r[k + 1] = p
               /\ \A j \in 1 .. k : r[j] = s[j]
               /\ \A j \in k + 2 .. Len(s) + 1 : r[j] = s[j - 1]
<1> DEFINE a == SubSeq(s, 1, k)
           b == SubSeq(s, k + 1, Len(s))
           c == a \o <<p>>
<1>1. a \in Seq(Nat) /\ Len(a) = k /\ \A j \in 1 .. k : a[j] = s[j]
  OBVIOUS
<1>2. b \in Seq(Nat) /\ Len(b) = Len(s) - k /\ \A j \in 1 .. Len(s) - k : b[j] = s[k + j]
  OBVIOUS
<1> HIDE DEF a, b
<1>3. c \in Seq(Nat) /\ Len(c) = k + 1 /\ c[k + 1] = p /\ \A j \in 1 .. k : c[j] = a[j]
  BY <1>1
<1> HIDE DEF c
<1> DEFINE r == c \o b
<1>a. /\ r \in Seq(Nat) /\ Len(r) = Len(c) + Len(b)
      /\ \A j \in 1 .. Len(c) : r[j] = c[j]
      /\ \A j \in Len(c) + 1 .. Len(c) + Len(b) : r[j] = b[j - Len(c)]
  BY <1>2, <1>3, Joined, Zenon
<1> HIDE DEF r
<1>4. r \in Seq(Nat) /\ Len(r) = Len(s) + 1 /\ \A j \in 1 .. k + 1 : r[j] = c[j]
  BY <1>2, <1>3, <1>a
<1>5. ASSUME NEW j \in k + 2 .. Len(s) + 1 PROVE r[j] = s[j - 1]
  <2>1. r[j] = b[j - (k + 1)]
    BY <1>2, <1>3, <1>a
  <2>2. j - (k + 1) \in 1 .. Len(s) - k /\ k + (j - (k + 1)) = j - 1
    OBVIOUS
  <2> QED BY <1>2, <2>1, <2>2
<1>6. r[k + 1] = p /\ \A j \in 1 .. k : r[j] = s[j]
  BY <1>1, <1>3, <1>4, SMTT(30)
<1> QED BY <1>4, <1>5, <1>6 DEF a, b, c, r

LEMMA RemoveAtFacts ==
    ASSUME NEW s \in Seq(Nat), NEW k \in 1 .. Len(s)
    PROVE  LET r == SubSeq(s, 1, k - 1) \o SubSeq(s, k + 1, Len(s))
           IN  /\ r \in Seq(Nat) /\ Len(r) = Len(s) - 1
               /\ \A j \in 1 .. k - 1 : r[j] = s[j]
               /\ \A j \in k .. Len(s) - 1 : r[j] = s[j + 1]
<1> DEFINE a == SubSeq(s, 1, k - 1)
           b == SubSeq(s, k + 1, Len(s))
<1>1. a \in Seq(Nat) /\ Len(a) = k - 1 /\ \A j \in 1 .. k - 1 : a[j] = s[j]
  OBVIOUS
<1>2. b \in Seq(Nat) /\ Len(b) = Len(s) - k /\ \A j \in 1 .. Len(s) - k : b[j] = s[k + j]
  OBVIOUS
<1> HIDE DEF a, b
<1> DEFINE r == a \o b
<1>a. /\ r \in Seq(Nat) /\ Len(r) = Len(a) + Len(b)
      /\ \A j \in 1 .. Len(a) : r[j] = a[j]
      /\ \A j \in Len(a) + 1 .. Len(a) + Len(b) : r[j] = b[j - Len(a)]
  BY <1>1, <1>2, Joined, Zenon
<1> HIDE DEF r
<1>4. r \in Seq(Nat) /\ Len(r) = Len(s) - 1 /\ \A j \in 1 .. k - 1 : r[j] = a[j]
  BY <1>1, <1>2, <1>a
<1>5. ASSUME NEW j \in k .. Len(s) - 1 PROVE r[j] = s[j + 1]
  <2>1. r[j] = b[j - (k - 1)]
    BY <1>1, <1>2, <1>a
  <2>2. j - (k - 1) \in 1 .. Len(s) - k /\ k + (j - (k - 1)) = j + 1
    OBVIOUS
  <2> QED BY <1>2, <2>1, <2>2
<1> QED BY <1>1, <1>4, <1>5 DEF a, b, r

\* A set of positions that holds all those before each of its own.
LEMMA Prefix ==
    ASSUME NEW n \in Nat, NEW T, T \subseteq 1 .. n,
           \A i, j \in 1 .. n : i < j /\ j \in T => i \in T
    PROVE  Cardinality(T) \in 0 .. n /\ T = 1 .. Cardinality(T)
<1> DEFINE C == (1 .. n + 1) \ T
<1>1. C \subseteq Nat /\ n + 1 \in C
  OBVIOUS
<1>2. PICK m \in C : \A k \in C : m <= k
  BY <1>1, LeastElement
<1>3. T = 1 .. m - 1
  <2>1. ASSUME NEW i \in T PROVE i \in 1 .. m - 1
    <3>1. i \in 1 .. n
      OBVIOUS
    <3>2. CASE i >= m
      <4>1. m \in 1 .. n /\ m # i
        BY <1>2, <3>1, <3>2, <2>1
      <4> QED BY <1>2, <2>1, <3>1, <3>2, <4>1
    <3> QED BY <1>2, <3>1, <3>2
  <2>2. ASSUME NEW i \in 1 .. m - 1 PROVE i \in T
    BY <1>2
  <2> QED BY <2>1, <2>2
<1>4. Cardinality(1 .. m - 1) = m - 1
  <2>1. m \in Int /\ m >= 1
    BY <1>2
  <2>2. Cardinality(1 .. m - 1) = IF 1 > m - 1 THEN 0 ELSE (m - 1) - 1 + 1
    BY <2>1, FS_Interval
  <2> QED BY <2>1, <2>2
<1>5. m \in 1 .. n + 1
  BY <1>2
<1> QED BY <1>3, <1>4, <1>5

\* A chunk stands at one place of one bin.
LEMMA BinsUnique ==
    ASSUME NEW B, NEW hd, NEW blk, Bins(B, hd, blk),
           NEW i \in DOMAIN B, NEW j \in DOMAIN B, NEW k \in DOMAIN B[i], NEW l \in DOMAIN B[j], B[i][k] = B[j][l]
    PROVE  i = j /\ k = l
  BY DEF Bins

\* Bins that keep some of the chunks of others, in their order.
LEMMA SubBins ==
    ASSUME NEW B, NEW hd, NEW blk, Bins(B, hd, blk),
           NEW B2, B2 \in [DOMAIN B2 -> Seq(Nat)], DOMAIN B2 \subseteq DOMAIN B,
           \A i \in DOMAIN B2 : B2[i] # << >>,
           NEW o, \A i \in DOMAIN B2 : \A k \in DOMAIN B2[i] :
                     /\ o[i][k] \in DOMAIN B[i] /\ B2[i][k] = B[i][o[i][k]]
                     /\ \A l \in DOMAIN B2[i] : k < l => o[i][k] < o[i][l],
           LAST_REMAINDER \in DOMAIN B2 => Len(B2[LAST_REMAINDER]) = 1
    PROVE  Bins(B2, hd, blk)
<1>1. B \in [DOMAIN B -> Seq(Nat)] /\ DOMAIN B \subseteq Nat
  BY DEF Bins
<1>2. \A i \in DOMAIN B2 : B[i] \in Seq(Nat) /\ B2[i] \in Seq(Nat) /\ DOMAIN B[i] \subseteq Nat /\ DOMAIN B2[i] \subseteq Nat
  <2> SUFFICES ASSUME NEW i \in DOMAIN B2
               PROVE  B[i] \in Seq(Nat) /\ B2[i] \in Seq(Nat) /\ DOMAIN B[i] \subseteq Nat /\ DOMAIN B2[i] \subseteq Nat
    OBVIOUS
  <2>1. B[i] \in Seq(Nat) /\ B2[i] \in Seq(Nat)
    BY <1>1
  <2> QED BY <2>1, SeqFacts
<1>3. ASSUME NEW i \in DOMAIN B2, NEW j \in DOMAIN B2, NEW k \in DOMAIN B2[i], NEW l \in DOMAIN B2[j], B2[i][k] = B2[j][l]
      PROVE  i = j /\ k = l
  <2>1. B[i][o[i][k]] = B[j][o[j][l]]
    BY <1>3
  <2>2. i = j /\ o[i][k] = o[j][l]
    <3>1. o[i][k] \in DOMAIN B[i] /\ o[j][l] \in DOMAIN B[j] /\ i \in DOMAIN B /\ j \in DOMAIN B
      OBVIOUS
    <3> DEFINE c == o[i][k]
               d == o[j][l]
    <3>2. c \in DOMAIN B[i] /\ d \in DOMAIN B[j] /\ B[i][c] = B[j][d]
      BY <2>1, <3>1
    <3> HIDE DEF c, d
    <3>3. i = j /\ c = d
      BY <3>1, <3>2, BinsUnique
    <3> QED BY <3>3 DEF c, d
  <2>3. k \in Nat /\ l \in Nat /\ o[i][k] \in Nat /\ o[i][l] \in Nat
    BY <1>2, <2>2
  <2> QED BY <2>2, <2>3, SMTT(30)
<1>4. ASSUME NEW i \in DOMAIN B2, NEW k \in DOMAIN B2[i] PROVE i \in {LAST_REMAINDER, bin_index(hd[B2[i][k]].size)}
  <2>1. i \in DOMAIN B /\ o[i][k] \in DOMAIN B[i] /\ B2[i][k] = B[i][o[i][k]]
    OBVIOUS
  <2>2. i \in {LAST_REMAINDER, bin_index(hd[B[i][o[i][k]]].size)}
    BY <2>1 DEF Bins
  <2> QED BY <2>1, <2>2
<1>5. ASSUME NEW i \in DOMAIN B2, NEW k \in DOMAIN B2[i], NEW l \in DOMAIN B2[i], k < l
      PROVE  hd[B2[i][k]].size >= hd[B2[i][l]].size
  <2>1. /\ i \in DOMAIN B /\ o[i][k] \in DOMAIN B[i] /\ B2[i][k] = B[i][o[i][k]]
        /\ o[i][l] \in DOMAIN B[i] /\ B2[i][l] = B[i][o[i][l]] /\ o[i][k] < o[i][l]
    BY <1>5
  <2>2. hd[B[i][o[i][k]]].size >= hd[B[i][o[i][l]]].size
    BY <2>1 DEF Bins
  <2> QED BY <2>1, <2>2
<1>6. \A i \in DOMAIN B2 : i = LAST_REMAINDER \/ Block(i) \in blk
  BY DEF Bins
<1> QED BY <1>1, <1>3, <1>4, <1>5, <1>6 DEF Bins

\* B2 is B without the k-th chunk of bin i, which leaves s of that bin.
Unlinked(B, i, k, s, B2) ==
    /\ i \in DOMAIN B /\ k \in DOMAIN B[i] /\ s \in Seq(Nat) /\ Len(B[i]) \in Nat
    /\ Len(s) = Len(B[i]) - 1
    /\ \A j \in 1 .. k - 1 : s[j] = B[i][j]
    /\ \A j \in k .. Len(B[i]) - 1 : s[j] = B[i][j + 1]
    /\ DOMAIN B2 = IF s = << >> THEN DOMAIN B \ {i} ELSE DOMAIN B
    /\ B2 = [j \in DOMAIN B2 |-> IF j = i THEN s ELSE B[j]]

\* One chunk leaves its bin.
LEMMA BinsRemove ==
    ASSUME NEW B, NEW hd, NEW blk, Bins(B, hd, blk),
           NEW i, NEW k, NEW s, NEW B2, Unlinked(B, i, k, s, B2)
    PROVE  /\ Bins(B2, hd, blk) /\ Elems(B2) = Elems(B) \ {B[i][k]} /\ DOMAIN B2 \subseteq DOMAIN B
           /\ \A j \in DOMAIN B \ {i} : j \in DOMAIN B2 /\ B2[j] = B[j]
           /\ i = LAST_REMAINDER => i \notin DOMAIN B2
<1> DEFINE n == Len(B[i])
<1>0. /\ i \in DOMAIN B /\ k \in DOMAIN B[i] /\ s \in Seq(Nat) /\ n \in Nat
      /\ n = Len(B[i]) /\ Len(s) = n - 1
      /\ \A j \in 1 .. k - 1 : s[j] = B[i][j]
      /\ \A j \in k .. n - 1 : s[j] = B[i][j + 1]
      /\ DOMAIN B2 = IF s = << >> THEN DOMAIN B \ {i} ELSE DOMAIN B
      /\ B2 = [j \in DOMAIN B2 |-> IF j = i THEN s ELSE B[j]]
  BY DEF Unlinked
<1> USE <1>0
<1> HIDE DEF n
<1> DEFINE o == [j \in DOMAIN B2 |-> [l \in DOMAIN B2[j] |-> IF j = i /\ l >= k THEN l + 1 ELSE l]]
<1>1. B \in [DOMAIN B -> Seq(Nat)] /\ B[i] \in Seq(Nat) /\ n \in Nat /\ k \in 1 .. n /\ DOMAIN B[i] = 1 .. n
  <2>1. B \in [DOMAIN B -> Seq(Nat)] /\ B[i] \in Seq(Nat)
    BY DEF Bins
  <2> QED BY <2>1, SeqFacts
<1>3. DOMAIN s = 1 .. n - 1 /\ (s = << >> <=> n = 1)
  <2>1. DOMAIN s = 1 .. Len(s) /\ (s = << >> <=> Len(s) = 0)
    BY SeqFacts
  <2> QED BY <1>1, <2>1
<1>4. /\ DOMAIN B2 = IF s = << >> THEN DOMAIN B \ {i} ELSE DOMAIN B
      /\ \A j \in DOMAIN B2 : B2[j] = IF j = i THEN s ELSE B[j]
      /\ B2 \in [DOMAIN B2 -> Seq(Nat)]
  BY <1>1
<1>5. i = LAST_REMAINDER => i \notin DOMAIN B2
  BY <1>3, <1>4 DEF Bins
<1>6. \A j \in DOMAIN B \ {i} : j \in DOMAIN B2 /\ B2[j] = B[j]
  BY <1>4
<1>7. i \in DOMAIN B2 => B2[i] = s /\ s # << >>
  BY <1>4
<1>8. ASSUME NEW j \in DOMAIN B2, NEW l \in DOMAIN B2[j]
      PROVE  /\ o[j][l] \in DOMAIN B[j] /\ B2[j][l] = B[j][o[j][l]]
             /\ \A m \in DOMAIN B2[j] : l < m => o[j][l] < o[j][m]
             /\ j = i => o[j][l] # k
  <2>1. CASE j = i
    <3>1. B2[j] = s /\ l \in 1 .. n - 1 /\ DOMAIN B2[j] = 1 .. n - 1
      BY <1>3, <1>7, <2>1
    <3>2. \A m \in DOMAIN B2[j] : o[j][m] = IF m >= k THEN m + 1 ELSE m
      BY <2>1
    <3> HIDE DEF o
    <3>a. k \in Nat /\ l \in Nat /\ o[j][l] = IF l >= k THEN l + 1 ELSE l
      BY <1>1, <3>1, <3>2, SMTT(30)
    <3>b. o[j][l] \in 1 .. n /\ o[j][l] # k
      <4>0. 1 <= k /\ k <= n /\ 1 <= l /\ l <= n - 1
        BY <1>1, <3>1
      <4>1. CASE l >= k
        BY <3>a, <4>0, <4>1
      <4>2. CASE l < k
        BY <3>a, <4>0, <4>2
      <4> QED BY <3>a, <4>1, <4>2
    <3>c. ASSUME NEW m \in DOMAIN B2[j], l < m PROVE o[j][l] < o[j][m]
      <4>1. m \in Nat /\ o[j][m] = IF m >= k THEN m + 1 ELSE m
        BY <3>1, <3>2
      <4> QED BY <3>a, <3>c, <4>1
    <3>3. o[j][l] \in 1 .. n /\ o[j][l] # k /\ \A m \in DOMAIN B2[j] : l < m => o[j][l] < o[j][m]
      BY <3>b, <3>c
    <3>4. s[l] = B[i][o[j][l]]
      <4>1. CASE l >= k
        BY <1>1, <3>1, <3>a, <4>1, SMTT(30)
      <4>2. CASE l < k
        <5>1. l \in 1 .. k - 1
          BY <1>1, <3>1, <4>2
        <5> QED BY <3>a, <4>2, <5>1
      <4> QED BY <1>1, <3>1, <4>1, <4>2
    <3> QED BY <1>1, <2>1, <3>1, <3>3, <3>4
  <2>2. CASE j # i
    <3>1. B2[j] = B[j] /\ \A m \in DOMAIN B2[j] : o[j][m] = m
      BY <1>4, <2>2
    <3> HIDE DEF o
    <3> QED BY <2>2, <3>1
  <2> QED BY <2>1, <2>2
<1> HIDE DEF o
<1>9. Bins(B2, hd, blk)
  <2>1. DOMAIN B2 \subseteq DOMAIN B /\ \A j \in DOMAIN B2 : B2[j] # << >>
    BY <1>4 DEF Bins
  <2>2. LAST_REMAINDER \in DOMAIN B2 => Len(B2[LAST_REMAINDER]) = 1
    BY <1>4, <1>5 DEF Bins
  <2>3. B2 \in [DOMAIN B2 -> Seq(Nat)]
    BY <1>4
  <2>4. \A j \in DOMAIN B2 : \A l \in DOMAIN B2[j] :
                     /\ o[j][l] \in DOMAIN B[j] /\ B2[j][l] = B[j][o[j][l]]
                     /\ \A m \in DOMAIN B2[j] : l < m => o[j][l] < o[j][m]
    BY <1>8
  <2> QED BY <2>1, <2>2, <2>3, <2>4, SubBins
<1>10. ASSUME NEW x \in Elems(B2) PROVE x \in Elems(B) /\ x # B[i][k]
  <2>1. PICK j \in DOMAIN B2 : \E l \in DOMAIN B2[j] : B2[j][l] = x
    BY <1>10, ElemsFacts
  <2>2. PICK l \in DOMAIN B2[j] : B2[j][l] = x
    BY <2>1
  <2>3. o[j][l] \in DOMAIN B[j] /\ x = B[j][o[j][l]] /\ j \in DOMAIN B /\ (j = i => o[j][l] # k)
    BY <1>4, <1>8, <2>2
  <2>4. x \in Elems(B)
    BY <2>3, ElemsFacts
  <2>5. x # B[i][k]
    BY <2>3, SMTT(30) DEF Bins
  <2> QED BY <2>4, <2>5
<1>11. ASSUME NEW x \in Elems(B), x # B[i][k] PROVE x \in Elems(B2)
  <2>1. PICK j \in DOMAIN B : \E l \in DOMAIN B[j] : B[j][l] = x
    BY <1>11, ElemsFacts
  <2>2. PICK l \in DOMAIN B[j] : B[j][l] = x
    BY <2>1
  <2>3. CASE j # i
    BY <1>6, <2>2, <2>3, ElemsFacts
  <2>4. CASE j = i
    <3>1. l \in 1 .. n /\ l # k
      BY <1>1, <1>11, <2>2, <2>4
    <3> DEFINE m == IF l < k THEN l ELSE l - 1
    <3>2. m \in 1 .. n - 1 /\ s[m] = x
      <4>0. k \in Nat /\ l \in Nat /\ 1 <= k /\ k <= n /\ 1 <= l /\ l <= n
        BY <1>1, <3>1, SMTT(30)
      <4>1. CASE l < k
        <5>1. l \in 1 .. k - 1 /\ m = l /\ m \in 1 .. n - 1
          BY <4>0, <4>1
        <5> QED BY <2>2, <2>4, <5>1
      <4>2. CASE l > k
        <5>1. l - 1 \in k .. n - 1 /\ (l - 1) + 1 = l /\ m = l - 1 /\ m \in 1 .. n - 1
          BY <4>0, <4>2
        <5> HIDE DEF m
        <5> QED BY <2>2, <2>4, <5>1
      <4> QED BY <1>1, <3>1, <4>1, <4>2
    <3>3. i \in DOMAIN B2 /\ B2[i] = s /\ m \in DOMAIN s
      BY <1>1, <1>3, <1>4, <3>2, SMTT(30)
    <3> QED BY <3>2, <3>3, ElemsFacts
  <2> QED BY <2>3, <2>4
<1> QED BY <1>4, <1>5, <1>6, <1>9, <1>10, <1>11

\* s is b with p behind its first k chunks.
Inserted(b, k, p, s) ==
    /\ Len(s) = Len(b) + 1 /\ s[k + 1] = p
    /\ \A j \in 1 .. k : s[j] = b[j]
    /\ \A j \in k + 2 .. Len(b) + 1 : s[j] = b[j - 1]

\* That is the place where p keeps the chunks sorted.
PlaceOf(hd, p, b, k) ==
    /\ \A j \in 1 .. k : hd[p].size < hd[b[j]].size
    /\ \A j \in k + 1 .. Len(b) : ~(hd[p].size < hd[b[j]].size)

Place(n, k) == [l \in 1 .. n + 1 |-> IF l <= k THEN l ELSE l - 1]

\* Every place of s but one is a place of b, in the same order.
LEMMA InsertedPlaces ==
    ASSUME NEW n \in Nat, NEW b \in Seq(Nat), NEW s \in Seq(Nat), Len(b) = n,
           NEW k \in 0 .. n, NEW p, Inserted(b, k, p, s)
    PROVE  LET o == Place(n, k)
           IN  /\ \A l \in 1 .. n + 1 : l # k + 1 =>
                      /\ o[l] \in 1 .. n /\ s[l] = b[o[l]]
                      /\ l < k + 1 => o[l] \in 1 .. k
                      /\ l > k + 1 => o[l] \in k + 1 .. n
               /\ \A x, y \in 1 .. n + 1 : x < y /\ x # k + 1 /\ y # k + 1 => o[x] < o[y]
<1> DEFINE o == Place(n, k)
<1>1. \A l \in 1 .. n + 1 : o[l] = IF l <= k THEN l ELSE l - 1
  BY DEF Place
<1> HIDE DEF o
<1>2. ASSUME NEW l \in 1 .. n + 1, l < k + 1
      PROVE  o[l] \in 1 .. n /\ s[l] = b[o[l]] /\ o[l] \in 1 .. k
  <2>1. l \in 1 .. k /\ l \in 1 .. n /\ o[l] = l
    BY <1>1, <1>2
  <2> QED BY <2>1 DEF Inserted
<1>3. ASSUME NEW l \in 1 .. n + 1, l > k + 1
      PROVE  o[l] \in 1 .. n /\ s[l] = b[o[l]] /\ o[l] \in k + 1 .. n
  <2>1. l \in k + 2 .. n + 1 /\ o[l] = l - 1 /\ l - 1 \in 1 .. n /\ l - 1 \in k + 1 .. n
    BY <1>1, <1>3
  <2> QED BY <2>1 DEF Inserted
<1>4. ASSUME NEW x \in 1 .. n + 1, NEW y \in 1 .. n + 1, x < y, x # k + 1, y # k + 1 PROVE o[x] < o[y]
  BY <1>1, <1>4
<1>5. ASSUME NEW l \in 1 .. n + 1, l # k + 1
      PROVE  /\ o[l] \in 1 .. n /\ s[l] = b[o[l]]
             /\ l < k + 1 => o[l] \in 1 .. k
             /\ l > k + 1 => o[l] \in k + 1 .. n
  <2>1. CASE l < k + 1
    BY <1>2, <2>1
  <2>2. CASE l > k + 1
    BY <1>3, <2>2
  <2> QED BY <1>5, <2>1, <2>2
<1> QED BY <1>4, <1>5 DEF o

\* A sorted sequence of different chunks stays one.
LEMMA InsertedSorted ==
    ASSUME NEW hd, NEW b \in Seq(Nat), NEW s \in Seq(Nat), NEW n \in Nat, Len(b) = n,
           NEW k \in 0 .. n, NEW p, Inserted(b, k, p, s), PlaceOf(hd, p, b, k),
           hd[p].size \in Nat, \A j \in 1 .. n : hd[b[j]].size \in Nat /\ b[j] # p,
           \A x, y \in 1 .. n : x < y => hd[b[x]].size >= hd[b[y]].size /\ b[x] # b[y],
           NEW x \in 1 .. n + 1, NEW y \in 1 .. n + 1, x < y
    PROVE  hd[s[x]].size >= hd[s[y]].size /\ s[x] # s[y]
<1> DEFINE o == Place(n, k)
<1>1. /\ \A l \in 1 .. n + 1 : l # k + 1 =>
             /\ o[l] \in 1 .. n /\ s[l] = b[o[l]]
             /\ l < k + 1 => o[l] \in 1 .. k
             /\ l > k + 1 => o[l] \in k + 1 .. n
      /\ \A l, m \in 1 .. n + 1 : l < m /\ l # k + 1 /\ m # k + 1 => o[l] < o[m]
  BY InsertedPlaces
<1>2. s[k + 1] = p
  BY DEF Inserted
<1> HIDE DEF o
<1>3. CASE x = k + 1
  <2>1. o[y] \in k + 1 .. n /\ o[y] \in 1 .. n /\ s[y] = b[o[y]]
    BY <1>1, <1>3
  <2>2. ~(hd[p].size < hd[b[o[y]]].size) /\ s[x] = p
    BY <1>2, <1>3, <2>1 DEF PlaceOf
  <2>3. hd[b[o[y]]].size \in Nat /\ b[o[y]] # p
    BY <2>1
  <2>4. hd[p].size >= hd[b[o[y]]].size
    BY <2>2, <2>3, SMTT(30)
  <2> QED BY <2>1, <2>2, <2>3, <2>4, Zenon
<1>4. CASE y = k + 1
  <2>1. o[x] \in 1 .. k /\ o[x] \in 1 .. n /\ s[x] = b[o[x]]
    BY <1>1, <1>4
  <2>2. hd[p].size < hd[b[o[x]]].size /\ s[y] = p
    BY <1>2, <1>4, <2>1 DEF PlaceOf
  <2>3. hd[b[o[x]]].size \in Nat /\ b[o[x]] # p
    BY <2>1
  <2>4. hd[b[o[x]]].size >= hd[p].size
    BY <2>2, <2>3, SMTT(30)
  <2> QED BY <2>1, <2>2, <2>3, <2>4, Zenon
<1>5. CASE x # k + 1 /\ y # k + 1
  <2>1. o[x] \in 1 .. n /\ o[y] \in 1 .. n /\ s[x] = b[o[x]] /\ s[y] = b[o[y]] /\ o[x] < o[y]
    BY <1>1, <1>5
  <2> QED BY <2>1
<1> QED BY <1>3, <1>4, <1>5

\* b is what bin i holds.
Holds(B, i, b) == b = IF i \in DOMAIN B THEN B[i] ELSE << >>

\* B2 is B with s in bin i.
WithBin(B, i, s, B2) ==
    /\ DOMAIN B2 = DOMAIN B \cup {i} /\ B2 \in [DOMAIN B2 -> Seq(Nat)]
    /\ \A j \in DOMAIN B2 : B2[j] = IF j = i THEN s ELSE B[j]

\* B2 is B with p in bin i, where its size belongs: s in place of b.
Linked(B, hd, p, i, b, k, s, B2) ==
    /\ p \in Nat /\ p \notin Elems(B)
    /\ \A x \in Elems(B) \cup {p} : hd[x].size \in Nat
    /\ i \in Nat /\ i = bin_index(hd[p].size) /\ i # LAST_REMAINDER
    /\ b \in Seq(Nat) /\ Holds(B, i, b) /\ Len(b) \in Nat
    /\ k \in 0 .. Len(b) /\ PlaceOf(hd, p, b, k)
    /\ s \in Seq(Nat) /\ Inserted(b, k, p, s)
    /\ WithBin(B, i, s, B2)

\* p is now in bin i.
BinsPut(B, hd, blk, p, i, B2) ==
    /\ Bins(B2, hd, blk \cup {Block(i)}) /\ Elems(B2) = Elems(B) \cup {p}
    /\ \A j \in DOMAIN B \ {i} : j \in DOMAIN B2 /\ B2[j] = B[j]

\* One chunk enters its bin, in front of the first that is not larger.
LEMMA BinsInsert ==
    ASSUME NEW B, NEW hd, NEW blk, Bins(B, hd, blk),
           NEW p, NEW i, NEW b, NEW k, NEW s, NEW B2, Linked(B, hd, p, i, b, k, s, B2)
    PROVE  BinsPut(B, hd, blk, p, i, B2)
<1> DEFINE n == Len(b)
<1>0. /\ p \in Nat /\ p \notin Elems(B)
      /\ \A x \in Elems(B) \cup {p} : hd[x].size \in Nat
      /\ i \in Nat /\ i = bin_index(hd[p].size) /\ i # LAST_REMAINDER
      /\ b \in Seq(Nat) /\ Holds(B, i, b)
      /\ n \in Nat /\ Len(b) = n /\ k \in 0 .. n /\ PlaceOf(hd, p, b, k)
      /\ s \in Seq(Nat) /\ Inserted(b, k, p, s)
      /\ WithBin(B, i, s, B2)
  BY DEF Linked
<1> USE <1>0
<1> HIDE DEF n
<1>1. /\ B \in [DOMAIN B -> Seq(Nat)] /\ DOMAIN B \subseteq Nat
      /\ DOMAIN b = 1 .. n /\ DOMAIN s = 1 .. n + 1 /\ s # << >>
  <2>1. B \in [DOMAIN B -> Seq(Nat)] /\ DOMAIN B \subseteq Nat
    BY DEF Bins
  <2>0. Len(s) = n + 1
    BY DEF Inserted
  <2>2. DOMAIN b = 1 .. n /\ DOMAIN s = 1 .. n + 1
    BY <2>0, SeqFacts
  <2>3. n + 1 # 0
    OBVIOUS
  <2>4. s # << >>
    BY <2>0, <2>3, SeqFacts
  <2> QED BY <2>1, <2>2, <2>4
<1>2. /\ \A j \in DOMAIN B2 : B2[j] = IF j = i THEN s ELSE B[j]
      /\ B2 \in [DOMAIN B2 -> Seq(Nat)] /\ DOMAIN B2 \subseteq Nat
      /\ i \in DOMAIN B2 /\ B2[i] = s
      /\ \A j \in DOMAIN B2 : j # i => j \in DOMAIN B /\ B2[j] = B[j]
      /\ \A j \in DOMAIN B \ {i} : j \in DOMAIN B2 /\ B2[j] = B[j]
  BY <1>1 DEF WithBin
<1>3. \A j \in 1 .. n : i \in DOMAIN B /\ j \in DOMAIN B[i] /\ b[j] = B[i][j] /\ b[j] \in Elems(B)
  <2> SUFFICES ASSUME NEW j \in 1 .. n
               PROVE  i \in DOMAIN B /\ j \in DOMAIN B[i] /\ b[j] = B[i][j] /\ b[j] \in Elems(B)
    OBVIOUS
  <2>1. i \in DOMAIN B
    <3>1. CASE i \notin DOMAIN B
      <4>1. b = << >>
        BY <3>1 DEF Holds
      <4>2. n = 0
        BY <4>1
      <4> QED BY <4>2
    <3> QED BY <3>1
  <2>2. b = B[i] /\ j \in DOMAIN B[i]
    BY <1>1, <2>1 DEF Holds
  <2> QED BY <2>1, <2>2, ElemsFacts
<1>5. \A x, y \in 1 .. n : x < y => hd[b[x]].size >= hd[b[y]].size /\ b[x] # b[y]
  <2> SUFFICES ASSUME NEW x \in 1 .. n, NEW y \in 1 .. n, x < y
               PROVE  hd[b[x]].size >= hd[b[y]].size /\ b[x] # b[y]
    OBVIOUS
  <2>1. i \in DOMAIN B /\ x \in DOMAIN B[i] /\ y \in DOMAIN B[i] /\ b[x] = B[i][x] /\ b[y] = B[i][y]
    BY <1>3
  <2>2. hd[B[i][x]].size >= hd[B[i][y]].size
    BY <2>1 DEF Bins
  <2>3. x # y
    OBVIOUS
  <2>4. B[i][x] # B[i][y]
    BY <2>1, <2>3, BinsUnique
  <2> QED BY <2>1, <2>2, <2>4
<1>6. hd[p].size \in Nat /\ \A j \in 1 .. n : hd[b[j]].size \in Nat /\ b[j] # p
  BY <1>3
<1>9. \A x, y \in 1 .. n + 1 : x < y => hd[s[x]].size >= hd[s[y]].size /\ s[x] # s[y]
  <2> SUFFICES ASSUME NEW x \in 1 .. n + 1, NEW y \in 1 .. n + 1, x < y
               PROVE  hd[s[x]].size >= hd[s[y]].size /\ s[x] # s[y]
    OBVIOUS
  <2>1. hd[p].size \in Nat /\ Len(b) = n
    BY <1>6
  <2> QED BY <1>5, <1>6, <2>1, InsertedSorted, Zenon
<1>10. \A x, y \in 1 .. n + 1 : s[x] = s[y] => x = y
  <2> SUFFICES ASSUME NEW x \in 1 .. n + 1, NEW y \in 1 .. n + 1, x # y PROVE s[x] # s[y]
    OBVIOUS
  <2>1. x < y \/ y < x
    OBVIOUS
  <2> QED BY <1>9, <2>1
<1>11. ASSUME NEW l \in 1 .. n + 1
       PROVE  s[l] = p \/ (i \in DOMAIN B /\ \E m \in DOMAIN B[i] : s[l] = B[i][m])
  <2>1. CASE l = k + 1
    BY <2>1 DEF Inserted
  <2>2. CASE l # k + 1
    <3> DEFINE o == Place(n, k)
    <3>0. \A q \in 1 .. n + 1 : q # k + 1 =>
                      /\ o[q] \in 1 .. n /\ s[q] = b[o[q]]
                      /\ q < k + 1 => o[q] \in 1 .. k
                      /\ q > k + 1 => o[q] \in k + 1 .. n
      BY InsertedPlaces
    <3>1. o[l] \in 1 .. n /\ s[l] = b[o[l]]
      BY <2>2, <3>0
    <3> HIDE DEF o
    <3> QED BY <1>3, <3>1
  <2> QED BY <2>1, <2>2
<1>12. ASSUME NEW c \in DOMAIN B2, NEW d \in DOMAIN B2, NEW x \in DOMAIN B2[c], NEW y \in DOMAIN B2[d], B2[c][x] = B2[d][y]
       PROVE  c = d /\ x = y
  <2>1. CASE c = i /\ d = i
    BY <1>1, <1>2, <1>10, <1>12, <2>1
  <2>2. CASE c # i /\ d # i
    <3>1. c \in DOMAIN B /\ d \in DOMAIN B /\ x \in DOMAIN B[c] /\ y \in DOMAIN B[d] /\ B[c][x] = B[d][y]
      BY <1>2, <1>12, <2>2
    <3> QED BY <3>1, BinsUnique
  <2>3. CASE c = i /\ d # i
    <3>1. d \in DOMAIN B /\ y \in DOMAIN B[d] /\ x \in 1 .. n + 1 /\ s[x] = B[d][y]
      BY <1>1, <1>2, <1>12, <2>3
    <3>2. s[x] # p
      BY <3>1, ElemsFacts
    <3>3. PICK m \in DOMAIN B[i] : i \in DOMAIN B /\ s[x] = B[i][m]
      BY <1>11, <3>1, <3>2
    <3>4. i = d
      <4>1. i \in DOMAIN B /\ m \in DOMAIN B[i] /\ B[i][m] = B[d][y]
        BY <3>1, <3>3
      <4> QED BY <3>1, <4>1, BinsUnique, SMTT(30)
    <3> QED BY <2>3, <3>4
  <2>4. CASE c # i /\ d = i
    <3>1. c \in DOMAIN B /\ x \in DOMAIN B[c] /\ y \in 1 .. n + 1 /\ s[y] = B[c][x]
      BY <1>1, <1>2, <1>12, <2>4
    <3>2. s[y] # p
      BY <3>1, ElemsFacts
    <3>3. PICK m \in DOMAIN B[i] : i \in DOMAIN B /\ s[y] = B[i][m]
      BY <1>11, <3>1, <3>2
    <3>4. i = c
      <4>1. i \in DOMAIN B /\ m \in DOMAIN B[i] /\ B[i][m] = B[c][x]
        BY <3>1, <3>3
      <4> QED BY <3>1, <4>1, BinsUnique, Zenon
    <3> QED BY <2>4, <3>4
  <2> QED BY <2>1, <2>2, <2>3, <2>4
<1>13. ASSUME NEW c \in DOMAIN B2, NEW x \in DOMAIN B2[c]
       PROVE  c \in {LAST_REMAINDER, bin_index(hd[B2[c][x]].size)}
  <2>1. CASE c # i
    <3>1. c \in DOMAIN B /\ x \in DOMAIN B[c] /\ B2[c][x] = B[c][x]
      BY <1>2, <2>1
    <3>2. c \in {LAST_REMAINDER, bin_index(hd[B[c][x]].size)}
      BY <3>1 DEF Bins
    <3> QED BY <3>1, <3>2
  <2>2. CASE c = i
    <3>1. x \in 1 .. n + 1 /\ B2[c][x] = s[x]
      BY <1>1, <1>2, <2>2
    <3>2. CASE s[x] = p
      BY <2>2, <3>1, <3>2
    <3>3. CASE s[x] # p
      <4>1. PICK m \in DOMAIN B[i] : i \in DOMAIN B /\ s[x] = B[i][m]
        BY <1>11, <3>1, <3>3
      <4>2. i \in {LAST_REMAINDER, bin_index(hd[B[i][m]].size)}
        BY <4>1 DEF Bins
      <4> QED BY <2>2, <3>1, <4>1, <4>2
    <3> QED BY <3>2, <3>3
  <2> QED BY <2>1, <2>2
<1>14. ASSUME NEW c \in DOMAIN B2, NEW x \in DOMAIN B2[c], NEW y \in DOMAIN B2[c], x < y
       PROVE  hd[B2[c][x]].size >= hd[B2[c][y]].size
  <2>1. CASE c # i
    <3>1. c \in DOMAIN B /\ x \in DOMAIN B[c] /\ y \in DOMAIN B[c] /\ B2[c] = B[c]
      BY <1>2, <2>1
    <3>2. hd[B[c][x]].size >= hd[B[c][y]].size
      BY <1>14, <3>1 DEF Bins
    <3> QED BY <3>1, <3>2
  <2>2. CASE c = i
    <3>1. x \in 1 .. n + 1 /\ y \in 1 .. n + 1 /\ B2[c] = s
      BY <1>1, <1>2, <2>2
    <3> QED BY <1>9, <1>14, <3>1
  <2> QED BY <2>1, <2>2
<1>15. \A c \in DOMAIN B2 : B2[c] # << >> /\ (c = LAST_REMAINDER \/ Block(c) \in blk \cup {Block(i)})
  BY <1>1, <1>2 DEF Bins
<1>16. LAST_REMAINDER \in DOMAIN B2 => Len(B2[LAST_REMAINDER]) = 1
  BY <1>2 DEF Bins
<1>17. Bins(B2, hd, blk \cup {Block(i)})
  BY <1>2, <1>12, <1>13, <1>14, <1>15, <1>16 DEF Bins
<1>18. ASSUME NEW x \in Elems(B2) PROVE x \in Elems(B) \cup {p}
  <2>1. PICK c \in DOMAIN B2 : \E l \in DOMAIN B2[c] : B2[c][l] = x
    BY <1>18, ElemsFacts
  <2>2. PICK l \in DOMAIN B2[c] : B2[c][l] = x
    BY <2>1
  <2>3. CASE c = i
    <3>1. l \in 1 .. n + 1 /\ x = s[l]
      BY <1>1, <1>2, <2>2, <2>3
    <3> QED BY <1>11, <3>1, ElemsFacts
  <2>4. CASE c # i
    <3>1. c \in DOMAIN B /\ l \in DOMAIN B[c] /\ x = B[c][l]
      BY <1>2, <2>2, <2>4
    <3> QED BY <3>1, ElemsFacts
  <2> QED BY <2>3, <2>4
<1>19. p \in Elems(B2)
  <2>1. k + 1 \in DOMAIN B2[i] /\ B2[i][k + 1] = p
    BY <1>1, <1>2 DEF Inserted
  <2>2. i \in DOMAIN B2
    BY <1>2
  <2> QED BY <2>1, <2>2, InElems
<1>20. ASSUME NEW x \in Elems(B) PROVE x \in Elems(B2)
  <2>1. PICK c \in DOMAIN B : \E l \in DOMAIN B[c] : B[c][l] = x
    BY <1>20, ElemsFacts
  <2>2. PICK l \in DOMAIN B[c] : B[c][l] = x
    BY <2>1
  <2>3. CASE c = i
    <3>1. l \in 1 .. n /\ b[l] = x
      BY <1>1, <2>2, <2>3 DEF Holds
    <3>2. CASE l <= k
      <4>1. l \in 1 .. k /\ l \in 1 .. n + 1
        BY <3>1, <3>2
      <4>2. l \in DOMAIN B2[i] /\ B2[i][l] = x
        BY <1>1, <1>2, <3>1, <4>1 DEF Inserted
      <4>3. i \in DOMAIN B2
        BY <1>2
      <4> QED BY <4>2, <4>3, InElems
    <3>3. CASE l > k
      <4>1. l + 1 \in k + 2 .. n + 1 /\ l + 1 \in 1 .. n + 1 /\ (l + 1) - 1 = l
        BY <3>1, <3>3
      <4>2. l + 1 \in DOMAIN B2[i] /\ B2[i][l + 1] = x
        <5>1. s[l + 1] = b[(l + 1) - 1]
          BY <4>1 DEF Inserted
        <5> QED BY <1>1, <1>2, <3>1, <4>1, <5>1
      <4>3. i \in DOMAIN B2
        BY <1>2
      <4> QED BY <4>2, <4>3, InElems
    <3> QED BY <3>1, <3>2, <3>3
  <2>4. CASE c # i
    <3>1. c \in DOMAIN B2 /\ l \in DOMAIN B2[c] /\ x = B2[c][l]
      BY <1>2, <2>2, <2>4
    <3> QED BY <3>1, ElemsFacts
  <2> QED BY <2>3, <2>4
<1>21. /\ Bins(B2, hd, blk \cup {Block(i)}) /\ Elems(B2) = Elems(B) \cup {p}
       /\ \A j \in DOMAIN B \ {i} : j \in DOMAIN B2 /\ B2[j] = B[j]
  BY <1>2, <1>17, <1>18, <1>19, <1>20
<1> QED BY ONLY <1>21 DEF BinsPut

\* The chunk of the bin of the last remainder, if there is one.
Remainder(B) == IF LAST_REMAINDER \in DOMAIN B THEN {B[LAST_REMAINDER][1]} ELSE {}

\* The last remainder is at most one chunk.
LEMMA RemainderFacts ==
    ASSUME NEW B, NEW hd, NEW blk, Bins(B, hd, blk)
    PROVE  /\ Remainder(B) \subseteq Elems(B)
           /\ \A i \in DOMAIN B : \A k \in DOMAIN B[i] : B[i][k] \in Remainder(B) <=> i = LAST_REMAINDER
           /\ \A x \in Elems(B) : x \in Nat
<1>1. ASSUME LAST_REMAINDER \in DOMAIN B PROVE DOMAIN B[LAST_REMAINDER] = {1}
  <2>1. B[LAST_REMAINDER] \in Seq(Nat) /\ Len(B[LAST_REMAINDER]) = 1
    BY <1>1 DEF Bins
  <2> QED BY <2>1, SeqFacts
<1>2. Remainder(B) \subseteq Elems(B)
  <2>1. CASE LAST_REMAINDER \in DOMAIN B
    BY <1>1, <2>1, InElems DEF Remainder
  <2>2. CASE LAST_REMAINDER \notin DOMAIN B
    BY <2>2 DEF Remainder
  <2> QED BY <2>1, <2>2
<1>3. ASSUME NEW i \in DOMAIN B, NEW k \in DOMAIN B[i] PROVE B[i][k] \in Remainder(B) <=> i = LAST_REMAINDER
  <2>1. CASE i = LAST_REMAINDER
    <3>1. k = 1
      BY <1>1, <2>1
    <3> QED BY <2>1, <3>1 DEF Remainder
  <2>2. CASE i # LAST_REMAINDER
    <3>1. ASSUME B[i][k] \in Remainder(B) PROVE FALSE
      <4>1. LAST_REMAINDER \in DOMAIN B /\ B[LAST_REMAINDER][1] = B[i][k]
        BY <3>1 DEF Remainder
      <4>2. 1 \in DOMAIN B[LAST_REMAINDER]
        BY <1>1, <4>1
      <4>3. i = LAST_REMAINDER
        BY <4>1, <4>2, BinsUnique
      <4> QED BY <2>2, <4>3
    <3> QED BY <2>2, <3>1
  <2> QED BY <2>1, <2>2
<1>4. ASSUME NEW x \in Elems(B) PROVE x \in Nat
  <2>1. PICK i \in DOMAIN B : \E k \in DOMAIN B[i] : B[i][k] = x
    BY <1>4, ElemsFacts
  <2>2. B[i] \in Seq(Nat)
    BY DEF Bins
  <2> QED BY <2>1, <2>2, SeqFacts
<1> QED BY <1>2, <1>3, <1>4

\* A chunk becomes the last remainder.
LEMMA BinsLink ==
    ASSUME NEW B, NEW hd, NEW blk, Bins(B, hd, blk), NEW p \in Nat, p \notin Elems(B) \ Remainder(B),
           NEW s \in Seq(Nat), s = <<p>>, NEW B2, WithBin(B, LAST_REMAINDER, s, B2)
    PROVE  /\ Bins(B2, hd, blk) /\ Elems(B2) = (Elems(B) \ Remainder(B)) \cup {p}
           /\ Remainder(B2) = {p}
<1> DEFINE R == LAST_REMAINDER
<1>1. Len(s) = 1 /\ DOMAIN s = {1} /\ s[1] = p /\ s # << >>
  OBVIOUS
<1>2. /\ B \in [DOMAIN B -> Seq(Nat)] /\ DOMAIN B \subseteq Nat
      /\ DOMAIN B2 = DOMAIN B \cup {R} /\ DOMAIN B2 \subseteq Nat /\ B2 \in [DOMAIN B2 -> Seq(Nat)]
      /\ B2[R] = s /\ \A j \in DOMAIN B2 : j # R => j \in DOMAIN B /\ B2[j] = B[j]
  BY DEF Bins, WithBin, LAST_REMAINDER
<1>3. \A i \in DOMAIN B : \A k \in DOMAIN B[i] : B[i][k] \in Remainder(B) <=> i = R
  BY RemainderFacts
<1>4. \A i \in DOMAIN B2 : \A k \in DOMAIN B2[i] : i # R => B2[i][k] \in Elems(B) \ Remainder(B) /\ B2[i][k] # p
  <2> SUFFICES ASSUME NEW i \in DOMAIN B2, NEW k \in DOMAIN B2[i], i # R
               PROVE  B2[i][k] \in Elems(B) \ Remainder(B) /\ B2[i][k] # p
    OBVIOUS
  <2>1. i \in DOMAIN B /\ B2[i] = B[i] /\ k \in DOMAIN B[i]
    BY <1>2
  <2>2. B[i][k] \in Elems(B) /\ B[i][k] \notin Remainder(B)
    BY <1>3, <2>1, InElems
  <2> QED BY <2>1, <2>2
<1>5. ASSUME NEW i \in DOMAIN B2, NEW j \in DOMAIN B2, NEW k \in DOMAIN B2[i], NEW l \in DOMAIN B2[j], B2[i][k] = B2[j][l]
      PROVE  i = j /\ k = l
  <2>1. CASE i = R /\ j = R
    BY <1>1, <1>2, <2>1
  <2>2. CASE i # R /\ j # R
    <3>1. i \in DOMAIN B /\ j \in DOMAIN B /\ k \in DOMAIN B[i] /\ l \in DOMAIN B[j] /\ B[i][k] = B[j][l]
      BY <1>2, <1>5, <2>2
    <3> QED BY <3>1, BinsUnique
  <2>3. CASE i = R /\ j # R
    BY <1>1, <1>2, <1>4, <1>5, <2>3
  <2>4. CASE i # R /\ j = R
    BY <1>1, <1>2, <1>4, <1>5, <2>4
  <2> QED BY <2>1, <2>2, <2>3, <2>4
<1>6. ASSUME NEW i \in DOMAIN B2, NEW k \in DOMAIN B2[i] PROVE i \in {R, bin_index(hd[B2[i][k]].size)}
  <2>1. CASE i # R
    <3>1. i \in DOMAIN B /\ B2[i] = B[i] /\ k \in DOMAIN B[i]
      BY <1>2, <2>1
    <3>2. i \in {R, bin_index(hd[B[i][k]].size)}
      BY <3>1 DEF Bins
    <3> QED BY <3>1, <3>2
  <2> QED BY <2>1
<1>7. ASSUME NEW i \in DOMAIN B2, NEW k \in DOMAIN B2[i], NEW l \in DOMAIN B2[i], k < l
      PROVE  hd[B2[i][k]].size >= hd[B2[i][l]].size
  <2>1. CASE i # R
    <3>1. i \in DOMAIN B /\ B2[i] = B[i] /\ k \in DOMAIN B[i] /\ l \in DOMAIN B[i]
      BY <1>2, <2>1
    <3>2. hd[B[i][k]].size >= hd[B[i][l]].size
      BY <1>7, <3>1 DEF Bins
    <3> QED BY <3>1, <3>2
  <2>2. CASE i = R
    BY <1>1, <1>2, <1>7, <2>2
  <2> QED BY <2>1, <2>2
<1>8. \A i \in DOMAIN B2 : B2[i] # << >> /\ (i = R \/ Block(i) \in blk)
  BY <1>1, <1>2 DEF Bins
<1>9. Bins(B2, hd, blk)
  BY <1>1, <1>2, <1>5, <1>6, <1>7, <1>8 DEF Bins
<1>10. R \in DOMAIN B2 /\ 1 \in DOMAIN B2[R] /\ B2[R][1] = p
  BY <1>1, <1>2
<1>11. Remainder(B2) = {p}
  BY <1>10 DEF Remainder
<1>12. p \in Elems(B2)
  BY <1>10, InElems
<1>13. ASSUME NEW x \in Elems(B2), x # p PROVE x \in Elems(B) \ Remainder(B)
  <2>1. PICK i \in DOMAIN B2 : \E k \in DOMAIN B2[i] : B2[i][k] = x
    BY <1>13, ElemsFacts
  <2> QED BY <1>1, <1>2, <1>4, <1>13, <2>1
<1>14. ASSUME NEW x \in Elems(B) \ Remainder(B) PROVE x \in Elems(B2)
  <2>1. PICK i \in DOMAIN B : \E k \in DOMAIN B[i] : B[i][k] = x
    BY <1>14, ElemsFacts
  <2>2. PICK k \in DOMAIN B[i] : B[i][k] = x
    BY <2>1
  <2>3. i # R
    BY <1>3, <1>14, <2>2
  <2>4. i \in DOMAIN B2 /\ k \in DOMAIN B2[i] /\ B2[i][k] = x
    BY <1>2, <2>2, <2>3
  <2> QED BY <2>4, InElems
<1> QED BY <1>9, <1>11, <1>12, <1>13, <1>14

\* There is no last remainder any more.
LEMMA BinsClear ==
    ASSUME NEW B, NEW hd, NEW blk, Bins(B, hd, blk),
           NEW B2, DOMAIN B2 = DOMAIN B \ {LAST_REMAINDER}, \A i \in DOMAIN B2 : B2[i] = B[i],
           B2 \in [DOMAIN B2 -> Seq(Nat)]
    PROVE  Bins(B2, hd, blk) /\ Elems(B2) = Elems(B) \ Remainder(B) /\ Remainder(B2) = {}
<1> DEFINE R == LAST_REMAINDER
<1>1. Bins(B2, hd, blk)
  BY DEF Bins
<1>2. Remainder(B2) = {}
  BY DEF Remainder
<1>3. \A i \in DOMAIN B : \A k \in DOMAIN B[i] : B[i][k] \in Remainder(B) <=> i = R
  BY RemainderFacts
<1>4. ASSUME NEW x \in Elems(B2) PROVE x \in Elems(B) \ Remainder(B)
  <2>1. PICK i \in DOMAIN B2 : \E k \in DOMAIN B2[i] : B2[i][k] = x
    BY <1>4, ElemsFacts
  <2>2. PICK k \in DOMAIN B2[i] : B2[i][k] = x
    BY <2>1
  <2>3. i \in DOMAIN B /\ i # R /\ k \in DOMAIN B[i] /\ B[i][k] = x
    BY <2>2
  <2> QED BY <1>3, <2>3, InElems
<1>5. ASSUME NEW x \in Elems(B) \ Remainder(B) PROVE x \in Elems(B2)
  <2>1. PICK i \in DOMAIN B : \E k \in DOMAIN B[i] : B[i][k] = x
    BY <1>5, ElemsFacts
  <2>2. PICK k \in DOMAIN B[i] : B[i][k] = x
    BY <2>1
  <2>3. i \in DOMAIN B2 /\ k \in DOMAIN B2[i] /\ B2[i][k] = x
    BY <1>3, <1>5, <2>2
  <2> QED BY <2>3, InElems
<1> QED BY <1>1, <1>2, <1>4, <1>5

\* Only the last remainder may change its size without leaving its bin.
LEMMA BinsSameSizes ==
    ASSUME NEW B, NEW hd, NEW blk, Bins(B, hd, blk), NEW hd2,
           \A x \in Elems(B) \ Remainder(B) : hd2[x].size = hd[x].size
    PROVE  Bins(B, hd2, blk)
<1>1. ASSUME NEW i \in DOMAIN B, NEW k \in DOMAIN B[i], i # LAST_REMAINDER PROVE hd2[B[i][k]].size = hd[B[i][k]].size
  <2>1. B[i][k] \in Elems(B) /\ B[i][k] \notin Remainder(B)
    BY <1>1, InElems, RemainderFacts
  <2> QED BY <2>1
<1>2. ASSUME NEW i \in DOMAIN B, NEW k \in DOMAIN B[i] PROVE i \in {LAST_REMAINDER, bin_index(hd2[B[i][k]].size)}
  <2>1. CASE i # LAST_REMAINDER
    <3>1. i \in {LAST_REMAINDER, bin_index(hd[B[i][k]].size)}
      BY DEF Bins
    <3> QED BY <1>1, <2>1, <3>1
  <2> QED BY <2>1
<1>3. ASSUME NEW i \in DOMAIN B, NEW k \in DOMAIN B[i], NEW l \in DOMAIN B[i], k < l
      PROVE  hd2[B[i][k]].size >= hd2[B[i][l]].size
  <2>1. CASE i # LAST_REMAINDER
    <3>1. hd[B[i][k]].size >= hd[B[i][l]].size
      BY <1>3 DEF Bins
    <3> QED BY <1>1, <2>1, <3>1
  <2>2. CASE i = LAST_REMAINDER
    <3>1. B[i] \in Seq(Nat) /\ Len(B[i]) = 1
      BY <2>2 DEF Bins
    <3>2. k \in 1 .. 1 /\ l \in 1 .. 1
      BY <3>1, SeqFacts
    <3> QED BY <1>3, <3>2
  <2> QED BY <2>1, <2>2
<1> QED BY <1>2, <1>3 DEF Bins

-----------------------------------------------------------------------------
(* The macros: set_head, set_foot, unlink, frontlink, link_last_remainder. *)

Shape(H) == H = [head |-> H.head, bins |-> H.bins, binblocks |-> H.binblocks, top |-> H.top]

Heads(H) == Shape(H) /\ H.head \in [DOMAIN H.head -> TagRec] /\ DOMAIN H.head \subseteq Nat /\ H.binblocks \subseteq Nat

SameBins(H, G) == G.bins = H.bins /\ G.binblocks = H.binblocks

\* What each of the macros writes, and what it leaves alone.
LEMMA SetHeadFacts ==
    ASSUME NEW H, Heads(H), NEW p \in Nat, NEW size \in Nat, NEW bit \in BOOLEAN
    PROVE  LET G == set_head(H, p, size, bit)
           IN  /\ Heads(G) /\ DOMAIN G.head = DOMAIN H.head \cup {p} /\ SameBins(H, G) /\ G.top = H.top
               /\ G.head[p].size = size /\ (G.head[p].prev_inuse <=> bit)
               /\ p \in DOMAIN H.head => G.head[p].prev_size = H.head[p].prev_size
               /\ \A c \in DOMAIN H.head \ {p} : G.head[c] = H.head[c]
<1> DEFINE x == Tag(IF p \in DOMAIN H.head THEN H.head[p].prev_size ELSE 0, size, bit)
           hd == Put(H.head, p, x)
           G == set_head(H, p, size, bit)
<1>2. G = [head |-> hd, bins |-> H.bins, binblocks |-> H.binblocks, top |-> H.top]
  BY DEF set_head, Heads, Shape
<1>3. x \in TagRec /\ x.size = size /\ (x.prev_inuse <=> bit) /\ (p \in DOMAIN H.head => x.prev_size = H.head[p].prev_size)
  BY DEF Heads, TagRec, Tag
<1> HIDE DEF x
<1>4. hd \in [DOMAIN H.head \cup {p} -> TagRec] /\ hd[p] = x /\ \A c \in DOMAIN H.head \ {p} : hd[c] = H.head[c]
  BY <1>3 DEF Put, Heads
<1> HIDE DEF hd, G
<1>5. G.head = hd /\ G.top = H.top /\ G.bins = H.bins /\ G.binblocks = H.binblocks /\ Shape(G)
  BY <1>2 DEF Shape
<1>6. DOMAIN hd = DOMAIN H.head \cup {p} /\ DOMAIN hd \subseteq Nat
  BY <1>4 DEF Heads
<1> QED BY <1>3, <1>4, <1>5, <1>6 DEF Heads, SameBins, G

LEMMA SetHeadSizeFacts ==
    ASSUME NEW H, Heads(H), NEW p \in DOMAIN H.head, NEW size \in Nat
    PROVE  LET G == set_head_size(H, p, size)
           IN  /\ Heads(G) /\ DOMAIN G.head = DOMAIN H.head /\ SameBins(H, G) /\ G.top = H.top
               /\ G.head[p].size = size /\ (G.head[p].prev_inuse <=> H.head[p].prev_inuse)
               /\ G.head[p].prev_size = H.head[p].prev_size
               /\ \A c \in DOMAIN H.head \ {p} : G.head[c] = H.head[c]
<1> DEFINE x == [H.head[p] EXCEPT !.size = size]
           hd == [H.head EXCEPT ![p] = x]
           G == set_head_size(H, p, size)
<1>2. G = [head |-> hd, bins |-> H.bins, binblocks |-> H.binblocks, top |-> H.top]
  BY DEF set_head_size, Heads, Shape
<1>0. H.head[p] \in TagRec
  BY DEF Heads
<1>3. x \in TagRec /\ x.size = size /\ (x.prev_inuse <=> H.head[p].prev_inuse) /\ x.prev_size = H.head[p].prev_size
  BY <1>0 DEF TagRec
<1> HIDE DEF x
<1>4. hd \in [DOMAIN H.head -> TagRec] /\ hd[p] = x /\ \A c \in DOMAIN H.head \ {p} : hd[c] = H.head[c]
  BY <1>3 DEF Heads
<1> HIDE DEF hd, G
<1>5. G.head = hd /\ G.top = H.top /\ G.bins = H.bins /\ G.binblocks = H.binblocks /\ Shape(G)
  BY <1>2 DEF Shape
<1>6. DOMAIN hd = DOMAIN H.head /\ DOMAIN hd \subseteq Nat
  BY <1>4 DEF Heads
<1> QED BY <1>3, <1>4, <1>5, <1>6 DEF Heads, SameBins, G

LEMMA SetInuseFacts ==
    ASSUME NEW H, Heads(H), NEW p \in DOMAIN H.head
    PROVE  LET G == set_inuse(H, p)
           IN  /\ Heads(G) /\ DOMAIN G.head = DOMAIN H.head /\ SameBins(H, G) /\ G.top = H.top
               /\ G.head[p].size = H.head[p].size /\ G.head[p].prev_inuse
               /\ \A c \in DOMAIN H.head \ {p} : G.head[c] = H.head[c]
<1> DEFINE x == Tag(0, H.head[p].size, TRUE)
           hd == [H.head EXCEPT ![p] = x]
           G == set_inuse(H, p)
<1>0. H.head[p] \in TagRec
  BY DEF Heads
<1>3. x \in TagRec /\ x.size = H.head[p].size /\ x.prev_inuse
  BY <1>0 DEF TagRec, Tag
<1>1. G = [H EXCEPT !.head[p] = x]
  BY DEF set_inuse
<1> HIDE DEF x, G
<1>2. G = [head |-> hd, bins |-> H.bins, binblocks |-> H.binblocks, top |-> H.top]
  BY <1>1 DEF Heads, Shape
<1>4. hd \in [DOMAIN H.head -> TagRec] /\ hd[p] = x /\ \A c \in DOMAIN H.head \ {p} : hd[c] = H.head[c]
  BY <1>3 DEF Heads
<1> HIDE DEF hd, G
<1>5. G.head = hd /\ G.top = H.top /\ G.bins = H.bins /\ G.binblocks = H.binblocks /\ Shape(G)
  BY <1>2 DEF Shape
<1>6. DOMAIN hd = DOMAIN H.head /\ DOMAIN hd \subseteq Nat
  BY <1>4 DEF Heads
<1> QED BY <1>3, <1>4, <1>5, <1>6 DEF Heads, SameBins, G

LEMMA SetFootFacts ==
    ASSUME NEW H, Heads(H), NEW p \in Nat, NEW size \in Nat, p + size \in DOMAIN H.head
    PROVE  LET G == set_foot(H, p, size)
               n == p + size
           IN  /\ Heads(G) /\ DOMAIN G.head = DOMAIN H.head /\ SameBins(H, G) /\ G.top = H.top
               /\ G.head[n].size = H.head[n].size /\ (G.head[n].prev_inuse <=> H.head[n].prev_inuse)
               /\ G.head[n].prev_size = size
               /\ \A c \in DOMAIN H.head \ {n} : G.head[c] = H.head[c]
<1> DEFINE n == p + size
           x == [H.head[n] EXCEPT !.prev_size = size]
           hd == [H.head EXCEPT ![n] = x]
           G == set_foot(H, p, size)
<1>2. G = [head |-> hd, bins |-> H.bins, binblocks |-> H.binblocks, top |-> H.top]
  BY DEF set_foot, Heads, Shape
<1>0. H.head[n] \in TagRec
  BY DEF Heads
<1> HIDE DEF n
<1>3. x \in TagRec /\ x.size = H.head[n].size /\ (x.prev_inuse <=> H.head[n].prev_inuse) /\ x.prev_size = size
  BY <1>0 DEF TagRec
<1>a. n \in DOMAIN H.head
  BY DEF n
<1> HIDE DEF x
<1>4. hd \in [DOMAIN H.head -> TagRec] /\ hd[n] = x /\ \A c \in DOMAIN H.head \ {n} : hd[c] = H.head[c]
  BY <1>3, <1>a DEF Heads
<1> HIDE DEF hd, G
<1>5. G.head = hd /\ G.top = H.top /\ G.bins = H.bins /\ G.binblocks = H.binblocks /\ Shape(G)
  BY <1>2 DEF Shape
<1>6. DOMAIN hd = DOMAIN H.head /\ DOMAIN hd \subseteq Nat
  BY <1>4 DEF Heads
<1> QED BY <1>3, <1>4, <1>5, <1>6 DEF Heads, SameBins, G, n

LEMMA AbsorbFacts ==
    ASSUME NEW H, Heads(H), NEW P
    PROVE  LET G == Absorb(H, P)
           IN  /\ Heads(G) /\ DOMAIN G.head = DOMAIN H.head \ P /\ SameBins(H, G) /\ G.top = H.top
               /\ \A c \in DOMAIN H.head \ P : G.head[c] = H.head[c]
<1> DEFINE hd == Drop(H.head, P)
           G == Absorb(H, P)
<1>2. G = [head |-> hd, bins |-> H.bins, binblocks |-> H.binblocks, top |-> H.top]
  BY DEF Absorb, Heads, Shape
<1>4. hd \in [DOMAIN H.head \ P -> TagRec] /\ \A c \in DOMAIN H.head \ P : hd[c] = H.head[c]
  BY DEF Heads, Drop
<1> HIDE DEF hd, G
<1>5. G.head = hd /\ G.top = H.top /\ G.bins = H.bins /\ G.binblocks = H.binblocks /\ Shape(G)
  BY <1>2 DEF Shape
<1>6. DOMAIN hd = DOMAIN H.head \ P /\ DOMAIN hd \subseteq Nat
  BY <1>4 DEF Heads
<1> QED BY <1>4, <1>5, <1>6 DEF Heads, SameBins, G

LEMMA SetTopFacts ==
    ASSUME NEW H, Heads(H), NEW t
    PROVE  LET G == [H EXCEPT !.top = t]
           IN  Heads(G) /\ G.head = H.head /\ SameBins(H, G) /\ G.top = t
<1> DEFINE G == [H EXCEPT !.top = t]
<1>1. G = [head |-> H.head, bins |-> H.bins, binblocks |-> H.binblocks, top |-> t]
  BY DEF Heads, Shape
<1> HIDE DEF G
<1>2. G.head = H.head /\ G.top = t /\ G.bins = H.bins /\ G.binblocks = H.binblocks /\ Shape(G)
  BY <1>1 DEF Shape
<1> QED BY <1>2 DEF Heads, SameBins, G

\* The ranges of sizes, and the bins each of them uses.
LEMMA BinIndexRanges ==
    ASSUME NEW a \in Nat
    PROVE  LET b == bin_index(a)
           IN  \/ a < 64 /\ b = a
               \/ 64 <= a /\ a < 320 /\ b = 56 + a \div 8 /\ b \in 64 .. 95
               \/ 320 <= a /\ a < 1344 /\ b = 91 + a \div 64 /\ b \in 96 .. 111
               \/ 1344 <= a /\ a < 5440 /\ b = 110 + a \div 512 /\ b \in 112 .. 120
               \/ 5440 <= a /\ a < 21824 /\ b = 119 + a \div 4096 /\ b \in 120 .. 124
               \/ 21824 <= a /\ a < 87360 /\ b = 124 + a \div 32768 /\ b \in 124 .. 126
               \/ 87360 <= a /\ b = 126
<1> DEFINE k == a \div 64
<1>1. k \in Nat /\ 64 * k <= a /\ a < 64 * k + 64
  OBVIOUS
<1>0. bin_index(a) = CASE k = 0     -> a
          [] k \in 1 .. 4    -> 56 + a \div 8
          [] k \in 5 .. 20   -> 91 + k
          [] k \in 21 .. 84  -> 110 + a \div 512
          [] k \in 85 .. 340 -> 119 + a \div 4096
          [] k \in 341 .. 1364 -> 124 + a \div 32768
          [] OTHER -> 126
  BY DEF bin_index
<1>k. k = a \div 64
  OBVIOUS
<1> HIDE DEF k
<1>2. CASE k = 0
  BY <1>0, <1>1, <1>2
<1>3. CASE k \in 1 .. 4
  <2>1. bin_index(a) = 56 + a \div 8
    <3>1. k # 0 /\ k \notin 5 .. 20 /\ k \notin 21 .. 84 /\ k \notin 85 .. 340 /\ k \notin 341 .. 1364
      BY <1>1, <1>3
    <3> QED BY <1>0, <1>3, <3>1
  <2>2. 64 <= a /\ a < 320
    BY <1>1, <1>3
  <2>3. 8 <= a \div 8 /\ a \div 8 <= 39
    BY <2>2
  <2> QED BY <2>1, <2>2, <2>3
<1>4. CASE k \in 5 .. 20
  <2>1. bin_index(a) = 91 + k
    <3>1. k # 0 /\ k \notin 1 .. 4 /\ k \notin 21 .. 84 /\ k \notin 85 .. 340 /\ k \notin 341 .. 1364
      BY <1>1, <1>4
    <3> QED BY <1>0, <1>4, <3>1
  <2>2. 320 <= a /\ a < 1344
    BY <1>1, <1>4
  <2> QED BY <1>k, <1>4, <2>1, <2>2
<1>5. CASE k \in 21 .. 84
  <2>1. bin_index(a) = 110 + a \div 512
    <3>1. k # 0 /\ k \notin 1 .. 4 /\ k \notin 5 .. 20 /\ k \notin 85 .. 340 /\ k \notin 341 .. 1364
      BY <1>1, <1>5
    <3> QED BY <1>0, <1>5, <3>1
  <2>2. 1344 <= a /\ a < 5440
    BY <1>1, <1>5
  <2>3. 2 <= a \div 512 /\ a \div 512 <= 10
    BY <2>2
  <2> QED BY <2>1, <2>2, <2>3
<1>6. CASE k \in 85 .. 340
  <2>1. bin_index(a) = 119 + a \div 4096
    <3>1. k # 0 /\ k \notin 1 .. 4 /\ k \notin 5 .. 20 /\ k \notin 21 .. 84 /\ k \notin 341 .. 1364
      BY <1>1, <1>6
    <3> QED BY <1>0, <1>6, <3>1
  <2>2. 5440 <= a /\ a < 21824
    BY <1>1, <1>6
  <2>3. 1 <= a \div 4096 /\ a \div 4096 <= 5
    BY <2>2
  <2> QED BY <2>1, <2>2, <2>3
<1>7. CASE k \in 341 .. 1364
  <2>1. bin_index(a) = 124 + a \div 32768
    <3>1. k # 0 /\ k \notin 1 .. 4 /\ k \notin 5 .. 20 /\ k \notin 21 .. 84 /\ k \notin 85 .. 340
      BY <1>1, <1>7
    <3> QED BY <1>0, <1>7, <3>1
  <2>2. 21824 <= a /\ a < 87360
    BY <1>1, <1>7
  <2>3. 0 <= a \div 32768 /\ a \div 32768 <= 2
    BY <2>2
  <2> QED BY <2>1, <2>2, <2>3
<1>8. CASE k > 1364
  <2>1. bin_index(a) = 126
    BY <1>0, <1>1, <1>8, SMTT(30)
  <2> QED BY <1>1, <1>8, <2>1
<1> QED BY <1>1, <1>2, <1>3, <1>4, <1>5, <1>6, <1>7, <1>8

\* A larger chunk is never in an earlier bin; the small bins have one size.
LEMMA BinIndexFacts ==
    ASSUME NEW a \in Nat, NEW b \in Nat, a <= b, MINSIZE <= a
    PROVE  bin_index(a) \in Nat /\ bin_index(a) > LAST_REMAINDER /\ bin_index(a) <= bin_index(b)
           /\ (bin_index(a) < 64 => a = bin_index(a)) /\ (a < 64 => bin_index(a) = a)
<1> DEFINE x == bin_index(a)
           y == bin_index(b)
<1>1. \/ a < 64 /\ x = a
      \/ 64 <= a /\ a < 320 /\ x = 56 + a \div 8 /\ x \in 64 .. 95
      \/ 320 <= a /\ a < 1344 /\ x = 91 + a \div 64 /\ x \in 96 .. 111
      \/ 1344 <= a /\ a < 5440 /\ x = 110 + a \div 512 /\ x \in 112 .. 120
      \/ 5440 <= a /\ a < 21824 /\ x = 119 + a \div 4096 /\ x \in 120 .. 124
      \/ 21824 <= a /\ a < 87360 /\ x = 124 + a \div 32768 /\ x \in 124 .. 126
      \/ 87360 <= a /\ x = 126
  BY BinIndexRanges
<1>2. \/ b < 64 /\ y = b
      \/ 64 <= b /\ b < 320 /\ y = 56 + b \div 8 /\ y \in 64 .. 95
      \/ 320 <= b /\ b < 1344 /\ y = 91 + b \div 64 /\ y \in 96 .. 111
      \/ 1344 <= b /\ b < 5440 /\ y = 110 + b \div 512 /\ y \in 112 .. 120
      \/ 5440 <= b /\ b < 21824 /\ y = 119 + b \div 4096 /\ y \in 120 .. 124
      \/ 21824 <= b /\ b < 87360 /\ y = 124 + b \div 32768 /\ y \in 124 .. 126
      \/ 87360 <= b /\ y = 126
  BY BinIndexRanges
<1> HIDE DEF x, y
<1>3. x \in Nat /\ x > 1 /\ (x < 64 => a = x) /\ (a < 64 => x = a)
  BY <1>1 DEF MINSIZE
<1>4. a \div 8 <= b \div 8 /\ a \div 64 <= b \div 64 /\ a \div 512 <= b \div 512
      /\ a \div 4096 <= b \div 4096 /\ a \div 32768 <= b \div 32768
  OBVIOUS
<1>5. x <= y
  BY <1>1, <1>2, <1>4
<1> QED BY <1>3, <1>5 DEF x, y, LAST_REMAINDER

SameHeads(H, G) == G.head = H.head /\ G.top = H.top

BinsOK(H) == Heads(H) /\ Bins(H.bins, H.head, H.binblocks)

\* The sizes and successors of chunks that are not INITIAL_TOP.
LEMMA ChunkSizeFacts ==
    ASSUME NEW H, NEW p \in Nat
    PROVE  chunksize(H, p) = H.head[p].size /\ next_chunk(H, p) = p + H.head[p].size
  BY DEF chunksize, next_chunk, INITIAL_TOP

LEMMA SetBinFacts ==
    ASSUME NEW H, Heads(H), NEW i, NEW s
    PROVE  LET G == SetBin(H, i, s)
           IN  /\ Heads(G) /\ SameHeads(H, G) /\ G.binblocks = H.binblocks
               /\ G.bins = IF s = << >> THEN Drop(H.bins, {i}) ELSE Put(H.bins, i, s)
<1> DEFINE b == IF s = << >> THEN Drop(H.bins, {i}) ELSE Put(H.bins, i, s)
           G == SetBin(H, i, s)
<1>1. G = [H EXCEPT !.bins = b]
  BY DEF SetBin
<1> HIDE DEF b, G
<1>2. G = [head |-> H.head, bins |-> b, binblocks |-> H.binblocks, top |-> H.top]
  BY <1>1 DEF Heads, Shape
<1>3. G.head = H.head /\ G.top = H.top /\ G.bins = b /\ G.binblocks = H.binblocks /\ Shape(G)
  BY <1>2 DEF Shape
<1>4. Heads(G)
  BY <1>3 DEF Heads
<1> QED BY <1>3, <1>4 DEF SameHeads, b, G

LEMMA BinBlocksFacts ==
    ASSUME NEW H, Heads(H), NEW x, x \subseteq Nat
    PROVE  LET G == [H EXCEPT !.binblocks = x]
           IN  Heads(G) /\ SameHeads(H, G) /\ G.bins = H.bins /\ G.binblocks = x
<1> DEFINE G == [H EXCEPT !.binblocks = x]
<1>1. G = [head |-> H.head, bins |-> H.bins, binblocks |-> x, top |-> H.top]
  BY DEF Heads, Shape
<1> HIDE DEF G
<1>2. G.head = H.head /\ G.top = H.top /\ G.bins = H.bins /\ G.binblocks = x /\ Shape(G)
  BY <1>1 DEF Shape
<1> QED BY <1>2 DEF Heads, SameHeads, G

\* A free chunk is found in its bin.
LEMMA InBinFacts ==
    ASSUME NEW H, BinsOK(H), NEW p
    PROVE  /\ p \in Elems(H.bins) <=> \E j \in DOMAIN H.bins : InBin(H, j, p)
           /\ \A j \in DOMAIN H.bins : InBin(H, j, p) <=> \E k \in DOMAIN H.bins[j] : H.bins[j][k] = p
           /\ InBin(H, LAST_REMAINDER, p) <=> p \in Remainder(H.bins)
<1>1. \A j \in DOMAIN H.bins : InBin(H, j, p) <=> \E k \in DOMAIN H.bins[j] : H.bins[j][k] = p
  BY DEF InBin, Bin
<1>2. p \in Elems(H.bins) <=> \E j \in DOMAIN H.bins : InBin(H, j, p)
  BY <1>1, ElemsFacts
<1>3. InBin(H, LAST_REMAINDER, p) <=> p \in Remainder(H.bins)
  <2>1. CASE LAST_REMAINDER \in DOMAIN H.bins
    <3> DEFINE r == H.bins[LAST_REMAINDER]
    <3>1. r \in Seq(Nat) /\ Len(r) = 1
      BY <2>1 DEF BinsOK, Bins
    <3>2. DOMAIN r = {1}
      BY <3>1, SeqFacts
    <3> QED BY <1>1, <2>1, <3>2 DEF Remainder
  <2>2. CASE LAST_REMAINDER \notin DOMAIN H.bins
    <3>1. Bin(H, LAST_REMAINDER) = << >>
      BY <2>2 DEF Bin
    <3>2. DOMAIN << >> = {}
      OBVIOUS
    <3> QED BY <2>2, <3>1, <3>2 DEF Remainder, InBin
  <2> QED BY <2>1, <2>2
<1> QED BY <1>1, <1>2, <1>3

\* unlink takes a chunk out, and no other.
LEMMA UnlinkFacts ==
    ASSUME NEW H, BinsOK(H), NEW p, p \in Elems(H.bins)
    PROVE  LET G == unlink(H, p)
           IN  /\ BinsOK(G) /\ SameHeads(H, G) /\ G.binblocks = H.binblocks
               /\ Elems(G.bins) = Elems(H.bins) \ {p} /\ Remainder(G.bins) = Remainder(H.bins) \ {p}
<1> DEFINE B == H.bins
           i == CHOOSE j \in DOMAIN H.bins : InBin(H, j, p)
           b == H.bins[i]
           k == CHOOSE j \in DOMAIN b : b[j] = p
           s == SubSeq(b, 1, k - 1) \o SubSeq(b, k + 1, Len(b))
           G == unlink(H, p)
<1>0. Heads(H) /\ Bins(B, H.head, H.binblocks)
  BY DEF BinsOK
<1>1. \E j \in DOMAIN H.bins : InBin(H, j, p)
  BY InBinFacts
<1>2. G = SetBin(H, i, s)
  BY <1>1 DEF unlink
<1>3. i \in DOMAIN H.bins /\ InBin(H, i, p)
  BY <1>1
<1> HIDE DEF i
<1>4. \E j \in DOMAIN b : b[j] = p
  BY <1>3, InBinFacts, ZenonT(30)
<1>5. k \in DOMAIN b /\ b[k] = p
  BY <1>4
<1> HIDE DEF k
<1>6. b \in Seq(Nat) /\ Len(b) \in Nat /\ DOMAIN b = 1 .. Len(b)
  <2>1. b \in Seq(Nat)
    BY <1>0, <1>3 DEF Bins
  <2> QED BY <2>1, SeqFacts
<1>7. /\ s \in Seq(Nat) /\ Len(s) = Len(b) - 1
      /\ \A j \in 1 .. k - 1 : s[j] = b[j]
      /\ \A j \in k .. Len(b) - 1 : s[j] = b[j + 1]
  BY <1>5, <1>6, RemoveAtFacts, ZenonT(30)
<1> HIDE DEF s, G
<1>8. /\ Heads(G) /\ SameHeads(H, G) /\ G.binblocks = H.binblocks
      /\ G.bins = IF s = << >> THEN Drop(H.bins, {i}) ELSE Put(H.bins, i, s)
  BY <1>0, <1>2, SetBinFacts, SMTT(30)
<1> DEFINE B2 == G.bins
<1> HIDE DEF B2
<1>9. /\ DOMAIN B2 = IF s = << >> THEN DOMAIN B \ {i} ELSE DOMAIN B
      /\ B2 = [j \in DOMAIN B2 |-> IF j = i THEN s ELSE B[j]]
  <2>0. B2 = IF s = << >> THEN Drop(B, {i}) ELSE Put(B, i, s)
    BY <1>8 DEF B2
  <2>1. CASE s = << >>
    <3>1. B2 = [c \in DOMAIN B \ {i} |-> B[c]]
      BY <2>0, <2>1 DEF Drop
    <3> QED BY <2>1, <3>1
  <2>2. CASE s # << >>
    <3>1. B2 = [c \in DOMAIN B \cup {i} |-> IF c = i THEN s ELSE B[c]]
      BY <2>0, <2>2 DEF Put
    <3>2. DOMAIN B \cup {i} = DOMAIN B
      BY <1>3
    <3> QED BY <2>2, <3>1, <3>2
  <2> QED BY <2>1, <2>2
<1>10. /\ Bins(B2, H.head, H.binblocks) /\ Elems(B2) = Elems(B) \ {B[i][k]} /\ DOMAIN B2 \subseteq DOMAIN B
       /\ \A j \in DOMAIN B \ {i} : j \in DOMAIN B2 /\ B2[j] = B[j]
       /\ i = LAST_REMAINDER => i \notin DOMAIN B2
  <2>1. Unlinked(B, i, k, s, B2)
    BY <1>3, <1>5, <1>6, <1>7, <1>9 DEF Unlinked
  <2> QED BY <1>0, <2>1, BinsRemove
<1>11. BinsOK(G) /\ Elems(B2) = Elems(B) \ {p}
  BY <1>5, <1>8, <1>10 DEF BinsOK, SameHeads, B2
<1>12. Remainder(B2) = Remainder(B) \ {p}
  <2>1. CASE i = LAST_REMAINDER
    <3>1. Remainder(B2) = {}
      BY <1>10, <2>1 DEF Remainder
    <3>2. p \in Remainder(B)
      BY <1>0, <1>3, <1>5, <2>1, RemainderFacts
    <3> QED BY <3>1, <3>2 DEF Remainder
  <2>2. CASE i # LAST_REMAINDER
    <3>1. p \notin Remainder(B)
      BY <1>0, <1>3, <1>5, <2>2, RemainderFacts
    <3>2. Remainder(B2) = Remainder(B)
      BY <1>10, <2>2 DEF Remainder
    <3> QED BY <3>1, <3>2
  <2> QED BY <2>1, <2>2
<1> QED BY <1>8, <1>11, <1>12 DEF B2, G

\* link_last_remainder replaces the last remainder.
LEMMA LinkLastFacts ==
    ASSUME NEW H, BinsOK(H), NEW p \in Nat, p \notin Elems(H.bins) \ Remainder(H.bins)
    PROVE  LET G == link_last_remainder(H, p)
           IN  /\ BinsOK(G) /\ SameHeads(H, G) /\ G.binblocks = H.binblocks
               /\ Elems(G.bins) = (Elems(H.bins) \ Remainder(H.bins)) \cup {p} /\ Remainder(G.bins) = {p}
<1> DEFINE B == H.bins
           s == <<p>>
           G == link_last_remainder(H, p)
           B2 == G.bins
<1>0. Heads(H) /\ Bins(B, H.head, H.binblocks)
  BY DEF BinsOK
<1>1. G = SetBin(H, LAST_REMAINDER, s)
  BY DEF link_last_remainder
<1>2. s \in Seq(Nat) /\ s # << >>
  OBVIOUS
<1> HIDE DEF G
<1>3. /\ Heads(G) /\ SameHeads(H, G) /\ G.binblocks = H.binblocks
      /\ G.bins = IF s = << >> THEN Drop(H.bins, {LAST_REMAINDER}) ELSE Put(H.bins, LAST_REMAINDER, s)
  BY <1>0, <1>1, SetBinFacts, ZenonT(30)
<1> HIDE DEF B2
<1>4. B2 = [c \in DOMAIN B \cup {LAST_REMAINDER} |-> IF c = LAST_REMAINDER THEN s ELSE B[c]]
  BY <1>2, <1>3 DEF B2, Put
<1>5. s = <<p>>
  OBVIOUS
<1> HIDE DEF s
<1>6. WithBin(B, LAST_REMAINDER, s, B2)
  BY <1>0, <1>2, <1>4 DEF WithBin, Bins
<1>7. /\ Bins(B2, H.head, H.binblocks) /\ Elems(B2) = (Elems(B) \ Remainder(B)) \cup {p}
      /\ Remainder(B2) = {p}
  BY <1>0, <1>2, <1>5, <1>6, BinsLink
<1> QED BY <1>3, <1>7 DEF BinsOK, SameHeads, B2, G

LEMMA ClearLastFacts ==
    ASSUME NEW H, BinsOK(H)
    PROVE  LET G == clear_last_remainder(H)
           IN  /\ BinsOK(G) /\ SameHeads(H, G) /\ G.binblocks = H.binblocks
               /\ Elems(G.bins) = Elems(H.bins) \ Remainder(H.bins) /\ Remainder(G.bins) = {}
               /\ \A i \in DOMAIN H.bins \ {LAST_REMAINDER} : i \in DOMAIN G.bins /\ G.bins[i] = H.bins[i]
<1> DEFINE B == H.bins
           G == clear_last_remainder(H)
           B2 == G.bins
<1>0. Heads(H) /\ Bins(B, H.head, H.binblocks)
  BY DEF BinsOK
<1>1. G = SetBin(H, LAST_REMAINDER, << >>)
  BY DEF clear_last_remainder
<1> HIDE DEF G
<1>3. /\ Heads(G) /\ SameHeads(H, G) /\ G.binblocks = H.binblocks
      /\ G.bins = IF << >> = << >> THEN Drop(H.bins, {LAST_REMAINDER}) ELSE Put(H.bins, LAST_REMAINDER, << >>)
  BY <1>0, <1>1, SetBinFacts
<1> HIDE DEF B2
<1>4. B2 = [c \in DOMAIN B \ {LAST_REMAINDER} |-> B[c]]
  BY <1>3 DEF B2, Drop
<1>5. B \in [DOMAIN B -> Seq(Nat)]
  BY <1>0 DEF Bins
<1>6. DOMAIN B2 = DOMAIN B \ {LAST_REMAINDER} /\ (\A i \in DOMAIN B2 : B2[i] = B[i]) /\ B2 \in [DOMAIN B2 -> Seq(Nat)]
  BY <1>4, <1>5
<1>7. Bins(B2, H.head, H.binblocks) /\ Elems(B2) = Elems(B) \ Remainder(B) /\ Remainder(B2) = {}
  BY <1>0, <1>6, BinsClear
<1> QED BY <1>3, <1>6, <1>7 DEF BinsOK, SameHeads, B2, G

\* frontlink keeps large bins sorted and marks the block of the bin.
LEMMA FrontlinkFacts ==
    ASSUME NEW H, BinsOK(H), Elems(H.bins) \subseteq DOMAIN H.head,
           NEW p \in DOMAIN H.head, p \notin Elems(H.bins), NEW size, size = H.head[p].size, size >= MINSIZE
    PROVE  LET G == frontlink(H, p, size)
           IN  /\ BinsOK(G) /\ SameHeads(H, G)
               /\ Elems(G.bins) = Elems(H.bins) \cup {p} /\ Remainder(G.bins) = Remainder(H.bins)
               /\ \A j \in DOMAIN H.bins : j # bin_index(size) => j \in DOMAIN G.bins /\ G.bins[j] = H.bins[j]
<1> DEFINE B == H.bins
           hd == H.head
           i == bin_index(size)
           b == Bin(H, i)
           T == {j \in DOMAIN b : size < chunksize(H, b[j])}
           k == Cardinality(T)
           s == SubSeq(b, 1, k) \o <<p>> \o SubSeq(b, k + 1, Len(b))
           G == frontlink(H, p, size)
           n == Len(b)
<1>0. Heads(H) /\ Bins(B, hd, H.binblocks)
  BY DEF BinsOK
<1>1. p \in Nat /\ size \in Nat /\ \A x \in Elems(B) \cup {p} : hd[x].size \in Nat
  BY <1>0 DEF Heads, TagRec
<1>2. i \in Nat /\ i # LAST_REMAINDER
  <2>1. i \in Nat /\ i > LAST_REMAINDER
    BY <1>1, BinIndexFacts
  <2> QED BY <2>1 DEF LAST_REMAINDER
<1>3. G = [SetBin(H, i, s) EXCEPT !.binblocks = H.binblocks \cup {Block(i)}]
  <2>2. G = [SetBin(H, i, s) EXCEPT !.binblocks = SetBin(H, i, s).binblocks \cup {Block(i)}]
    BY Zenon DEF frontlink
  <2> HIDE DEF i, s
  <2>1. SetBin(H, i, s).binblocks = H.binblocks
    BY <1>0, SetBinFacts
  <2> QED BY <2>1, <2>2
<1> HIDE DEF i, G
<1>4. Holds(B, i, b) /\ b \in Seq(Nat)
  BY <1>0 DEF Holds, Bin, Bins
<1> HIDE DEF b
<1>5. n \in Nat /\ DOMAIN b = 1 .. n
  BY <1>4, SeqFacts
<1>6. \A j \in 1 .. n : i \in DOMAIN B /\ b = B[i] /\ j \in DOMAIN B[i] /\ b[j] \in Nat /\ chunksize(H, b[j]) = hd[b[j]].size
                        /\ hd[b[j]].size \in Nat
  <2> SUFFICES ASSUME NEW j \in 1 .. n
               PROVE  i \in DOMAIN B /\ b = B[i] /\ j \in DOMAIN B[i] /\ b[j] \in Nat
                      /\ chunksize(H, b[j]) = hd[b[j]].size /\ hd[b[j]].size \in Nat
    OBVIOUS
  <2>1. i \in DOMAIN B
    <3>1. CASE i \notin DOMAIN B
      <4>1. b = << >>
        BY <1>4, <3>1 DEF Holds
      <4>2. n = 0
        BY <4>1
      <4> QED BY <4>2
    <3> QED BY <3>1
  <2>2. b = B[i] /\ j \in DOMAIN B[i]
    BY <1>4, <1>5, <2>1 DEF Holds
  <2>3. b[j] \in Nat
    BY <1>4, <1>5, SeqFacts
  <2>4. b[j] \in Elems(B)
    BY <2>1, <2>2, InElems
  <2> QED BY <1>1, <2>1, <2>2, <2>3, <2>4, ChunkSizeFacts
<1>7. T \subseteq 1 .. n /\ \A x, y \in 1 .. n : x < y /\ y \in T => x \in T
  <2>1. T \subseteq 1 .. n
    BY <1>5
  <2>2. ASSUME NEW x \in 1 .. n, NEW y \in 1 .. n, x < y, y \in T PROVE x \in T
    <3>1. i \in DOMAIN B /\ b = B[i] /\ x \in DOMAIN B[i] /\ y \in DOMAIN B[i]
      BY <1>6
    <3>2. hd[B[i][x]].size >= hd[B[i][y]].size
      BY <1>0, <2>2, <3>1 DEF Bins
    <3>3. size < hd[b[y]].size
      BY <1>6, <2>2
    <3>a. hd[b[x]].size \in Nat /\ hd[b[y]].size \in Nat /\ chunksize(H, b[x]) = hd[b[x]].size
      BY <1>6
    <3>b. hd[b[x]].size >= hd[b[y]].size
      BY <3>1, <3>2
    <3> HIDE DEF b
    <3>4. size < chunksize(H, b[x])
      BY <1>1, <3>a, <3>b, <3>3
    <3> QED BY <1>5, <3>4
  <2> QED BY <2>1, <2>2
<1>8. k \in 0 .. n /\ T = 1 .. k
  BY <1>5, <1>7, Prefix
<1>9. PlaceOf(hd, p, b, k)
  <2>1. \A j \in 1 .. n : j \in T <=> hd[p].size < hd[b[j]].size
    BY <1>5, <1>6
  <2> HIDE DEF T, k
  <2>2. ASSUME NEW j \in 1 .. k PROVE hd[p].size < hd[b[j]].size
    BY <1>8, <2>1
  <2>3. ASSUME NEW j \in k + 1 .. n PROVE ~(hd[p].size < hd[b[j]].size)
    <3>1. j \in 1 .. n /\ j \notin 1 .. k
      BY <1>5, <1>8
    <3> QED BY <1>8, <2>1, <3>1
  <2> QED BY <2>2, <2>3 DEF PlaceOf
<1> HIDE DEF T, k
<1>10. s \in Seq(Nat) /\ Inserted(b, k, p, s) /\ s # << >>
  <2>1. /\ s \in Seq(Nat) /\ Len(s) = Len(b) + 1 /\ s[k + 1] = p
        /\ \A j \in 1 .. k : s[j] = b[j]
        /\ \A j \in k + 2 .. Len(b) + 1 : s[j] = b[j - 1]
    BY <1>1, <1>4, <1>8, InsertAt
  <2> HIDE DEF s
  <2>2. Len(s) # 0
    BY <1>5, <2>1
  <2> QED BY <2>1, <2>2, SeqFacts DEF Inserted
<1> HIDE DEF s
<1> DEFINE G1 == SetBin(H, i, s)
           B2 == G.bins
<1>11. /\ Heads(G1) /\ SameHeads(H, G1) /\ G1.binblocks = H.binblocks
       /\ G1.bins = IF s = << >> THEN Drop(B, {i}) ELSE Put(B, i, s)
  BY <1>0, SetBinFacts
<1> HIDE DEF G1
<1>12. Heads(G) /\ SameHeads(G1, G) /\ G.bins = G1.bins /\ G.binblocks = H.binblocks \cup {Block(i)}
  <2>1. G = [G1 EXCEPT !.binblocks = H.binblocks \cup {Block(i)}]
    BY <1>3 DEF G1
  <2>2. i \in Nat
    BY <1>2
  <2>3. Block(i) \in Nat
    <3> HIDE DEF i
    <3> QED BY <2>2 DEF Block
  <2>4. H.binblocks \cup {Block(i)} \subseteq Nat
    <3> HIDE DEF i
    <3> QED BY <1>0, <2>3 DEF Heads
  <2> QED BY <1>11, <2>1, <2>4, BinBlocksFacts
<1>13. SameHeads(H, G)
  BY <1>11, <1>12 DEF SameHeads
<1> HIDE DEF B2
<1>14. B2 = [c \in DOMAIN B \cup {i} |-> IF c = i THEN s ELSE B[c]]
  BY <1>10, <1>11, <1>12 DEF B2, Put
<1>15. WithBin(B, i, s, B2)
  BY <1>0, <1>10, <1>14 DEF WithBin, Bins
<1>16. /\ Bins(B2, hd, H.binblocks \cup {Block(i)}) /\ Elems(B2) = Elems(B) \cup {p}
       /\ \A j \in DOMAIN B \ {i} : j \in DOMAIN B2 /\ B2[j] = B[j]
  <2>1. i = bin_index(hd[p].size)
    BY DEF i
  <2>2. Linked(B, hd, p, i, b, k, s, B2)
    BY <1>0, <1>1, <1>2, <1>4, <1>5, <1>8, <1>9, <1>10, <1>15, <2>1 DEF Linked
  <2>3. Bins(B, hd, H.binblocks)
    BY <1>0
  <2> HIDE DEF B, hd, n
  <2> DEFINE blk == H.binblocks
  <2> HIDE DEF blk
  <2>4. Bins(B, hd, blk)
    BY <2>3 DEF blk
  <2>5. /\ Bins(B2, hd, blk \cup {Block(i)}) /\ Elems(B2) = Elems(B) \cup {p}
        /\ \A j \in DOMAIN B \ {i} : j \in DOMAIN B2 /\ B2[j] = B[j]
    <3> HIDE DEF i, b, G
    <3>1. BinsPut(B, hd, blk, p, i, B2)
      BY ONLY <2>2, <2>4, BinsInsert
    <3> QED BY ONLY <3>1 DEF BinsPut
  <2> QED BY <2>5 DEF blk
<1>17. Remainder(B2) = Remainder(B)
  <2>1. LAST_REMAINDER \in DOMAIN B2 <=> LAST_REMAINDER \in DOMAIN B
    BY <1>2, <1>14
  <2> QED BY <1>2, <1>16, <2>1 DEF Remainder
<1> QED BY <1>12, <1>13, <1>16, <1>17 DEF BinsOK, SameHeads, B2, G, i

-----------------------------------------------------------------------------
(* Sound heaps.                                                            *)

\* No chunk takes in a word of W.
Avoids(hd, W) == \A c \in DOMAIN hd, w \in W : w < c \/ c + hd[c].size <= w

\* H is a sound heap in which callers hold U, and other callers of sbrk the words W.
HeapOK(H, U, W) ==
    /\ Heads(H)
    /\ Bins(H.bins, H.head, H.binblocks)
    /\ Tiles(H.head, Elems(H.bins), U, H.top)
    /\ Avoids(H.head, W) /\ W \subseteq Nat

TopEnd(H) == H.top + H.head[H.top].size

\* R is the chunks from lo up to hi.
Span(hd, R, lo, hi) == R \subseteq DOMAIN hd /\ lo \in R /\ \A c \in DOMAIN hd : c \in R <=> lo <= c /\ c < hi

\* No word of W is between lo and hi.
Spare(W, lo, hi) == \A w \in W : w < lo \/ hi <= w

\* What the definition of Tiles says of sizes and places.
LEMMA Sized ==
    ASSUME NEW hd, NEW F, NEW U, NEW t, Tiles(hd, F, U, t)
    PROVE  /\ DOMAIN hd \subseteq Nat /\ t \in DOMAIN hd /\ F \subseteq DOMAIN hd /\ U \subseteq DOMAIN hd
           /\ \A c \in DOMAIN hd : hd[c] \in TagRec /\ hd[c].size \in Nat /\ hd[c].size >= 1 /\ c <= t /\ hd[c].prev_size \in Nat
           /\ \A c, d \in DOMAIN hd : c < d => c + hd[c].size <= d
  BY DEF Tiles, TagRec

\* A chunk is a span of memory that nobody else holds.
LEMMA SpanOne ==
    ASSUME NEW hd, NEW F, NEW U, NEW t, Tiles(hd, F, U, t), NEW W, W \subseteq Nat, Avoids(hd, W),
           NEW c \in DOMAIN hd
    PROVE  Span(hd, {c}, c, c + hd[c].size) /\ Spare(W, c, c + hd[c].size)
<1>1. /\ DOMAIN hd \subseteq Nat
      /\ \A d \in DOMAIN hd : hd[d].size \in Nat /\ hd[d].size >= 1
      /\ \A d, e \in DOMAIN hd : d < e => d + hd[d].size <= e
  BY Sized
<1>2. Span(hd, {c}, c, c + hd[c].size)
  BY <1>1 DEF Span
<1>3. Spare(W, c, c + hd[c].size)
  BY DEF Avoids, Spare
<1> QED BY <1>2, <1>3

\* A span and the chunk where it ends are a span.
LEMMA SpanJoin ==
    ASSUME NEW hd, NEW F, NEW U, NEW t, Tiles(hd, F, U, t), NEW W, W \subseteq Nat, Avoids(hd, W),
           NEW R, NEW lo, NEW c \in DOMAIN hd, Span(hd, R, lo, c), Spare(W, lo, c)
    PROVE  Span(hd, R \cup {c}, lo, c + hd[c].size) /\ Spare(W, lo, c + hd[c].size)
<1>1. /\ DOMAIN hd \subseteq Nat
      /\ \A d \in DOMAIN hd : hd[d].size \in Nat /\ hd[d].size >= 1
      /\ \A d, e \in DOMAIN hd : d < e => d + hd[d].size <= e
  BY Sized
<1>2. lo \in DOMAIN hd /\ lo < c
  BY <1>1 DEF Span
<1>3. Span(hd, R \cup {c}, lo, c + hd[c].size)
  <2>1. ASSUME NEW d \in DOMAIN hd PROVE d \in R \cup {c} <=> lo <= d /\ d < c + hd[c].size
    <3>1. d \in R <=> lo <= d /\ d < c
      BY DEF Span
    <3>2. d > c => d >= c + hd[c].size
      BY <1>1
    <3>3. d \in Nat /\ c \in Nat /\ lo \in Nat /\ hd[c].size \in Nat /\ hd[c].size >= 1
      BY <1>1, <1>2
    <3> QED BY <1>2, <3>1, <3>2, <3>3
  <2> QED BY <2>1 DEF Span
<1>4. Spare(W, lo, c + hd[c].size)
  <2>1. ASSUME NEW w \in W PROVE w < lo \/ c + hd[c].size <= w
    <3>1. w < lo \/ c <= w
      BY DEF Spare
    <3>2. w < c \/ c + hd[c].size <= w
      BY DEF Avoids
    <3> QED BY <1>1, <1>2, <3>1, <3>2
  <2> QED BY <2>1 DEF Spare
<1> QED BY <1>3, <1>4

\* The chunk below one whose PREV_INUSE bit is clear.
LEMMA FreeBelow ==
    ASSUME NEW hd, NEW F, NEW U, NEW t, Tiles(hd, F, U, t), NEW p \in DOMAIN hd, ~hd[p].prev_inuse
    PROVE  LET q == p - hd[p].prev_size
           IN  q \in F /\ q \in DOMAIN hd /\ hd[q].size = hd[p].prev_size /\ q + hd[q].size = p /\ q < p /\ q # t /\ q \notin U
<1> DEFINE q == p - hd[p].prev_size
<1>1. q \in F /\ hd[q].size = hd[p].prev_size /\ F \cap U = {} /\ t \notin F
  BY DEF Tiles
<1>2. q \in DOMAIN hd /\ q \in Nat /\ p \in Nat /\ hd[p].prev_size \in Nat /\ hd[q].size >= 1
  BY <1>1, Sized
<1> QED BY <1>1, <1>2

\* What inuse reads tells a free chunk.
LEMMA InuseTells ==
    ASSUME NEW hd, NEW F, NEW U, NEW t, Tiles(hd, F, U, t), NEW c \in DOMAIN hd, c % 2 = 0, c # t
    PROVE  LET n == c + hd[c].size
           IN  n \in DOMAIN hd /\ (c \in F <=> ~hd[n].prev_inuse)
<1> DEFINE n == c + hd[c].size
<1>1. n \in DOMAIN hd
  BY DEF Tiles
<1>2. ASSUME c \in F PROVE ~hd[n].prev_inuse
  <2>1. c \notin U /\ (hd[n].prev_inuse <=> c \in U)
    BY <1>2 DEF Tiles
  <2> QED BY <2>1
<1>3. ASSUME ~hd[n].prev_inuse PROVE c \in F
  <2> DEFINE f == n - hd[n].prev_size
  <2>1. f \in F /\ f \in DOMAIN hd /\ f + hd[f].size = n
    BY <1>1, <1>3, FreeBelow
  <2> HIDE DEF f
  <2>2. /\ DOMAIN hd \subseteq Nat
        /\ \A d \in DOMAIN hd : hd[d].size \in Nat /\ hd[d].size >= 1
        /\ \A d, e \in DOMAIN hd : d < e => d + hd[d].size <= e
    BY Sized
  <2>3. f = c
    BY <2>1, <2>2
  <2> QED BY <2>1, <2>3
<1> QED BY <1>1, <1>2, <1>3

\* G is H with the chunks of R made anew (see Recut).
HeapCut(H, U, W, G, U2, R, lo, mid, hi, role) ==
    /\ mid \in Nat /\ hi \in Nat /\ role \in {"F", "U", "T"}
    /\ lo <= mid /\ hi - mid >= MINSIZE /\ (lo < mid => mid - lo >= MINSIZE)
    /\ lo % 2 = 0 /\ mid % 2 = 0 /\ hi % 2 = 0
    /\ Span(H.head, R, lo, hi) /\ Spare(W, lo, hi)
    /\ DOMAIN G.head = (DOMAIN H.head \ R) \cup {lo, mid}
    /\ \A c \in DOMAIN G.head : c \notin {lo, mid, hi} => G.head[c] = H.head[c]
    /\ G.head[mid].size = hi - mid
    /\ lo < mid => G.head[lo].size = mid - lo /\ G.head[mid].prev_inuse
    /\ G.head[lo].prev_inuse <=> H.head[lo].prev_inuse
    /\ ~H.head[lo].prev_inuse => G.head[lo].prev_size = H.head[lo].prev_size
    /\ role = "T" => H.top \in R /\ \A c \in DOMAIN H.head : c < hi
    /\ role # "T" => /\ hi \in DOMAIN H.head /\ H.top \notin R
                     /\ G.head[hi].size = H.head[hi].size
                     /\ G.head[hi].prev_inuse <=> role = "U"
    /\ role = "F" => G.head[hi].prev_size = hi - mid /\ hi \notin Elems(H.bins) /\ hi # H.top
    /\ role # "U" /\ lo = mid => H.head[lo].prev_inuse
    /\ Elems(G.bins) = (Elems(H.bins) \ R) \cup (IF role = "F" THEN {mid} ELSE {})
    /\ U2 = (U \ R) \cup (IF lo < mid THEN {lo} ELSE {}) \cup (IF role = "U" THEN {mid} ELSE {})
    /\ G.top = IF role = "T" THEN mid ELSE H.top

\* A sound heap with a span cut anew, and its bins set right, is sound.
LEMMA HeapRecut ==
    ASSUME NEW H, NEW U, NEW W, HeapOK(H, U, W), NEW G, BinsOK(G),
           NEW U2, NEW R, NEW lo, NEW mid, NEW hi, NEW role,
           HeapCut(H, U, W, G, U2, R, lo, mid, hi, role)
    PROVE  /\ HeapOK(G, U2, W)
           /\ \A c \in DOMAIN H.head \ R : c \in DOMAIN G.head /\ G.head[c].size = H.head[c].size
           /\ TopEnd(G) = IF role = "T" THEN hi ELSE TopEnd(H)
<1> DEFINE hd == H.head
           hd2 == G.head
           F == Elems(H.bins)
           t == H.top
<1>1. Tiles(hd, F, U, t) /\ Avoids(hd, W) /\ W \subseteq Nat
  BY DEF HeapOK
<1>2. /\ DOMAIN hd \subseteq Nat /\ t \in DOMAIN hd /\ F \subseteq DOMAIN hd /\ U \subseteq DOMAIN hd
      /\ \A c \in DOMAIN hd : hd[c].size \in Nat /\ hd[c].size >= 1 /\ c <= t
  BY <1>1, Sized
<1>3. Span(hd, R, lo, hi) /\ Spare(W, lo, hi)
  BY DEF HeapCut
<1>4. lo \in DOMAIN hd /\ lo \in Nat /\ R \subseteq DOMAIN hd /\ \A c \in DOMAIN hd : c \notin R <=> c < lo \/ hi <= c
  <2>1. lo \in DOMAIN hd /\ R \subseteq DOMAIN hd /\ \A c \in DOMAIN hd : c \in R <=> lo <= c /\ c < hi
    BY <1>3 DEF Span
  <2>2. lo \in Nat /\ hi \in Nat
    BY <1>2, <2>1 DEF HeapCut
  <2> QED BY <1>2, <2>1, <2>2
<1>5. hd2 \in [DOMAIN hd2 -> TagRec]
  BY DEF BinsOK, Heads
<1>6. DOMAIN hd2 = {c \in DOMAIN hd : c < lo \/ hi <= c} \cup {lo, mid}
  <2>1. DOMAIN hd2 = (DOMAIN hd \ R) \cup {lo, mid}
    BY DEF HeapCut
  <2> QED BY <1>4, <2>1
<1>7. Elems(G.bins) = {c \in F : c < lo \/ hi <= c} \cup (IF role = "F" THEN {mid} ELSE {})
  <2>1. Elems(G.bins) = (F \ R) \cup (IF role = "F" THEN {mid} ELSE {})
    BY DEF HeapCut
  <2>2. F \ R = {c \in F : c < lo \/ hi <= c}
    BY <1>2, <1>4
  <2> QED BY <2>1, <2>2
<1>8. U2 = {c \in U : c < lo \/ hi <= c} \cup (IF lo < mid THEN {lo} ELSE {}) \cup (IF role = "U" THEN {mid} ELSE {})
  <2>1. U2 = (U \ R) \cup (IF lo < mid THEN {lo} ELSE {}) \cup (IF role = "U" THEN {mid} ELSE {})
    BY DEF HeapCut
  <2>2. U \ R = {c \in U : c < lo \/ hi <= c}
    BY <1>2, <1>4
  <2> QED BY <2>1, <2>2
<1>9. role = "T" => t >= lo /\ \A c \in DOMAIN hd : c < hi
  BY <1>2, <1>4 DEF HeapCut
<1>10. role # "T" => ~(lo <= t /\ t < hi)
  <2>1. role # "T" => t \notin R
    BY DEF HeapCut
  <2> QED BY <1>2, <1>3, <2>1 DEF Span
<1>11. Recut(hd, F, U, t, lo, mid, hi, role, hd2, Elems(G.bins), U2, G.top)
  BY <1>4, <1>5, <1>6, <1>7, <1>8, <1>9, <1>10 DEF Recut, HeapCut
<1>12. Tiles(hd2, Elems(G.bins), U2, G.top)
  BY <1>1, <1>11, Rerun
<1>13. /\ lo <= mid /\ mid \in Nat /\ hi \in Nat /\ hd2[mid].size = hi - mid /\ hi - mid >= 4
       /\ lo < mid => hd2[lo].size = mid - lo
       /\ role # "T" => hi \in DOMAIN hd /\ hd2[hi].size = hd[hi].size
       /\ G.top = IF role = "T" THEN mid ELSE t
       /\ \A c \in DOMAIN hd2 : c \notin {lo, mid, hi} => hd2[c] = hd[c]
       /\ role = "T" => \A c \in DOMAIN hd : c < hi
       /\ role \in {"F", "U", "T"}
  BY DEF HeapCut, MINSIZE
<1>14. ASSUME NEW c \in DOMAIN hd \ R PROVE c \in DOMAIN hd2 /\ hd2[c].size = hd[c].size
  <2>1. c \in DOMAIN hd2
    BY <1>4, <1>6
  <2>2. c < lo \/ hi <= c
    BY <1>4
  <2>a. lo \in Nat /\ mid \in Nat /\ hi \in Nat /\ lo <= mid /\ mid + 4 <= hi /\ c \in Nat
    BY <1>2, <1>4, <1>13
  <2>3. c \in Nat /\ c # lo /\ c # mid
    BY <2>a, <2>2
  <2>4. c = hi => role # "T"
    BY <1>9, <2>a
  <2> QED BY <1>13, <2>1, <2>3, <2>4
<1>15. Avoids(hd2, W)
  <2>1. ASSUME NEW c \in DOMAIN hd2, NEW w \in W PROVE w < c \/ c + hd2[c].size <= w
    <3>1. CASE c \in DOMAIN hd \ R
      BY <1>1, <1>14, <3>1 DEF Avoids
    <3>2. CASE c = mid \/ c = lo
      <4>1. w < lo \/ hi <= w
        BY <1>3 DEF Spare
      <4>2. w \in Nat
        BY <1>1
      <4>3. CASE c = mid
        BY <1>4, <1>13, <4>1, <4>2, <4>3
      <4>4. CASE c = lo /\ lo < mid
        BY <1>4, <1>13, <4>1, <4>2, <4>4
      <4> QED BY <1>4, <1>13, <3>2, <4>3, <4>4
    <3>3. DOMAIN hd2 = (DOMAIN hd \ R) \cup {lo, mid}
      BY DEF HeapCut
    <3> QED BY <3>1, <3>2, <3>3
  <2> QED BY <2>1 DEF Avoids
<1>16. HeapOK(G, U2, W)
  BY <1>1, <1>12, <1>15 DEF HeapOK, BinsOK
<1>17. TopEnd(G) = IF role = "T" THEN hi ELSE TopEnd(H)
  <2>1. CASE role = "T"
    BY <1>13, <2>1 DEF TopEnd
  <2>2. CASE role # "T"
    <3>1. t \in DOMAIN hd \ R
      BY <1>2, <2>2 DEF HeapCut
    <3>2. hd2[t].size = hd[t].size /\ G.top = t
      BY <1>13, <1>14, <2>2, <3>1
    <3> QED BY <2>2, <3>2 DEF TopEnd
  <2> QED BY <2>1, <2>2
<1> QED BY <1>14, <1>16, <1>17

HeadUsed(H, G, p, size) ==
    /\ Heads(G) /\ DOMAIN G.head = DOMAIN H.head \cup {p} /\ SameBins(H, G) /\ G.top = H.top
    /\ G.head[p].size = size /\ G.head[p].prev_inuse
    /\ p \in DOMAIN H.head => G.head[p].prev_size = H.head[p].prev_size
    /\ \A c \in DOMAIN H.head \ {p} : G.head[c] = H.head[c]

HeadFree(H, G, p, size) ==
    /\ Heads(G) /\ DOMAIN G.head = DOMAIN H.head \cup {p} /\ SameBins(H, G) /\ G.top = H.top
    /\ G.head[p].size = size /\ ~G.head[p].prev_inuse
    /\ p \in DOMAIN H.head => G.head[p].prev_size = H.head[p].prev_size
    /\ \A c \in DOMAIN H.head \ {p} : G.head[c] = H.head[c]

LEMMA SetHeadUsed ==
    ASSUME NEW H, Heads(H), NEW p, p \in Nat, NEW size, size \in Nat
    PROVE  HeadUsed(H, set_head(H, p, size, PREV_INUSE), p, size)
<1> DEFINE G(b) == set_head(H, p, size, b)
<1>1. PICK b \in BOOLEAN : b = PREV_INUSE /\ b
  BY DEF PREV_INUSE
<1>2. G(PREV_INUSE) = G(b)
  BY <1>1
<1>3. LET K == G(b)
      IN  /\ Heads(K) /\ DOMAIN K.head = DOMAIN H.head \cup {p} /\ SameBins(H, K) /\ K.top = H.top
          /\ K.head[p].size = size /\ (K.head[p].prev_inuse <=> b)
          /\ p \in DOMAIN H.head => K.head[p].prev_size = H.head[p].prev_size
          /\ \A c \in DOMAIN H.head \ {p} : K.head[c] = H.head[c]
  BY SetHeadFacts
<1> HIDE DEF G
<1>4. HeadUsed(H, G(PREV_INUSE), p, size)
  BY <1>1, <1>2, <1>3 DEF HeadUsed
<1> QED BY <1>4 DEF G

LEMMA SetHeadFree ==
    ASSUME NEW H, Heads(H), NEW p, p \in Nat, NEW size, size \in Nat
    PROVE  HeadFree(H, set_head(H, p, size, CLEAR), p, size)
<1> DEFINE G(b) == set_head(H, p, size, b)
<1>1. PICK b \in BOOLEAN : b = CLEAR /\ ~b
  BY DEF CLEAR
<1>2. G(CLEAR) = G(b)
  BY <1>1
<1>3. LET K == G(b)
      IN  /\ Heads(K) /\ DOMAIN K.head = DOMAIN H.head \cup {p} /\ SameBins(H, K) /\ K.top = H.top
          /\ K.head[p].size = size /\ (K.head[p].prev_inuse <=> b)
          /\ p \in DOMAIN H.head => K.head[p].prev_size = H.head[p].prev_size
          /\ \A c \in DOMAIN H.head \ {p} : K.head[c] = H.head[c]
  BY SetHeadFacts
<1> HIDE DEF G
<1>4. HeadFree(H, G(CLEAR), p, size)
  BY <1>1, <1>2, <1>3 DEF HeadFree
<1> QED BY <1>4 DEF G

LEMMA EvenSum ==
    ASSUME NEW a \in Nat, NEW b \in Nat, a % 2 = 0, b % 2 = 0
    PROVE  (a + b) % 2 = 0
  OBVIOUS

\* What a sound heap is made of.
LEMMA HeapParts ==
    ASSUME NEW H, NEW U, NEW W, HeapOK(H, U, W)
    PROVE  /\ BinsOK(H) /\ Heads(H) /\ Tiles(H.head, Elems(H.bins), U, H.top) /\ Avoids(H.head, W) /\ W \subseteq Nat
           /\ DOMAIN H.head \subseteq Nat /\ H.top \in DOMAIN H.head /\ H.top \notin Elems(H.bins) /\ H.top \notin U
           /\ H.top % 2 = 0 /\ H.head[H.top].size >= MINSIZE /\ H.head[H.top].prev_inuse
           /\ Elems(H.bins) \subseteq DOMAIN H.head /\ U \subseteq DOMAIN H.head /\ Elems(H.bins) \cap U = {}
           /\ \A c \in DOMAIN H.head : H.head[c].size \in Nat /\ H.head[c].size >= 1 /\ c <= H.top /\ H.head[c].prev_size \in Nat
<1>1. BinsOK(H) /\ Heads(H) /\ Tiles(H.head, Elems(H.bins), U, H.top) /\ Avoids(H.head, W) /\ W \subseteq Nat
  BY DEF HeapOK, BinsOK
<1>2. H.head[H.top].prev_inuse
  BY <1>1, TopPrevInuse
<1>3. H.top \notin Elems(H.bins) /\ H.top \notin U /\ H.top % 2 = 0 /\ H.head[H.top].size >= MINSIZE /\ Elems(H.bins) \cap U = {}
  BY <1>1 DEF Tiles
<1> QED BY <1>1, <1>2, <1>3, Sized

\* A free chunk: its neighbours are in use and know of it.
LEMMA FreeChunk ==
    ASSUME NEW H, NEW U, NEW W, HeapOK(H, U, W), NEW v, v \in Elems(H.bins)
    PROVE  LET n == v + H.head[v].size
           IN  /\ v \in DOMAIN H.head /\ v \in Nat /\ v # H.top /\ v \notin U /\ v % 2 = 0 /\ H.head[v].prev_inuse
               /\ H.head[v].size \in Nat /\ H.head[v].size % 2 = 0 /\ H.head[v].size >= MINSIZE
               /\ n \in DOMAIN H.head /\ n \in Nat /\ n % 2 = 0 /\ n # H.top /\ n \notin Elems(H.bins) /\ v < n
               /\ ~H.head[n].prev_inuse /\ H.head[n].prev_size = H.head[v].size
               /\ Span(H.head, {v}, v, n) /\ Spare(W, v, n)
<1> DEFINE hd == H.head
           n == v + hd[v].size
<1>1. /\ Tiles(hd, Elems(H.bins), U, H.top) /\ Avoids(hd, W) /\ W \subseteq Nat
      /\ DOMAIN hd \subseteq Nat /\ H.top \in DOMAIN hd /\ H.top \notin Elems(H.bins)
      /\ Elems(H.bins) \subseteq DOMAIN hd /\ Elems(H.bins) \cap U = {}
      /\ \A c \in DOMAIN hd : hd[c].size \in Nat /\ hd[c].size >= 1
  BY HeapParts
<1>2. /\ v % 2 = 0 /\ hd[v].size % 2 = 0 /\ hd[v].size >= MINSIZE /\ v \in DOMAIN hd
      /\ n \in DOMAIN hd /\ (hd[n].prev_inuse <=> v \in U)
      /\ hd[n].prev_size = hd[v].size /\ n \notin Elems(H.bins) /\ n # H.top /\ hd[v].prev_inuse
  BY <1>1 DEF Tiles
<1>3. v \in Nat /\ hd[v].size \in Nat /\ n \in Nat /\ v < n
  <2>1. v \in Nat /\ hd[v].size \in Nat /\ hd[v].size >= 1
    BY <1>1, <1>2
  <2> QED BY <2>1
<1>4. n % 2 = 0
  <2>1. v \in Nat /\ hd[v].size \in Nat /\ v % 2 = 0 /\ hd[v].size % 2 = 0
    BY <1>2, <1>3
  <2> QED BY <2>1, EvenSum
<1>6. v \in DOMAIN hd /\ v # H.top /\ v \notin U
  BY <1>1
<1>5. Span(hd, {v}, v, n) /\ Spare(W, v, n)
  BY <1>1, <1>6, SpanOne
<1>7. ~hd[n].prev_inuse
  BY <1>2, <1>6
<1> QED BY <1>2, <1>3, <1>4, <1>5, <1>6, <1>7

\* A block that a caller holds.
LEMMA UsedChunk ==
    ASSUME NEW H, NEW U, NEW W, HeapOK(H, U, W), NEW v, v \in U
    PROVE  LET n == v + H.head[v].size
           IN  /\ v \in DOMAIN H.head /\ v \in Nat /\ v # H.top /\ v \notin Elems(H.bins) /\ v % 2 = 0
               /\ H.head[v].size \in Nat /\ H.head[v].size % 2 = 0 /\ H.head[v].size >= MINSIZE
               /\ n \in DOMAIN H.head /\ n \in Nat /\ n % 2 = 0 /\ v < n
               /\ H.head[n].prev_inuse
               /\ Span(H.head, {v}, v, n) /\ Spare(W, v, n)
<1> DEFINE hd == H.head
           n == v + hd[v].size
<1>1. /\ Tiles(hd, Elems(H.bins), U, H.top) /\ Avoids(hd, W) /\ W \subseteq Nat
      /\ DOMAIN hd \subseteq Nat /\ H.top \in DOMAIN hd /\ H.top \notin U
      /\ U \subseteq DOMAIN hd /\ Elems(H.bins) \cap U = {}
      /\ \A c \in DOMAIN hd : hd[c].size \in Nat /\ hd[c].size >= 1
  BY HeapParts
<1>2. /\ v % 2 = 0 /\ hd[v].size % 2 = 0 /\ hd[v].size >= MINSIZE /\ v \in DOMAIN hd
      /\ n \in DOMAIN hd /\ (hd[n].prev_inuse <=> v \in U)
  BY <1>1 DEF Tiles
<1>3. v \in Nat /\ hd[v].size \in Nat /\ n \in Nat /\ v < n
  <2>1. v \in Nat /\ hd[v].size \in Nat /\ hd[v].size >= 1
    BY <1>1, <1>2
  <2> QED BY <2>1
<1>4. n % 2 = 0
  <2>1. v \in Nat /\ hd[v].size \in Nat /\ v % 2 = 0 /\ hd[v].size % 2 = 0
    BY <1>2, <1>3
  <2> QED BY <2>1, EvenSum
<1>6. v \in DOMAIN hd /\ v # H.top /\ v \notin Elems(H.bins)
  BY <1>1
<1>5. Span(hd, {v}, v, n) /\ Spare(W, v, n)
  BY <1>1, <1>6, SpanOne
<1> QED BY <1>2, <1>3, <1>4, <1>5, <1>6

\* Bins only depend on the sizes of the chunks in them.
LEMMA BinsKept ==
    ASSUME NEW H, BinsOK(H), NEW G, Heads(G), SameBins(H, G),
           \A x \in Elems(H.bins) \ Remainder(H.bins) : G.head[x].size = H.head[x].size
    PROVE  BinsOK(G) /\ Elems(G.bins) = Elems(H.bins) /\ Remainder(G.bins) = Remainder(H.bins)
<1>1. G.bins = H.bins /\ G.binblocks = H.binblocks /\ Bins(H.bins, H.head, H.binblocks)
  BY DEF SameBins, BinsOK
<1>2. Bins(H.bins, G.head, H.binblocks)
  BY <1>1, BinsSameSizes
<1> QED BY <1>1, <1>2 DEF BinsOK

\* A free chunk is given away whole.
LEMMA TakeWholeFacts ==
    ASSUME NEW H, NEW U, NEW W, HeapOK(H, U, W), NEW v, v \in Elems(H.bins)
    PROVE  LET G == TakeWhole(H, v).h
           IN  /\ HeapOK(G, U \cup {v}, W) /\ TopEnd(G) = TopEnd(H)
               /\ DOMAIN G.head = DOMAIN H.head
               /\ \A c \in DOMAIN H.head : G.head[c].size = H.head[c].size
               /\ TakeWhole(H, v).victim = v
<1> DEFINE n == v + H.head[v].size
           G1 == unlink(H, v)
           G == set_inuse(G1, n)
<1>1. TakeWhole(H, v).h = G /\ TakeWhole(H, v).victim = v
  <2>1. v \in Nat
    BY FreeChunk
  <2>2. next_chunk(H, v) = n
    BY <2>1, ChunkSizeFacts
  <2> QED BY <2>2 DEF TakeWhole
<1>2. /\ v \in DOMAIN H.head /\ v \in Nat /\ v # H.top /\ v \notin U /\ v % 2 = 0 /\ H.head[v].prev_inuse
      /\ H.head[v].size \in Nat /\ H.head[v].size % 2 = 0 /\ H.head[v].size >= MINSIZE
      /\ n \in DOMAIN H.head /\ n \in Nat /\ n % 2 = 0 /\ n # H.top /\ n \notin Elems(H.bins) /\ v < n
      /\ Span(H.head, {v}, v, n) /\ Spare(W, v, n)
  BY FreeChunk
<1>3. BinsOK(H) /\ U \subseteq DOMAIN H.head
  BY HeapParts
<1>4. /\ BinsOK(G1) /\ SameHeads(H, G1) /\ G1.binblocks = H.binblocks /\ Elems(G1.bins) = Elems(H.bins) \ {v}
  BY <1>3, UnlinkFacts
<1> HIDE DEF G1
<1>5. G1.head = H.head /\ G1.top = H.top /\ Heads(G1)
  BY <1>4 DEF SameHeads, BinsOK
<1>a. n - v = H.head[v].size
  BY <1>2
<1> HIDE DEF n
<1>6. /\ Heads(G) /\ DOMAIN G.head = DOMAIN G1.head /\ SameBins(G1, G) /\ G.top = G1.top
      /\ G.head[n].size = G1.head[n].size /\ G.head[n].prev_inuse
      /\ \A c \in DOMAIN G1.head \ {n} : G.head[c] = G1.head[c]
  BY <1>2, <1>5, SetInuseFacts
<1> HIDE DEF G
<1>7. DOMAIN G.head = DOMAIN H.head /\ \A c \in DOMAIN H.head : G.head[c].size = H.head[c].size
  <2>1. ASSUME NEW c \in DOMAIN H.head PROVE G.head[c].size = H.head[c].size
    BY <1>5, <1>6
  <2> QED BY <1>5, <1>6, <2>1
<1>8. BinsOK(G) /\ Elems(G.bins) = Elems(H.bins) \ {v}
  <2>1. Elems(G1.bins) \subseteq DOMAIN H.head
    BY <1>4, HeapParts
  <2>2. \A x \in Elems(G1.bins) \ Remainder(G1.bins) : G.head[x].size = G1.head[x].size
    BY <1>5, <1>7, <2>1
  <2> QED BY <1>4, <1>6, <2>2, BinsKept
<1>9. \A c \in DOMAIN G.head : c \notin {v, v, n} => G.head[c] = H.head[c]
  BY <1>5, <1>6
<1>10. G.head[v] = H.head[v] /\ v # n
  BY <1>2, <1>5, <1>6
<1>11. HeapCut(H, U, W, G, U \cup {v}, {v}, v, v, n, "U")
  <2>1. n - v >= MINSIZE /\ v <= v /\ ~(v < v) /\ G.head[v].size = n - v
    BY <1>2, <1>a, <1>10
  <2>2. DOMAIN G.head = (DOMAIN H.head \ {v}) \cup {v, v}
    BY <1>2, <1>7
  <2>3. Elems(G.bins) = (Elems(H.bins) \ {v}) \cup {}
    BY <1>8
  <2>4. U \cup {v} = (U \ {v}) \cup {} \cup {v}
    BY <1>2
  <2>5. G.head[n].size = H.head[n].size /\ G.head[n].prev_inuse /\ G.top = H.top
    BY <1>5, <1>6
  <2> QED BY <1>2, <1>9, <1>10, <2>1, <2>2, <2>3, <2>4, <2>5 DEF HeapCut
<1>12. HeapOK(G, U \cup {v}, W) /\ TopEnd(G) = TopEnd(H)
  BY <1>8, <1>11, HeapRecut
<1> QED BY <1>1, <1>7, <1>12

-----------------------------------------------------------------------------
(* Splitting a chunk, and cutting a block off top.                         *)

\* A free chunk is split, and the rest becomes the last remainder.
LEMMA SplitChunkFacts ==
    ASSUME NEW H, NEW U, NEW W, HeapOK(H, U, W), NEW v, v \in Elems(H.bins),
           NEW nb \in Nat, nb % 2 = 0, nb >= MINSIZE, H.head[v].size - nb >= MINSIZE,
           Remainder(H.bins) \subseteq {v}
    PROVE  LET G == SplitChunk(H, v, nb).h
           IN  /\ HeapOK(G, U \cup {v}, W) /\ TopEnd(G) = TopEnd(H)
               /\ G.head[v].size = nb
               /\ \A c \in U : G.head[c].size = H.head[c].size
               /\ SplitChunk(H, v, nb).victim = v
<1> DEFINE n == v + H.head[v].size
           r == v + nb
           s == H.head[v].size - nb
           H0 == unlink(H, v)
           H1 == link_last_remainder(H0, r)
           Ha == set_head(H1, v, nb, PREV_INUSE)
           Hb == set_head(Ha, r, s, PREV_INUSE)
           G == set_foot(Hb, r, s)
<1>1. SplitChunk(H, v, nb).h = G /\ SplitChunk(H, v, nb).victim = v
  <2>1. v \in Nat
    BY FreeChunk
  <2>2. chunksize(H, v) = H.head[v].size
    BY <2>1, ChunkSizeFacts
  <2> QED BY <2>2 DEF SplitChunk
<1>2. /\ v \in DOMAIN H.head /\ v \in Nat /\ v # H.top /\ v \notin U /\ v % 2 = 0 /\ H.head[v].prev_inuse
      /\ H.head[v].size \in Nat /\ H.head[v].size % 2 = 0 /\ H.head[v].size >= MINSIZE
      /\ n \in DOMAIN H.head /\ n \in Nat /\ n % 2 = 0 /\ n # H.top /\ n \notin Elems(H.bins) /\ v < n
      /\ ~H.head[n].prev_inuse
      /\ Span(H.head, {v}, v, n) /\ Spare(W, v, n)
  BY FreeChunk
<1>3. BinsOK(H) /\ U \subseteq DOMAIN H.head /\ DOMAIN H.head \subseteq Nat /\ Elems(H.bins) \subseteq DOMAIN H.head
      /\ Elems(H.bins) \cap U = {}
  BY HeapParts
<1>4. r \in Nat /\ s \in Nat /\ s >= 4 /\ r + s = n /\ n - r = s /\ r - v = nb /\ v < r /\ r < n /\ v # n /\ r # n /\ r # v
  BY <1>2 DEF MINSIZE
<1>5. r % 2 = 0
  BY <1>2, EvenSum
<1>6. r \notin DOMAIN H.head
  BY <1>2, <1>4 DEF Span
<1>7. /\ BinsOK(H0) /\ SameHeads(H, H0) /\ Elems(H0.bins) = Elems(H.bins) \ {v}
      /\ Remainder(H0.bins) = {}
  <2>1. /\ BinsOK(H0) /\ SameHeads(H, H0) /\ Elems(H0.bins) = Elems(H.bins) \ {v}
        /\ Remainder(H0.bins) = Remainder(H.bins) \ {v}
    BY <1>3, UnlinkFacts
  <2> HIDE DEF H0
  <2>2. Remainder(H0.bins) = {}
    BY <2>1
  <2> QED BY <2>1, <2>2
<1> HIDE DEF H0, r, s, n
<1>8. /\ BinsOK(H1) /\ SameHeads(H0, H1) /\ Elems(H1.bins) = (Elems(H.bins) \ {v}) \cup {r} /\ Remainder(H1.bins) = {r}
  <2>1. r \notin Elems(H0.bins) \ Remainder(H0.bins)
    BY <1>3, <1>6, <1>7
  <2>2. /\ BinsOK(H1) /\ SameHeads(H0, H1)
        /\ Elems(H1.bins) = (Elems(H0.bins) \ Remainder(H0.bins)) \cup {r} /\ Remainder(H1.bins) = {r}
    BY <1>4, <1>7, <2>1, LinkLastFacts
  <2> HIDE DEF H1
  <2> QED BY <1>7, <2>2
<1> HIDE DEF H1
<1>9. H1.head = H.head /\ H1.top = H.top /\ Heads(H1)
  BY <1>7, <1>8 DEF SameHeads, BinsOK
<1>x10. Ha = set_head(H1, v, nb, PREV_INUSE)
  OBVIOUS
<1> HIDE DEF Ha
<1>10. /\ Heads(Ha) /\ DOMAIN Ha.head = DOMAIN H1.head \cup {v} /\ SameBins(H1, Ha) /\ Ha.top = H1.top
       /\ Ha.head[v].size = nb /\ Ha.head[v].prev_inuse
       /\ \A c \in DOMAIN H1.head \ {v} : Ha.head[c] = H1.head[c]
  <2>1. v \in Nat /\ Heads(H1)
    BY <1>2, <1>9
  <2>2. HeadUsed(H1, Ha, v, nb)
    BY <2>1, <1>x10, SetHeadUsed
  <2> QED BY <2>2 DEF HeadUsed
<1>x11. Hb = set_head(Ha, r, s, PREV_INUSE)
  OBVIOUS
<1> HIDE DEF Hb
<1>11. /\ Heads(Hb) /\ DOMAIN Hb.head = DOMAIN Ha.head \cup {r} /\ SameBins(Ha, Hb) /\ Hb.top = Ha.top
       /\ Hb.head[r].size = s /\ Hb.head[r].prev_inuse
       /\ \A c \in DOMAIN Ha.head \ {r} : Hb.head[c] = Ha.head[c]
  <2>1. HeadUsed(Ha, Hb, r, s)
    BY <1>4, <1>10, <1>x11, SetHeadUsed
  <2> QED BY <2>1 DEF HeadUsed
<1>12. /\ Heads(G) /\ DOMAIN G.head = DOMAIN Hb.head /\ SameBins(Hb, G) /\ G.top = Hb.top
       /\ G.head[n].size = Hb.head[n].size /\ (G.head[n].prev_inuse <=> Hb.head[n].prev_inuse)
       /\ G.head[n].prev_size = s
       /\ \A c \in DOMAIN Hb.head \ {n} : G.head[c] = Hb.head[c]
  <2>1. r + s \in DOMAIN Hb.head
    BY <1>2, <1>4, <1>9, <1>10, <1>11
  <2>2. /\ Heads(G) /\ DOMAIN G.head = DOMAIN Hb.head /\ SameBins(Hb, G) /\ G.top = Hb.top
        /\ G.head[r + s].size = Hb.head[r + s].size /\ (G.head[r + s].prev_inuse <=> Hb.head[r + s].prev_inuse)
        /\ G.head[r + s].prev_size = s
        /\ \A c \in DOMAIN Hb.head \ {r + s} : G.head[c] = Hb.head[c]
    BY <1>4, <1>11, <2>1, SetFootFacts
  <2> QED BY <1>4, <2>2
<1> HIDE DEF G
<1>13. DOMAIN G.head = DOMAIN H.head \cup {r} /\ G.top = H.top
  BY <1>2, <1>9, <1>10, <1>11, <1>12
<1>14. \A c \in DOMAIN G.head : c \notin {v, r, n} => G.head[c] = H.head[c]
  BY <1>9, <1>10, <1>11, <1>12, <1>13
<1>15. /\ G.head[v].size = nb /\ G.head[v].prev_inuse /\ G.head[r].size = s /\ G.head[r].prev_inuse
       /\ G.head[n].size = H.head[n].size /\ ~G.head[n].prev_inuse /\ G.head[n].prev_size = s
  <2>1. G.head[v] = Ha.head[v] /\ G.head[r] = Hb.head[r] /\ Hb.head[n] = H.head[n]
    BY <1>2, <1>4, <1>6, <1>9, <1>10, <1>11, <1>12
  <2> QED BY <1>2, <1>10, <1>11, <1>12, <2>1
<1>16. BinsOK(G) /\ Elems(G.bins) = (Elems(H.bins) \ {v}) \cup {r}
  <2>1. SameBins(H1, G)
    BY <1>10, <1>11, <1>12 DEF SameBins
  <2>2. ASSUME NEW x \in Elems(H1.bins) \ Remainder(H1.bins) PROVE G.head[x].size = H1.head[x].size
    <3>1. x \in DOMAIN H.head /\ x # v /\ x # r
      BY <1>3, <1>8
    <3>2. CASE x = n
      BY <1>9, <1>15, <3>2
    <3>3. CASE x # n
      BY <1>9, <1>13, <1>14, <3>1, <3>3
    <3> QED BY <3>2, <3>3
  <2> QED BY <1>8, <1>12, <2>1, <2>2, BinsKept
<1>17. HeapCut(H, U, W, G, U \cup {v}, {v}, v, r, n, "F")
  <2>1. r \in Nat /\ n \in Nat /\ v <= r /\ n - r >= MINSIZE /\ r - v >= MINSIZE /\ v < r
    BY <1>2, <1>4 DEF MINSIZE
  <2>2. DOMAIN G.head = (DOMAIN H.head \ {v}) \cup {v, r}
    BY <1>2, <1>13
  <2>3. U \cup {v} = (U \ {v}) \cup {v} \cup {}
    OBVIOUS
  <2>4. G.head[r].size = n - r /\ G.head[v].size = r - v /\ G.head[n].prev_size = n - r
    BY <1>4, <1>15
  <2>5. H.top \notin {v}
    BY <1>2
  <2> QED BY <1>2, <1>4, <1>5, <1>13, <1>14, <1>15, <1>16, <2>1, <2>2, <2>3, <2>4, <2>5 DEF HeapCut
<1>18. HeapOK(G, U \cup {v}, W) /\ TopEnd(G) = TopEnd(H)
       /\ \A c \in DOMAIN H.head \ {v} : c \in DOMAIN G.head /\ G.head[c].size = H.head[c].size
  BY <1>16, <1>17, HeapRecut
<1> QED BY <1>1, <1>2, <1>3, <1>15, <1>18

\* A block is cut off the bottom of top.
LEMMA FromTopFacts ==
    ASSUME NEW H, NEW U, NEW W, HeapOK(H, U, W), TopEnd(H) % 2 = 0,
           NEW nb \in Nat, nb % 2 = 0, nb >= MINSIZE, H.head[H.top].size >= nb + MINSIZE
    PROVE  LET G == FromTop(H, nb)
           IN  /\ HeapOK(G, U \cup {H.top}, W) /\ TopEnd(G) = TopEnd(H)
               /\ G.head[H.top].size = nb /\ H.top \notin U /\ G.top \in DOMAIN G.head
               /\ \A c \in U : G.head[c].size = H.head[c].size
<1> DEFINE t == H.top
           r == t + nb
           n == TopEnd(H)
           s == H.head[t].size - nb
           Ha == set_head(H, r, s, PREV_INUSE)
           Hb == set_head(Ha, t, nb, PREV_INUSE)
           G == [Hb EXCEPT !.top = Hb.top + nb]
<1>2. /\ BinsOK(H) /\ Heads(H) /\ U \subseteq DOMAIN H.head /\ DOMAIN H.head \subseteq Nat /\ Elems(H.bins) \subseteq DOMAIN H.head
      /\ t \in DOMAIN H.head /\ t \in Nat /\ t \notin U /\ t % 2 = 0 /\ t \notin Elems(H.bins) /\ H.head[t].size \in Nat
      /\ H.head[t].prev_inuse
      /\ Tiles(H.head, Elems(H.bins), U, t) /\ Avoids(H.head, W) /\ W \subseteq Nat
      /\ \A c \in DOMAIN H.head : c <= t
  BY HeapParts
<1>1. FromTop(H, nb) = G
  <2>1. chunksize(H, H.top) = H.head[t].size
    BY <1>2, ChunkSizeFacts
  <2> QED BY <2>1 DEF FromTop
<1>3. n = t + H.head[t].size
  BY DEF TopEnd
<1>4. r \in Nat /\ s \in Nat /\ s >= 4 /\ r + s = n /\ n - r = s /\ r - t = nb /\ t < r /\ r < n /\ r # t /\ n \in Nat /\ r > t
  BY <1>2, <1>3 DEF MINSIZE
<1>5. r % 2 = 0
  BY <1>2, EvenSum
<1>6. r \notin DOMAIN H.head
  BY <1>2, <1>4
<1>7. Span(H.head, {t}, t, n) /\ Spare(W, t, n)
  BY <1>2, <1>3, SpanOne
<1> HIDE DEF n
<1>10. /\ Heads(Ha) /\ DOMAIN Ha.head = DOMAIN H.head \cup {r} /\ SameBins(H, Ha) /\ Ha.top = t
       /\ Ha.head[r].size = s /\ (Ha.head[r].prev_inuse)
       /\ \A c \in DOMAIN H.head \ {r} : Ha.head[c] = H.head[c]
  <2> HIDE DEF r, s
  <2>1. r \in Nat /\ s \in Nat /\ Heads(H)
    BY <1>2, <1>4
  <2>2. Ha = set_head(H, r, s, PREV_INUSE)
    OBVIOUS
  <2> HIDE DEF Ha
  <2>3. HeadUsed(H, Ha, r, s)
    BY <2>1, <2>2, SetHeadUsed
  <2> QED BY <2>3 DEF HeadUsed
<1> HIDE DEF r, s, Ha
<1>x11. Hb = set_head(Ha, t, nb, PREV_INUSE)
  OBVIOUS
<1> HIDE DEF Hb
<1>11. /\ Heads(Hb) /\ DOMAIN Hb.head = DOMAIN Ha.head \cup {t} /\ SameBins(Ha, Hb) /\ Hb.top = Ha.top
       /\ Hb.head[t].size = nb /\ (Hb.head[t].prev_inuse)
       /\ \A c \in DOMAIN Ha.head \ {t} : Hb.head[c] = Ha.head[c]
  <2>1. t \in Nat /\ Heads(Ha)
    BY <1>2, <1>10
  <2>2. HeadUsed(Ha, Hb, t, nb)
    BY <2>1, <1>x11, SetHeadUsed
  <2> QED BY <2>2 DEF HeadUsed
<1>12. Heads(G) /\ G.head = Hb.head /\ SameBins(Hb, G) /\ G.top = r
  <2>1. Hb.top + nb = r
    BY <1>10, <1>11 DEF r
  <2> QED BY <1>11, <2>1, SetTopFacts
<1> HIDE DEF G
<1>13. DOMAIN G.head = DOMAIN H.head \cup {r}
  BY <1>2, <1>10, <1>11, <1>12
<1>14. \A c \in DOMAIN G.head : c \notin {t, r, n} => G.head[c] = H.head[c]
  BY <1>10, <1>11, <1>12, <1>13
<1>15. G.head[t].size = nb /\ G.head[t].prev_inuse /\ G.head[r].size = s /\ G.head[r].prev_inuse
  <2>1. G.head[t] = Hb.head[t] /\ G.head[r] = Ha.head[r]
    BY <1>4, <1>10, <1>11, <1>12
  <2> QED BY <1>10, <1>11, <2>1
<1>16. BinsOK(G) /\ Elems(G.bins) = Elems(H.bins)
  <2>1. SameBins(H, G)
    BY <1>10, <1>11, <1>12 DEF SameBins
  <2>2. ASSUME NEW x \in Elems(H.bins) \ Remainder(H.bins) PROVE G.head[x].size = H.head[x].size
    BY <1>2, <1>6, <1>10, <1>11, <1>12
  <2> QED BY <1>2, <1>12, <2>1, <2>2, BinsKept
<1>17. HeapCut(H, U, W, G, U \cup {t}, {t}, t, r, n, "T")
  <2>1. r \in Nat /\ n \in Nat /\ t <= r /\ n - r >= MINSIZE /\ r - t >= MINSIZE /\ t < r
    BY <1>2, <1>4 DEF MINSIZE
  <2>2. DOMAIN G.head = (DOMAIN H.head \ {t}) \cup {t, r}
    BY <1>2, <1>13
  <2>3. U \cup {t} = (U \ {t}) \cup {t} \cup {}
    OBVIOUS
  <2>4. G.head[r].size = n - r /\ G.head[t].size = r - t
    BY <1>4, <1>15
  <2>5. H.top \in {t} /\ \A c \in DOMAIN H.head : c < n
    BY <1>2, <1>4
  <2>6. Elems(G.bins) = (Elems(H.bins) \ {t}) \cup {}
    BY <1>2, <1>16
  <2>7. n % 2 = 0
    BY DEF n
  <2> QED BY <1>2, <1>4, <1>5, <1>7, <1>12, <1>13, <1>14, <1>15, <2>1, <2>2, <2>3, <2>4, <2>5, <2>6, <2>7 DEF HeapCut
<1>18. HeapOK(G, U \cup {t}, W) /\ TopEnd(G) = n
       /\ \A c \in DOMAIN H.head \ {t} : c \in DOMAIN G.head /\ G.head[c].size = H.head[c].size
  BY <1>16, <1>17, HeapRecut
<1> QED BY <1>1, <1>2, <1>12, <1>13, <1>15, <1>18 DEF n

-----------------------------------------------------------------------------
(* fREe.                                                                   *)

\* The chunk below p when it is free, and p itself otherwise.
Below(H, p) == IF prev_inuse(H, p) THEN p ELSE prev_chunk(H, p)

BelowOK(H, U, W, p, q, n) ==
    /\ q \in DOMAIN H.head /\ q \in Nat /\ q % 2 = 0 /\ q <= p /\ p < n /\ n \in Nat /\ n \in DOMAIN H.head /\ n % 2 = 0
    /\ H.head[q].prev_inuse /\ H.top \notin {q, p} /\ {q, p} \cap U = {p} /\ q \notin Elems(H.bins) \ {q}
    /\ n - q >= MINSIZE /\ (n - q) % 2 = 0
    /\ Span(H.head, {q, p}, q, n) /\ Spare(W, q, n)
    /\ H.head[p].prev_inuse => q = p /\ n - q = H.head[p].size
    /\ ~H.head[p].prev_inuse => /\ q \in Elems(H.bins) /\ q < p /\ q = p - H.head[p].prev_size
                                /\ H.head[q].size = H.head[p].prev_size
                                /\ n - q = H.head[p].size + H.head[p].prev_size

\* The chunk to be freed, with the free chunk below it if there is one.
LEMMA BelowFacts ==
    ASSUME NEW H, NEW U, NEW W, HeapOK(H, U, W), NEW p, p \in U
    PROVE  BelowOK(H, U, W, p, Below(H, p), p + H.head[p].size)
<1> DEFINE n == p + H.head[p].size
           q == p - H.head[p].prev_size
<1>1. /\ p \in DOMAIN H.head /\ p \in Nat /\ p # H.top /\ p \notin Elems(H.bins) /\ p % 2 = 0
      /\ H.head[p].size \in Nat /\ H.head[p].size % 2 = 0 /\ H.head[p].size >= MINSIZE
      /\ n \in DOMAIN H.head /\ n \in Nat /\ n % 2 = 0 /\ p < n
      /\ Span(H.head, {p}, p, n) /\ Spare(W, p, n)
  BY UsedChunk
<1>2. /\ Tiles(H.head, Elems(H.bins), U, H.top) /\ Avoids(H.head, W) /\ W \subseteq Nat
  BY HeapParts
<1>3. CASE H.head[p].prev_inuse
  <2>1. Below(H, p) = p
    BY <1>3 DEF Below, prev_inuse
  <2>2. n - p = H.head[p].size
    BY <1>1
  <2>3. {p, p} \cap U = {p} /\ {p, p} = {p}
    OBVIOUS
  <2> HIDE DEF n
  <2>4. Span(H.head, {p, p}, p, n) /\ H.top \notin {p, p} /\ p <= p
    <3>1. Span(H.head, {p}, p, n) /\ H.top # p /\ p \in Nat
      BY <1>1
    <3>2. {p, p} = {p}
      BY <2>3
    <3>3. Span(H.head, {p, p}, p, n)
      BY ONLY <3>1, <3>2, Zenon
    <3>4. H.top \notin {p, p} /\ p <= p
      BY ONLY <3>1
    <3> QED BY ONLY <3>3, <3>4
  <2>5. BelowOK(H, U, W, p, p, n)
    BY <1>1, <1>3, <2>2, <2>3, <2>4 DEF BelowOK
  <2> QED BY <2>1, <2>5 DEF n
<1>4. CASE ~H.head[p].prev_inuse
  <2>1. Below(H, p) = q
    BY <1>4 DEF Below, prev_inuse, prev_chunk
  <2>2. q \in Elems(H.bins) /\ H.head[q].size = H.head[p].prev_size /\ q + H.head[q].size = p /\ q < p
        /\ q # H.top /\ q \notin U
    <3>1. p \in DOMAIN H.head /\ ~H.head[p].prev_inuse /\ Tiles(H.head, Elems(H.bins), U, H.top)
      BY <1>1, <1>2, <1>4
    <3> QED BY <3>1, FreeBelow
  <2> HIDE DEF q
  <2>3. /\ q \in DOMAIN H.head /\ q \in Nat /\ q % 2 = 0 /\ H.head[q].prev_inuse /\ H.head[q].size \in Nat
        /\ H.head[q].size % 2 = 0 /\ H.head[q].size >= MINSIZE
    BY <2>2, FreeChunk, ZenonT(30)
  <2>4. Span(H.head, {q}, q, p) /\ Spare(W, q, p)
    <3>1. Span(H.head, {q}, q, q + H.head[q].size) /\ Spare(W, q, q + H.head[q].size)
      BY <2>2, FreeChunk
    <3> QED BY <2>2, <3>1
  <2> HIDE DEF q
  <2>5. Span(H.head, {q} \cup {p}, q, n) /\ Spare(W, q, n)
    <3>1. p \in DOMAIN H.head
      BY <1>1
    <3>2. Span(H.head, {q} \cup {p}, q, p + H.head[p].size) /\ Spare(W, q, p + H.head[p].size)
      BY <1>2, <2>4, <3>1, SpanJoin
    <3> QED BY <3>2
  <2>6. {q} \cup {p} = {q, p} /\ {q, p} \cap U = {p}
    BY <2>2
  <2>7. n - q = H.head[p].size + H.head[p].prev_size
    BY <1>1, <2>2, <2>3
  <2>8. n - q >= MINSIZE /\ (n - q) % 2 = 0
    <3>1. n - q = H.head[p].size + H.head[q].size
      BY <2>2, <2>7
    <3>2. H.head[p].size + H.head[q].size >= MINSIZE
      BY <1>1, <2>3 DEF MINSIZE
    <3>3. (H.head[p].size + H.head[q].size) % 2 = 0
      BY <1>1, <2>3, EvenSum
    <3> QED BY <3>1, <3>2, <3>3
  <2> HIDE DEF n
  <2>9. Span(H.head, {q, p}, q, n)
    BY <2>5, <2>6
  <2>a. q = p - H.head[p].prev_size
    BY DEF q
  <2> QED BY <1>1, <1>4, <2>1, <2>2, <2>3, <2>5, <2>6, <2>7, <2>8, <2>9, <2>a, SMTT(30) DEF BelowOK, n
<1> QED BY <1>3, <1>4

\* H with the free chunk below p, if there is one, taken out of its bin.
Unbinned(H, p) == IF prev_inuse(H, p) THEN H ELSE unlink(H, Below(H, p))

\* That free chunk leaves its bin.
LEMMA UnbinnedFacts ==
    ASSUME NEW H, NEW U, NEW W, HeapOK(H, U, W), NEW p, p \in U
    PROVE  LET G == Unbinned(H, p)
           IN  /\ BinsOK(G) /\ SameHeads(H, G) /\ G.binblocks = H.binblocks
               /\ Elems(G.bins) = Elems(H.bins) \ {Below(H, p)} /\ Remainder(G.bins) = Remainder(H.bins) \ {Below(H, p)}
<1>1. BelowOK(H, U, W, p, Below(H, p), p + H.head[p].size)
  BY BelowFacts
<1>2. BinsOK(H) /\ Elems(H.bins) \cap U = {}
  BY HeapParts
<1>3. CASE H.head[p].prev_inuse
  <2>1. Unbinned(H, p) = H /\ Below(H, p) = p
    BY <1>3 DEF Unbinned, Below, prev_inuse
  <2>2. p \notin Elems(H.bins)
    BY <1>2
  <2>3. Remainder(H.bins) \subseteq Elems(H.bins)
    BY <1>2, RemainderFacts DEF BinsOK
  <2> QED BY <1>2, <2>1, <2>2, <2>3 DEF SameHeads
<1>4. CASE ~H.head[p].prev_inuse
  <2>1. Unbinned(H, p) = unlink(H, Below(H, p))
    BY <1>4 DEF Unbinned, prev_inuse
  <2>2. Below(H, p) \in Elems(H.bins)
    BY <1>1, <1>4 DEF BelowOK
  <2> HIDE DEF Below
  <2> QED BY <1>2, <2>1, <2>2, UnlinkFacts
<1> QED BY <1>3, <1>4

\* A chunk below top becomes part of top.
LEMMA FreeIntoTopFacts ==
    ASSUME NEW H, NEW U, NEW W, HeapOK(H, U, W), NEW p, p \in U,
           p + H.head[p].size = H.top, TopEnd(H) % 2 = 0
    PROVE  LET G == FreeIntoTop(H, p)
           IN  /\ HeapOK(G, U \ {p}, W) /\ TopEnd(G) = TopEnd(H)
               /\ \A c \in U \ {p} : G.head[c].size = H.head[c].size
<1> DEFINE q == Below(H, p)
           t == H.top
           n == TopEnd(H)
           G0 == Unbinned(H, p)
           H1 == Absorb(G0, {p, t} \ {q})
           s == n - q
           Ha == set_head(H1, q, s, PREV_INUSE)
           G == [Ha EXCEPT !.top = q]
<1>1. BelowOK(H, U, W, p, q, t)
  BY BelowFacts
<1>2. /\ BinsOK(H) /\ U \subseteq DOMAIN H.head /\ Elems(H.bins) \subseteq DOMAIN H.head /\ DOMAIN H.head \subseteq Nat
      /\ t \in DOMAIN H.head /\ t \in Nat /\ t \notin U /\ t \notin Elems(H.bins) /\ H.head[t].size \in Nat /\ H.head[t].size >= MINSIZE
      /\ Tiles(H.head, Elems(H.bins), U, t) /\ Avoids(H.head, W) /\ W \subseteq Nat
      /\ (\A c \in DOMAIN H.head : c <= t)
      /\ p \notin Elems(H.bins)
  BY HeapParts, UsedChunk
<1>3. /\ BinsOK(G0) /\ SameHeads(H, G0) /\ G0.binblocks = H.binblocks
      /\ Elems(G0.bins) = Elems(H.bins) \ {q}
  BY UnbinnedFacts
<1>4. p \in Nat /\ H.head[p].size \in Nat /\ H.head[p].prev_size \in Nat
  BY UsedChunk, HeapParts
<1>5. n = t + H.head[t].size /\ n \in Nat /\ t < n
  BY <1>2 DEF TopEnd, MINSIZE
<1>6. /\ q \in DOMAIN H.head /\ q \in Nat /\ q % 2 = 0 /\ q <= p /\ p < t /\ q < t /\ H.head[q].prev_inuse /\ {q, p} \cap U = {p}
      /\ Span(H.head, {q, p}, q, t) /\ Spare(W, q, t) /\ t - q >= MINSIZE
  BY <1>1, <1>2, <1>4 DEF BelowOK
<1>7. s \in Nat /\ s >= MINSIZE
  BY <1>2, <1>5, <1>6 DEF MINSIZE
<1>8. FreeIntoTop(H, p) = G
  <2>1. chunksize(H, p) = H.head[p].size /\ chunksize(H, H.top) = H.head[t].size
    BY <1>2, <1>4, ChunkSizeFacts
  <2>2. (IF ~prev_inuse(H, p) THEN unlink(H, IF ~prev_inuse(H, p) THEN prev_chunk(H, p) ELSE p) ELSE H) = G0
    BY DEF Unbinned, Below
  <2>3. (IF ~prev_inuse(H, p) THEN prev_chunk(H, p) ELSE p) = q
    BY DEF Below
  <2>4. H.head[p].size + H.head[t].size + (IF ~prev_inuse(H, p) THEN H.head[p].prev_size ELSE 0) = s
    <3>1. CASE H.head[p].prev_inuse
      <4>1. t - q = H.head[p].size
        BY <1>1, <3>1 DEF BelowOK
      <4>2. s = H.head[p].size + H.head[t].size
        BY <1>2, <1>4, <1>5, <1>6, <4>1
      <4> QED BY <1>2, <1>4, <4>2, <3>1 DEF prev_inuse
    <3>2. CASE ~H.head[p].prev_inuse
      <4>1. t - q = H.head[p].size + H.head[p].prev_size
        BY <1>1, <3>2 DEF BelowOK
      <4>2. s = H.head[p].size + H.head[t].size + H.head[p].prev_size
        BY <1>2, <1>4, <1>5, <1>6, <4>1
      <4> QED BY <4>2, <3>2 DEF prev_inuse
    <3> QED BY <3>1, <3>2
  <2> HIDE DEF q, s, G0
  <2> QED BY <2>1, <2>2, <2>3, <2>4 DEF FreeIntoTop
<1> HIDE DEF q, n, s, G0
<1>9. G0.head = H.head /\ G0.top = t /\ Heads(G0)
  BY <1>3 DEF SameHeads, BinsOK
<1>10. /\ Heads(H1) /\ DOMAIN H1.head = DOMAIN H.head \ ({p, t} \ {q}) /\ SameBins(G0, H1) /\ H1.top = t
       /\ \A c \in DOMAIN H.head \ ({p, t} \ {q}) : H1.head[c] = H.head[c]
  BY <1>9, AbsorbFacts
<1> HIDE DEF H1
<1>x11. Ha = set_head(H1, q, s, PREV_INUSE)
  OBVIOUS
<1> HIDE DEF Ha
<1>11. HeadUsed(H1, Ha, q, s)
  BY <1>6, <1>7, <1>10, <1>x11, SetHeadUsed
<1>12. /\ Heads(Ha) /\ DOMAIN Ha.head = DOMAIN H1.head \cup {q} /\ SameBins(H1, Ha)
       /\ Ha.head[q].size = s /\ Ha.head[q].prev_inuse
       /\ q \in DOMAIN H1.head => Ha.head[q].prev_size = H1.head[q].prev_size
       /\ \A c \in DOMAIN H1.head \ {q} : Ha.head[c] = H1.head[c]
  BY <1>11 DEF HeadUsed
<1>13. Heads(G) /\ G.head = Ha.head /\ SameBins(Ha, G) /\ G.top = q
  BY <1>12, SetTopFacts
<1> HIDE DEF G
<1>14. DOMAIN G.head = (DOMAIN H.head \ {q, p, t}) \cup {q}
  BY <1>6, <1>10, <1>12, <1>13
<1>15. \A c \in DOMAIN G.head : c # q => G.head[c] = H.head[c]
  BY <1>10, <1>12, <1>13, <1>14
<1>16. SameBins(G0, G)
  BY <1>10, <1>12, <1>13 DEF SameBins
<1>17. BinsOK(G) /\ Elems(G.bins) = Elems(H.bins) \ {q}
  <2>1. ASSUME NEW x \in Elems(G0.bins) \ Remainder(G0.bins) PROVE G.head[x].size = G0.head[x].size
    BY <1>2, <1>3, <1>9, <1>14, <1>15
  <2> QED BY <1>3, <1>13, <1>16, <2>1, BinsKept
<1>18. Span(H.head, {q, p, t}, q, n) /\ Spare(W, q, n)
  <2>1. Span(H.head, {q, p} \cup {t}, q, t + H.head[t].size) /\ Spare(W, q, t + H.head[t].size)
    BY <1>2, <1>6, SpanJoin
  <2>2. {q, p} \cup {t} = {q, p, t}
    OBVIOUS
  <2> QED BY <1>5, <2>1, <2>2
<1>19. HeapCut(H, U, W, G, U \ {p}, {q, p, t}, q, q, n, "T")
  <2>1. q \in Nat /\ n \in Nat /\ q <= q /\ n - q >= MINSIZE /\ ~(q < q) /\ s = n - q /\ n % 2 = 0
    BY <1>5, <1>6, <1>7 DEF s, n
  <2>2. DOMAIN G.head = (DOMAIN H.head \ {q, p, t}) \cup {q, q}
    BY <1>14
  <2>3. U \ {p} = (U \ {q, p, t}) \cup {} \cup {}
    BY <1>2, <1>6
  <2>4. G.head[q].size = n - q /\ G.head[q].prev_inuse
    BY <1>12, <1>13, <2>1
  <2>5. H.top \in {q, p, t} /\ \A c \in DOMAIN H.head : c < n
    <3>1. ASSUME NEW c \in DOMAIN H.head PROVE c < n
      <4>1. c \in Nat /\ c <= t
        BY <1>2
      <4> QED BY <1>2, <1>5, <4>1
    <3> QED BY <3>1
  <2>6. Elems(G.bins) = (Elems(H.bins) \ {q, p, t}) \cup {}
    BY <1>2, <1>17
  <2>7. \A c \in DOMAIN G.head : c \notin {q, q, n} => G.head[c] = H.head[c]
    BY <1>15
  <2> QED BY <1>6, <1>13, <1>18, <2>1, <2>2, <2>3, <2>4, <2>5, <2>6, <2>7 DEF HeapCut
<1>20. HeapOK(G, U \ {p}, W) /\ TopEnd(G) = n
       /\ \A c \in DOMAIN H.head \ {q, p, t} : c \in DOMAIN G.head /\ G.head[c].size = H.head[c].size
  BY <1>17, <1>19, HeapRecut
<1>21. \A c \in U \ {p} : c \in DOMAIN H.head \ {q, p, t}
  BY <1>2, <1>6
<1> QED BY <1>8, <1>20, <1>21 DEF n

\* H2 is H when the chunks of R are to become the free chunk from q to e, which
\* is the last remainder (lr) or will be linked to its bin.
FreeReady(H, U, W, H2, R, q, e, lr) ==
    /\ BinsOK(H2) /\ H2.top = H.top /\ DOMAIN H2.head = DOMAIN H.head
    /\ \A c \in DOMAIN H.head \ {e} : H2.head[c] = H.head[c]
    /\ H2.head[e].size = H.head[e].size /\ ~H2.head[e].prev_inuse
    /\ Span(H.head, R, q, e) /\ Spare(W, q, e)
    /\ q \in Nat /\ e \in Nat /\ q % 2 = 0 /\ e % 2 = 0 /\ e - q >= MINSIZE /\ q < e
    /\ q \in R /\ R \subseteq DOMAIN H.head /\ H.head[q].prev_inuse /\ H.top \notin R
    /\ e \in DOMAIN H.head /\ e # H.top /\ e \notin Elems(H.bins)
    /\ Elems(H2.bins) = (Elems(H.bins) \ R) \cup (IF lr THEN {q} ELSE {})
    /\ lr => Remainder(H2.bins) = {q}

FreeChunkMade(H2, R, q, size) == set_foot(set_head(Absorb(H2, R \ {q}), q, size, PREV_INUSE), q, size)

\* The freed chunks are made one free chunk.
LEMMA FreeMadeFacts ==
    ASSUME NEW H, NEW U, NEW W, HeapOK(H, U, W), NEW H2, NEW R, NEW q, NEW e, NEW lr \in BOOLEAN,
           FreeReady(H, U, W, H2, R, q, e, lr), NEW s, s = e - q
    PROVE  LET K == FreeChunkMade(H2, R, q, s)
           IN  /\ Heads(K) /\ SameBins(H2, K) /\ K.top = H.top /\ DOMAIN K.head = (DOMAIN H.head \ R) \cup {q}
               /\ \A c \in DOMAIN K.head \ {q, e} : K.head[c] = H.head[c]
               /\ K.head[q].size = s /\ K.head[q].prev_inuse
               /\ K.head[e].size = H.head[e].size /\ ~K.head[e].prev_inuse /\ K.head[e].prev_size = s
               /\ BinsOK(K)
<1> DEFINE Ha == Absorb(H2, R \ {q})
           Hb == set_head(Ha, q, s, PREV_INUSE)
           K == set_foot(Hb, q, s)
<1>1. /\ BinsOK(H2) /\ Heads(H2) /\ H2.top = H.top /\ DOMAIN H2.head = DOMAIN H.head
      /\ \A c \in DOMAIN H.head \ {e} : H2.head[c] = H.head[c]
      /\ H2.head[e].size = H.head[e].size /\ ~H2.head[e].prev_inuse
      /\ Elems(H2.bins) = (Elems(H.bins) \ R) \cup (IF lr THEN {q} ELSE {})
      /\ lr => Remainder(H2.bins) = {q}
      /\ e \notin Elems(H.bins)
  BY DEF FreeReady, BinsOK
<1>2. /\ q \in Nat /\ e \in Nat /\ s \in Nat /\ s >= MINSIZE /\ q + s = e /\ q # e
      /\ q \in R /\ R \subseteq DOMAIN H.head /\ e \in DOMAIN H.head /\ e \notin R
  <2>1. /\ q \in Nat /\ e \in Nat /\ e - q >= MINSIZE /\ q < e /\ q \in R /\ R \subseteq DOMAIN H.head /\ e \in DOMAIN H.head
        /\ Span(H.head, R, q, e)
    BY DEF FreeReady
  <2>2. e \notin R
    BY <2>1 DEF Span
  <2> QED BY <2>1, <2>2
<1>3. /\ Heads(Ha) /\ DOMAIN Ha.head = DOMAIN H.head \ (R \ {q}) /\ SameBins(H2, Ha) /\ Ha.top = H.top
      /\ \A c \in DOMAIN H.head \ (R \ {q}) : Ha.head[c] = H2.head[c]
  BY <1>1, AbsorbFacts
<1> HIDE DEF Ha
<1>4. Hb = set_head(Ha, q, s, PREV_INUSE)
  OBVIOUS
<1> HIDE DEF Hb
<1>5. HeadUsed(Ha, Hb, q, s)
  BY <1>2, <1>3, <1>4, SetHeadUsed
<1>6. /\ Heads(Hb) /\ DOMAIN Hb.head = DOMAIN Ha.head \cup {q} /\ SameBins(Ha, Hb) /\ Hb.top = Ha.top
      /\ Hb.head[q].size = s /\ Hb.head[q].prev_inuse
      /\ \A c \in DOMAIN Ha.head \ {q} : Hb.head[c] = Ha.head[c]
  BY <1>5 DEF HeadUsed
<1>7. DOMAIN Hb.head = (DOMAIN H.head \ R) \cup {q} /\ e \in DOMAIN Hb.head
  BY <1>2, <1>3, <1>6
<1>8. /\ Heads(K) /\ DOMAIN K.head = DOMAIN Hb.head /\ SameBins(Hb, K) /\ K.top = Hb.top
      /\ K.head[e].size = Hb.head[e].size /\ (K.head[e].prev_inuse <=> Hb.head[e].prev_inuse)
      /\ K.head[e].prev_size = s
      /\ \A c \in DOMAIN Hb.head \ {e} : K.head[c] = Hb.head[c]
  <2>1. q + s \in DOMAIN Hb.head
    BY <1>2, <1>7
  <2>2. /\ Heads(K) /\ DOMAIN K.head = DOMAIN Hb.head /\ SameBins(Hb, K) /\ K.top = Hb.top
        /\ K.head[q + s].size = Hb.head[q + s].size /\ (K.head[q + s].prev_inuse <=> Hb.head[q + s].prev_inuse)
        /\ K.head[q + s].prev_size = s
        /\ \A c \in DOMAIN Hb.head \ {q + s} : K.head[c] = Hb.head[c]
    BY <1>2, <1>6, <2>1, SetFootFacts
  <2> QED BY <1>2, <2>2
<1> HIDE DEF K
<1>9. \A c \in DOMAIN K.head \ {q, e} : K.head[c] = H.head[c]
  BY <1>1, <1>2, <1>3, <1>6, <1>7, <1>8
<1>10. K.head[q] = Hb.head[q] /\ Hb.head[e] = H2.head[e]
  BY <1>2, <1>3, <1>6, <1>7, <1>8
<1>11. SameBins(H2, K)
  BY <1>3, <1>6, <1>8 DEF SameBins
<1>12. BinsOK(K)
  <2>1. ASSUME NEW x \in Elems(H2.bins) \ Remainder(H2.bins) PROVE K.head[x].size = H2.head[x].size
    <3>1. x # q /\ x \in Elems(H.bins) \ R /\ x # e
      BY <1>1, <1>2
    <3>2. x \in DOMAIN H.head
      BY <3>1, HeapParts
    <3>3. x \in DOMAIN K.head \ {q, e}
      BY <1>7, <1>8, <3>1, <3>2
    <3> QED BY <1>1, <1>9, <3>1, <3>2, <3>3
  <2> QED BY <1>1, <1>8, <1>11, <2>1, BinsKept
<1>13. K.top = H.top
  BY <1>3, <1>6, <1>8
<1>14. /\ K.head[q].size = s /\ K.head[q].prev_inuse
       /\ K.head[e].size = H.head[e].size /\ ~K.head[e].prev_inuse /\ K.head[e].prev_size = s
  BY <1>1, <1>6, <1>8, <1>10
<1>15. FreeChunkMade(H2, R, q, s) = K
  BY DEF FreeChunkMade, K, Hb, Ha
<1> QED BY <1>7, <1>8, <1>9, <1>11, <1>12, <1>13, <1>14, <1>15

FreedSpan(H, U, W, R, G) ==
    /\ HeapOK(G, U \ R, W) /\ TopEnd(G) = TopEnd(H)
    /\ \A c \in DOMAIN H.head \ R : c \in DOMAIN G.head /\ G.head[c].size = H.head[c].size

\* The free chunk is put into its bin.
LEMMA FreeFinish ==
    ASSUME NEW H, NEW U, NEW W, HeapOK(H, U, W), NEW H2, NEW R, NEW q, NEW e, NEW lr \in BOOLEAN,
           FreeReady(H, U, W, H2, R, q, e, lr), NEW s, s = e - q,
           NEW K, K = FreeChunkMade(H2, R, q, s),
           NEW G, G = IF lr THEN K ELSE frontlink(K, q, s)
    PROVE  FreedSpan(H, U, W, R, G)
<1>1. /\ Heads(K) /\ SameBins(H2, K) /\ K.top = H.top /\ DOMAIN K.head = (DOMAIN H.head \ R) \cup {q}
      /\ \A c \in DOMAIN K.head \ {q, e} : K.head[c] = H.head[c]
      /\ K.head[q].size = s /\ K.head[q].prev_inuse
      /\ K.head[e].size = H.head[e].size /\ ~K.head[e].prev_inuse /\ K.head[e].prev_size = s
      /\ BinsOK(K)
  BY FreeMadeFacts
<1>2. /\ Span(H.head, R, q, e) /\ Spare(W, q, e)
      /\ q \in Nat /\ e \in Nat /\ q % 2 = 0 /\ e % 2 = 0 /\ e - q >= MINSIZE /\ q < e
      /\ q \in R /\ R \subseteq DOMAIN H.head /\ H.head[q].prev_inuse /\ H.top \notin R
      /\ e \in DOMAIN H.head /\ e # H.top /\ e \notin Elems(H.bins)
      /\ Elems(H2.bins) = (Elems(H.bins) \ R) \cup (IF lr THEN {q} ELSE {})
  BY DEF FreeReady
<1>3. BinsOK(G) /\ SameHeads(K, G) /\ Elems(G.bins) = (Elems(H.bins) \ R) \cup {q}
  <2>1. K.bins = H2.bins
    BY <1>1 DEF SameBins
  <2>2. CASE lr
    <3>1. G = K
      BY <2>2
    <3> QED BY <1>1, <1>2, <2>1, <2>2, <3>1 DEF SameHeads
  <2>3. CASE ~lr
    <3>1. G = frontlink(K, q, s)
      BY <2>3
    <3>2. Elems(K.bins) = Elems(H.bins) \ R /\ Elems(H.bins) \subseteq DOMAIN H.head
      BY <1>2, <2>1, <2>3, HeapParts
    <3>3. q \in DOMAIN K.head /\ q \notin Elems(K.bins) /\ s >= MINSIZE /\ s = K.head[q].size
          /\ Elems(K.bins) \subseteq DOMAIN K.head
      BY <1>1, <1>2, <3>2
    <3>4. BinsOK(G) /\ SameHeads(K, G) /\ Elems(G.bins) = Elems(K.bins) \cup {q}
      BY <1>1, <3>1, <3>3, FrontlinkFacts
    <3> QED BY <3>2, <3>4
  <2> QED BY <2>2, <2>3
<1>4. G.head = K.head /\ G.top = H.top
  BY <1>1, <1>3 DEF SameHeads
<1>5. HeapCut(H, U, W, G, U \ R, R, q, q, e, "F")
  <2>1. DOMAIN G.head = (DOMAIN H.head \ R) \cup {q, q}
    BY <1>1, <1>4
  <2>2. \A c \in DOMAIN G.head : c \notin {q, q, e} => G.head[c] = H.head[c]
    BY <1>1, <1>4
  <2>3. U \ R = (U \ R) \cup {} \cup {}
    OBVIOUS
  <2>4. /\ G.head[q].size = e - q /\ G.head[q].prev_inuse
        /\ G.head[e].size = H.head[e].size /\ ~G.head[e].prev_inuse /\ G.head[e].prev_size = e - q
    BY <1>1, <1>4
  <2>5. q <= q /\ ~(q < q)
    BY <1>2
  <2> QED BY <1>2, <1>3, <1>4, <2>1, <2>2, <2>3, <2>4, <2>5 DEF HeapCut
<1>6. /\ HeapOK(G, U \ R, W) /\ TopEnd(G) = TopEnd(H)
      /\ \A c \in DOMAIN H.head \ R : c \in DOMAIN G.head /\ G.head[c].size = H.head[c].size
  BY <1>3, <1>5, HeapRecut
<1> QED BY <1>6 DEF FreedSpan

FreeOK(H, U, W, v, n) ==
    /\ v \in DOMAIN H.head /\ v \in Nat /\ v # H.top /\ v \notin U /\ v % 2 = 0 /\ H.head[v].prev_inuse
    /\ H.head[v].size \in Nat /\ H.head[v].size % 2 = 0 /\ H.head[v].size >= MINSIZE
    /\ n \in DOMAIN H.head /\ n \in Nat /\ n % 2 = 0 /\ n # H.top /\ n \notin Elems(H.bins) /\ v < n
    /\ ~H.head[n].prev_inuse /\ H.head[n].prev_size = H.head[v].size
    /\ Span(H.head, {v}, v, n) /\ Spare(W, v, n)

LEMMA FreeChunkIs ==
    ASSUME NEW H, NEW U, NEW W, HeapOK(H, U, W), NEW v, v \in Elems(H.bins)
    PROVE  FreeOK(H, U, W, v, v + H.head[v].size)
<1> DEFINE n == v + H.head[v].size
<1>1. /\ v \in DOMAIN H.head /\ v \in Nat /\ v # H.top /\ v \notin U /\ v % 2 = 0 /\ H.head[v].prev_inuse
      /\ H.head[v].size \in Nat /\ H.head[v].size % 2 = 0 /\ H.head[v].size >= MINSIZE
      /\ n \in DOMAIN H.head /\ n \in Nat /\ n % 2 = 0 /\ n # H.top /\ n \notin Elems(H.bins) /\ v < n
      /\ ~H.head[n].prev_inuse /\ H.head[n].prev_size = H.head[v].size
      /\ Span(H.head, {v}, v, n) /\ Spare(W, v, n)
  BY FreeChunk
<1> HIDE DEF n
<1>2. FreeOK(H, U, W, v, n)
  BY <1>1 DEF FreeOK
<1> QED BY <1>2 DEF n

\* What fREe reads of the chunk n that follows p.
LEMMA AboveFacts ==
    ASSUME NEW H, NEW U, NEW W, HeapOK(H, U, W), NEW p, p \in U,
           NEW n, n = p + H.head[p].size, n # H.top
    PROVE  LET m == n + H.head[n].size
           IN  /\ n \in DOMAIN H.head /\ n \in Nat /\ H.head[n].size \in Nat
               /\ chunksize(H, n) = H.head[n].size
               /\ inuse(H, n) <=> n \notin Elems(H.bins)
<1>1. n \in DOMAIN H.head /\ n \in Nat /\ n % 2 = 0
  BY UsedChunk
<1>2. Tiles(H.head, Elems(H.bins), U, H.top) /\ H.head[n].size \in Nat
  BY <1>1, HeapParts
<1>3. chunksize(H, n) = H.head[n].size /\ next_chunk(H, n) = n + H.head[n].size
  BY <1>1, ChunkSizeFacts
<1>4. n \in Elems(H.bins) <=> ~H.head[n + H.head[n].size].prev_inuse
  BY <1>1, <1>2, InuseTells
<1> QED BY <1>1, <1>2, <1>3, <1>4 DEF inuse, prev_inuse

\* The bins of G are those of H without the chunks of R, and with q if it is
\* the last remainder.
BinsReady(H, G, R, q, lr) ==
    /\ BinsOK(G) /\ SameHeads(H, G)
    /\ Elems(G.bins) = (Elems(H.bins) \ R) \cup (IF lr THEN {q} ELSE {})
    /\ lr => Remainder(G.bins) = {q}

\* The three ways the bins are left by fREe, before the chunk itself is made.
LEMMA FreeReadyForth ==
    ASSUME NEW H, NEW U, NEW W, HeapOK(H, U, W), NEW p, p \in U,
           NEW n, n = p + H.head[p].size, n \in Elems(H.bins),
           NEW q, q = Below(H, p), NEW R, R = {q, p, n}, NEW lr \in BOOLEAN,
           NEW H2, BinsReady(H, H2, R, q, lr),
           NEW m, m = n + H.head[n].size
    PROVE  FreeReady(H, U, W, H2, R, q, m, lr)
<1>0. /\ BinsOK(H2) /\ SameHeads(H, H2)
      /\ Elems(H2.bins) = (Elems(H.bins) \ R) \cup (IF lr THEN {q} ELSE {})
      /\ lr => Remainder(H2.bins) = {q}
  BY DEF BinsReady
<1> USE <1>0
<1>1. BelowOK(H, U, W, p, q, n)
  BY BelowFacts
<1>2. /\ q \in DOMAIN H.head /\ q \in Nat /\ q % 2 = 0 /\ q <= p /\ p < n /\ n \in Nat
      /\ H.head[q].prev_inuse /\ H.top \notin {q, p} /\ n - q >= MINSIZE
      /\ Span(H.head, {q, p}, q, n) /\ Spare(W, q, n)
  BY <1>1 DEF BelowOK
<1>3. /\ n \in DOMAIN H.head /\ n # H.top /\ H.head[n].size \in Nat /\ H.head[n].size >= MINSIZE
      /\ m \in DOMAIN H.head /\ m \in Nat /\ m % 2 = 0 /\ m # H.top /\ m \notin Elems(H.bins) /\ n < m
      /\ ~H.head[m].prev_inuse
  <2>1. FreeOK(H, U, W, n, m)
    BY FreeChunkIs
  <2> QED BY <2>1 DEF FreeOK
<1>4. p \in DOMAIN H.head /\ p \in Nat
  BY UsedChunk
<1>5. Span(H.head, R, q, m) /\ Spare(W, q, m)
  <2>1. Tiles(H.head, Elems(H.bins), U, H.top) /\ Avoids(H.head, W) /\ W \subseteq Nat
    BY HeapParts
  <2>2. Span(H.head, {q, p} \cup {n}, q, m) /\ Spare(W, q, m)
    BY <1>2, <1>3, <2>1, SpanJoin
  <2>3. R = {q, p} \cup {n}
    OBVIOUS
  <2> QED BY <2>2, <2>3
<1>6. m - q >= MINSIZE /\ q < m
  BY <1>2, <1>3, <1>4, SMTT(30) DEF MINSIZE
<1>7. H2.head = H.head /\ H2.top = H.top
  BY DEF SameHeads
<1>8. q \in R /\ R \subseteq DOMAIN H.head /\ H.top \notin R
  BY <1>2, <1>3, <1>4
<1>9. FreeReady(H, U, W, H2, R, q, m, lr)
  BY <1>2, <1>3, <1>5, <1>6, <1>7, <1>8 DEF FreeReady
<1> QED BY <1>9

\* The next chunk is in use: its tag says that it has a free one below.
LEMMA FreeReadyAlone ==
    ASSUME NEW H, NEW U, NEW W, HeapOK(H, U, W), NEW p, p \in U,
           NEW n, n = p + H.head[p].size, n \notin Elems(H.bins), n # H.top,
           NEW q, q = Below(H, p), NEW R, R = {q, p}, NEW lr \in BOOLEAN,
           NEW H1, BinsReady(H, H1, R, q, lr)
    PROVE  FreeReady(H, U, W, set_head(H1, n, H.head[n].size, CLEAR), R, q, n, lr)
<1> DEFINE s == H.head[n].size
           H2 == set_head(H1, n, s, CLEAR)
<1>0. /\ BinsOK(H1) /\ SameHeads(H, H1)
      /\ Elems(H1.bins) = (Elems(H.bins) \ R) \cup (IF lr THEN {q} ELSE {})
      /\ lr => Remainder(H1.bins) = {q}
  BY DEF BinsReady
<1> USE <1>0
<1>1. BelowOK(H, U, W, p, q, n)
  BY BelowFacts
<1>2. /\ q \in DOMAIN H.head /\ q \in Nat /\ q % 2 = 0 /\ q <= p /\ p < n /\ n \in Nat /\ n \in DOMAIN H.head /\ n % 2 = 0
      /\ H.head[q].prev_inuse /\ H.top \notin {q, p} /\ n - q >= MINSIZE
      /\ Span(H.head, {q, p}, q, n) /\ Spare(W, q, n)
  BY <1>1 DEF BelowOK
<1>3. p \in DOMAIN H.head /\ p \in Nat /\ s \in Nat
  BY <1>2, UsedChunk, HeapParts
<1> HIDE DEF s
<1>4. H1.head = H.head /\ H1.top = H.top /\ Heads(H1)
  BY DEF SameHeads, BinsOK
<1>5. H2 = set_head(H1, n, s, CLEAR)
  OBVIOUS
<1> HIDE DEF H2
<1>6. HeadFree(H1, H2, n, s)
  BY <1>2, <1>3, <1>4, <1>5, SetHeadFree
<1>7. /\ Heads(H2) /\ DOMAIN H2.head = DOMAIN H1.head \cup {n} /\ SameBins(H1, H2) /\ H2.top = H1.top
      /\ H2.head[n].size = s /\ ~H2.head[n].prev_inuse
      /\ \A c \in DOMAIN H1.head \ {n} : H2.head[c] = H1.head[c]
  BY <1>6 DEF HeadFree
<1>8. DOMAIN H2.head = DOMAIN H.head
  BY <1>2, <1>4, <1>7
<1>9. /\ BinsOK(H2) /\ Elems(H2.bins) = Elems(H1.bins) /\ Remainder(H2.bins) = Remainder(H1.bins)
  <2>1. ASSUME NEW x \in Elems(H1.bins) \ Remainder(H1.bins) PROVE H2.head[x].size = H1.head[x].size
    <3>1. x \in DOMAIN H.head
      <4>1. x \in Elems(H.bins) \/ x = q
        OBVIOUS
      <4>2. Elems(H.bins) \subseteq DOMAIN H.head
        BY HeapParts
      <4> QED BY <1>2, <4>1, <4>2
    <3> QED BY <1>4, <1>7, <3>1 DEF s
  <2> QED BY <1>7, <2>1, BinsKept
<1>10. q < n
  BY <1>2, <1>3
<1>11. q \in R /\ R \subseteq DOMAIN H.head /\ H.top \notin R
  BY <1>2, <1>3
<1>12. FreeReady(H, U, W, H2, R, q, n, lr)
  BY <1>2, <1>4, <1>7, <1>8, <1>9, <1>10, <1>11 DEF FreeReady, s
<1> QED BY <1>12 DEF H2, s

\* G is H after p was freed.
Freed(H, U, W, p, G) ==
    /\ HeapOK(G, U \ {p}, W) /\ TopEnd(G) = TopEnd(H)
    /\ \A c \in U \ {p} : G.head[c].size = H.head[c].size

LEMMA FreeMade ==
    ASSUME NEW H, NEW U, NEW W, HeapOK(H, U, W), NEW p, p \in U,
           NEW R, R \cap U = {p}, NEW G, FreedSpan(H, U, W, R, G)
    PROVE  Freed(H, U, W, p, G)
<1>1. /\ HeapOK(G, U \ R, W) /\ TopEnd(G) = TopEnd(H)
      /\ \A c \in DOMAIN H.head \ R : c \in DOMAIN G.head /\ G.head[c].size = H.head[c].size
  BY DEF FreedSpan
<1>2. U \ R = U \ {p} /\ U \subseteq DOMAIN H.head
  BY HeapParts
<1> QED BY <1>1, <1>2 DEF Freed

\* A chunk that does not lie below top is freed, with its free neighbours.
LEMMA FreeIntoBinsFacts ==
    ASSUME NEW H, NEW U, NEW W, HeapOK(H, U, W), NEW p, p \in U,
           p + H.head[p].size # H.top
    PROVE  Freed(H, U, W, p, FreeIntoBins(H, p))
<1> DEFINE next  == next_chunk(H, p)
           back  == ~prev_inuse(H, p)
           q     == IF back THEN prev_chunk(H, p) ELSE p
           islr  == back /\ InBin(H, LAST_REMAINDER, q)
           H1    == IF back /\ ~islr THEN unlink(H, q) ELSE H
           forth == ~inuse(H, next)
           nextlr == forth /\ ~islr /\ InBin(H1, LAST_REMAINDER, next)
           H2    == IF nextlr THEN link_last_remainder(H1, q)
                    ELSE IF forth THEN unlink(H1, next)
                    ELSE set_head(H1, next, chunksize(H, next), CLEAR)
           size  == chunksize(H, p) + (IF back THEN H.head[p].prev_size ELSE 0)
                                    + (IF forth THEN chunksize(H, next) ELSE 0)
           gone  == (IF back THEN {p} ELSE {}) \cup (IF forth THEN {next} ELSE {})
           H3    == set_foot(set_head(Absorb(H2, gone), q, size, PREV_INUSE), q, size)
           G     == IF islr \/ nextlr THEN H3 ELSE frontlink(H3, q, size)
           F     == Elems(H.bins)
           L     == Remainder(H.bins)
<1>1. FreeIntoBins(H, p) = G
  BY DEF FreeIntoBins
<1>2. /\ BinsOK(H) /\ U \subseteq DOMAIN H.head /\ F \subseteq DOMAIN H.head /\ F \cap U = {} /\ DOMAIN H.head \subseteq Nat
      /\ p \in DOMAIN H.head /\ p \in Nat /\ p \notin F /\ H.head[p].size \in Nat /\ H.head[p].prev_size \in Nat
  BY HeapParts, UsedChunk
<1>3. L \subseteq F /\ (\A x, y \in L : x = y)
  <2>1. L \subseteq F
    BY <1>2, RemainderFacts DEF BinsOK
  <2> QED BY <2>1 DEF Remainder
<1>4. chunksize(H, p) = H.head[p].size /\ next = p + H.head[p].size
  BY <1>2, ChunkSizeFacts
<1>5. next # H.top /\ next \in U \cup (DOMAIN H.head \ U)
  BY <1>4, UsedChunk
<1>6. /\ next \in DOMAIN H.head /\ next \in Nat /\ H.head[next].size \in Nat
      /\ chunksize(H, next) = H.head[next].size
      /\ (forth <=> next \in F)
  <2> HIDE DEF next
  <2>1. /\ next \in DOMAIN H.head /\ next \in Nat /\ H.head[next].size \in Nat
        /\ chunksize(H, next) = H.head[next].size
        /\ inuse(H, next) <=> next \notin Elems(H.bins)
    BY <1>4, <1>5, AboveFacts
  <2> QED BY <2>1
<1>7. q = Below(H, p)
  BY DEF Below
<1>8. BelowOK(H, U, W, p, q, next)
  <2> HIDE DEF q, next
  <2>1. BelowOK(H, U, W, p, Below(H, p), p + H.head[p].size)
    BY BelowFacts
  <2> QED BY <1>4, <1>7, <2>1
<1>9. back <=> ~H.head[p].prev_inuse
  BY DEF prev_inuse
<1> HIDE DEF q, next, back
<1>10. /\ q \in DOMAIN H.head /\ q \in Nat /\ p < next /\ q <= p /\ {q, p} \cap U = {p}
       /\ ~back => q = p /\ next - q = H.head[p].size
       /\ back => q \in F /\ q < p /\ next - q = H.head[p].size + H.head[p].prev_size
  BY <1>8, <1>9 DEF BelowOK
<1>11. islr <=> q \in L
  <2>1. InBin(H, LAST_REMAINDER, q) <=> q \in L
    BY <1>2, InBinFacts
  <2>2. q \in L => back
    BY <1>2, <1>3, <1>10
  <2> QED BY <2>1, <2>2
<1>12. BinsOK(H1) /\ SameHeads(H, H1) /\ Elems(H1.bins) = (IF islr THEN F ELSE F \ {q}) /\ Remainder(H1.bins) = L
  <2>1. CASE back /\ ~islr
    <3>1. H1 = unlink(H, q)
      BY <2>1
    <3>2. q \in F
      BY <1>10, <2>1
    <3> HIDE DEF H1, islr, F, L
    <3>3. /\ BinsOK(H1) /\ SameHeads(H, H1) /\ Elems(H1.bins) = F \ {q} /\ Remainder(H1.bins) = L \ {q}
      BY <1>2, <3>1, <3>2, UnlinkFacts DEF F, L
    <3> QED BY <1>11, <2>1, <3>3
  <2>2. CASE ~(back /\ ~islr)
    <3>1. H1 = H
      BY <2>2
    <3>2. ~islr => q \notin F
      BY <1>2, <1>10, <2>2
    <3>3. SameHeads(H, H)
      BY DEF SameHeads
    <3> HIDE DEF H1, islr
    <3> QED BY <1>2, <3>1, <3>2, <3>3
  <2> QED BY <2>1, <2>2
<1>13. nextlr <=> next \in L /\ ~islr
  <2>1. InBin(H1, LAST_REMAINDER, next) <=> next \in L
    <3> HIDE DEF H1, islr, L
    <3> QED BY <1>12, InBinFacts
  <2>2. next \in L => forth
    BY <1>3, <1>6
  <2> HIDE DEF H1, forth, islr
  <2> QED BY <2>1, <2>2
<1>14. PICK lr \in BOOLEAN : lr <=> islr \/ nextlr
  <2>1. (islr \/ nextlr) \in BOOLEAN
    OBVIOUS
  <2> HIDE DEF islr, nextlr
  <2>2. CASE islr \/ nextlr
    BY <2>2
  <2>3. CASE ~(islr \/ nextlr)
    BY <2>3
  <2> QED BY <2>2, <2>3
<1>15. next # q /\ next # p
  BY <1>2, <1>6, <1>10
<1> DEFINE R == IF forth THEN {q, p, next} ELSE {q, p}
           e == IF forth THEN next + H.head[next].size ELSE next
<1>16. R \cap U = {p} /\ gone = R \ {q} /\ size = e - q
  <2> HIDE DEF F
  <2>1. next \in F => next \notin U
    BY <1>2
  <2>2. CASE forth
    <3>1. R = {q, p, next} /\ e = next + H.head[next].size
      BY <2>2
    <3>2. gone = (IF back THEN {p} ELSE {}) \cup {next}
      BY <2>2
    <3>3. size = H.head[p].size + (IF back THEN H.head[p].prev_size ELSE 0) + H.head[next].size
      BY <1>4, <1>6, <2>2
    <3>4. size = e - q
      <4> HIDE DEF size, e
      <4> QED BY <1>2, <1>6, <1>10, <3>1, <3>3
    <3>5. gone = R \ {q}
      <4> HIDE DEF gone, R
      <4> QED BY <1>10, <1>15, <3>1, <3>2
    <3>6. next \notin U
      BY <1>6, <2>1, <2>2
    <3> QED BY <1>10, <3>1, <3>4, <3>5, <3>6
  <2>3. CASE ~forth
    <3>1. R = {q, p} /\ e = next
      BY <2>3
    <3>2. gone = (IF back THEN {p} ELSE {})
      BY <2>3
    <3>3. size = H.head[p].size + (IF back THEN H.head[p].prev_size ELSE 0)
      BY <1>2, <1>4, <1>6, <2>3
    <3>4. size = e - q
      <4> HIDE DEF size, e
      <4> QED BY <1>2, <1>6, <1>10, <3>1, <3>3
    <3>5. gone = R \ {q}
      <4> HIDE DEF gone, R
      <4> QED BY <1>10, <1>15, <3>1, <3>2
    <3> QED BY <1>10, <3>1, <3>4, <3>5
  <2> QED BY <2>2, <2>3
<1>17. FreeReady(H, U, W, H2, R, q, e, lr)
  <2>1. CASE forth
    <3>1. R = {q, p, next} /\ e = next + H.head[next].size /\ next \in F
      BY <1>6, <2>1
    <3>2. BinsOK(H2) /\ SameHeads(H, H2) /\ Elems(H2.bins) = (F \ R) \cup (IF lr THEN {q} ELSE {})
          /\ (lr => Remainder(H2.bins) = {q})
      <4>1. CASE nextlr
        <5>1. H2 = link_last_remainder(H1, q) /\ lr
          BY <1>14, <4>1
        <5>2. next \in L /\ ~islr
          BY <1>13, <4>1
        <5>3. L = {next} /\ q \notin L
          BY <1>3, <1>11, <5>2
        <5> HIDE DEF H1, H2, islr, L, R
        <5>4. q \notin Elems(H1.bins) \ Remainder(H1.bins)
          BY <1>12, <5>2
        <5>5. /\ BinsOK(H2) /\ SameHeads(H1, H2)
              /\ Elems(H2.bins) = (Elems(H1.bins) \ Remainder(H1.bins)) \cup {q} /\ Remainder(H2.bins) = {q}
          BY <1>10, <1>12, <5>1, <5>4, LinkLastFacts
        <5>6. Elems(H2.bins) = (F \ R) \cup {q}
          <6> HIDE DEF F
          <6> QED BY <1>2, <1>12, <3>1, <5>2, <5>3, <5>5 DEF F
        <5>7. SameHeads(H, H2)
          BY <1>12, <5>5 DEF SameHeads
        <5> QED BY <5>1, <5>5, <5>6, <5>7
      <4>2. CASE ~nextlr
        <5>1. H2 = unlink(H1, next) /\ (lr <=> islr)
          BY <1>14, <2>1, <4>2
        <5>2. next \in L => islr
          BY <1>13, <4>2
        <5>3. next \notin L
          BY <1>3, <1>11, <1>15, <5>2
        <5> HIDE DEF H1, H2, islr, L, R, nextlr
        <5>4. next \in Elems(H1.bins)
          BY <1>12, <1>15, <3>1
        <5>5. /\ BinsOK(H2) /\ SameHeads(H1, H2)
              /\ Elems(H2.bins) = Elems(H1.bins) \ {next} /\ Remainder(H2.bins) = Remainder(H1.bins) \ {next}
          BY <1>12, <5>1, <5>4, UnlinkFacts
        <5>6. Elems(H2.bins) = (F \ R) \cup (IF lr THEN {q} ELSE {})
          <6> HIDE DEF F
          <6>1. CASE islr
            <7>1. q \in F
              BY <1>3, <1>11, <6>1
            <7> QED BY <1>2, <1>12, <1>15, <3>1, <5>1, <5>5, <6>1, <7>1 DEF F
          <6>2. CASE ~islr
            BY <1>2, <1>12, <3>1, <5>1, <5>5, <6>2 DEF F
          <6> QED BY <6>1, <6>2
        <5>7. SameHeads(H, H2)
          BY <1>12, <5>5 DEF SameHeads
        <5>8. lr => Remainder(H2.bins) = {q}
          BY <1>3, <1>11, <1>12, <5>1, <5>3, <5>5
        <5> QED BY <5>5, <5>6, <5>7, <5>8
      <4> QED BY <4>1, <4>2
    <3> HIDE DEF R, e, H2, forth
    <3>3. BinsReady(H, H2, R, q, lr)
      BY <3>2 DEF BinsReady
    <3> QED BY <1>4, <1>7, <3>1, <3>3, FreeReadyForth
  <2>2. CASE ~forth
    <3>1. R = {q, p} /\ e = next /\ next \notin F
      BY <1>6, <2>2
    <3>2. ~nextlr
      BY <2>2
    <3>3. H2 = set_head(H1, next, chunksize(H, next), CLEAR) /\ (lr <=> islr)
      BY <1>14, <2>2, <3>2
    <3>4. H2 = set_head(H1, next, H.head[next].size, CLEAR)
      BY <1>6, <3>3
    <3> HIDE DEF R, e, H2, forth, H1, nextlr, islr, L
    <3>5. Elems(H1.bins) = (F \ R) \cup (IF lr THEN {q} ELSE {})
      <4>1. CASE islr
        <5>1. q \in F
          BY <1>3, <1>11, <4>1
        <5> QED BY <1>2, <1>12, <3>1, <3>3, <4>1, <5>1
      <4>2. CASE ~islr
        BY <1>2, <1>12, <3>1, <3>3, <4>2
      <4> QED BY <4>1, <4>2
    <3>6. lr => Remainder(H1.bins) = {q}
      BY <1>3, <1>11, <1>12, <3>3
    <3>7. FreeReady(H, U, W, set_head(H1, next, H.head[next].size, CLEAR), R, q, next, lr)
      <4>1. BinsReady(H, H1, R, q, lr)
        BY <1>12, <3>5, <3>6 DEF BinsReady
      <4> QED BY <1>4, <1>5, <1>7, <3>1, <4>1, FreeReadyAlone
    <3> QED BY <3>1, <3>4, <3>7
  <2> QED BY <2>1, <2>2
<1>18. H3 = FreeChunkMade(H2, R, q, e - q)
  <2> HIDE DEF H2, R, q, e, gone, size
  <2> QED BY <1>16 DEF FreeChunkMade
<1>19. G = IF lr THEN H3 ELSE frontlink(H3, q, e - q)
  <2> HIDE DEF H3, islr, nextlr, size, e
  <2> QED BY <1>14, <1>16
<1> HIDE DEF G, H3, H2, R, e
<1>20. FreedSpan(H, U, W, R, G)
  BY <1>17, <1>18, <1>19, FreeFinish
<1>21. Freed(H, U, W, p, G)
  BY <1>16, <1>20, FreeMade
<1> QED BY <1>1, <1>21

\* fREe turns a sound heap into one without the block p.
LEMMA FreeFacts ==
    ASSUME NEW H, NEW U, NEW W, HeapOK(H, U, W), NEW p, p \in U, TopEnd(H) % 2 = 0
    PROVE  Freed(H, U, W, p, fREe(H, p))
<1>1. p \in Nat
  BY UsedChunk
<1>2. next_chunk(H, p) = p + H.head[p].size
  BY <1>1, ChunkSizeFacts
<1>3. CASE p + H.head[p].size = H.top
  <2>1. fREe(H, p) = FreeIntoTop(H, p)
    BY <1>2, <1>3 DEF fREe
  <2>2. Freed(H, U, W, p, FreeIntoTop(H, p))
    BY <1>3, FreeIntoTopFacts DEF Freed
  <2> QED BY <2>1, <2>2
<1>4. CASE p + H.head[p].size # H.top
  <2>1. fREe(H, p) = FreeIntoBins(H, p)
    BY <1>2, <1>4 DEF fREe
  <2>2. Freed(H, U, W, p, FreeIntoBins(H, p))
    BY <1>4, FreeIntoBinsFacts
  <2> QED BY <2>1, <2>2
<1> QED BY <1>3, <1>4

LEMMA MaxIn ==
    ASSUME NEW n \in Nat, NEW S, S \subseteq 1 .. n, S # {}
    PROVE  Max(S) \in S
<1> DEFINE T == {n - i : i \in S}
<1>1. T \subseteq Nat /\ T # {}
  <2>1. \A i \in S : n - i \in Nat
    OBVIOUS
  <2> QED BY <2>1
<1>2. PICK m \in T : \A k \in T : m <= k
  <2> HIDE DEF T
  <2> QED BY <1>1, LeastElement
<1>3. PICK x \in S : m = n - x
  BY <1>2
<1>4. \A y \in S : x >= y
  <2> SUFFICES ASSUME NEW y \in S PROVE x >= y
    OBVIOUS
  <2>1. n - x <= n - y
    BY <1>2, <1>3
  <2> QED BY <2>1
<1> QED BY <1>4 DEF Max

LEMMA MinIn ==
    ASSUME NEW S, S \subseteq Nat, S # {}
    PROVE  Min(S) \in S /\ \A y \in S : Min(S) <= y
<1>1. PICK m \in S : \A k \in S : m <= k
  BY LeastElement
<1> QED BY <1>1 DEF Min

\* The walk through a bin stops at a chunk that fits, if there is one.
LEMMA LastFittingFacts ==
    ASSUME NEW H, BinsOK(H), NEW i, NEW nb
    PROVE  LET v == LastFitting(H, i, nb)
           IN  /\ v = NULL => \A k \in DOMAIN Bin(H, i) : ~(H.head[Bin(H, i)[k]].size >= nb)
               /\ v # NULL => /\ v \in Nat /\ v \in Elems(H.bins) /\ i \in DOMAIN H.bins
                              /\ \E k \in DOMAIN H.bins[i] : H.bins[i][k] = v
                              /\ H.head[v].size >= nb
<1> DEFINE b == Bin(H, i)
           fits == {k \in DOMAIN Bin(H, i) : chunksize(H, Bin(H, i)[k]) >= nb}
           v == LastFitting(H, i, nb)
<1>1. b \in Seq(Nat) /\ DOMAIN b = 1 .. Len(b) /\ Len(b) \in Nat /\ \A k \in DOMAIN b : b[k] \in Nat
  <2>1. CASE i \in DOMAIN H.bins
    <3>1. b = H.bins[i] /\ b \in Seq(Nat)
      BY <2>1 DEF BinsOK, Bins, Bin
    <3> QED BY <3>1, SeqFacts
  <2>2. CASE i \notin DOMAIN H.bins
    <3>1. b = << >>
      BY <2>2 DEF Bin
    <3> QED BY <3>1
  <2> QED BY <2>1, <2>2
<1>2. \A k \in DOMAIN b : chunksize(H, b[k]) = H.head[b[k]].size
  BY <1>1, ChunkSizeFacts
<1>3. CASE fits = {}
  <2>1. v = NULL
    BY <1>3 DEF LastFitting
  <2>2. \A k \in DOMAIN b : ~(H.head[b[k]].size >= nb)
    BY <1>2, <1>3
  <2> QED BY <2>1, <2>2
<1>4. CASE fits # {}
  <2>1. v = b[Max(fits)]
    BY <1>4 DEF LastFitting
  <2>2. Max(fits) \in fits
    <3>1. fits \subseteq 1 .. Len(b)
      BY <1>1
    <3> HIDE DEF fits, b
    <3> QED BY <1>1, <1>4, <3>1, MaxIn
  <2>3. PICK k \in DOMAIN b : v = b[k] /\ H.head[b[k]].size >= nb
    <3>1. Max(fits) \in DOMAIN b /\ chunksize(H, b[Max(fits)]) >= nb
      BY <2>2
    <3> HIDE DEF fits, b
    <3> QED BY <1>2, <2>1, <3>1
  <2>4. v \in Nat /\ v # NULL
    BY <1>1, <2>3 DEF NULL
  <2>5. i \in DOMAIN H.bins /\ b = H.bins[i]
    <3>1. i \notin DOMAIN H.bins => b = << >>
      BY DEF Bin
    <3>2. b # << >>
      BY <2>3
    <3>3. i \in DOMAIN H.bins
      BY <3>1, <3>2
    <3> QED BY <3>3 DEF Bin
  <2>6. v \in Elems(H.bins)
    BY <2>3, <2>5, ElemsFacts
  <2> QED BY <2>3, <2>4, <2>5, <2>6
<1> QED BY <1>3, <1>4

-----------------------------------------------------------------------------
(* mALLOc: the search of the bins.                                         *)

LEMMA BinHolds ==
    ASSUME NEW H, BinsOK(H), NEW i, i \in DOMAIN H.bins, i # LAST_REMAINDER, NEW k, k \in DOMAIN H.bins[i]
    PROVE  i = bin_index(H.head[H.bins[i][k]].size) /\ H.bins[i][k] \in Elems(H.bins) /\ i \in Nat
<1>1. i = bin_index(H.head[H.bins[i][k]].size) /\ i \in Nat
  BY DEF BinsOK, Bins
<1> QED BY <1>1, ElemsFacts

\* A free chunk other than the last remainder is in the bin of its size.
LEMMA BinWhere ==
    ASSUME NEW H, BinsOK(H), NEW c, c \in Elems(H.bins), c \notin Remainder(H.bins)
    PROVE  LET i == bin_index(H.head[c].size)
           IN  i \in DOMAIN H.bins /\ i # LAST_REMAINDER /\ \E k \in DOMAIN H.bins[i] : H.bins[i][k] = c
<1>1. PICK i \in DOMAIN H.bins : \E k \in DOMAIN H.bins[i] : H.bins[i][k] = c
  BY ElemsFacts
<1>2. PICK k \in DOMAIN H.bins[i] : H.bins[i][k] = c
  BY <1>1
<1>3. i # LAST_REMAINDER
  BY <1>2, RemainderFacts DEF BinsOK
<1> QED BY <1>2, <1>3, BinHolds

\* r is what an allocation of nb words from the bins comes to when it takes v.
Taken(H, U, W, nb, v, r) ==
    /\ r.victim = v /\ HeapOK(r.h, U \cup {v}, W) /\ TopEnd(r.h) = TopEnd(H)
    /\ v \notin U /\ v \in Nat /\ r.h.head[v].size >= nb
    /\ \A c \in U : r.h.head[c].size = H.head[c].size

LEMMA TakeWholeTaken ==
    ASSUME NEW H, NEW U, NEW W, HeapOK(H, U, W), NEW v, v \in Elems(H.bins), NEW nb, H.head[v].size >= nb
    PROVE  Taken(H, U, W, nb, v, TakeWhole(H, v))
<1> DEFINE r == TakeWhole(H, v)
<1> DEFINE G == TakeWhole(H, v).h
<1>a. /\ HeapOK(G, U \cup {v}, W) /\ TopEnd(G) = TopEnd(H)
      /\ DOMAIN G.head = DOMAIN H.head
      /\ \A c \in DOMAIN H.head : G.head[c].size = H.head[c].size
      /\ TakeWhole(H, v).victim = v
  BY TakeWholeFacts
<1>1. /\ HeapOK(r.h, U \cup {v}, W) /\ TopEnd(r.h) = TopEnd(H)
      /\ \A c \in DOMAIN H.head : r.h.head[c].size = H.head[c].size
      /\ r.victim = v
  BY <1>a
<1> HIDE DEF r
<1>2. v \notin U /\ v \in Nat /\ v \in DOMAIN H.head /\ U \subseteq DOMAIN H.head
  <2>1. FreeOK(H, U, W, v, v + H.head[v].size)
    BY FreeChunkIs
  <2> QED BY <2>1, HeapParts DEF FreeOK
<1>3. Taken(H, U, W, nb, v, r)
  BY <1>1, <1>2 DEF Taken
<1> QED BY <1>3 DEF r

LEMMA SplitTaken ==
    ASSUME NEW H, NEW U, NEW W, HeapOK(H, U, W), NEW v, v \in Elems(H.bins),
           NEW nb \in Nat, nb % 2 = 0, nb >= MINSIZE, H.head[v].size - nb >= MINSIZE,
           Remainder(H.bins) \subseteq {v}
    PROVE  Taken(H, U, W, nb, v, SplitChunk(H, v, nb))
<1> DEFINE r == SplitChunk(H, v, nb)
<1>1. /\ HeapOK(r.h, U \cup {v}, W) /\ TopEnd(r.h) = TopEnd(H)
      /\ r.h.head[v].size = nb
      /\ \A c \in U : r.h.head[c].size = H.head[c].size
      /\ r.victim = v
  BY SplitChunkFacts
<1> HIDE DEF r
<1>2. v \notin U /\ v \in Nat
  <2>1. FreeOK(H, U, W, v, v + H.head[v].size)
    BY FreeChunkIs
  <2> QED BY <2>1 DEF FreeOK
<1>3. Taken(H, U, W, nb, v, r)
  BY <1>1, <1>2 DEF Taken
<1> QED BY <1>3 DEF r

\* Taken, whole or split, the chunk found serves the request.
LEMMA TakeOrSplitTaken ==
    ASSUME NEW H, NEW U, NEW W, HeapOK(H, U, W), NEW v, v \in Elems(H.bins),
           NEW nb \in Nat, nb % 2 = 0, nb >= MINSIZE, H.head[v].size >= nb,
           Remainder(H.bins) \subseteq {v}
    PROVE  Taken(H, U, W, nb, v, TakeOrSplit(H, v, nb))
<1>1. chunksize(H, v) = H.head[v].size
  <2>1. FreeOK(H, U, W, v, v + H.head[v].size)
    BY FreeChunkIs
  <2>2. v \in Nat
    BY <2>1 DEF FreeOK
  <2> QED BY <2>2, ChunkSizeFacts
<1>2. CASE H.head[v].size - nb >= MINSIZE
  <2>1. TakeOrSplit(H, v, nb) = SplitChunk(H, v, nb)
    BY <1>1, <1>2 DEF TakeOrSplit
  <2> QED BY <1>2, <2>1, SplitTaken
<1>3. CASE ~(H.head[v].size - nb >= MINSIZE)
  <2>1. TakeOrSplit(H, v, nb) = TakeWhole(H, v)
    BY <1>1, <1>3 DEF TakeOrSplit
  <2> QED BY <2>1, TakeWholeTaken
<1> QED BY <1>2, <1>3

\* The bins whose chunks are at least as large as a request for nb are those
\* from that of nb on.
LEMMA ExactFitFacts ==
    ASSUME NEW H, BinsOK(H), Elems(H.bins) \subseteq DOMAIN H.head, NEW nb \in Nat, nb >= MINSIZE
    PROVE  LET v == ExactFit(H, nb)
           IN  /\ v # NULL => v \in Elems(H.bins) /\ H.head[v].size >= nb
               /\ v = NULL /\ is_small_request(nb) => Bin(H, nb) = << >> /\ Bin(H, nb + 1) = << >>
<1> DEFINE small == IF Bin(H, nb) # << >> THEN Bin(H, nb) ELSE Bin(H, nb + 1)
           large == LastFitting(H, bin_index(nb), nb)
           v == ExactFit(H, nb)
<1>1. CASE is_small_request(nb)
  <2>1. CASE small = << >>
    <3>1. v = NULL
      BY <1>1, <2>1 DEF ExactFit
    <3>2. Bin(H, nb) = << >> /\ Bin(H, nb + 1) = << >>
      BY <2>1
    <3> QED BY <3>1, <3>2
  <2>2. CASE small # << >>
    <3>1. PICK i \in {nb, nb + 1} : small = Bin(H, i) /\ Bin(H, i) # << >>
      BY <2>2
    <3>2. i \in DOMAIN H.bins /\ small = H.bins[i]
      BY <3>1 DEF Bin
    <3>3. i \in Nat /\ i >= nb /\ i < 64 /\ i # LAST_REMAINDER
      BY <1>1, <3>1 DEF is_small_request, SMALL, LAST_REMAINDER, MINSIZE
    <3>4. small \in Seq(Nat)
      BY <3>2 DEF BinsOK, Bins
    <3>5. v = small[Len(small)]
      BY <1>1, <2>2 DEF ExactFit
    <3> HIDE DEF small, v
    <3>6. Len(small) \in DOMAIN small /\ small[Len(small)] \in Nat
      BY <2>2, <3>4, SeqFacts
    <3>7. i = bin_index(H.head[v].size) /\ v \in Elems(H.bins)
      BY <3>2, <3>3, <3>5, <3>6, BinHolds
    <3>8. v \in Nat /\ v # NULL
      BY <3>5, <3>6 DEF NULL
    <3>9. H.head[v].size \in Nat
      <4>1. v \in DOMAIN H.head
        BY <3>7
      <4> QED BY <4>1 DEF BinsOK, Heads, TagRec
    <3>10. H.head[v].size = i
      <4> DEFINE a == H.head[v].size
      <4> HIDE DEF a
      <4>1. a \in Nat /\ i = bin_index(a) /\ i < 64
        BY <3>3, <3>7, <3>9 DEF a
      <4>2. a = i
        BY <4>1, BinIndexRanges
      <4> QED BY <4>2 DEF a
    <3>11. v # NULL /\ v \in Elems(H.bins) /\ H.head[v].size >= nb
      BY <3>3, <3>7, <3>8, <3>10
    <3> QED BY <3>11 DEF v
  <2> QED BY <2>1, <2>2
<1>2. CASE ~is_small_request(nb)
  <2>1. v # NULL => v = large
    BY <1>2 DEF ExactFit
  <2>2. large # NULL => large \in Elems(H.bins) /\ H.head[large].size >= nb
    BY LastFittingFacts
  <2> QED BY <1>2, <2>1, <2>2
<1> QED BY <1>1, <1>2

Marked(H, idx) == {b \in H.binblocks : b >= Block(idx)}
StartAt(H, idx) == IF Block(idx) \in Marked(H, idx) THEN idx ELSE 4 * Min(Marked(H, idx))
Fits(H, nb, idx) == {i \in DOMAIN H.bins :
                       i >= StartAt(H, idx) /\ Block(i) \in Marked(H, idx) /\ LastFitting(H, i, nb) # NULL}
Passed(H, nb, idx) == {b \in Marked(H, idx) : \A i \in Fits(H, nb, idx) : b < Block(i)}
Unmarked(H, nb, idx) == [H EXCEPT !.binblocks = @ \ Emptied(H, Passed(H, nb, idx), StartAt(H, idx))]

\* A search for nb may begin at bin idx.
Begins(H, nb, idx) ==
    /\ idx \in Nat /\ idx >= bin_index(nb)
    /\ idx = bin_index(nb) => LastFitting(H, idx, nb) # NULL

LEMMA BlockFacts ==
    ASSUME NEW i \in Nat
    PROVE  Block(i) \in Nat /\ 4 * Block(i) <= i /\ i < 4 * Block(i) + 4
  BY DEF Block

LEMMA BlockOrder ==
    ASSUME NEW i \in Nat, NEW j \in Nat
    PROVE  i <= j => Block(i) <= Block(j)
<1>1. /\ Block(i) \in Nat /\ 4 * Block(i) <= i /\ i < 4 * Block(i) + 4
      /\ Block(j) \in Nat /\ 4 * Block(j) <= j /\ j < 4 * Block(j) + 4
  BY BlockFacts
<1> QED BY <1>1

\* Where the scan of the blocks begins.
LEMMA StartFacts ==
    ASSUME NEW H, Heads(H), NEW idx \in Nat, Marked(H, idx) # {}
    PROVE  /\ StartAt(H, idx) \in Nat /\ StartAt(H, idx) >= idx
           /\ \A i \in Nat : Block(i) \in Marked(H, idx) /\ i < StartAt(H, idx)
                             => Block(i) = Block(StartAt(H, idx)) /\ i >= 4 * Block(i)
           /\ \A i \in Nat : Block(i) \in Marked(H, idx) /\ i >= idx => i >= StartAt(H, idx)
<1> DEFINE M == Marked(H, idx)
           st == StartAt(H, idx)
<1>1. M \subseteq Nat /\ \A b \in M : b >= Block(idx)
  BY DEF Marked, Heads
<1>2. Min(M) \in M /\ \A y \in M : Min(M) <= y
  BY <1>1, MinIn
<1>3. Block(idx) \in Nat /\ 4 * Block(idx) <= idx /\ idx < 4 * Block(idx) + 4
  BY BlockFacts
<1>4. st = IF Block(idx) \in M THEN idx ELSE 4 * Min(M)
  BY DEF StartAt
<1> HIDE DEF M, st
<1>5. \A i \in Nat : Block(i) \in Nat /\ 4 * Block(i) <= i /\ i < 4 * Block(i) + 4
  BY BlockFacts
<1>6. CASE Block(idx) \in M
  <2>1. st = idx
    BY <1>4, <1>6
  <2>2. \A i \in Nat : Block(i) \in M /\ i < st => Block(i) = Block(st) /\ i >= 4 * Block(i)
    <3> SUFFICES ASSUME NEW i \in Nat, Block(i) \in M, i < st PROVE Block(i) = Block(st) /\ i >= 4 * Block(i)
      OBVIOUS
    <3>1. Block(i) >= Block(idx) /\ Block(i) \in Nat /\ 4 * Block(i) <= i /\ i < 4 * Block(i) + 4
      BY <1>1, <1>5
    <3> QED BY <1>3, <2>1, <3>1
  <2> QED BY <2>1, <2>2 DEF st, M
<1>7. CASE Block(idx) \notin M
  <2>1. st = 4 * Min(M)
    BY <1>4, <1>7
  <2> DEFINE m == Min(M)
  <2> HIDE DEF m
  <2>2. m \in M /\ m \in Nat /\ st = 4 * m /\ m >= Block(idx) /\ m # Block(idx) /\ \A y \in M : m <= y
    BY <1>1, <1>2, <1>7, <2>1 DEF m
  <2>3. st \in Nat /\ st >= idx
    BY <1>3, <2>2
  <2>4. \A i \in Nat : Block(i) \in M => i >= st
    <3> SUFFICES ASSUME NEW i \in Nat, Block(i) \in M PROVE i >= st
      OBVIOUS
    <3>1. Block(i) >= m /\ Block(i) \in Nat /\ 4 * Block(i) <= i
      BY <1>5, <2>2
    <3> QED BY <2>2, <3>1
  <2>5. \A i \in Nat : Block(i) \in M => ~(i < st)
    BY <2>3, <2>4
  <2> QED BY <2>3, <2>4, <2>5 DEF st, M
<1> QED BY <1>6, <1>7

\* The chunks of a bin behind that of nb are at least as large as nb.
LEMMA LargerBins ==
    ASSUME NEW H, BinsOK(H), Elems(H.bins) \subseteq DOMAIN H.head, NEW nb \in Nat, nb >= MINSIZE,
           NEW i, i \in DOMAIN H.bins, i > bin_index(nb), NEW k, k \in DOMAIN H.bins[i]
    PROVE  H.head[H.bins[i][k]].size >= nb
<1>1. bin_index(nb) \in Nat /\ bin_index(nb) > LAST_REMAINDER
  <2>1. nb <= nb
    OBVIOUS
  <2> QED BY <2>1, BinIndexFacts DEF MINSIZE
<1>2. i \in Nat /\ i # LAST_REMAINDER
  <2>1. i \in Nat
    BY DEF BinsOK, Bins
  <2> QED BY <1>1, <2>1 DEF LAST_REMAINDER
<1> DEFINE a == H.head[H.bins[i][k]].size
<1>3. i = bin_index(a) /\ a \in Nat
  <2>1. i = bin_index(a) /\ H.bins[i][k] \in Elems(H.bins)
    BY <1>2, BinHolds
  <2>2. H.bins[i][k] \in DOMAIN H.head
    BY <2>1
  <2> QED BY <2>1, <2>2 DEF BinsOK, Heads, TagRec
<1> HIDE DEF a
<1>4. CASE a >= nb
  BY <1>4 DEF a
<1>5. CASE a < nb
  <2>1. bin_index(a) <= bin_index(nb)
    <3>1. CASE a >= MINSIZE
      BY <1>3, <1>5, <3>1, BinIndexFacts
    <3>2. CASE a < MINSIZE
      <4>1. a < 4 /\ nb >= 4
        BY <3>2 DEF MINSIZE
      <4>2. bin_index(a) = a
        BY <1>3, <4>1, BinIndexRanges
      <4>3. bin_index(nb) >= 4
        BY <4>1, BinIndexRanges
      <4> QED BY <1>1, <1>3, <4>1, <4>2, <4>3
    <3> QED BY <1>3, <3>1, <3>2 DEF MINSIZE
  <2> QED BY <1>1, <1>2, <1>3, <2>1
<1> QED BY <1>3, <1>4, <1>5

\* No block with a chunk in one of its bins loses its mark.
LEMMA EmptiedSound ==
    ASSUME NEW H, BinsOK(H), Elems(H.bins) \subseteq DOMAIN H.head, NEW nb \in Nat, nb >= MINSIZE,
           NEW idx, Begins(H, nb, idx), Marked(H, idx) # {},
           NEW i, i \in DOMAIN H.bins, i # LAST_REMAINDER
    PROVE  Block(i) \notin Emptied(H, Passed(H, nb, idx), StartAt(H, idx))
<1> DEFINE st == StartAt(H, idx)
<1> SUFFICES ASSUME Block(i) \in Emptied(H, Passed(H, nb, idx), StartAt(H, idx))
             PROVE  FALSE
  OBVIOUS
<1>1. /\ i \in Nat /\ H.bins[i] \in Seq(Nat) /\ H.bins[i] # << >>
  BY DEF BinsOK, Bins
<1>2. 1 \in DOMAIN H.bins[i]
  <2>1. DOMAIN H.bins[i] = 1 .. Len(H.bins[i]) /\ Len(H.bins[i]) \in Nat /\ Len(H.bins[i]) # 0
    BY <1>1, SeqFacts
  <2> QED BY <2>1
<1>3. Block(i) \in Passed(H, nb, idx) /\ (Block(i) = Block(st) => \A j \in 4 * Block(i) .. st - 1 : Bin(H, j) = << >>)
  BY DEF Emptied
<1>4. Block(i) \in Marked(H, idx) /\ i \notin Fits(H, nb, idx) /\ Block(i) \in Nat
  <2>1. Block(i) \in Marked(H, idx) /\ \A j \in Fits(H, nb, idx) : Block(i) < Block(j)
    BY <1>3 DEF Passed
  <2>2. Block(i) \in Nat
    BY <1>1, BlockFacts
  <2> QED BY <2>1, <2>2
<1>5. idx \in Nat /\ idx >= bin_index(nb) /\ (idx = bin_index(nb) => LastFitting(H, idx, nb) # NULL)
  BY DEF Begins
<1>6. /\ st \in Nat /\ st >= idx
      /\ i < st => Block(i) = Block(st) /\ i >= 4 * Block(i)
  BY <1>1, <1>4, <1>5, StartFacts DEF BinsOK
<1> HIDE DEF st
<1>7. CASE i < st
  <2>1. i \in 4 * Block(i) .. st - 1
    BY <1>1, <1>4, <1>6, <1>7
  <2>2. Bin(H, i) = << >>
    BY <1>3, <1>6, <1>7, <2>1
  <2> QED BY <1>1, <2>2 DEF Bin
<1>8. CASE i >= st
  <2>1. LastFitting(H, i, nb) = NULL
    BY <1>4, <1>8 DEF Fits, st
  <2>2. ~(H.head[Bin(H, i)[1]].size >= nb)
    <3>1. 1 \in DOMAIN Bin(H, i)
      BY <1>2 DEF Bin
    <3> QED BY <2>1, <3>1, LastFittingFacts
  <2>3. Bin(H, i) = H.bins[i]
    BY DEF Bin
  <2>4. i > bin_index(nb) => H.head[H.bins[i][1]].size >= nb
    BY <1>2, LargerBins
  <2>5. bin_index(nb) \in Nat
    <3>1. nb <= nb
      OBVIOUS
    <3> QED BY <3>1, BinIndexFacts DEF MINSIZE
  <2>6. i # idx \/ idx # bin_index(nb)
    BY <1>5, <2>1
  <2> QED BY <1>1, <1>5, <1>6, <1>8, <2>2, <2>3, <2>4, <2>5, <2>6
<1> QED BY <1>1, <1>6, <1>7, <1>8

\* A heap with the blocks found empty unmarked is sound.
LEMMA UnmarkedFacts ==
    ASSUME NEW H, BinsOK(H), Elems(H.bins) \subseteq DOMAIN H.head, NEW nb \in Nat, nb >= MINSIZE,
           NEW idx, Begins(H, nb, idx), Marked(H, idx) # {}
    PROVE  LET G == Unmarked(H, nb, idx)
           IN  BinsOK(G) /\ SameHeads(H, G) /\ G.bins = H.bins
<1> DEFINE E == Emptied(H, Passed(H, nb, idx), StartAt(H, idx))
           G == Unmarked(H, nb, idx)
           x == H.binblocks \ E
<1>1. G = [H EXCEPT !.binblocks = x]
  BY DEF Unmarked
<1>2. \A i \in DOMAIN H.bins : i # LAST_REMAINDER => Block(i) \notin E
  BY EmptiedSound
<1> HIDE DEF E, G
<1>3. x \subseteq Nat
  BY DEF BinsOK, Heads
<1>4. Heads(G) /\ SameHeads(H, G) /\ G.bins = H.bins /\ G.binblocks = x
  <2> HIDE DEF x
  <2>1. Heads(H)
    BY DEF BinsOK
  <2> QED BY <1>1, <1>3, <2>1, BinBlocksFacts
<1>5. Bins(H.bins, H.head, x)
  <2>1. Bins(H.bins, H.head, H.binblocks)
    BY DEF BinsOK
  <2>2. \A i \in DOMAIN H.bins : i = LAST_REMAINDER \/ Block(i) \in H.binblocks
    BY <2>1 DEF Bins
  <2>3. \A i \in DOMAIN H.bins : i = LAST_REMAINDER \/ Block(i) \in x
    BY <1>2, <2>2
  <2> HIDE DEF x
  <2> QED BY <2>1, <2>3 DEF Bins
<1>6. BinsOK(G)
  BY <1>4, <1>5 DEF BinsOK, SameHeads
<1> QED BY <1>4, <1>6 DEF G

\* H with other marks is as good a heap.
LEMMA OtherMarks ==
    ASSUME NEW H, NEW U, NEW W, HeapOK(H, U, W), NEW G, BinsOK(G), SameHeads(H, G), Elems(G.bins) = Elems(H.bins)
    PROVE  HeapOK(G, U, W) /\ TopEnd(G) = TopEnd(H)
<1>1. G.head = H.head /\ G.top = H.top
  BY DEF SameHeads
<1> QED BY <1>1 DEF HeapOK, BinsOK, TopEnd

\* r is what an allocation of nb words from the bins comes to when it finds none.
Missed(H, U, W, nb, r) ==
    /\ r.victim = NULL /\ HeapOK(r.h, U, W) /\ SameHeads(H, r.h) /\ TopEnd(r.h) = TopEnd(H)
    /\ \A c \in Elems(r.h.bins) : H.head[c].size < nb

\* The scan misses no chunk that fits.
LEMMA BestFitFacts ==
    ASSUME NEW H, NEW U, NEW W, HeapOK(H, U, W), Remainder(H.bins) = {},
           NEW nb \in Nat, nb % 2 = 0, nb >= MINSIZE, NEW idx, Begins(H, nb, idx),
           \A c \in Elems(H.bins) : H.head[c].size >= nb => bin_index(H.head[c].size) >= idx
    PROVE  LET r == BestFit(H, nb, idx)
           IN  IF r.victim = NULL THEN Missed(H, U, W, nb, r) ELSE Taken(H, U, W, nb, r.victim, r)
<1> DEFINE M == Marked(H, idx)
           fits == Fits(H, nb, idx)
           H1 == Unmarked(H, nb, idx)
           r == BestFit(H, nb, idx)
           v == LastFitting(H, Min(fits), nb)
<1>1. r = IF M = {} THEN [h |-> H, victim |-> NULL]
          ELSE IF fits = {} THEN [h |-> H1, victim |-> NULL]
          ELSE TakeOrSplit(H1, v, nb)
  BY DEF BestFit, Marked, Fits, Unmarked, Passed, StartAt
<1> HIDE DEF r
<1>2. /\ BinsOK(H) /\ Elems(H.bins) \subseteq DOMAIN H.head /\ idx \in Nat
      /\ \A c \in Elems(H.bins) : H.head[c].size \in Nat
  BY HeapParts DEF Begins
<1>3. ASSUME NEW c \in Elems(H.bins), H.head[c].size >= nb
      PROVE  M # {} /\ fits # {}
  <2> DEFINE i == bin_index(H.head[c].size)
  <2>1. i \in DOMAIN H.bins /\ i # LAST_REMAINDER /\ \E k \in DOMAIN H.bins[i] : H.bins[i][k] = c
    BY <1>2, BinWhere
  <2>2. i >= idx
    BY <1>3
  <2> HIDE DEF i
  <2>3. i \in Nat /\ Block(i) \in H.binblocks
    BY <1>2, <2>1 DEF BinsOK, Bins
  <2>4. Block(i) >= Block(idx)
    <3>1. Block(idx) <= Block(i)
      BY <1>2, <2>2, <2>3, BlockOrder
    <3>2. Block(idx) \in Nat /\ Block(i) \in Nat
      BY <1>2, <2>3, BlockFacts
    <3> QED BY <3>1, <3>2
  <2>5. Block(i) \in M
    BY <2>3, <2>4 DEF Marked
  <2>6. i >= StartAt(H, idx)
    <3>1. Marked(H, idx) # {} /\ Heads(H)
      BY <1>2, <2>5 DEF BinsOK
    <3> QED BY <1>2, <2>2, <2>3, <2>5, <3>1, StartFacts
  <2>7. LastFitting(H, i, nb) # NULL
    <3>1. PICK k \in DOMAIN H.bins[i] : H.bins[i][k] = c
      BY <2>1
    <3>2. Bin(H, i) = H.bins[i]
      BY <2>1 DEF Bin
    <3>3. H.head[Bin(H, i)[k]].size >= nb /\ k \in DOMAIN Bin(H, i)
      BY <1>3, <3>1, <3>2
    <3> QED BY <1>2, <3>3, LastFittingFacts
  <2>8. i \in fits
    BY <2>1, <2>5, <2>6, <2>7 DEF Fits
  <2> QED BY <2>5, <2>8
<1>4. CASE M = {}
  <2>1. r.h = H /\ r.victim = NULL
    BY <1>1, <1>4
  <2>2. \A c \in Elems(H.bins) : H.head[c].size < nb
    BY <1>2, <1>3, <1>4
  <2>3. Missed(H, U, W, nb, r)
    BY <2>1, <2>2 DEF Missed, SameHeads
  <2> QED BY <2>1, <2>3 DEF r
<1>5. CASE M # {}
  <2>1. BinsOK(H1) /\ SameHeads(H, H1) /\ H1.bins = H.bins
    BY <1>2, <1>5, UnmarkedFacts
  <2> HIDE DEF H1, M, fits
  <2>2. HeapOK(H1, U, W) /\ TopEnd(H1) = TopEnd(H)
    BY <2>1, OtherMarks
  <2>3. CASE fits = {}
    <3>1. r.h = H1 /\ r.victim = NULL
      BY <1>1, <1>5, <2>3
    <3>2. \A c \in Elems(H1.bins) : H.head[c].size < nb
      BY <1>2, <1>3, <2>1, <2>3
    <3>3. Missed(H, U, W, nb, r)
      BY <2>1, <2>2, <3>1, <3>2 DEF Missed
    <3> QED BY <3>1, <3>3 DEF r
  <2>4. CASE fits # {}
    <3>1. r = TakeOrSplit(H1, v, nb)
      BY <1>1, <1>5, <2>4
    <3>2. fits \subseteq Nat
      <4>1. DOMAIN H.bins \subseteq Nat
        BY <1>2 DEF BinsOK, Bins
      <4> QED BY <4>1 DEF fits, Fits
    <3>3. Min(fits) \in fits
      BY <2>4, <3>2, MinIn
    <3>4. v # NULL
      BY <3>3 DEF fits, Fits
    <3> DEFINE m == Min(fits)
    <3> HIDE DEF m
    <3>5. v \in Elems(H.bins) /\ H.head[v].size >= nb /\ v \in Nat
      <4>1. v = LastFitting(H, m, nb)
        BY DEF m
      <4> HIDE DEF v
      <4> QED BY <1>2, <3>4, <4>1, LastFittingFacts
    <3> HIDE DEF v
    <3>6. H1.head = H.head /\ Remainder(H1.bins) \subseteq {v}
      BY <2>1 DEF SameHeads
    <3>7. v \in Elems(H1.bins) /\ H1.head[v].size >= nb
      BY <2>1, <3>5, <3>6
    <3>8. Taken(H1, U, W, nb, v, r)
      BY <2>2, <3>1, <3>6, <3>7, TakeOrSplitTaken
    <3>9. Taken(H, U, W, nb, v, r)
      BY <2>2, <3>6, <3>8 DEF Taken
    <3>10. r.victim = v
      BY <3>9 DEF Taken
    <3> QED BY <3>4, <3>9, <3>10 DEF r
  <2> QED BY <2>3, <2>4
<1> QED BY <1>4, <1>5

\* The last remainder goes to the bin of its size before the bins are scanned.
LEMMA RelinkFacts ==
    ASSUME NEW H, NEW U, NEW W, HeapOK(H, U, W), NEW left, left \in Remainder(H.bins)
    PROVE  LET G == frontlink(clear_last_remainder(H), left, chunksize(H, left))
           IN  /\ BinsOK(G) /\ SameHeads(H, G) /\ Elems(G.bins) = Elems(H.bins) /\ Remainder(G.bins) = {}
               /\ \A j \in DOMAIN H.bins \ {LAST_REMAINDER} :
                     j # bin_index(H.head[left].size) => j \in DOMAIN G.bins /\ G.bins[j] = H.bins[j]
<1> DEFINE K == clear_last_remainder(H)
           s == H.head[left].size
           G == frontlink(K, left, s)
<1>1. BinsOK(H) /\ Elems(H.bins) \subseteq DOMAIN H.head
  BY HeapParts
<1>2. Remainder(H.bins) \subseteq Elems(H.bins) /\ Remainder(H.bins) = {left}
  <2>1. Remainder(H.bins) \subseteq Elems(H.bins)
    BY <1>1, RemainderFacts DEF BinsOK
  <2> QED BY <2>1 DEF Remainder
<1>3. s >= MINSIZE /\ left \in Nat /\ left \in DOMAIN H.head
  <2>1. FreeOK(H, U, W, left, left + H.head[left].size)
    BY <1>2, FreeChunkIs
  <2> QED BY <2>1 DEF FreeOK
<1>4. chunksize(H, left) = s
  BY <1>3, ChunkSizeFacts
<1>5. /\ BinsOK(K) /\ SameHeads(H, K)
      /\ Elems(K.bins) = Elems(H.bins) \ {left} /\ Remainder(K.bins) = {}
      /\ \A i \in DOMAIN H.bins \ {LAST_REMAINDER} : i \in DOMAIN K.bins /\ K.bins[i] = H.bins[i]
  BY <1>1, <1>2, ClearLastFacts
<1> HIDE DEF K
<1>6. K.head = H.head
  BY <1>5 DEF SameHeads
<1>7. /\ left \in DOMAIN K.head /\ left \notin Elems(K.bins) /\ s = K.head[left].size
      /\ Elems(K.bins) \subseteq DOMAIN K.head
  BY <1>1, <1>3, <1>5, <1>6
<1> HIDE DEF s
<1>8. /\ BinsOK(G) /\ SameHeads(K, G)
      /\ Elems(G.bins) = Elems(K.bins) \cup {left} /\ Remainder(G.bins) = Remainder(K.bins)
      /\ \A j \in DOMAIN K.bins : j # bin_index(s) => j \in DOMAIN G.bins /\ G.bins[j] = K.bins[j]
  BY <1>3, <1>5, <1>7, FrontlinkFacts
<1> HIDE DEF G
<1>9. SameHeads(H, G) /\ Elems(G.bins) = Elems(H.bins)
  BY <1>2, <1>5, <1>8 DEF SameHeads
<1>10. \A j \in DOMAIN H.bins \ {LAST_REMAINDER} :
          j # bin_index(H.head[left].size) => j \in DOMAIN G.bins /\ G.bins[j] = H.bins[j]
  BY <1>5, <1>8 DEF s
<1> QED BY <1>4, <1>5, <1>8, <1>9, <1>10 DEF G, K

\* Where the scan begins, no bin before it holds a chunk that fits.
LEMMA ScanFromFacts ==
    ASSUME NEW H, BinsOK(H), Elems(H.bins) \subseteq DOMAIN H.head, NEW nb \in Nat, nb >= MINSIZE,
           ExactFit(H, nb) = NULL,
           NEW H1, BinsOK(H1), SameHeads(H, H1), Elems(H1.bins) = Elems(H.bins), Remainder(H1.bins) = {},
           \A x \in Remainder(H.bins) : H.head[x].size < nb,
           \A j \in DOMAIN H.bins \ {LAST_REMAINDER} :
              \/ j \in DOMAIN H1.bins /\ H1.bins[j] = H.bins[j]
              \/ \E x \in Remainder(H.bins) : j = bin_index(H.head[x].size)
    PROVE  /\ Begins(H1, nb, ScanFrom(H, nb))
           /\ \A c \in Elems(H1.bins) : H1.head[c].size >= nb => bin_index(H1.head[c].size) >= ScanFrom(H, nb)
<1> DEFINE idx == ScanFrom(H, nb)
           ib == bin_index(nb)
<1>1. ib \in Nat /\ ib > LAST_REMAINDER /\ (nb < 64 => ib = nb)
  <2>1. nb <= nb
    OBVIOUS
  <2> QED BY <2>1, BinIndexFacts
<1>2. H1.head = H.head
  BY DEF SameHeads
<1>a. \A c \in Elems(H.bins) : H.head[c].size \in Nat
  BY DEF BinsOK, Heads, TagRec
<1>3. ASSUME NEW c \in Elems(H.bins), H.head[c].size >= nb
      PROVE  LET i == bin_index(H.head[c].size)
             IN  i \in Nat /\ i >= ib /\ i \in DOMAIN H.bins /\ \E k \in DOMAIN H.bins[i] : H.bins[i][k] = c
  <2> DEFINE a == H.head[c].size
             i == bin_index(H.head[c].size)
  <2>1. a \in Nat /\ nb <= a
    BY <1>3, <1>a
  <2>2. bin_index(nb) <= bin_index(a)
    <3> HIDE DEF a
    <3> QED BY <2>1, BinIndexFacts
  <2>3. c \notin Remainder(H.bins)
    BY <1>3, <1>a
  <2>4. i \in DOMAIN H.bins /\ \E k \in DOMAIN H.bins[i] : H.bins[i][k] = c
    BY <2>3, BinWhere
  <2>5. i \in Nat
    <3> HIDE DEF i
    <3> QED BY <2>4 DEF BinsOK, Bins
  <2> HIDE DEF i
  <2>6. i >= ib
    BY <1>1, <2>2, <2>5 DEF i
  <2> QED BY <2>4, <2>5, <2>6 DEF i
<1>4. CASE is_small_request(nb)
  <2>1. nb < 63
    BY <1>4 DEF is_small_request, SMALL
  <2>2. idx = nb + 2 /\ ib = nb
    BY <1>1, <1>4, <2>1 DEF ScanFrom
  <2>3. Begins(H1, nb, idx)
    <3> HIDE DEF idx
    <3> QED BY <2>2 DEF Begins
  <2>4. Bin(H, nb) = << >> /\ Bin(H, nb + 1) = << >>
    BY <1>4, ExactFitFacts
  <2>5. nb \notin DOMAIN H.bins /\ nb + 1 \notin DOMAIN H.bins
    BY <2>4 DEF Bin, BinsOK, Bins
  <2>6. ASSUME NEW c \in Elems(H1.bins), H1.head[c].size >= nb PROVE bin_index(H1.head[c].size) >= idx
    <3> DEFINE i == bin_index(H.head[c].size)
    <3>1. i \in Nat /\ i >= ib /\ i \in DOMAIN H.bins
      BY <1>2, <1>3, <2>6
    <3> HIDE DEF i
    <3>2. i # nb /\ i # nb + 1
      BY <2>5, <3>1
    <3>3. i >= idx
      <4> HIDE DEF idx
      <4> QED BY <2>2, <3>1, <3>2
    <3> QED BY <1>2, <3>3 DEF i
  <2> QED BY <2>3, <2>6
<1>5. CASE ~is_small_request(nb) /\ LastFitting(H, ib, nb) # NULL
  <2>1. idx = ib
    BY <1>5 DEF ScanFrom
  <2>2. LastFitting(H1, ib, nb) # NULL
    <3> DEFINE v == LastFitting(H, ib, nb)
    <3>1. v \in Nat /\ v \in Elems(H.bins) /\ ib \in DOMAIN H.bins
          /\ (\E k \in DOMAIN H.bins[ib] : H.bins[ib][k] = v) /\ H.head[v].size >= nb
      BY <1>5, LastFittingFacts
    <3> HIDE DEF v
    <3>2. bin_index(H.head[v].size) = ib
      BY <1>1, <3>1, BinHolds
    <3>3. PICK k \in DOMAIN H1.bins[ib] : H1.bins[ib][k] = v /\ ib \in DOMAIN H1.bins
      <4>1. LET i == bin_index(H1.head[v].size)
            IN  i \in DOMAIN H1.bins /\ i # LAST_REMAINDER /\ \E k \in DOMAIN H1.bins[i] : H1.bins[i][k] = v
        BY <3>1, BinWhere
      <4> QED BY <1>2, <3>2, <4>1
    <3>4. Bin(H1, ib) = H1.bins[ib]
      BY <3>3 DEF Bin
    <3>5. k \in DOMAIN Bin(H1, ib) /\ H1.head[Bin(H1, ib)[k]].size >= nb
      BY <1>2, <3>1, <3>3, <3>4
    <3> HIDE DEF ib
    <3> QED BY <3>5, LastFittingFacts
  <2>3. Begins(H1, nb, idx)
    BY <1>1, <2>1, <2>2 DEF Begins
  <2>4. \A c \in Elems(H1.bins) : H1.head[c].size >= nb => bin_index(H1.head[c].size) >= idx
    BY <1>2, <1>3, <2>1
  <2> QED BY <2>3, <2>4
<1>6. CASE ~is_small_request(nb) /\ LastFitting(H, ib, nb) = NULL
  <2>1. idx = ib + 1
    BY <1>6 DEF ScanFrom
  <2>2. Begins(H1, nb, idx)
    BY <1>1, <2>1 DEF Begins
  <2>3. ASSUME NEW c \in Elems(H1.bins), H1.head[c].size >= nb PROVE bin_index(H1.head[c].size) >= idx
    <3> DEFINE i == bin_index(H.head[c].size)
    <3>1. i \in Nat /\ i >= ib /\ i \in DOMAIN H.bins /\ \E k \in DOMAIN H.bins[i] : H.bins[i][k] = c
      BY <1>2, <1>3, <2>3
    <3> HIDE DEF i
    <3>2. i # ib
      <4> SUFFICES ASSUME i = ib PROVE FALSE
        OBVIOUS
      <4>1. PICK k \in DOMAIN H.bins[ib] : H.bins[ib][k] = c
        BY <3>1
      <4>2. Bin(H, ib) = H.bins[ib]
        BY <3>1 DEF Bin
      <4>3. ~(H.head[Bin(H, ib)[k]].size >= nb) /\ k \in DOMAIN Bin(H, ib)
        BY <1>6, <4>1, <4>2, LastFittingFacts
      <4> QED BY <1>2, <2>3, <4>1, <4>2, <4>3
    <3>3. i >= idx
      BY <1>1, <2>1, <3>1, <3>2
    <3> QED BY <1>2, <3>3 DEF i
  <2> QED BY <2>2, <2>3
<1> QED BY <1>4, <1>5, <1>6

\* The search of mALLOc, as a whole: a chunk that fits, or there is none.
LEMMA FromBinsFacts ==
    ASSUME NEW H, NEW U, NEW W, HeapOK(H, U, W), NEW nb \in Nat, nb % 2 = 0, nb >= MINSIZE
    PROVE  LET r == FromBins(H, nb)
           IN  IF r.victim = NULL THEN Missed(H, U, W, nb, r) ELSE Taken(H, U, W, nb, r.victim, r)
<1> DEFINE exact == ExactFit(H, nb)
           left  == IF Bin(H, LAST_REMAINDER) = << >> THEN NULL ELSE Bin(H, LAST_REMAINDER)[1]
           H1    == IF left = NULL THEN H
                    ELSE frontlink(clear_last_remainder(H), left, chunksize(H, left))
           idx   == ScanFrom(H, nb)
           r     == FromBins(H, nb)
<1>1. r = IF exact # NULL THEN TakeWhole(H, exact)
          ELSE IF left # NULL /\ chunksize(H, left) >= nb THEN TakeOrSplit(H, left, nb)
          ELSE BestFit(H1, nb, idx)
  BY DEF FromBins
<1> HIDE DEF r
<1>2. BinsOK(H) /\ Elems(H.bins) \subseteq DOMAIN H.head
  BY HeapParts
<1>3. CASE exact # NULL
  <2>1. r = TakeWhole(H, exact)
    BY <1>1, <1>3
  <2>2. exact \in Elems(H.bins) /\ H.head[exact].size >= nb
    BY <1>2, <1>3, ExactFitFacts
  <2> HIDE DEF exact
  <2>3. Taken(H, U, W, nb, exact, r)
    BY <2>1, <2>2, TakeWholeTaken
  <2>4. r.victim = exact
    BY <2>3 DEF Taken
  <2> QED BY <1>3, <2>3, <2>4 DEF r
<1>4. /\ left # NULL => left \in Nat /\ Remainder(H.bins) = {left} /\ left \in Elems(H.bins)
      /\ left = NULL => Remainder(H.bins) = {}
  <2>1. CASE LAST_REMAINDER \in DOMAIN H.bins
    <3>1. Bin(H, LAST_REMAINDER) = H.bins[LAST_REMAINDER] /\ H.bins[LAST_REMAINDER] # << >>
      BY <1>2, <2>1 DEF Bin, BinsOK, Bins
    <3>2. left = H.bins[LAST_REMAINDER][1]
      BY <3>1
    <3>3. Remainder(H.bins) = {left}
      BY <2>1, <3>2 DEF Remainder
    <3>4. Remainder(H.bins) \subseteq Elems(H.bins) /\ \A x \in Elems(H.bins) : x \in Nat
      BY <1>2, RemainderFacts DEF BinsOK
    <3>5. left \in Nat /\ left # NULL
      BY <3>3, <3>4 DEF NULL
    <3> QED BY <3>3, <3>4, <3>5
  <2>2. CASE LAST_REMAINDER \notin DOMAIN H.bins
    <3>1. Bin(H, LAST_REMAINDER) = << >>
      BY <2>2 DEF Bin
    <3> QED BY <2>2, <3>1 DEF Remainder
  <2> QED BY <2>1, <2>2
<1> HIDE DEF left
<1>5. left # NULL => chunksize(H, left) = H.head[left].size
  BY <1>4, ChunkSizeFacts
<1>6. CASE exact = NULL /\ left # NULL /\ chunksize(H, left) >= nb
  <2>1. r = TakeOrSplit(H, left, nb)
    BY <1>1, <1>6
  <2>2. left \in Elems(H.bins) /\ H.head[left].size >= nb /\ Remainder(H.bins) \subseteq {left}
    BY <1>4, <1>5, <1>6
  <2>3. Taken(H, U, W, nb, left, r)
    BY <2>1, <2>2, TakeOrSplitTaken
  <2>4. r.victim = left
    BY <2>3 DEF Taken
  <2> QED BY <1>6, <2>3, <2>4 DEF r
<1>7. CASE exact = NULL /\ ~(left # NULL /\ chunksize(H, left) >= nb)
  <2>1. r = BestFit(H1, nb, idx)
    BY <1>1, <1>7
  <2>2. /\ BinsOK(H1) /\ SameHeads(H, H1) /\ Elems(H1.bins) = Elems(H.bins) /\ Remainder(H1.bins) = {}
        /\ \A x \in Remainder(H.bins) : H.head[x].size < nb
        /\ \A j \in DOMAIN H.bins \ {LAST_REMAINDER} :
              \/ j \in DOMAIN H1.bins /\ H1.bins[j] = H.bins[j]
              \/ \E x \in Remainder(H.bins) : j = bin_index(H.head[x].size)
    <3>1. CASE left = NULL
      <4>1. H1 = H
        BY <3>1
      <4> QED BY <1>2, <1>4, <3>1, <4>1 DEF SameHeads
    <3>2. CASE left # NULL
      <4>1. H1 = frontlink(clear_last_remainder(H), left, chunksize(H, left))
        BY <3>2
      <4>2. left \in Remainder(H.bins)
        BY <1>4, <3>2
      <4> HIDE DEF H1
      <4>3. /\ BinsOK(H1) /\ SameHeads(H, H1) /\ Elems(H1.bins) = Elems(H.bins) /\ Remainder(H1.bins) = {}
            /\ \A j \in DOMAIN H.bins \ {LAST_REMAINDER} :
                  j # bin_index(H.head[left].size) => j \in DOMAIN H1.bins /\ H1.bins[j] = H.bins[j]
        BY <4>1, <4>2, RelinkFacts
      <4>4. H.head[left].size < nb
        <5>1. ~(H.head[left].size >= nb)
          BY <1>5, <1>7, <3>2
        <5>2. H.head[left].size \in Nat
          <6>1. left \in DOMAIN H.head
            BY <1>2, <1>4, <3>2
          <6> QED BY <6>1, HeapParts
        <5> QED BY <5>1, <5>2
      <4>5. \A x \in Remainder(H.bins) : x = left
        BY <1>4, <3>2
      <4> QED BY <4>2, <4>3, <4>4, <4>5
    <3> QED BY <3>1, <3>2
  <2> HIDE DEF H1, idx
  <2>3. /\ Begins(H1, nb, idx)
        /\ \A c \in Elems(H1.bins) : H1.head[c].size >= nb => bin_index(H1.head[c].size) >= idx
    BY <1>2, <1>7, <2>2, ScanFromFacts DEF idx
  <2>4. HeapOK(H1, U, W) /\ TopEnd(H1) = TopEnd(H)
    BY <2>2, OtherMarks
  <2>5. IF r.victim = NULL THEN Missed(H1, U, W, nb, r) ELSE Taken(H1, U, W, nb, r.victim, r)
    BY <2>1, <2>2, <2>3, <2>4, BestFitFacts
  <2>6. H1.head = H.head /\ H1.top = H.top
    BY <2>2 DEF SameHeads
  <2>7. Missed(H1, U, W, nb, r) => Missed(H, U, W, nb, r)
    BY <2>4, <2>6 DEF Missed, SameHeads
  <2>8. Taken(H1, U, W, nb, r.victim, r) => Taken(H, U, W, nb, r.victim, r)
    BY <2>4, <2>6 DEF Taken
  <2> QED BY <2>5, <2>7, <2>8 DEF r
<1> QED BY <1>3, <1>6, <1>7

-----------------------------------------------------------------------------
(* rEALLOc: resizing a block where it is, or into its free neighbours.     *)

\* K is H when the chunks of R, from lo to hi, are to serve a request.
ResizeReady(H, U, W, K, R, lo, hi) ==
    /\ BinsOK(K) /\ K.top = H.top /\ DOMAIN K.head = (DOMAIN H.head \ R) \cup {lo}
    /\ \A c \in DOMAIN K.head : K.head[c] = H.head[c]
    /\ Elems(K.bins) = Elems(H.bins) \ R
    /\ Span(H.head, R, lo, hi) /\ Spare(W, lo, hi)
    /\ lo \in Nat /\ hi \in Nat /\ lo % 2 = 0 /\ hi % 2 = 0 /\ lo < hi /\ hi - lo >= MINSIZE
    /\ lo \in R /\ R \subseteq DOMAIN H.head /\ H.top \notin R /\ hi \in DOMAIN H.head

\* G is H with a block at lo that serves nb words, besides the blocks V.
Resized(H, V, W, lo, nb, G) ==
    /\ HeapOK(G, V \cup {lo}, W) /\ TopEnd(G) = TopEnd(H)
    /\ lo \notin V /\ G.head[lo].size >= nb
    /\ \A c \in V : G.head[c].size = H.head[c].size

\* A span from lo to hi that is ready to become a block.
LEMMA ReadyParts ==
    ASSUME NEW H, NEW U, NEW W, HeapOK(H, U, W), NEW K, NEW R, NEW lo, NEW hi,
           ResizeReady(H, U, W, K, R, lo, hi)
    PROVE  /\ BinsOK(K) /\ Heads(K) /\ K.top = H.top /\ DOMAIN K.head = (DOMAIN H.head \ R) \cup {lo}
           /\ \A c \in DOMAIN K.head : K.head[c] = H.head[c]
           /\ Elems(K.bins) = Elems(H.bins) \ R
           /\ Span(H.head, R, lo, hi) /\ Spare(W, lo, hi)
           /\ lo \in Nat /\ hi \in Nat /\ lo % 2 = 0 /\ hi % 2 = 0 /\ lo < hi /\ hi - lo >= MINSIZE
           /\ lo \in R /\ R \subseteq DOMAIN H.head /\ H.top \notin R /\ hi \in DOMAIN H.head
           /\ lo \in DOMAIN K.head /\ hi \in DOMAIN K.head /\ hi \notin R
           /\ Elems(H.bins) \subseteq DOMAIN H.head /\ U \subseteq DOMAIN H.head
<1>1. /\ BinsOK(K) /\ K.top = H.top /\ DOMAIN K.head = (DOMAIN H.head \ R) \cup {lo}
      /\ \A c \in DOMAIN K.head : K.head[c] = H.head[c]
      /\ Elems(K.bins) = Elems(H.bins) \ R
      /\ Span(H.head, R, lo, hi) /\ Spare(W, lo, hi)
      /\ lo \in Nat /\ hi \in Nat /\ lo % 2 = 0 /\ hi % 2 = 0 /\ lo < hi /\ hi - lo >= MINSIZE
      /\ lo \in R /\ R \subseteq DOMAIN H.head /\ H.top \notin R /\ hi \in DOMAIN H.head
  BY DEF ResizeReady
<1>2. hi \notin R
  BY <1>1 DEF Span
<1>3. Heads(K)
  BY <1>1 DEF BinsOK
<1>4. Elems(H.bins) \subseteq DOMAIN H.head /\ U \subseteq DOMAIN H.head
  BY HeapParts
<1> QED BY <1>1, <1>2, <1>3, <1>4

\* All of it becomes the block.
LEMMA ResizeWhole ==
    ASSUME NEW H, NEW U, NEW W, HeapOK(H, U, W), NEW K, NEW R, NEW lo, NEW hi,
           ResizeReady(H, U, W, K, R, lo, hi), NEW nb, hi - lo >= nb
    PROVE  Resized(H, U \ R, W, lo, nb, set_inuse(set_head_size(K, lo, hi - lo), hi))
<1> DEFINE s == hi - lo
           Ka == set_head_size(K, lo, s)
           G == set_inuse(Ka, hi)
<1>1. /\ BinsOK(K) /\ Heads(K) /\ K.top = H.top /\ DOMAIN K.head = (DOMAIN H.head \ R) \cup {lo}
      /\ \A c \in DOMAIN K.head : K.head[c] = H.head[c]
      /\ Elems(K.bins) = Elems(H.bins) \ R
      /\ Span(H.head, R, lo, hi) /\ Spare(W, lo, hi)
      /\ lo \in Nat /\ hi \in Nat /\ lo % 2 = 0 /\ hi % 2 = 0 /\ lo < hi /\ hi - lo >= MINSIZE
      /\ lo \in R /\ R \subseteq DOMAIN H.head /\ H.top \notin R /\ hi \in DOMAIN H.head
      /\ lo \in DOMAIN K.head /\ hi \in DOMAIN K.head /\ hi \notin R
      /\ Elems(H.bins) \subseteq DOMAIN H.head /\ U \subseteq DOMAIN H.head
  BY ReadyParts
<1>2. s \in Nat /\ s = hi - lo /\ lo # hi
  BY <1>1
<1> HIDE DEF s
<1>3. /\ Heads(Ka) /\ DOMAIN Ka.head = DOMAIN K.head /\ SameBins(K, Ka) /\ Ka.top = K.top
      /\ Ka.head[lo].size = s /\ (Ka.head[lo].prev_inuse <=> K.head[lo].prev_inuse)
      /\ Ka.head[lo].prev_size = K.head[lo].prev_size
      /\ \A c \in DOMAIN K.head \ {lo} : Ka.head[c] = K.head[c]
  BY <1>1, <1>2, SetHeadSizeFacts
<1> HIDE DEF Ka
<1>4. /\ Heads(G) /\ DOMAIN G.head = DOMAIN Ka.head /\ SameBins(Ka, G) /\ G.top = Ka.top
      /\ G.head[hi].size = Ka.head[hi].size /\ G.head[hi].prev_inuse
      /\ \A c \in DOMAIN Ka.head \ {hi} : G.head[c] = Ka.head[c]
  BY <1>1, <1>3, SetInuseFacts
<1> HIDE DEF G
<1>5. /\ DOMAIN G.head = (DOMAIN H.head \ R) \cup {lo} /\ G.top = H.top
      /\ \A c \in DOMAIN G.head : c \notin {lo, hi} => G.head[c] = H.head[c]
      /\ G.head[lo].size = s /\ (G.head[lo].prev_inuse <=> H.head[lo].prev_inuse)
      /\ G.head[lo].prev_size = H.head[lo].prev_size
      /\ G.head[hi].size = H.head[hi].size /\ G.head[hi].prev_inuse
  BY <1>1, <1>2, <1>3, <1>4
<1>6. BinsOK(G) /\ Elems(G.bins) = Elems(H.bins) \ R
  <2>1. SameBins(K, G)
    BY <1>3, <1>4 DEF SameBins
  <2>2. ASSUME NEW x \in Elems(K.bins) \ Remainder(K.bins) PROVE G.head[x].size = K.head[x].size
    <3>1. x \in DOMAIN K.head /\ x # lo
      BY <1>1
    <3> QED BY <1>1, <1>3, <1>4, <3>1
  <2> QED BY <1>1, <1>4, <2>1, <2>2, BinsKept
<1>7. HeapCut(H, U, W, G, (U \ R) \cup {lo}, R, lo, lo, hi, "U")
  <2>1. DOMAIN G.head = (DOMAIN H.head \ R) \cup {lo, lo}
    BY <1>5
  <2>2. \A c \in DOMAIN G.head : c \notin {lo, lo, hi} => G.head[c] = H.head[c]
    BY <1>5
  <2>3. (U \ R) \cup {lo} = (U \ R) \cup {} \cup {lo}
    OBVIOUS
  <2>4. lo <= lo /\ ~(lo < lo) /\ G.head[lo].size = hi - lo
    BY <1>1, <1>2, <1>5
  <2>5. Elems(G.bins) = (Elems(H.bins) \ R) \cup {}
    BY <1>6
  <2> QED BY <1>1, <1>5, <2>1, <2>2, <2>3, <2>4, <2>5 DEF HeapCut
<1>8. /\ HeapOK(G, (U \ R) \cup {lo}, W) /\ TopEnd(G) = TopEnd(H)
      /\ \A c \in DOMAIN H.head \ R : c \in DOMAIN G.head /\ G.head[c].size = H.head[c].size
  BY <1>6, <1>7, HeapRecut
<1>9. G.head[lo].size >= nb
  BY <1>2, <1>5
<1>10. Resized(H, U \ R, W, lo, nb, G)
  BY <1>1, <1>8, <1>9 DEF Resized
<1> QED BY <1>10 DEF G, Ka, s

\* The rest is freed, as split does.
LEMMA ResizeSplit ==
    ASSUME NEW H, NEW U, NEW W, HeapOK(H, U, W), NEW K, NEW R, NEW lo, NEW hi,
           ResizeReady(H, U, W, K, R, lo, hi), TopEnd(H) % 2 = 0,
           NEW nb, nb \in Nat, nb % 2 = 0, nb >= MINSIZE, hi - lo - nb >= MINSIZE,
           NEW H2, H2 = set_inuse(set_head(set_head_size(K, lo, nb), lo + nb, hi - lo - nb, PREV_INUSE), hi)
    PROVE  Resized(H, U \ R, W, lo, nb, fREe(H2, lo + nb))
<1> DEFINE s == hi - lo - nb
           r == lo + nb
           Ka == set_head_size(K, lo, nb)
           Kb == set_head(Ka, r, s, PREV_INUSE)
<1>1. /\ BinsOK(K) /\ Heads(K) /\ K.top = H.top /\ DOMAIN K.head = (DOMAIN H.head \ R) \cup {lo}
      /\ \A c \in DOMAIN K.head : K.head[c] = H.head[c]
      /\ Elems(K.bins) = Elems(H.bins) \ R
      /\ Span(H.head, R, lo, hi) /\ Spare(W, lo, hi)
      /\ lo \in Nat /\ hi \in Nat /\ lo % 2 = 0 /\ hi % 2 = 0 /\ lo < hi /\ hi - lo >= MINSIZE
      /\ lo \in R /\ R \subseteq DOMAIN H.head /\ H.top \notin R /\ hi \in DOMAIN H.head
      /\ lo \in DOMAIN K.head /\ hi \in DOMAIN K.head /\ hi \notin R
      /\ Elems(H.bins) \subseteq DOMAIN H.head /\ U \subseteq DOMAIN H.head
  BY ReadyParts
<1>2. s \in Nat /\ s = hi - r /\ s >= MINSIZE /\ r \in Nat /\ r - lo = nb /\ lo < r /\ r < hi /\ lo # hi /\ lo # r /\ r # hi
  BY <1>1 DEF MINSIZE
<1>3. r % 2 = 0
  BY <1>1, EvenSum
<1>4. r \notin DOMAIN K.head
  <2>1. r \in DOMAIN H.head => r \in R
    BY <1>1, <1>2 DEF Span
  <2> QED BY <1>1, <1>2, <2>1
<1>x. H2 = set_inuse(Kb, hi)
  OBVIOUS
<1>5. /\ Heads(Ka) /\ DOMAIN Ka.head = DOMAIN K.head /\ SameBins(K, Ka) /\ Ka.top = K.top
      /\ Ka.head[lo].size = nb /\ (Ka.head[lo].prev_inuse <=> K.head[lo].prev_inuse)
      /\ Ka.head[lo].prev_size = K.head[lo].prev_size
      /\ \A c \in DOMAIN K.head \ {lo} : Ka.head[c] = K.head[c]
  <2>1. Heads(K) /\ lo \in DOMAIN K.head
    BY <1>1
  <2> HIDE DEF s, r
  <2> QED BY <2>1, SetHeadSizeFacts, ZenonT(30)
<1> HIDE DEF Ka, s, r
<1>6. Kb = set_head(Ka, r, s, PREV_INUSE)
  OBVIOUS
<1> HIDE DEF Kb
<1>7. HeadUsed(Ka, Kb, r, s)
  BY <1>2, <1>5, <1>6, SetHeadUsed
<1>8. /\ Heads(Kb) /\ DOMAIN Kb.head = DOMAIN Ka.head \cup {r} /\ SameBins(Ka, Kb) /\ Kb.top = Ka.top
      /\ Kb.head[r].size = s /\ Kb.head[r].prev_inuse
      /\ \A c \in DOMAIN Ka.head \ {r} : Kb.head[c] = Ka.head[c]
  BY <1>7 DEF HeadUsed
<1> DEFINE G == H2
<1>9. /\ Heads(G) /\ DOMAIN G.head = DOMAIN Kb.head /\ SameBins(Kb, G) /\ G.top = Kb.top
      /\ G.head[hi].size = Kb.head[hi].size /\ G.head[hi].prev_inuse
      /\ \A c \in DOMAIN Kb.head \ {hi} : G.head[c] = Kb.head[c]
  <2>1. hi \in DOMAIN Kb.head
    BY <1>1, <1>5, <1>8
  <2> QED BY <1>x, <1>8, <2>1, SetInuseFacts
<1> HIDE DEF G
<1>10. DOMAIN G.head = (DOMAIN H.head \ R) \cup {lo, r} /\ G.top = H.top
  BY <1>1, <1>5, <1>8, <1>9
<1>11. \A c \in DOMAIN G.head : c \notin {lo, r, hi} => G.head[c] = H.head[c]
  BY <1>1, <1>5, <1>8, <1>9, <1>10
<1>12. G.head[lo] = Ka.head[lo] /\ G.head[r] = Kb.head[r] /\ Kb.head[hi] = H.head[hi] /\ K.head[lo] = H.head[lo]
  BY <1>1, <1>2, <1>4, <1>5, <1>8, <1>9
<1>13. /\ G.head[lo].size = nb /\ (G.head[lo].prev_inuse <=> H.head[lo].prev_inuse)
       /\ G.head[lo].prev_size = H.head[lo].prev_size
       /\ G.head[r].size = s /\ G.head[r].prev_inuse
       /\ G.head[hi].size = H.head[hi].size /\ G.head[hi].prev_inuse
  BY <1>5, <1>8, <1>9, <1>12
<1>14. BinsOK(G) /\ Elems(G.bins) = Elems(H.bins) \ R
  <2>1. SameBins(K, G)
    BY <1>5, <1>8, <1>9 DEF SameBins
  <2>2. ASSUME NEW x \in Elems(K.bins) \ Remainder(K.bins) PROVE G.head[x].size = K.head[x].size
    <3>1. x \in DOMAIN K.head /\ x # lo /\ x # r /\ K.head[x] = H.head[x]
      BY <1>1, <1>4
    <3>2. CASE x = hi
      BY <1>13, <3>1, <3>2
    <3>3. CASE x # hi
      BY <1>1, <1>10, <1>11, <3>1, <3>3
    <3> QED BY <3>2, <3>3
  <2> QED BY <1>1, <1>9, <2>1, <2>2, BinsKept
<1> DEFINE U2 == (U \ R) \cup {lo} \cup {r}
<1>15. HeapCut(H, U, W, G, U2, R, lo, r, hi, "U")
  <2>1. lo <= r /\ G.head[lo].size = r - lo /\ G.head[r].size = hi - r
    BY <1>1, <1>2, <1>13
  <2>2. Elems(G.bins) = (Elems(H.bins) \ R) \cup {}
    BY <1>14
  <2>3. hi - r >= MINSIZE /\ r - lo >= MINSIZE
    BY <1>2
  <2> QED BY <1>1, <1>2, <1>3, <1>10, <1>11, <1>13, <2>1, <2>2, <2>3 DEF HeapCut
<1>16. /\ HeapOK(G, U2, W) /\ TopEnd(G) = TopEnd(H)
       /\ \A c \in DOMAIN H.head \ R : c \in DOMAIN G.head /\ G.head[c].size = H.head[c].size
  BY <1>14, <1>15, HeapRecut
<1> DEFINE G2 == fREe(G, r)
<1>17. Freed(G, U2, W, r, G2)
  BY <1>16, FreeFacts
<1> HIDE DEF G2
<1>18. lo \notin U \ R /\ r \notin U \ R
  BY <1>1, <1>4
<1>19. U2 \ {r} = (U \ R) \cup {lo}
  BY <1>2, <1>18
<1>20. /\ HeapOK(G2, (U \ R) \cup {lo}, W) /\ TopEnd(G2) = TopEnd(G)
       /\ \A c \in (U \ R) \cup {lo} : G2.head[c].size = G.head[c].size
  <2> HIDE DEF U2
  <2> QED BY <1>17, <1>19 DEF Freed
<1>21. \A c \in U \ R : G2.head[c].size = H.head[c].size
  BY <1>1, <1>16, <1>20
<1>22. G2.head[lo].size >= nb
  <2>1. G2.head[lo].size = nb
    BY <1>13, <1>20
  <2> QED BY <2>1
<1>23. Resized(H, U \ R, W, lo, nb, G2)
  BY <1>16, <1>18, <1>20, <1>21, <1>22 DEF Resized
<1> QED BY <1>23 DEF G2, G, r

\* The chunks of R may become one chunk in use, from lo to hi.
Joins(H, W, R, lo, hi) ==
    /\ Span(H.head, R, lo, hi) /\ Spare(W, lo, hi)
    /\ lo \in Nat /\ hi \in Nat /\ lo % 2 = 0 /\ hi % 2 = 0 /\ lo < hi /\ hi - lo >= MINSIZE
    /\ lo \in R /\ R \subseteq DOMAIN H.head /\ H.top \notin R /\ hi \in DOMAIN H.head

\* A span of chunks is joined to one.
LEMMA JoinedReady ==
    ASSUME NEW H, NEW U, NEW W, HeapOK(H, U, W), NEW R, NEW lo, NEW hi, Joins(H, W, R, lo, hi),
           NEW H0, BinsOK(H0), SameHeads(H, H0), Elems(H0.bins) = Elems(H.bins) \ R,
           NEW P, P = R \ {lo}
    PROVE  ResizeReady(H, U, W, Absorb(H0, P), R, lo, hi)
<1> DEFINE K == Absorb(H0, P)
<1>1. H0.head = H.head /\ H0.top = H.top /\ Heads(H0)
  BY DEF SameHeads, BinsOK
<1>2. /\ Heads(K) /\ DOMAIN K.head = DOMAIN H0.head \ P /\ SameBins(H0, K) /\ K.top = H0.top
      /\ \A c \in DOMAIN H0.head \ P : K.head[c] = H0.head[c]
  BY <1>1, AbsorbFacts
<1> HIDE DEF K
<1>3. /\ lo \in R /\ R \subseteq DOMAIN H.head /\ Elems(H.bins) \subseteq DOMAIN H.head
  BY HeapParts DEF Joins
<1>4. DOMAIN K.head = (DOMAIN H.head \ R) \cup {lo} /\ \A c \in DOMAIN K.head : K.head[c] = H.head[c]
  BY <1>1, <1>2, <1>3
<1>5. BinsOK(K) /\ Elems(K.bins) = Elems(H.bins) \ R
  <2>1. ASSUME NEW x \in Elems(H0.bins) \ Remainder(H0.bins) PROVE K.head[x].size = H0.head[x].size
    <3>1. x \in DOMAIN K.head
      BY <1>3, <1>4
    <3> QED BY <1>1, <1>4, <3>1
  <2> QED BY <1>2, <2>1, BinsKept
<1>6. ResizeReady(H, U, W, K, R, lo, hi)
  BY <1>1, <1>2, <1>4, <1>5 DEF ResizeReady, Joins
<1> QED BY <1>6 DEF K

\* The block itself.
LEMMA ReadyAlone ==
    ASSUME NEW H, NEW U, NEW W, HeapOK(H, U, W), NEW p, p \in U, NEW n, n = p + H.head[p].size
    PROVE  ResizeReady(H, U, W, H, {p}, p, n) /\ n - p = H.head[p].size
<1>1. /\ p \in DOMAIN H.head /\ p \in Nat /\ p # H.top /\ p \notin Elems(H.bins) /\ p % 2 = 0
      /\ H.head[p].size \in Nat /\ H.head[p].size >= MINSIZE
      /\ n \in DOMAIN H.head /\ n \in Nat /\ n % 2 = 0 /\ p < n
      /\ Span(H.head, {p}, p, n) /\ Spare(W, p, n)
  BY UsedChunk
<1>2. BinsOK(H)
  BY HeapParts
<1>3. n - p = H.head[p].size
  BY <1>1
<1>4. Elems(H.bins) = Elems(H.bins) \ {p} /\ DOMAIN H.head = (DOMAIN H.head \ {p}) \cup {p}
  BY <1>1
<1> QED BY <1>1, <1>2, <1>3, <1>4 DEF ResizeReady

\* The block and the free chunk above it.
LEMMA ReadyForth ==
    ASSUME NEW H, NEW U, NEW W, HeapOK(H, U, W), NEW p, p \in U, NEW n, n = p + H.head[p].size,
           n \in Elems(H.bins), NEW m, m = n + H.head[n].size
    PROVE  ResizeReady(H, U, W, Absorb(unlink(H, n), {n}), {p, n}, p, m) /\ m - p = H.head[p].size + H.head[n].size
           /\ {p, n} \cap U = {p}
<1>1. /\ p \in DOMAIN H.head /\ p \in Nat /\ p # H.top /\ p \notin Elems(H.bins) /\ p % 2 = 0
      /\ H.head[p].size \in Nat /\ H.head[p].size >= MINSIZE
      /\ n \in DOMAIN H.head /\ n \in Nat /\ n % 2 = 0 /\ p < n
      /\ Span(H.head, {p}, p, n) /\ Spare(W, p, n)
  BY UsedChunk
<1>2. FreeOK(H, U, W, n, m)
  BY FreeChunkIs
<1>3. /\ n # H.top /\ n \notin U /\ H.head[n].size \in Nat /\ H.head[n].size >= MINSIZE
      /\ m \in DOMAIN H.head /\ m \in Nat /\ m % 2 = 0 /\ n < m
  BY <1>2 DEF FreeOK
<1>4. /\ BinsOK(H) /\ Tiles(H.head, Elems(H.bins), U, H.top) /\ Avoids(H.head, W) /\ W \subseteq Nat
  BY HeapParts
<1>5. Span(H.head, {p, n}, p, m) /\ Spare(W, p, m)
  <2>1. Span(H.head, {p} \cup {n}, p, n + H.head[n].size) /\ Spare(W, p, n + H.head[n].size)
    BY <1>1, <1>4, SpanJoin
  <2>2. {p} \cup {n} = {p, n}
    OBVIOUS
  <2> QED BY <2>1, <2>2
<1>6. m - p = H.head[p].size + H.head[n].size /\ m - p >= MINSIZE /\ p < m /\ p # n
  BY <1>1, <1>3 DEF MINSIZE
<1>7. Joins(H, W, {p, n}, p, m)
  BY <1>1, <1>3, <1>5, <1>6 DEF Joins
<1> DEFINE H0 == unlink(H, n)
<1>8. BinsOK(H0) /\ SameHeads(H, H0) /\ Elems(H0.bins) = Elems(H.bins) \ {n}
  BY <1>4, UnlinkFacts
<1> HIDE DEF H0
<1>9. Elems(H0.bins) = Elems(H.bins) \ {p, n} /\ {n} = {p, n} \ {p} /\ {p, n} \cap U = {p}
  BY <1>1, <1>3, <1>6, <1>8
<1>10. ResizeReady(H, U, W, Absorb(H0, {n}), {p, n}, p, m)
  BY <1>7, <1>8, <1>9, JoinedReady
<1> QED BY <1>6, <1>9, <1>10 DEF H0

\* The free chunk below the block, and the block.
LEMMA ReadyBack ==
    ASSUME NEW H, NEW U, NEW W, HeapOK(H, U, W), NEW p, p \in U, NEW n, n = p + H.head[p].size,
           ~H.head[p].prev_inuse, NEW q, q = p - H.head[p].prev_size
    PROVE  /\ ResizeReady(H, U, W, Absorb(unlink(H, q), {p}), {q, p}, q, n)
           /\ n - q = H.head[q].size + H.head[p].size /\ {q, p} \cap U = {p} /\ q \in Nat
<1>1. q = Below(H, p)
  BY DEF Below, prev_inuse, prev_chunk
<1>2. BelowOK(H, U, W, p, q, n)
  BY <1>1, BelowFacts
<1>3. /\ q \in DOMAIN H.head /\ q \in Nat /\ q % 2 = 0 /\ q <= p /\ p < n /\ n \in Nat /\ n \in DOMAIN H.head /\ n % 2 = 0
      /\ H.top \notin {q, p} /\ {q, p} \cap U = {p} /\ n - q >= MINSIZE
      /\ Span(H.head, {q, p}, q, n) /\ Spare(W, q, n)
      /\ q \in Elems(H.bins) /\ q < p /\ H.head[q].size = H.head[p].prev_size
      /\ n - q = H.head[p].size + H.head[p].prev_size
  BY <1>2 DEF BelowOK
<1>4. BinsOK(H) /\ p \in DOMAIN H.head /\ p \notin Elems(H.bins) /\ p \in Nat /\ H.head[p].size \in Nat /\ H.head[p].prev_size \in Nat
  BY UsedChunk, HeapParts
<1>5. n - q = H.head[q].size + H.head[p].size
  BY <1>3, <1>4
<1>6. q < n /\ q # p
  BY <1>3, <1>4
<1>7. Joins(H, W, {q, p}, q, n)
  BY <1>3, <1>4, <1>6 DEF Joins
<1> DEFINE H0 == unlink(H, q)
<1>8. BinsOK(H0) /\ SameHeads(H, H0) /\ Elems(H0.bins) = Elems(H.bins) \ {q}
  BY <1>3, <1>4, UnlinkFacts
<1> HIDE DEF H0
<1>9. Elems(H0.bins) = Elems(H.bins) \ {q, p} /\ {p} = {q, p} \ {q}
  BY <1>4, <1>6, <1>8
<1>10. ResizeReady(H, U, W, Absorb(H0, {p}), {q, p}, q, n)
  BY <1>7, <1>8, <1>9, JoinedReady
<1> QED BY <1>3, <1>5, <1>10 DEF H0

\* The block and the free chunks on both sides.
LEMMA ReadyBoth ==
    ASSUME NEW H, NEW U, NEW W, HeapOK(H, U, W), NEW p, p \in U, NEW n, n = p + H.head[p].size,
           ~H.head[p].prev_inuse, NEW q, q = p - H.head[p].prev_size,
           n \in Elems(H.bins), NEW m, m = n + H.head[n].size
    PROVE  /\ ResizeReady(H, U, W, Absorb(unlink(unlink(H, n), q), {p, n}), {q, p, n}, q, m)
           /\ m - q = H.head[q].size + H.head[p].size + H.head[n].size /\ {q, p, n} \cap U = {p} /\ q \in Nat
<1>1. q = Below(H, p)
  BY DEF Below, prev_inuse, prev_chunk
<1>2. BelowOK(H, U, W, p, q, n)
  BY <1>1, BelowFacts
<1>3. /\ q \in DOMAIN H.head /\ q \in Nat /\ q % 2 = 0 /\ q <= p /\ p < n /\ n \in Nat /\ n \in DOMAIN H.head /\ n % 2 = 0
      /\ H.top \notin {q, p} /\ {q, p} \cap U = {p} /\ n - q >= MINSIZE
      /\ Span(H.head, {q, p}, q, n) /\ Spare(W, q, n)
      /\ q \in Elems(H.bins) /\ q < p /\ H.head[q].size = H.head[p].prev_size
      /\ n - q = H.head[p].size + H.head[p].prev_size
  BY <1>2 DEF BelowOK
<1>4. FreeOK(H, U, W, n, m)
  BY FreeChunkIs
<1>5. /\ n # H.top /\ n \notin U /\ H.head[n].size \in Nat /\ H.head[n].size >= MINSIZE
      /\ m \in DOMAIN H.head /\ m \in Nat /\ m % 2 = 0 /\ n < m
  BY <1>4 DEF FreeOK
<1>6. /\ BinsOK(H) /\ p \in DOMAIN H.head /\ p \notin Elems(H.bins) /\ p \in Nat /\ H.head[p].size \in Nat /\ H.head[p].prev_size \in Nat
      /\ Tiles(H.head, Elems(H.bins), U, H.top) /\ Avoids(H.head, W) /\ W \subseteq Nat
  BY UsedChunk, HeapParts
<1>7. Span(H.head, {q, p, n}, q, m) /\ Spare(W, q, m)
  <2>1. Span(H.head, {q, p} \cup {n}, q, n + H.head[n].size) /\ Spare(W, q, n + H.head[n].size)
    BY <1>3, <1>6, SpanJoin
  <2>2. {q, p} \cup {n} = {q, p, n}
    OBVIOUS
  <2> QED BY <2>1, <2>2
<1>8. m - q = H.head[q].size + H.head[p].size + H.head[n].size /\ m - q >= MINSIZE /\ q < m /\ q # p /\ q # n /\ p # n
  <2>1. H.head[q].size \in Nat
    BY <1>3, <1>6
  <2> QED BY <1>3, <1>5, <1>6, <2>1, SMTT(30) DEF MINSIZE
<1>9. Joins(H, W, {q, p, n}, q, m)
  BY <1>3, <1>5, <1>6, <1>7, <1>8 DEF Joins
<1> DEFINE H0 == unlink(H, n)
           H1 == unlink(H0, q)
<1>10. BinsOK(H0) /\ SameHeads(H, H0) /\ Elems(H0.bins) = Elems(H.bins) \ {n}
  BY <1>6, UnlinkFacts
<1> HIDE DEF H0
<1>11. BinsOK(H1) /\ SameHeads(H0, H1) /\ Elems(H1.bins) = Elems(H0.bins) \ {q}
  <2>1. q \in Elems(H0.bins)
    BY <1>3, <1>8, <1>10
  <2> QED BY <1>10, <2>1, UnlinkFacts
<1> HIDE DEF H1
<1>12. /\ Elems(H1.bins) = Elems(H.bins) \ {q, p, n} /\ {p, n} = {q, p, n} \ {q} /\ {q, p, n} \cap U = {p}
       /\ SameHeads(H, H1)
  <2>1. \A E, F, G : F = E \ {n} /\ G = F \ {q} /\ p \notin E => G = E \ {q, p, n}
    OBVIOUS
  <2>2. Elems(H1.bins) = Elems(H.bins) \ {q, p, n}
    BY ONLY <1>6, <1>10, <1>11, <2>1
  <2>3. {p, n} = {q, p, n} \ {q}
    BY ONLY <1>8
  <2>4. {q, p, n} \cap U = {p}
    <3>1. {q, p} \cap U = {p} /\ n \notin U
      BY <1>3, <1>5
    <3> QED BY ONLY <3>1
  <2>5. SameHeads(H, H1)
    BY ONLY <1>10, <1>11 DEF SameHeads
  <2> QED BY <2>2, <2>3, <2>4, <2>5
<1>13. ResizeReady(H, U, W, Absorb(H1, {p, n}), {q, p, n}, q, m)
  BY <1>9, <1>11, <1>12, JoinedReady
<1> QED BY <1>3, <1>8, <1>12, <1>13 DEF H0, H1

\* The block and the block above it, which realloc has just obtained.
LEMMA ReadyNext ==
    ASSUME NEW H, NEW U, NEW W, HeapOK(H, U, W), NEW p, p \in U, NEW n, n = p + H.head[p].size,
           n \in U, NEW m, m = n + H.head[n].size
    PROVE  ResizeReady(H, U, W, Absorb(H, {n}), {p, n}, p, m) /\ m - p = H.head[p].size + H.head[n].size
<1>1. /\ p \in DOMAIN H.head /\ p \in Nat /\ p # H.top /\ p \notin Elems(H.bins) /\ p % 2 = 0
      /\ H.head[p].size \in Nat /\ H.head[p].size >= MINSIZE
      /\ n \in DOMAIN H.head /\ n \in Nat /\ n % 2 = 0 /\ p < n
      /\ Span(H.head, {p}, p, n) /\ Spare(W, p, n)
  BY UsedChunk
<1>2. LET e == n + H.head[n].size
      IN  /\ n \in DOMAIN H.head /\ n \in Nat /\ n # H.top /\ n \notin Elems(H.bins) /\ n % 2 = 0
          /\ H.head[n].size \in Nat /\ H.head[n].size % 2 = 0 /\ H.head[n].size >= MINSIZE
          /\ e \in DOMAIN H.head /\ e \in Nat /\ e % 2 = 0 /\ n < e
          /\ H.head[e].prev_inuse
          /\ Span(H.head, {n}, n, e) /\ Spare(W, n, e)
  BY UsedChunk
<1>3. /\ n # H.top /\ n \notin Elems(H.bins) /\ H.head[n].size \in Nat /\ H.head[n].size >= MINSIZE
      /\ m \in DOMAIN H.head /\ m \in Nat /\ m % 2 = 0 /\ n < m
  BY <1>2
<1>4. /\ BinsOK(H) /\ Tiles(H.head, Elems(H.bins), U, H.top) /\ Avoids(H.head, W) /\ W \subseteq Nat
  BY HeapParts
<1>5. Span(H.head, {p, n}, p, m) /\ Spare(W, p, m)
  <2>1. Span(H.head, {p} \cup {n}, p, n + H.head[n].size) /\ Spare(W, p, n + H.head[n].size)
    BY <1>1, <1>4, SpanJoin
  <2>2. {p} \cup {n} = {p, n}
    OBVIOUS
  <2> QED BY <2>1, <2>2
<1>6. m - p = H.head[p].size + H.head[n].size /\ m - p >= MINSIZE /\ p < m /\ p # n
  BY <1>1, <1>3 DEF MINSIZE
<1>7. Joins(H, W, {p, n}, p, m)
  BY <1>1, <1>3, <1>5, <1>6 DEF Joins
<1>8. SameHeads(H, H) /\ Elems(H.bins) = Elems(H.bins) \ {p, n} /\ {n} = {p, n} \ {p}
  BY <1>1, <1>3, <1>6 DEF SameHeads
<1>9. ResizeReady(H, U, W, Absorb(H, {n}), {p, n}, p, m)
  BY <1>4, <1>7, <1>8, JoinedReady
<1> QED BY <1>6, <1>9

-----------------------------------------------------------------------------
(* The size and the place of top.                                          *)

\* G is H with a top of s words.
TopSized(H, U, W, s, G) ==
    /\ HeapOK(G, U, W) /\ G.top = H.top /\ TopEnd(G) = H.top + s /\ G.head[G.top].size = s
    /\ \A c \in U : G.head[c].size = H.head[c].size

\* Top grows or shrinks at its end.
LEMMA TopSizedFacts ==
    ASSUME NEW H, NEW U, NEW W, HeapOK(H, U, W), NEW s, s \in Nat, s >= MINSIZE, NEW e, e = H.top + s,
           e % 2 = 0, Spare(W, H.top, e)
    PROVE  TopSized(H, U, W, s, set_head(H, H.top, s, PREV_INUSE))
<1> DEFINE t == H.top
           G == set_head(H, t, s, PREV_INUSE)
<1>1. /\ BinsOK(H) /\ Heads(H) /\ DOMAIN H.head \subseteq Nat /\ t \in DOMAIN H.head /\ t \in Nat
      /\ t \notin Elems(H.bins) /\ t \notin U /\ t % 2 = 0 /\ H.head[t].prev_inuse
      /\ Elems(H.bins) \subseteq DOMAIN H.head /\ U \subseteq DOMAIN H.head
      /\ \A c \in DOMAIN H.head : c <= t
  BY HeapParts
<1>2. HeadUsed(H, G, t, s)
  BY <1>1, SetHeadUsed
<1> HIDE DEF G
<1>3. /\ Heads(G) /\ DOMAIN G.head = DOMAIN H.head \cup {t} /\ SameBins(H, G) /\ G.top = H.top
      /\ G.head[t].size = s /\ G.head[t].prev_inuse
      /\ t \in DOMAIN H.head => G.head[t].prev_size = H.head[t].prev_size
      /\ \A c \in DOMAIN H.head \ {t} : G.head[c] = H.head[c]
  BY <1>2 DEF HeadUsed
<1>4. BinsOK(G) /\ Elems(G.bins) = Elems(H.bins)
  <2>1. ASSUME NEW x \in Elems(H.bins) \ Remainder(H.bins) PROVE G.head[x].size = H.head[x].size
    BY <1>1, <1>3
  <2> QED BY <1>1, <1>3, <2>1, BinsKept
<1>5. e \in Nat /\ e - t = s /\ t < e
  BY <1>1 DEF MINSIZE
<1>6. Span(H.head, {t}, t, e)
  BY <1>1, <1>5 DEF Span
<1>7. HeapCut(H, U, W, G, U, {t}, t, t, e, "T")
  <2>1. DOMAIN G.head = (DOMAIN H.head \ {t}) \cup {t, t}
    BY <1>1, <1>3
  <2>2. \A c \in DOMAIN G.head : c \notin {t, t, e} => G.head[c] = H.head[c]
    BY <1>3
  <2>3. U = (U \ {t}) \cup {} \cup {} /\ Elems(G.bins) = (Elems(H.bins) \ {t}) \cup {}
    BY <1>1, <1>4
  <2>4. t <= t /\ ~(t < t) /\ G.head[t].size = e - t /\ \A c \in DOMAIN H.head : c < e
    BY <1>1, <1>3, <1>5
  <2> QED BY <1>1, <1>3, <1>5, <1>6, <2>1, <2>2, <2>3, <2>4 DEF HeapCut
<1>8. /\ HeapOK(G, U, W) /\ TopEnd(G) = e
      /\ \A c \in DOMAIN H.head \ {t} : c \in DOMAIN G.head /\ G.head[c].size = H.head[c].size
  BY <1>4, <1>7, HeapRecut
<1>9. TopSized(H, U, W, s, G)
  BY <1>1, <1>3, <1>8 DEF TopSized
<1> QED BY <1>9 DEF G

\* The chunks of R, top the last of them, become a block at lo and a new top.
LEMMA IntoTopFacts ==
    ASSUME NEW H, NEW U, NEW W, HeapOK(H, U, W), NEW e, e = TopEnd(H), e % 2 = 0,
           NEW H0, BinsOK(H0), SameHeads(H, H0), NEW R, Elems(H0.bins) = Elems(H.bins) \ R,
           NEW lo, lo % 2 = 0, Span(H.head, R, lo, e), Spare(W, lo, e), H.top \in R,
           NEW nb, nb \in Nat, nb % 2 = 0, nb >= MINSIZE, e - lo >= nb + MINSIZE,
           NEW P, P = R \ {lo},
           NEW s, s = e - lo - nb, NEW r, r = lo + nb
    PROVE  Resized(H, U \ R, W, lo, nb, [set_head_size(set_head(Absorb(H0, P), r, s, PREV_INUSE), lo, nb) EXCEPT !.top = r])
<1> DEFINE Ka == Absorb(H0, P)
           K == set_head(Ka, r, s, PREV_INUSE)
           Kb == set_head_size(K, lo, nb)
           G == [Kb EXCEPT !.top = r]
<1>1. /\ BinsOK(H) /\ Heads(H) /\ DOMAIN H.head \subseteq Nat /\ H.top \in DOMAIN H.head /\ H.top \in Nat
      /\ Elems(H.bins) \subseteq DOMAIN H.head /\ U \subseteq DOMAIN H.head
      /\ H.head[H.top].size \in Nat /\ H.head[H.top].size >= MINSIZE
      /\ \A c \in DOMAIN H.head : c <= H.top
  BY HeapParts
<1>2. lo \in R /\ R \subseteq DOMAIN H.head /\ lo \in Nat /\ lo \in DOMAIN H.head
  BY <1>1 DEF Span
<1>3. e \in Nat /\ \A c \in DOMAIN H.head : c < e
  BY <1>1 DEF TopEnd, MINSIZE
<1>4. s \in Nat /\ s = e - r /\ s >= MINSIZE /\ r \in Nat /\ r - lo = nb /\ lo < r /\ lo # r /\ r < e
  BY <1>2, <1>3 DEF MINSIZE
<1>5. r % 2 = 0
  BY <1>2, EvenSum
<1>6. r \notin DOMAIN H.head \ R
  BY <1>2, <1>4 DEF Span
<1>7. H0.head = H.head /\ H0.top = H.top /\ Heads(H0)
  BY DEF SameHeads, BinsOK
<1>8. /\ Heads(Ka) /\ DOMAIN Ka.head = DOMAIN H0.head \ P /\ SameBins(H0, Ka) /\ Ka.top = H0.top
      /\ \A c \in DOMAIN H0.head \ P : Ka.head[c] = H0.head[c]
  BY <1>7, AbsorbFacts
<1>9. K = set_head(Ka, r, s, PREV_INUSE)
  OBVIOUS
<1> HIDE DEF Ka, K, Kb, G
<1>10. HeadUsed(Ka, K, r, s)
  BY <1>4, <1>8, <1>9, SetHeadUsed
<1>11. /\ Heads(K) /\ DOMAIN K.head = DOMAIN Ka.head \cup {r} /\ SameBins(Ka, K) /\ K.top = Ka.top
       /\ K.head[r].size = s /\ K.head[r].prev_inuse
       /\ \A c \in DOMAIN Ka.head \ {r} : K.head[c] = Ka.head[c]
  BY <1>10 DEF HeadUsed
<1>12. lo \in DOMAIN K.head /\ lo \in DOMAIN Ka.head
  BY <1>2, <1>7, <1>8, <1>11
<1>13. /\ Heads(Kb) /\ DOMAIN Kb.head = DOMAIN K.head /\ SameBins(K, Kb) /\ Kb.top = K.top
       /\ Kb.head[lo].size = nb /\ (Kb.head[lo].prev_inuse <=> K.head[lo].prev_inuse)
       /\ Kb.head[lo].prev_size = K.head[lo].prev_size
       /\ \A c \in DOMAIN K.head \ {lo} : Kb.head[c] = K.head[c]
  <2>1. Heads(K) /\ lo \in DOMAIN K.head
    BY <1>11, <1>12
  <2>2. nb \in Nat
    OBVIOUS
  <2>3. Kb = set_head_size(K, lo, nb)
    BY DEF Kb
  <2> QED BY ONLY <2>1, <2>2, <2>3, SetHeadSizeFacts
<1>14. Heads(G) /\ G.head = Kb.head /\ SameBins(Kb, G) /\ G.top = r
  <2>1. G = [Kb EXCEPT !.top = r] /\ Heads(Kb)
    BY <1>13 DEF G
  <2> QED BY ONLY <2>1, SetTopFacts
<1>15. DOMAIN G.head = (DOMAIN H.head \ R) \cup {lo, r}
  BY <1>2, <1>7, <1>8, <1>11, <1>13, <1>14
<1>16. \A c \in DOMAIN G.head : c \notin {lo, r, e} => G.head[c] = H.head[c]
  BY <1>7, <1>8, <1>11, <1>13, <1>14, <1>15
<1>17. K.head[lo] = H.head[lo] /\ G.head[r] = K.head[r] /\ G.head[lo] = Kb.head[lo]
  BY <1>2, <1>4, <1>7, <1>8, <1>11, <1>12, <1>13, <1>14
<1>18. /\ G.head[lo].size = nb /\ (G.head[lo].prev_inuse <=> H.head[lo].prev_inuse)
       /\ G.head[lo].prev_size = H.head[lo].prev_size
       /\ G.head[r].size = s /\ G.head[r].prev_inuse
  BY <1>11, <1>13, <1>17
<1>19. BinsOK(G) /\ Elems(G.bins) = Elems(H.bins) \ R
  <2>1. SameBins(H0, G)
    BY <1>8, <1>11, <1>13, <1>14 DEF SameBins
  <2>2. ASSUME NEW x \in Elems(H0.bins) \ Remainder(H0.bins) PROVE G.head[x].size = H0.head[x].size
    <3>1. x \in DOMAIN H.head /\ x \notin R /\ x # e
      BY <1>1, <1>3
    <3>2. x # lo /\ x # r /\ x \in DOMAIN G.head
      BY <1>2, <1>6, <1>15, <3>1
    <3> QED BY <1>7, <1>16, <3>1, <3>2
  <2> QED BY <1>14, <2>1, <2>2, BinsKept
<1> DEFINE U2 == (U \ R) \cup {lo}
<1>20. HeapCut(H, U, W, G, U2, R, lo, r, e, "T")
  <2>1. lo <= r /\ G.head[lo].size = r - lo /\ G.head[r].size = e - r
    BY <1>2, <1>4, <1>18
  <2>2. Elems(G.bins) = (Elems(H.bins) \ R) \cup {} /\ U2 = (U \ R) \cup {lo} \cup {}
    BY <1>19
  <2>3. e - r >= MINSIZE /\ r - lo >= MINSIZE
    BY <1>4
  <2> QED BY <1>2, <1>3, <1>4, <1>5, <1>14, <1>15, <1>16, <1>18, <2>1, <2>2, <2>3 DEF HeapCut
<1>21. /\ HeapOK(G, U2, W) /\ TopEnd(G) = e
       /\ \A c \in DOMAIN H.head \ R : c \in DOMAIN G.head /\ G.head[c].size = H.head[c].size
  BY <1>19, <1>20, HeapRecut
<1>22. lo \notin U \ R /\ G.head[lo].size >= nb /\ \A c \in U \ R : G.head[c].size = H.head[c].size
  BY <1>1, <1>2, <1>18, <1>21
<1>23. Resized(H, U \ R, W, lo, nb, G)
  BY <1>21, <1>22 DEF Resized
<1> QED BY <1>23 DEF G, Kb, K, Ka

\* G is H with a new top of s words at nt.
TopMoved(H, U, W, nt, s, G) ==
    /\ HeapOK(G, U, W) /\ TopEnd(G) = nt + s
    /\ \A c \in U : G.head[c].size = H.head[c].size

\* The words from nt on may become the new top.
Fresh(H, W, nt, s) ==
    /\ nt \in Nat /\ nt % 2 = 0 /\ TopEnd(H) <= nt /\ s \in Nat /\ s >= MINSIZE /\ (nt + s) % 2 = 0
    /\ Spare(W, nt, nt + s)

LEMMA EvenParts ==
    ASSUME NEW s, s \in Nat, s % 2 = 0, s >= MINSIZE
    PROVE  Even(s - 3) = s - 4 /\ s - 4 \in Nat /\ (s - 4) % 2 = 0
  BY DEF Even, MINSIZE

\* G has fenceposts at f and f + 1 in place of the end of the old top.
Fence(H, nt, s, f, z, G) ==
    /\ Heads(G) /\ SameBins(H, G) /\ G.top = nt
    /\ DOMAIN G.head = DOMAIN H.head \cup {f, f + 1, nt}
    /\ \A c \in DOMAIN H.head \ {H.top} : G.head[c] = H.head[c]
    /\ G.head[f].size = 1 /\ G.head[f].prev_inuse
    /\ G.head[f + 1].size = 1 /\ G.head[f + 1].prev_inuse
    /\ G.head[nt].size = s /\ G.head[nt].prev_inuse
    /\ z > 0 => G.head[H.top].size = z /\ G.head[H.top].prev_inuse

\* The old top is cut at f, for two fenceposts.
LEMMA FenceMade ==
    ASSUME NEW H, NEW U, NEW W, HeapOK(H, U, W), NEW nt, NEW s, Fresh(H, W, nt, s),
           NEW z, z \in Nat, H.head[H.top].size = z + 4, NEW f, f = H.top + z,
           NEW K, K = [set_head(H, nt, s, PREV_INUSE) EXCEPT !.top = nt],
           NEW K1, K1 = set_head_size(K, H.top, z)
    PROVE  Fence(H, nt, s, f, z, set_head(set_head(K1, f, 1, PREV_INUSE), f + 1, 1, PREV_INUSE))
<1> DEFINE t == H.top
           K0 == set_head(H, nt, s, PREV_INUSE)
           K2 == set_head(K1, f, 1, PREV_INUSE)
           G == set_head(K2, f + 1, 1, PREV_INUSE)
<1> HIDE DEF K0, K2, G
<1>1. /\ Heads(H) /\ DOMAIN H.head \subseteq Nat /\ t \in DOMAIN H.head /\ t \in Nat
      /\ H.head[t].prev_inuse
      /\ \A c \in DOMAIN H.head : c <= t
  BY HeapParts
<1>2. nt \in Nat /\ s \in Nat /\ TopEnd(H) <= nt /\ TopEnd(H) = t + H.head[t].size
  BY DEF Fresh, TopEnd
<1>3. f \in Nat /\ f + 1 \in Nat /\ f + 1 < nt /\ f < nt /\ t <= f /\ t < nt /\ f + 1 # nt /\ f # nt /\ t # nt /\ f # f + 1 /\ t # f + 1
  BY <1>1, <1>2
<1>4. nt \notin DOMAIN H.head /\ f + 1 \notin DOMAIN H.head /\ \A c \in DOMAIN H.head \ {t} : c # f /\ c # nt /\ c # f + 1
  BY <1>1, <1>3
<1>5. HeadUsed(H, K0, nt, s)
  <2>1. K0 = set_head(H, nt, s, PREV_INUSE)
    BY DEF K0
  <2> QED BY ONLY <1>1, <1>2, <2>1, SetHeadUsed
<1>6. /\ Heads(K0) /\ DOMAIN K0.head = DOMAIN H.head \cup {nt} /\ SameBins(H, K0)
      /\ K0.head[nt].size = s /\ K0.head[nt].prev_inuse
      /\ \A c \in DOMAIN H.head \ {nt} : K0.head[c] = H.head[c]
  BY ONLY <1>5 DEF HeadUsed
<1>7. Heads(K) /\ K.head = K0.head /\ SameBins(K0, K) /\ K.top = nt
  <2>1. K = [K0 EXCEPT !.top = nt]
    BY DEF K0
  <2> QED BY ONLY <1>6, <2>1, SetTopFacts
<1>8. /\ Heads(K1) /\ DOMAIN K1.head = DOMAIN K.head /\ SameBins(K, K1) /\ K1.top = K.top
      /\ K1.head[t].size = z /\ (K1.head[t].prev_inuse <=> K.head[t].prev_inuse)
      /\ K1.head[t].prev_size = K.head[t].prev_size
      /\ \A c \in DOMAIN K.head \ {t} : K1.head[c] = K.head[c]
  <2>1. t \in DOMAIN K.head
    BY <1>1, <1>6, <1>7
  <2>2. z \in Nat /\ K1 = set_head_size(K, t, z)
    OBVIOUS
  <2> QED BY ONLY <1>7, <2>1, <2>2, SetHeadSizeFacts
<1>9. HeadUsed(K1, K2, f, 1)
  <2>1. K2 = set_head(K1, f, 1, PREV_INUSE) /\ 1 \in Nat
    BY DEF K2
  <2> QED BY ONLY <1>3, <1>8, <2>1, SetHeadUsed
<1>10. /\ Heads(K2) /\ DOMAIN K2.head = DOMAIN K1.head \cup {f} /\ SameBins(K1, K2) /\ K2.top = K1.top
       /\ K2.head[f].size = 1 /\ K2.head[f].prev_inuse
       /\ \A c \in DOMAIN K1.head \ {f} : K2.head[c] = K1.head[c]
  BY ONLY <1>9 DEF HeadUsed
<1>11. HeadUsed(K2, G, f + 1, 1)
  <2>1. G = set_head(K2, f + 1, 1, PREV_INUSE) /\ 1 \in Nat
    BY DEF G
  <2> QED BY ONLY <1>3, <1>10, <2>1, SetHeadUsed
<1>12. /\ Heads(G) /\ DOMAIN G.head = DOMAIN K2.head \cup {f + 1} /\ SameBins(K2, G) /\ G.top = K2.top
       /\ G.head[f + 1].size = 1 /\ G.head[f + 1].prev_inuse
       /\ \A c \in DOMAIN K2.head \ {f + 1} : G.head[c] = K2.head[c]
  BY ONLY <1>11 DEF HeadUsed
<1>13. DOMAIN G.head = DOMAIN H.head \cup {f, f + 1, nt} /\ G.top = nt
  BY ONLY <1>6, <1>7, <1>8, <1>10, <1>12
<1>14. \A c \in DOMAIN H.head \ {t} : G.head[c] = H.head[c]
  BY ONLY <1>4, <1>6, <1>7, <1>8, <1>10, <1>12
<1>15. G.head[f] = K2.head[f] /\ G.head[nt] = K0.head[nt]
  BY ONLY <1>3, <1>6, <1>7, <1>8, <1>10, <1>12
<1>16. z > 0 => G.head[t].size = z /\ G.head[t].prev_inuse
  <2> SUFFICES ASSUME z > 0 PROVE G.head[t].size = z /\ G.head[t].prev_inuse
    OBVIOUS
  <2>1. t # f
    BY <1>1
  <2>2. G.head[t] = K1.head[t] /\ K.head[t] = H.head[t]
    BY ONLY <1>1, <1>3, <1>6, <1>7, <1>8, <1>10, <1>12, <2>1
  <2> QED BY ONLY <1>1, <1>8, <2>2
<1>17. SameBins(H, G)
  BY ONLY <1>6, <1>7, <1>8, <1>10, <1>12 DEF SameBins
<1>18. Fence(H, nt, s, f, z, G)
  BY ONLY <1>6, <1>10, <1>12, <1>13, <1>14, <1>15, <1>16, <1>17 DEF Fence
<1> QED BY ONLY <1>18 DEF G, K2

\* What is left of the old top is freed, if it is large enough.
LEMMA FenceFacts ==
    ASSUME NEW H, NEW U, NEW W, HeapOK(H, U, W), TopEnd(H) % 2 = 0, NEW nt, NEW s, Fresh(H, W, nt, s),
           NEW z, z \in Nat, H.head[H.top].size = z + 4, NEW f, f = H.top + z,
           NEW G, Fence(H, nt, s, f, z, G),
           NEW X, X = IF z >= MINSIZE THEN fREe(G, H.top) ELSE G
    PROVE  TopMoved(H, U, W, nt, s, X)
<1> DEFINE t == H.top
           U2 == IF z >= MINSIZE THEN U \cup {t} ELSE U
<1>0. U2 = IF z >= MINSIZE THEN U \cup {t} ELSE U
  OBVIOUS
<1> HIDE DEF U2
<1>1. /\ BinsOK(H) /\ Heads(H) /\ Tiles(H.head, Elems(H.bins), U, t) /\ Avoids(H.head, W) /\ W \subseteq Nat
      /\ DOMAIN H.head \subseteq Nat /\ t \in DOMAIN H.head /\ t \in Nat /\ t % 2 = 0
      /\ t \notin U /\ t \notin Elems(H.bins)
      /\ U \subseteq DOMAIN H.head /\ Elems(H.bins) \subseteq DOMAIN H.head
      /\ \A c \in DOMAIN H.head : c <= t /\ H.head[c].size \in Nat
  BY HeapParts
<1>2. nt \in Nat /\ nt % 2 = 0 /\ s \in Nat /\ s >= MINSIZE /\ (nt + s) % 2 = 0 /\ Spare(W, nt, nt + s)
      /\ t + H.head[t].size <= nt
  BY DEF Fresh, TopEnd
<1>3. /\ Heads(G) /\ SameBins(H, G) /\ G.top = nt
      /\ DOMAIN G.head = DOMAIN H.head \cup {f, f + 1, nt}
      /\ \A c \in DOMAIN H.head \ {H.top} : G.head[c] = H.head[c]
      /\ G.head[f].size = 1 /\ G.head[f].prev_inuse
      /\ G.head[f + 1].size = 1 /\ G.head[f + 1].prev_inuse
      /\ G.head[nt].size = s /\ G.head[nt].prev_inuse
      /\ z > 0 => G.head[H.top].size = z /\ G.head[H.top].prev_inuse
  BY DEF Fence
<1>4. z % 2 = 0
  BY <1>1 DEF TopEnd
<1>5. Tiles(G.head, Elems(H.bins), U2, nt)
  <2>1. DOMAIN G.head = DOMAIN H.head \cup {t + z, t + z + 1, nt}
    BY <1>3
  <2>2. G.head \in [DOMAIN G.head -> TagRec]
    BY <1>3 DEF Heads
  <2>3. G.head[nt].size >= MINSIZE
    BY <1>2, <1>3
  <2>4. G.head[t + z].size = 1 /\ G.head[t + z].prev_inuse /\ G.head[t + z + 1].size = 1 /\ G.head[t + z + 1].prev_inuse
    BY <1>3
  <2>5. z \in Nat /\ H.head[t].size = z + 4 /\ U2 = IF z >= MINSIZE THEN U \cup {t} ELSE U
    BY <1>0
  <2>6. Tiles(H.head, Elems(H.bins), U, t) /\ nt \in Nat /\ nt % 2 = 0 /\ t + H.head[t].size <= nt /\ z % 2 = 0
    BY <1>1, <1>2, <1>4
  <2>7. /\ \A c \in DOMAIN H.head \ {t} : G.head[c] = H.head[c]
        /\ G.head[nt].prev_inuse /\ (z > 0 => G.head[t].size = z /\ G.head[t].prev_inuse)
    BY <1>3
  <2> HIDE DEF t
  <2> QED BY ONLY <2>1, <2>2, <2>3, <2>4, <2>5, <2>6, <2>7, Fenced
<1>6. BinsOK(G) /\ Elems(G.bins) = Elems(H.bins)
  <2>1. ASSUME NEW x \in Elems(H.bins) \ Remainder(H.bins) PROVE G.head[x].size = H.head[x].size
    BY <1>1, <1>3
  <2> QED BY <1>1, <1>3, <2>1, BinsKept
<1>7. Avoids(G.head, W)
  <2>1. ASSUME NEW c \in DOMAIN G.head, NEW w \in W PROVE w < c \/ c + G.head[c].size <= w
    <3>0. w \in Nat /\ (w < nt \/ nt + s <= w) /\ (w < t \/ t + H.head[t].size <= w)
      BY <1>1, <1>2 DEF Spare, Avoids
    <3>1. CASE c \in DOMAIN H.head \ {t}
      BY <1>1, <1>3, <3>1 DEF Avoids
    <3>2. CASE c = nt
      BY <1>2, <1>3, <3>0, <3>2
    <3>3. CASE c = f \/ c = f + 1
      BY <1>1, <1>3, <3>0, <3>3
    <3>4. CASE c = t /\ z > 0
      BY <1>1, <1>3, <3>0, <3>4
    <3> QED BY <1>1, <1>3, <3>1, <3>2, <3>3, <3>4
  <2> QED BY <2>1 DEF Avoids
<1>8. HeapOK(G, U2, W)
  BY <1>1, <1>3, <1>5, <1>6, <1>7 DEF HeapOK, BinsOK
<1>9. TopEnd(G) = nt + s /\ \A c \in U : G.head[c].size = H.head[c].size
  BY <1>1, <1>3 DEF TopEnd
<1>10. U2 \ {t} = U
  BY <1>0, <1>1
<1>11. CASE z >= MINSIZE
  <2>1. t \in U2 /\ TopEnd(G) % 2 = 0
    BY <1>0, <1>2, <1>9, <1>11
  <2>2. Freed(G, U2, W, t, fREe(G, t))
    BY ONLY <1>8, <2>1, FreeFacts
  <2> DEFINE G2 == fREe(G, t)
  <2> HIDE DEF G2
  <2>3. HeapOK(G2, U2 \ {t}, W) /\ TopEnd(G2) = TopEnd(G) /\ \A c \in U2 \ {t} : G2.head[c].size = G.head[c].size
    BY ONLY <2>2 DEF Freed, G2
  <2>4. TopMoved(H, U2 \ {t}, W, nt, s, G2)
    BY ONLY <1>9, <1>10, <2>3 DEF TopMoved
  <2>5. X = G2
    BY <1>11 DEF G2
  <2> QED BY ONLY <1>10, <2>4, <2>5
<1>12. CASE ~(z >= MINSIZE)
  <2>1. U2 = U
    BY <1>0, <1>12
  <2>2. TopMoved(H, U2 \ {t}, W, nt, s, G)
    BY ONLY <1>8, <1>9, <1>10, <2>1 DEF TopMoved
  <2>3. X = G
    BY <1>12
  <2> QED BY ONLY <1>10, <2>2, <2>3
<1> QED BY ONLY <1>11, <1>12
=============================================================================
