------------------------------ MODULE MC_Stdio ------------------------------
(***************************************************************************)
(* Instance of Stdio for TLC: one character, a line, a line with text      *)
(* after its newline, and a text longer than the buffers.                  *)
(***************************************************************************)
EXTENDS Stdio

x == FALSE
n == TRUE

MCOffsets == -1 .. 1

MCTexts == {<<x>>, <<x, n>>, <<n, x>>, <<x, x, x>>}
=============================================================================
