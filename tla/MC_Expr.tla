------------------------------ MODULE MC_Expr -------------------------------
(***************************************************************************)
(* Instance of Expr for TLC: everything that can be typed on an empty      *)
(* line, and every way to go on with some lines that hold function calls.  *)
(***************************************************************************)
EXTENDS Expr

MCVariable == -5

MCMemory(a) == IF a < 0 THEN 2 ELSE 7

MCOpenings == {
    << >>,
    <<"ABS", "(">>,
    <<"8", "/", "-">>,
    <<"2", "*", "0", " ">>,
    <<"PUTC", "(", "2", ")", "-", "PUTC", "(", "8">>,
    <<"ABS", " ", "(", "A", "<", "2">>,
    <<"AREAD", "(", "2">>,
    <<"PEEK", "(", "8", ")">>,
    <<"RND", "(", "GETC", "(", "0", ")">> }
=============================================================================
