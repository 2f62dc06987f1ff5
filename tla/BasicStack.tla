----------------------------- MODULE BasicStack -----------------------------
(***************************************************************************)
(* What the stack of the interpreter promises: a sequence of open loops    *)
(* and calls, the latest first.  NEXT closes the latest loop over its      *)
(* variable, and RETURN the latest call, each with all that was opened     *)
(* since; and whatever ends the program may forget them all.               *)
(***************************************************************************)
EXTENDS Naturals, Sequences

VARIABLE frames

IsLoop(f, v) == f.kind = "for" /\ f.var = v
IsCall(f) == f.kind = "gosub"

Init == frames = <<>>

Open == frames' # <<>> /\ Tail(frames') = frames

\* Close the frame at i and those above it.
CloseThrough(i) == frames' = SubSeq(frames, i + 1, Len(frames))

CloseLoop ==
    \E i \in 1 .. Len(frames) :
        /\ frames[i].kind = "for"
        /\ \A j \in 1 .. (i - 1) : ~IsLoop(frames[j], frames[i].var)
        /\ CloseThrough(i)

CloseCall ==
    \E i \in 1 .. Len(frames) :
        /\ IsCall(frames[i])
        /\ \A j \in 1 .. (i - 1) : ~IsCall(frames[j])
        /\ CloseThrough(i)

Forget == frames' = <<>>

Next == Open \/ CloseLoop \/ CloseCall \/ Forget

Spec == Init /\ [][Next]_frames
=============================================================================
