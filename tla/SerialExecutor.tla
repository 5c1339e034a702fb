--------------------------- MODULE SerialExecutor ---------------------------
(***************************************************************************)
(* What an event loop promises the threads that hand it functors: they run *)
(* one after the other, in the order they were handed over, each once.     *)
(***************************************************************************)
EXTENDS Sequences

CONSTANT Tasks

VARIABLES waiting,      \* functors handed over and not started
          ran           \* functors started

Init == waiting = <<>> /\ ran = <<>>

Submit(f) == waiting' = Append(waiting, f) /\ UNCHANGED ran

Start ==
    /\ waiting # <<>>
    /\ ran' = Append(ran, Head(waiting))
    /\ waiting' = Tail(waiting)

Next == Start \/ \E f \in Tasks : Submit(f)

Spec == Init /\ [][Next]_<<waiting, ran>>
=============================================================================
