--------------------------- MODULE WsMessageStream ---------------------------
(***************************************************************************)
(* What a frame parser promises, without bytes: it takes the client's      *)
(* frames one at a time and in order, and a frame with FIN set hands the   *)
(* message it completes to the application.  Of a message only the type    *)
(* and the length are kept.                                                *)
(***************************************************************************)
EXTENDS Integers, Sequences

VARIABLES
    script,     \* the frames the client sends: records with fin, opcode, payload
    taken,      \* how many of them have been taken
    open,       \* the data message being put together
    out         \* the messages handed to the application

vars == <<script, taken, open, out>>

IsControl(f) == f.opcode \in {8, 9, 10}

Init ==
    /\ taken = 0
    /\ open = [type |-> 1, length |-> 0]
    /\ out = <<>>

(* A control frame is a message of its own and leaves the open one alone,  *)
(* except that a Close discards it.                                        *)
TakeControl(f) ==
    /\ IsControl(f)
    /\ out' = Append(out, [type |-> f.opcode, length |-> Len(f.payload)])
    /\ open' = IF f.opcode = 8 THEN [open EXCEPT !.length = 0] ELSE open

(* A data frame extends the open message; FIN completes it *)
TakeData(f) ==
    /\ ~IsControl(f)
    /\ LET m == [type   |-> IF f.opcode = 0 THEN open.type ELSE f.opcode,
                 length |-> open.length + Len(f.payload)]
       IN  IF f.fin = 1
           THEN out' = Append(out, m) /\ open' = [m EXCEPT !.length = 0]
           ELSE open' = m /\ UNCHANGED out

TakeFrame ==
    /\ taken < Len(script)
    /\ taken' = taken + 1
    /\ TakeControl(script[taken + 1]) \/ TakeData(script[taken + 1])
    /\ UNCHANGED script

Spec == Init /\ [][TakeFrame]_vars
=============================================================================
