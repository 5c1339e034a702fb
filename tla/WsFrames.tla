------------------------------ MODULE WsFrames ------------------------------
(***************************************************************************)
(* The frames of RFC 6455 as a client writes them on the wire, and what    *)
(* they mean.  Neither is code of this repository: the encoder belongs to  *)
(* the peer, and the meaning (Expected) is the reference that the parser   *)
(* of websocket.cc is compared with.                                       *)
(*                                                                         *)
(* A header or length byte is a number in 0..255.  A payload or key byte   *)
(* is one bit: XOR works on each bit of a byte by itself, so one bit of    *)
(* every byte stands for all eight.                                        *)
(***************************************************************************)
EXTENDS Integers, Sequences, SequencesExt

Byte == 0..255

(* enum OpcodeE *)
SegmentMessage == 0
TextMessage    == 1
BinaryMessage  == 2
CloseMessage   == 8
PingMessage    == 9
PongMessage    == 10

DataOpcodes    == {SegmentMessage, TextMessage, BinaryMessage}
ControlOpcodes == {CloseMessage, PingMessage, PongMessage}

(* The forms a payload length is written in, as the 7-bit field announces  *)
(* them: in the field itself, in two bytes after 126, in eight after 127.  *)
(* The parser never compares an extended length with 126, so a short       *)
(* payload in an extended form takes the path of a long one.               *)
Forms == {"len7", "u16", "i64"}

xor(a, b) == (a + b) % 2

(***************************************************************************)
(* A frame of the client: fin, opcode, form, the application's payload and *)
(* the masking key (clients always mask).                                  *)
(***************************************************************************)
LengthField(f) ==
    CASE f.form = "len7" -> <<128 + Len(f.payload)>>
      [] f.form = "u16"  -> <<128 + 126, Len(f.payload) \div 256, Len(f.payload) % 256>>
      [] f.form = "i64"  -> <<128 + 127, 0, 0, 0, 0, 0, 0,
                              Len(f.payload) \div 256, Len(f.payload) % 256>>

Encode(f) ==
    <<128 * f.fin + f.opcode>> \o LengthField(f) \o f.key \o
    [i \in 1..Len(f.payload) |-> xor(f.payload[i], f.key[((i - 1) % 4) + 1])]

EncodeAll(script) == FlattenSeq([i \in 1..Len(script) |-> Encode(script[i])])

(* Where the first k frames of a script end on the wire.                   *)
FrameLen(f) == 1 + Len(LengthField(f)) + Len(f.key) + Len(f.payload)

EndOf(script, k) ==
    LET end[n \in 0..k] == IF n = 0 THEN 0 ELSE end[n - 1] + FrameLen(script[n])
    IN  end[k]

(* How many frames of a script lie wholly in its first n bytes.            *)
WholeFrames(script, n) ==
    Max({k \in 0..Len(script) : EndOf(script, k) <= n})

(***************************************************************************)
(* What the first k frames of a script mean: the messages they complete,   *)
(* in the order they complete, and the data message they leave open.       *)
(* aligned: every fragment of the message starts at a multiple of 4 bytes. *)
(***************************************************************************)
NoMessage == [type |-> TextMessage, body |-> <<>>, aligned |-> TRUE]

MeaningStep(m, f) ==
    IF f.opcode \in ControlOpcodes
    THEN [m EXCEPT !.out = Append(@, [type |-> f.opcode, body |-> f.payload, aligned |-> TRUE])]
    ELSE LET open  == [type    |-> IF f.opcode = SegmentMessage THEN m.open.type ELSE f.opcode,
                       body    |-> m.open.body \o f.payload,
                       aligned |-> m.open.aligned /\ Len(m.open.body) % 4 = 0]
         IN  IF f.fin = 1
             THEN [out |-> Append(m.out, open), open |-> [NoMessage EXCEPT !.type = open.type]]
             ELSE [m EXCEPT !.open = open]

Meaning(script, k) ==
    LET upTo[n \in 0..k] == IF n = 0 THEN [out |-> <<>>, open |-> NoMessage]
                           ELSE MeaningStep(upTo[n - 1], script[n])
    IN  upTo[k]

Expected(script, k) == Meaning(script, k).out

(***************************************************************************)
(* Scripts a client that follows RFC 6455 may send: a fragmented message   *)
(* is continued before the next one starts, control frames may come in     *)
(* between and are not fragmented, nothing follows a Close.                *)
(***************************************************************************)
WellFormed(script) ==
    /\ \A i \in 1..Len(script) :
          /\ script[i].opcode \in ControlOpcodes => script[i].fin = 1
          /\ script[i].opcode = CloseMessage => i = Len(script)
    /\ LET data == SelectSeq(script, LAMBDA f : f.opcode \in DataOpcodes)
       IN  \A i \in 1..Len(data) :
              (data[i].opcode = SegmentMessage) <=> (i > 1 /\ data[i - 1].fin = 0)
=============================================================================
