---------------------------- MODULE WsFrameParser ----------------------------
(***************************************************************************)
(* The frame parser of websocket.cc: parse_frame and the step functions it *)
(* calls, run on the input buffer of a connection each time bytes arrive.  *)
(*                                                                         *)
(* One action stands for one call of a step function.  A step function     *)
(* that calls the next one itself (the header step does, and the masking   *)
(* key step) leaves pc at "call": the callee then runs without the loop's  *)
(* test that the buffer is not empty.  The header step drops the callee's  *)
(* result; dropped records that.  The asserts of the step functions are    *)
(* the invariants StepAsserts and MessageAsserts; websocket.cc is built    *)
(* with its asserts.  The one at websocket.cc:3269 fails whenever its      *)
(* function is called: pc is then "aborted" and the program has ended.     *)
(***************************************************************************)
EXTENDS WsFrames

CONSTANT Scripts        \* the frame sequences the client may send

ASSUME ScriptsEncodable == \A s \in Scripts : EncodeAll(s) \in Seq(Byte)

VARIABLES
    script,             \* the frames the client sends on this connection
    wire,               \* bytes sent that have not arrived
    buf,                \* TcpConnection::inputBuffer_
    step,               \* Context_::step_
    header,             \* Context_::header_, the header being parsed
    dataMessage,        \* Context_::dataMessage_
    controlMessage,     \* Context_::controlMessage_
    wsState,            \* Context_::state_
    ty,                 \* parse_frame's local: the frame kind found on entry
    enough,             \* parse_frame's local
    pc,                 \* where parse_frame is: "idle", "loop", "call" or "aborted"
    dropped,            \* the caller ignores the result of the step function
    calls               \* the messages handed to the callbacks so far

vars == <<script, wire, buf, step, header, dataMessage, controlMessage,
          wsState, ty, enough, pc, dropped, calls>>

Steps == {"ReadFrameHeader", "ReadExtendedPayloadlenU16", "ReadExtendedPayloadlenI64",
          "ReadMaskingkey", "ReadPayloadData", "ReadExtendedPayloadDataU16",
          "ReadExtendedPayloadDataI64"}
PayloadSteps == {"ReadPayloadData", "ReadExtendedPayloadDataU16", "ReadExtendedPayloadDataI64"}

kHeaderLen             == 2
kMaskingkeyLen         == 4
kExtendedPayloadlenU16 == 2
kExtendedPayloadlenI64 == 8

ZeroHeader == [FIN |-> 0, opcode |-> 0, MASK |-> 0, Payloadlen |-> 0,
               ext |-> 0, key |-> <<0, 0, 0, 0>>]

(* Buffer::peek and Buffer::retrieve on the input buffer *)
Peek(n)     == SubSeq(buf, 1, n)
Retrieve(n) == SubSeq(buf, n + 1, Len(buf))

(* get_frame_control_message_type: the cases that give FrameInvalid fail   *)
(* an assert                                                               *)
FrameControl(h) ==
    CASE h.opcode \in DataOpcodes -> "UnControlFrame"
      [] h.opcode \in ControlOpcodes /\ h.FIN = 1 -> "ControlFrame"
      [] OTHER -> "FrameInvalid"

(* extended_header_t::getRealDatalen, which each payload step reads in the *)
(* form its own length field has                                           *)
getRealDatalen(h) == IF h.Payloadlen < 126 THEN h.Payloadlen ELSE h.ext

(* Mutant: the FIN and RSV bits stay in the opcode                         *)
BadParseFrameHeader(b) ==
    [header EXCEPT !.FIN = b[1] \div 128, !.opcode = b[1],
                   !.MASK = b[2] \div 128, !.Payloadlen = b[2] % 128]

(* parse_frame_header: the bit fields of header_t (RSV bits are not used)  *)
parse_frame_header(b) ==
    [header EXCEPT !.FIN = b[1] \div 128, !.opcode = b[1] % 16,
                   !.MASK = b[2] \div 128, !.Payloadlen = b[2] % 128]

(* Endian::networkToHost16 and networkToHost64 of the length bytes         *)
networkToHost16(b) == 256 * b[1] + b[2]
networkToHost64(b) ==
    LET shift(n, i) == 256 * n + b[i]
    IN  shift(shift(shift(shift(shift(shift(shift(b[1], 2), 3), 4), 5), 6), 7), 8)

(* Mutants: the message is reset in part                                   *)
KeepsOffset(m) == [m EXCEPT !.body = <<>>]
KeepsBody(m)   == [m EXCEPT !.segmentOffset = 0]

(* Message::resetMessage *)
resetMessage(m) == [m EXCEPT !.body = <<>>, !.segmentOffset = 0]

(* Message::unMaskPayloadData: the bytes past segmentOffset_ are unmasked  *)
(* with the key byte of their place in the whole message                   *)
unMaskPayloadData(m, unMask, key) ==
    IF unMask = 1 /\ Len(m.body) > m.segmentOffset
    THEN [m EXCEPT !.body = [i \in 1..Len(m.body) |->
                                IF i > m.segmentOffset
                                THEN xor(m.body[i], key[((i - 1) % kMaskingkeyLen) + 1])
                                ELSE m.body[i]],
                   !.segmentOffset = Len(m.body)]
    ELSE m

Init ==
    /\ script \in Scripts
    /\ wire = EncodeAll(script)
    /\ buf = <<>>
    /\ step = "ReadFrameHeader"
    /\ header = ZeroHeader
    /\ dataMessage = [type |-> TextMessage, body |-> <<>>, segmentOffset |-> 0]
    /\ controlMessage = [type |-> CloseMessage, body |-> <<>>, segmentOffset |-> 0]
    /\ wsState = "kConnected"
    /\ ty = "UnControlFrame"
    /\ enough = TRUE
    /\ pc = "idle"
    /\ dropped = FALSE
    /\ calls = <<>>

-----------------------------------------------------------------------------
(* n more bytes arrive; parse_message_frame enters parse_frame             *)
Receive(n) ==
    /\ pc = "idle" /\ wsState = "kConnected"
    /\ buf' = buf \o SubSeq(wire, 1, n)
    /\ wire' = SubSeq(wire, n + 1, Len(wire))
    /\ ty' = FrameControl(header)
    /\ enough' = TRUE
    /\ pc' = "loop"
    /\ UNCHANGED <<script, step, header, dataMessage, controlMessage, wsState, dropped, calls>>

(* while (enough && buf->readableBytes() > 0) ends                         *)
ParseReturns ==
    /\ pc = "loop"
    /\ ~(enough /\ Len(buf) > 0)
    /\ pc' = "idle"
    /\ UNCHANGED <<script, wire, buf, step, header, dataMessage, controlMessage,
                   wsState, ty, enough, dropped, calls>>

(* The step function of s is running: the loop chose it, or another step   *)
(* function called it.                                                     *)
Running(s) ==
    /\ step = s
    /\ \/ pc = "loop" /\ enough /\ Len(buf) > 0
       \/ pc = "call"

(* A step function returns e to the loop *)
Return(e) ==
    /\ enough' = (e \/ dropped)
    /\ dropped' = FALSE
    /\ pc' = "loop"

(* Mutant: a step function that has too few bytes keeps the loop going     *)
BadTooFew(n) ==
    /\ Len(buf) < n
    /\ Return(TRUE)
    /\ UNCHANGED <<script, wire, buf, step, header, dataMessage, controlMessage,
                   wsState, ty, calls>>

(* A step function has too few bytes: it changes nothing                   *)
TooFew(n) ==
    /\ Len(buf) < n
    /\ Return(FALSE)
    /\ UNCHANGED <<script, wire, buf, step, header, dataMessage, controlMessage,
                   wsState, ty, calls>>

-----------------------------------------------------------------------------
(* validate_message_frame: the message a first frame opens takes the       *)
(* opcode as its type                                                      *)
SetMessageTypes(h) ==
    /\ dataMessage' = IF h.opcode \in {TextMessage, BinaryMessage}
                      THEN [dataMessage EXCEPT !.type = h.opcode] ELSE dataMessage
    /\ controlMessage' = IF h.opcode \in ControlOpcodes
                         THEN [controlMessage EXCEPT !.type = h.opcode] ELSE controlMessage

(* Mutant: both extended forms are read as the shorter                     *)
BadBodyStep(h) ==
    CASE h.Payloadlen >= 126 -> "ReadExtendedPayloadlenU16"
      [] OTHER -> IF h.MASK = 1 THEN "ReadMaskingkey" ELSE "ReadPayloadData"

(* update_frame_body_parse_step: the step after the header, called at once *)
BodyStep(h) ==
    CASE h.Payloadlen = 126 -> "ReadExtendedPayloadlenU16"
      [] h.Payloadlen = 127 -> "ReadExtendedPayloadlenI64"
      [] OTHER -> IF h.MASK = 1 THEN "ReadMaskingkey" ELSE "ReadPayloadData"

ParseFrameHeader ==
    /\ Running("ReadFrameHeader")
    /\ \/ TooFew(kHeaderLen)
       \/ /\ Len(buf) >= kHeaderLen
          /\ header' = parse_frame_header(Peek(kHeaderLen))
          /\ buf' = Retrieve(kHeaderLen)
          /\ SetMessageTypes(header')
          /\ step' = BodyStep(header')
          /\ pc' = "call" /\ dropped' = TRUE
          /\ UNCHANGED <<script, wire, wsState, ty, enough, calls>>

(* parse_frame_ReadExtendedPayloadlenU16 / I64: only the step is set; the  *)
(* loop calls it                                                           *)
ParseExtendedLength(s, width, len, next) ==
    /\ Running(s)
    /\ \/ TooFew(width)
       \/ /\ Len(buf) >= width
          /\ header' = [header EXCEPT !.ext = len]
          /\ buf' = Retrieve(width)
          /\ step' = IF header.MASK = 1 THEN "ReadMaskingkey" ELSE next
          /\ Return(TRUE)
          /\ UNCHANGED <<script, wire, dataMessage, controlMessage, wsState, ty, calls>>

ParseExtendedPayloadlenU16 ==
    ParseExtendedLength("ReadExtendedPayloadlenU16", kExtendedPayloadlenU16,
                        networkToHost16(Peek(kExtendedPayloadlenU16)),
                        "ReadExtendedPayloadDataU16")

ParseExtendedPayloadlenI64 ==
    ParseExtendedLength("ReadExtendedPayloadlenI64", kExtendedPayloadlenI64,
                        networkToHost64(Peek(kExtendedPayloadlenI64)),
                        "ReadExtendedPayloadDataI64")

(* parse_frame_ReadMaskingkey: calls the payload step and returns its      *)
(* result                                                                  *)
PayloadStep(h) ==
    CASE h.Payloadlen = 126 -> "ReadExtendedPayloadDataU16"
      [] h.Payloadlen = 127 -> "ReadExtendedPayloadDataI64"
      [] OTHER -> "ReadPayloadData"

(* Mutant: the payload step is left to the loop, like after a length       *)
LeavesPayloadToLoop ==
    /\ Running("ReadMaskingkey")
    /\ \/ TooFew(kMaskingkeyLen)
       \/ /\ Len(buf) >= kMaskingkeyLen
          /\ header' = [header EXCEPT !.key = Peek(kMaskingkeyLen)]
          /\ buf' = Retrieve(kMaskingkeyLen)
          /\ step' = PayloadStep(header)
          /\ Return(TRUE)
          /\ UNCHANGED <<script, wire, dataMessage, controlMessage, wsState, ty, calls>>

ParseMaskingkey ==
    /\ Running("ReadMaskingkey")
    /\ \/ TooFew(kMaskingkeyLen)
       \/ /\ Len(buf) >= kMaskingkeyLen
          /\ header' = [header EXCEPT !.key = Peek(kMaskingkeyLen)]
          /\ buf' = Retrieve(kMaskingkeyLen)
          /\ step' = PayloadStep(header)
          /\ pc' = "call"
          /\ UNCHANGED <<script, wire, dataMessage, controlMessage, wsState, ty,
                         enough, dropped, calls>>

-----------------------------------------------------------------------------
(* Mutant: the kind found on entry decides everywhere                      *)
StaleCallee == ty = "UnControlFrame"

(* Whether the payload step function that runs is the one for data frames *)
(* or the one for control frames: the loop goes by ty, which it found on   *)
(* entry; ReadMaskingkey looks at the header again; an unmasked short      *)
(* frame always gets the control one (update_frame_body_parse_step)        *)
UncontrolCallee ==
    IF pc = "loop" THEN ty = "UnControlFrame"
    ELSE header.MASK = 1 /\ FrameControl(header) = "UnControlFrame"

(* The payload joins the message and is unmasked there *)
Payload(m) ==
    unMaskPayloadData([m EXCEPT !.body = @ \o Peek(getRealDatalen(header))],
                      header.MASK, header.key)

(* The header is reset and the next frame begins *)
NextFrame ==
    /\ buf' = Retrieve(getRealDatalen(header))
    /\ header' = ZeroHeader
    /\ step' = "ReadFrameHeader"
    /\ Return(TRUE)
    /\ UNCHANGED <<script, wire, ty>>

(* A data frame's payload: FIN hands the message to onMessageCallback      *)
UncontrolPayload(s) ==
    /\ Running(s)
    /\ UncontrolCallee
    /\ \/ TooFew(getRealDatalen(header))
       \/ /\ Len(buf) >= getRealDatalen(header)
          /\ IF header.FIN = 1
             THEN /\ calls' = Append(calls, [type |-> dataMessage.type,
                                             body |-> Payload(dataMessage).body])
                  /\ dataMessage' = resetMessage(dataMessage)
             ELSE /\ dataMessage' = Payload(dataMessage)
                  /\ UNCHANGED calls
          /\ NextFrame
          /\ UNCHANGED <<controlMessage, wsState>>

ParseUncontrolPayloadData    == UncontrolPayload("ReadPayloadData")
ParseUncontrolPayloadDataU16 == UncontrolPayload("ReadExtendedPayloadDataU16")
ParseUncontrolPayloadDataI64 == UncontrolPayload("ReadExtendedPayloadDataI64")

(* A control frame's payload: a Close calls onClosedCallback and           *)
(* forceClose, resets the data message and closes the session; Ping and    *)
(* Pong call onMessageCallback                                             *)
ControlPayload(s) ==
    /\ Running(s)
    /\ ~UncontrolCallee
    /\ \/ TooFew(getRealDatalen(header))
       \/ /\ Len(buf) >= getRealDatalen(header)
          /\ IF header.FIN = 1
             THEN /\ calls' = Append(calls, [type |-> controlMessage.type,
                                             body |-> Payload(controlMessage).body])
                  /\ controlMessage' = resetMessage(controlMessage)
             ELSE /\ controlMessage' = Payload(controlMessage)
                  /\ UNCHANGED calls
          /\ IF header.FIN = 1 /\ header.opcode = CloseMessage
             THEN wsState' = "kClosed" /\ dataMessage' = resetMessage(dataMessage)
             ELSE UNCHANGED <<wsState, dataMessage>>
          /\ NextFrame

ParseControlPayloadData    == ControlPayload("ReadPayloadData")
ParseControlPayloadDataI64 == ControlPayload("ReadExtendedPayloadDataI64")

(* The function for two-byte lengths asserts first of all that the step is *)
(* ReadPayloadData, and is only called in another                          *)
ParseControlPayloadDataU16 ==
    /\ Running("ReadExtendedPayloadDataU16")
    /\ ~UncontrolCallee
    /\ pc' = "aborted"
    /\ UNCHANGED <<script, wire, buf, step, header, dataMessage, controlMessage,
                   wsState, ty, enough, dropped, calls>>

ParseStep ==
    \/ ParseFrameHeader
    \/ ParseExtendedPayloadlenU16
    \/ ParseExtendedPayloadlenI64
    \/ ParseMaskingkey
    \/ ParseUncontrolPayloadData
    \/ ParseUncontrolPayloadDataU16
    \/ ParseUncontrolPayloadDataI64
    \/ ParseControlPayloadData
    \/ ParseControlPayloadDataU16
    \/ ParseControlPayloadDataI64
    \/ ParseReturns

Next ==
    \/ \E n \in 1..Len(wire) : Receive(n)
    \/ ParseStep

(* parse_frame runs to its end once it is entered; bytes arrive when the   *)
(* network brings them                                                     *)
Spec == Init /\ [][Next]_vars /\ WF_vars(ParseStep)

-----------------------------------------------------------------------------
TypeOK ==
    /\ wire \in Seq(Byte) /\ buf \in Seq(Byte)
    /\ step \in Steps
    /\ header \in [FIN : 0..1, opcode : 0..15, MASK : 0..1, Payloadlen : 0..127,
                   ext : Nat, key : [1..kMaskingkeyLen -> Byte]]
    /\ dataMessage \in [type : {TextMessage, BinaryMessage}, body : Seq(Byte),
                        segmentOffset : Nat]
    /\ controlMessage \in [type : ControlOpcodes, body : Seq(Byte), segmentOffset : Nat]
    /\ wsState \in {"kConnected", "kClosed"}
    /\ ty \in {"UnControlFrame", "ControlFrame", "FrameInvalid"}
    /\ enough \in BOOLEAN /\ dropped \in BOOLEAN
    /\ pc \in {"idle", "loop", "call", "aborted"}
    /\ calls \in Seq([type : {TextMessage, BinaryMessage} \cup ControlOpcodes, body : Seq(Byte)])

(* The asserts on the order of the steps hold for every stream of bytes,   *)
(* whatever pieces it arrives in: a step function only ever runs on a      *)
(* header that asks for it.                                                *)
StepAsserts ==
    /\ Running("ReadExtendedPayloadlenU16") => header.Payloadlen = 126
    /\ Running("ReadExtendedPayloadlenI64") => header.Payloadlen = 127
    /\ Running("ReadMaskingkey") => header.MASK = 1
    /\ \A s \in PayloadSteps : Running(s) => s = PayloadStep(header)

(* parse_frame looks at the frame kind once, on entry (websocket.cc:3582), *)
(* and goes by it for every payload step of the loop.  It may be the kind  *)
(* of an earlier frame, but never when the payload of a masked frame is    *)
(* there to be consumed: data goes to the data message, control payloads   *)
(* to the control message.                                                 *)
KindIsFresh ==
    \A s \in PayloadSteps :
        Running(s) /\ header.MASK = 1 /\ Len(buf) >= getRealDatalen(header) =>
            (UncontrolCallee <=> FrameControl(header) = "UnControlFrame")

(* The asserts on messages hold for a client that follows RFC 6455: a      *)
(* first frame finds its message empty (validate_message_frame), the frame *)
(* kind is valid, a completed frame has an opcode its payload step knows,  *)
(* and the control one for two-byte lengths, which asks for the step of    *)
(* the short ones (websocket.cc:3269), does not run.                       *)
MessageAsserts ==
    /\ Running("ReadFrameHeader") /\ Len(buf) >= kHeaderLen =>
          LET h == parse_frame_header(Peek(kHeaderLen))
          IN  /\ h.opcode \in {TextMessage, BinaryMessage} => dataMessage.body = <<>>
              /\ h.opcode \in ControlOpcodes => controlMessage.body = <<>>
    /\ pc # "idle" => ty # "FrameInvalid"
    /\ \A s \in PayloadSteps : Running(s) =>
          /\ ~UncontrolCallee => s # "ReadExtendedPayloadDataU16"
          /\ header.FIN = 1 /\ Len(buf) >= getRealDatalen(header) =>
                header.opcode \in IF UncontrolCallee THEN DataOpcodes ELSE ControlOpcodes

Shape(m) == [type |-> m.type, length |-> Len(m.body)]

Received == EndOf(script, Len(script)) - Len(wire)

(* Whatever pieces the bytes arrive in, when parse_frame has returned the  *)
(* callbacks have been given exactly the messages that the frames received *)
(* whole complete, in order, with their types and lengths: none is held    *)
(* back, none comes early, none is split or joined, and control frames     *)
(* between fragments leave the data message alone.                         *)
WholeMessagesDelivered ==
    pc = "idle" =>
        LET want == Expected(script, WholeFrames(script, Received))
        IN  /\ Len(calls) = Len(want)
            /\ \A i \in 1..Len(want) : Shape(calls[i]) = Shape(want[i])

(* A message whose fragments all start at a multiple of four bytes is      *)
(* delivered with the content the client masked (unMaskPayloadData).       *)
AlignedContentUnmasked ==
    \A i \in 1..Len(calls) :
        LET want == Expected(script, Len(script))[i]
        IN  want.aligned => calls[i].body = want.body

(* The same for every message: what README.md promises of fragmented       *)
(* messages.                                                               *)
ContentUnmasked ==
    \A i \in 1..Len(calls) : calls[i].body = Expected(script, Len(script))[i].body

(* parse_frame comes to an end: no step keeps the loop going without       *)
(* consuming.                                                              *)
ParseTerminates == pc \in {"loop", "call"} ~> pc \in {"idle", "aborted"}

-----------------------------------------------------------------------------
(* The bytes the parser has taken out of the buffer *)
Consumed == Received - Len(buf)

(* The parser seen as a message stream: between frames it has taken the    *)
(* frames its consumed bytes hold; inside a frame, the ones before it.  A  *)
(* frame is taken when its payload step runs, even if the payload is empty *)
(* (consumed bytes alone would count it already).  The type of the open    *)
(* message is set with the header of its first frame, before that frame is *)
(* taken; it counts from then on.                                          *)
Stream == INSTANCE WsMessageStream WITH
    taken <- IF step = "ReadFrameHeader" THEN WholeFrames(script, Consumed)
             ELSE WholeFrames(script, Consumed - 1),
    open  <- [type   |-> Meaning(script, IF step = "ReadFrameHeader"
                                         THEN WholeFrames(script, Consumed)
                                         ELSE WholeFrames(script, Consumed - 1)).open.type,
              length |-> Len(dataMessage.body)],
    out   <- [i \in 1..Len(calls) |-> Shape(calls[i])]

(* The parser implements the message stream: each of its steps takes one   *)
(* frame with all its effects, or takes nothing.                           *)
ImplementsMessageStream == Stream!Spec
=============================================================================
