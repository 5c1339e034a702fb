------------------------- MODULE WsFrameParserProofs -------------------------
(***************************************************************************)
(* What WsFrameParser guarantees for every set of scripts, of any length   *)
(* and content, cut into pieces in any way.                                *)
(***************************************************************************)
EXTENDS WsFrameParser, TLAPS, SequenceTheorems

Headers == [FIN : 0..1, opcode : 0..15, MASK : 0..1, Payloadlen : 0..127,
            ext : Nat, key : [1..kMaskingkeyLen -> Byte]]
Messages(T) == [type : T, body : Seq(Byte), segmentOffset : Nat]

(* The step fits the header it works on *)
StepInv ==
    /\ step = "ReadExtendedPayloadlenU16" => header.Payloadlen = 126
    /\ step = "ReadExtendedPayloadlenI64" => header.Payloadlen = 127
    /\ step = "ReadMaskingkey" => header.MASK = 1
    /\ step \in PayloadSteps => step = PayloadStep(header)

(* The kind found on entry is stale only while the payload is incomplete   *)
KindInv ==
    pc = "loop" /\ enough /\ step \in PayloadSteps /\ header.MASK = 1 =>
        ty = FrameControl(header) \/ Len(buf) < getRealDatalen(header)

Inv == TypeOK /\ StepInv /\ KindInv

-----------------------------------------------------------------------------
(* Bytes are numbers below 256, and sums of them are numbers.              *)
LEMMA ByteArithmetic ==
    /\ \A x \in Byte : x \in Nat
    /\ \A x \in Byte : /\ x \div 128 \in 0..1 /\ x % 16 \in 0..15 /\ x % 128 \in 0..127
    /\ \A n \in Nat, x \in Byte : 256 * n + x \in Nat
    /\ \A x, y \in Byte : xor(x, y) \in Byte
<1>1. \A n \in Nat : n % 2 \in 0..1
  OBVIOUS
<1>2. \A x, y \in Byte : x + y \in Nat
  BY DEF Byte
<1>3. \A x, y \in Byte : xor(x, y) \in Byte
  BY <1>1, <1>2 DEF Byte, xor
<1>4. \A x \in Byte : x \in Nat
  BY DEF Byte
<1>5. \A x \in Byte : x \div 128 \in 0..1 /\ x % 16 \in 0..15 /\ x % 128 \in 0..127
  BY DEF Byte
<1>6. \A n \in Nat, x \in Byte : 256 * n + x \in Nat
  BY DEF Byte
<1> QED
  BY <1>3, <1>4, <1>5, <1>6

(* The two header bytes give fields of the width header_t declares.        *)
LEMMA HeaderType ==
    ASSUME header \in Headers, NEW b \in Seq(Byte), Len(b) = 2
    PROVE  parse_frame_header(b) \in Headers
<1>1. b[1] \in Byte /\ b[2] \in Byte
  BY ElementOfSeq
<1>2. /\ b[1] \div 128 \in 0..1 /\ b[1] % 16 \in 0..15
      /\ b[2] \div 128 \in 0..1 /\ b[2] % 128 \in 0..127
  BY <1>1, ByteArithmetic
<1> QED
  BY <1>2 DEF Headers, parse_frame_header

LEMMA DatalenType ==
    ASSUME NEW h \in Headers
    PROVE  getRealDatalen(h) \in Nat
<1>1. h.Payloadlen \in 0..127 /\ h.ext \in Nat
  BY DEF Headers
<1> QED
  BY <1>1 DEF getRealDatalen

(* A prefix of a byte sequence, and what is left after it, are bytes.      *)
LEMMA CutType ==
    ASSUME NEW s \in Seq(Byte), NEW n \in 0..Len(s)
    PROVE  /\ SubSeq(s, 1, n) \in Seq(Byte) /\ Len(SubSeq(s, 1, n)) = n
           /\ SubSeq(s, n + 1, Len(s)) \in Seq(Byte)
<1>1. Len(s) \in Nat
  BY LenProperties
<1>2. \A i \in 1..n : s[i] \in Byte
  BY <1>1, ElementOfSeq
<1>3. \A i \in n + 1..Len(s) : s[i] \in Byte
  BY <1>1, ElementOfSeq
<1>4. SubSeq(s, 1, n) \in Seq(Byte) /\ Len(SubSeq(s, 1, n)) = n
  BY <1>1, <1>2, SubSeqProperties
<1>5. SubSeq(s, n + 1, Len(s)) \in Seq(Byte)
  BY <1>1, <1>3, SubSeqProperties
<1> QED
  BY <1>4, <1>5

(* The length fields are numbers.                                          *)
LEMMA Length16Type ==
    ASSUME NEW b \in Seq(Byte), Len(b) = 2
    PROVE  networkToHost16(b) \in Nat
<1>1. b[1] \in Byte /\ b[2] \in Byte
  BY ElementOfSeq
<1> QED
  BY <1>1, ByteArithmetic DEF networkToHost16

LEMMA Length64Type ==
    ASSUME NEW b \in Seq(Byte), Len(b) = 8
    PROVE  networkToHost64(b) \in Nat
<1> DEFINE shift(n, i) == 256 * n + b[i]
<1>1. \A i \in 1..8 : b[i] \in Byte
  BY ElementOfSeq
<1>2. \A n \in Nat, i \in 1..8 : shift(n, i) \in Nat
  BY <1>1, ByteArithmetic
<1>3. b[1] \in Nat
  BY <1>1, ByteArithmetic
<1>4. shift(b[1], 2) \in Nat
  BY <1>2, <1>3
<1>5. shift(shift(b[1], 2), 3) \in Nat
  BY <1>2, <1>4
<1>6. shift(shift(shift(b[1], 2), 3), 4) \in Nat
  BY <1>2, <1>5
<1>7. shift(shift(shift(shift(b[1], 2), 3), 4), 5) \in Nat
  BY <1>2, <1>6
<1>8. shift(shift(shift(shift(shift(b[1], 2), 3), 4), 5), 6) \in Nat
  BY <1>2, <1>7
<1>9. shift(shift(shift(shift(shift(shift(b[1], 2), 3), 4), 5), 6), 7) \in Nat
  BY <1>2, <1>8
<1>10. shift(shift(shift(shift(shift(shift(shift(b[1], 2), 3), 4), 5), 6), 7), 8) \in Nat
  BY <1>2, <1>9
<1> QED
  BY <1>10 DEF networkToHost64

LEMMA FunctionIsSeq ==
    ASSUME NEW S, NEW n \in Nat, NEW f \in [1..n -> S]
    PROVE  f \in Seq(S)
  BY SeqDef

(* Appending a payload to a message and unmasking it gives bytes.          *)
LEMMA PayloadType ==
    ASSUME NEW T, NEW msg \in Messages(T), header \in Headers, buf \in Seq(Byte),
           Len(buf) >= getRealDatalen(header)
    PROVE  Payload(msg) \in Messages(T)
<1> DEFINE n == getRealDatalen(header)
           body == msg.body \o Peek(n)
           grown == [msg EXCEPT !.body = @ \o Peek(n)]
<1>1. n \in 0..Len(buf)
  <2>1. Len(buf) \in Nat
    BY LenProperties
  <2>2. n \in Nat
    BY DatalenType
  <2> QED BY <2>1, <2>2
<1>2. body \in Seq(Byte) /\ Len(body) \in Nat
  BY <1>1, CutType, ConcatProperties, LenProperties DEF Messages, Peek
<1>3. \A i \in 1..Len(body) :
          xor(body[i], header.key[((i - 1) % kMaskingkeyLen) + 1]) \in Byte
  <2> TAKE i \in 1..Len(body)
  <2>1. ((i - 1) % 4) + 1 \in 1..4
    BY <1>2
  <2>2. header.key[((i - 1) % kMaskingkeyLen) + 1] \in Byte
    BY <2>1 DEF Headers, kMaskingkeyLen
  <2>3. body[i] \in Byte
    BY <1>2, ElementOfSeq
  <2> QED BY <2>2, <2>3, ByteArithmetic
<1>4. \A i \in 1..Len(body) : body[i] \in Byte
  BY <1>2, ElementOfSeq
<1> DEFINE unmasked == [i \in 1..Len(body) |->
                          IF i > msg.segmentOffset
                          THEN xor(body[i], header.key[((i - 1) % kMaskingkeyLen) + 1])
                          ELSE body[i]]
<1>5. unmasked \in [1..Len(body) -> Byte]
  BY <1>3, <1>4
<1>6. unmasked \in Seq(Byte)
  BY <1>2, <1>5, FunctionIsSeq
<1>7. grown.body = body /\ grown.segmentOffset = msg.segmentOffset /\ grown \in Messages(T)
  BY <1>2 DEF Messages
<1>8. [grown EXCEPT !.body = unmasked, !.segmentOffset = Len(body)] \in Messages(T)
  BY <1>2, <1>6, <1>7 DEF Messages
<1>9. Payload(msg) = unMaskPayloadData(grown, header.MASK, header.key)
  BY DEF Payload
<1>10. unMaskPayloadData(grown, header.MASK, header.key)
          \in {grown, [grown EXCEPT !.body = unmasked, !.segmentOffset = Len(body)]}
  BY <1>7 DEF unMaskPayloadData
<1> QED
  BY <1>7, <1>8, <1>9, <1>10

-----------------------------------------------------------------------------
(* The step and the header it works on change together.                    *)
LEMMA StepInvInductive ==
    ASSUME TypeOK, StepInv, [Next]_vars
    PROVE  StepInv'
<1> USE DEF StepInv, PayloadSteps
<1>1. CASE \E n \in 1..Len(wire) : Receive(n)
  BY <1>1 DEF Receive
<1>2. CASE ParseFrameHeader
  <2>1. CASE TooFew(kHeaderLen)
    BY <2>1 DEF TooFew
  <2>2. CASE step' = BodyStep(header')
    BY <2>2 DEF BodyStep, PayloadStep
  <2> QED BY <1>2, <2>1, <2>2 DEF ParseFrameHeader
<1>3. ASSUME NEW s, NEW width, NEW len, NEW next,
             ParseExtendedLength(s, width, len, next),
             \/ s = "ReadExtendedPayloadlenU16" /\ next = "ReadExtendedPayloadDataU16"
             \/ s = "ReadExtendedPayloadlenI64" /\ next = "ReadExtendedPayloadDataI64"
      PROVE  StepInv'
  <2>1. CASE TooFew(width)
    BY <2>1 DEF TooFew
  <2>2. CASE /\ header' = [header EXCEPT !.ext = len]
             /\ step' = IF header.MASK = 1 THEN "ReadMaskingkey" ELSE next
    <3>1. header'.Payloadlen = header.Payloadlen /\ header'.MASK = header.MASK
      BY <2>2 DEF TypeOK
    <3>2. step = s
      BY <1>3 DEF ParseExtendedLength, Running
    <3> QED BY <1>3, <2>2, <3>1, <3>2 DEF PayloadStep
  <2> QED BY <1>3, <2>1, <2>2 DEF ParseExtendedLength
<1>4. CASE ParseMaskingkey
  <2>1. CASE TooFew(kMaskingkeyLen)
    BY <2>1 DEF TooFew
  <2>2. CASE /\ header' = [header EXCEPT !.key = Peek(kMaskingkeyLen)]
             /\ step' = PayloadStep(header)
    <3>1. header'.Payloadlen = header.Payloadlen
      BY <2>2 DEF TypeOK
    <3> QED BY <2>2, <3>1 DEF PayloadStep
  <2> QED BY <1>4, <2>1, <2>2 DEF ParseMaskingkey
<1>5. ASSUME NEW s, UncontrolPayload(s) \/ ControlPayload(s)
      PROVE  StepInv'
  <2>1. TooFew(getRealDatalen(header)) \/ NextFrame
    BY <1>5 DEF UncontrolPayload, ControlPayload
  <2> QED BY <2>1 DEF TooFew, NextFrame
<1>6. CASE ParseReturns
  BY <1>6 DEF ParseReturns
<1>7. CASE UNCHANGED vars
  BY <1>7 DEF vars
<1>8. CASE ParseExtendedPayloadlenU16
  BY <1>3, <1>8 DEF ParseExtendedPayloadlenU16
<1>9. CASE ParseExtendedPayloadlenI64
  BY <1>3, <1>9 DEF ParseExtendedPayloadlenI64
<1>10. CASE \E s \in PayloadSteps : UncontrolPayload(s) \/ ControlPayload(s)
  BY <1>5, <1>10
<1>11. CASE ParseControlPayloadDataU16
  BY <1>11 DEF ParseControlPayloadDataU16
<1> QED
  BY <1>1, <1>2, <1>4, <1>6, <1>7, <1>8, <1>9, <1>10, <1>11
     DEF Next, ParseStep, ParseUncontrolPayloadData, ParseUncontrolPayloadDataU16,
         ParseUncontrolPayloadDataI64, ParseControlPayloadData,
         ParseControlPayloadDataI64

(* A payload step that came up short leaves a stale kind behind, and only  *)
(* then; the next entry of parse_frame refreshes it.                       *)
LEMMA KindInvInductive ==
    ASSUME TypeOK, KindInv, [Next]_vars
    PROVE  KindInv'
<1> USE DEF KindInv, PayloadSteps
<1>1. CASE \E n \in 1..Len(wire) : Receive(n)
  BY <1>1 DEF Receive
<1>2. CASE ParseFrameHeader
  BY <1>2 DEF ParseFrameHeader, TooFew, Running
<1>3. ASSUME NEW s \in {"ReadExtendedPayloadlenU16", "ReadExtendedPayloadlenI64"},
             NEW width, NEW len, NEW next,
             ParseExtendedLength(s, width, len, next)
      PROVE  KindInv'
  <2>1. step = s
    BY <1>3 DEF ParseExtendedLength, Running
  <2>2. CASE TooFew(width)
    BY <2>1, <2>2 DEF TooFew
  <2>3. CASE /\ header' = [header EXCEPT !.ext = len]
             /\ step' = IF header.MASK = 1 THEN "ReadMaskingkey" ELSE next
    <3>1. header'.MASK = header.MASK
      BY <2>3 DEF TypeOK
    <3> QED BY <2>3, <3>1
  <2> QED BY <1>3, <2>2, <2>3 DEF ParseExtendedLength
<1>4. CASE ParseMaskingkey
  BY <1>4 DEF ParseMaskingkey, TooFew, Running
<1>5. ASSUME NEW s, UncontrolPayload(s) \/ ControlPayload(s)
      PROVE  KindInv'
  <2>1. TooFew(getRealDatalen(header)) \/ NextFrame
    BY <1>5 DEF UncontrolPayload, ControlPayload
  <2>2. CASE TooFew(getRealDatalen(header))
    BY <2>2 DEF TooFew
  <2>3. CASE NextFrame
    BY <2>3 DEF NextFrame
  <2> QED BY <2>1, <2>2, <2>3
<1>6. CASE ParseReturns
  BY <1>6 DEF ParseReturns
<1>7. CASE UNCHANGED vars
  BY <1>7 DEF vars
<1>8. CASE ParseExtendedPayloadlenU16
  BY <1>3, <1>8 DEF ParseExtendedPayloadlenU16
<1>9. CASE ParseExtendedPayloadlenI64
  BY <1>3, <1>9 DEF ParseExtendedPayloadlenI64
<1>10. CASE \E s \in PayloadSteps : UncontrolPayload(s) \/ ControlPayload(s)
  BY <1>5, <1>10
<1>11. CASE ParseControlPayloadDataU16
  BY <1>11 DEF ParseControlPayloadDataU16
<1> QED
  BY <1>1, <1>2, <1>4, <1>6, <1>7, <1>8, <1>9, <1>10, <1>11
     DEF Next, ParseStep, ParseUncontrolPayloadData, ParseUncontrolPayloadDataU16,
         ParseUncontrolPayloadDataI64, ParseControlPayloadData,
         ParseControlPayloadDataI64

-----------------------------------------------------------------------------
CallRecords == [type : {TextMessage, BinaryMessage} \cup ControlOpcodes, body : Seq(Byte)]

(* Handing a message over records a call of the right type.                *)
LEMMA DeliverType ==
    ASSUME TypeOK, NEW T \in SUBSET ({TextMessage, BinaryMessage} \cup ControlOpcodes),
           NEW msg \in Messages(T), Len(buf) >= getRealDatalen(header)
    PROVE  /\ Payload(msg) \in Messages(T)
           /\ resetMessage(msg) \in Messages(T)
           /\ Append(calls, [type |-> msg.type, body |-> Payload(msg).body]) \in Seq(CallRecords)
<1>1. header \in Headers /\ buf \in Seq(Byte) /\ calls \in Seq(CallRecords)
  BY DEF TypeOK, Headers, CallRecords
<1>2. Payload(msg) \in Messages(T)
  BY <1>1, PayloadType
<1>3. resetMessage(msg) \in Messages(T)
  <2>1. <<>> \in Seq(Byte)
    BY EmptySeq
  <2> QED BY <2>1 DEF resetMessage, Messages
<1>4. [type |-> msg.type, body |-> Payload(msg).body] \in CallRecords
  BY <1>2 DEF Messages, CallRecords
<1> QED
  BY <1>1, <1>2, <1>3, <1>4, AppendProperties

LEMMA PeekType ==
    ASSUME TypeOK, NEW n \in Nat, Len(buf) >= n
    PROVE  Peek(n) \in Seq(Byte) /\ Len(Peek(n)) = n
<1>1. buf \in Seq(Byte) /\ Len(buf) \in Nat
  BY LenProperties DEF TypeOK
<1>2. n \in 0..Len(buf)
  BY <1>1
<1> QED
  BY <1>1, <1>2, CutType DEF Peek

LEMMA ReturnType ==
    ASSUME TypeOK, NEW e \in BOOLEAN, Return(e)
    PROVE  enough' \in BOOLEAN /\ dropped' \in BOOLEAN /\ pc' \in {"idle", "loop", "call"}
  BY DEF Return, TypeOK

LEMMA TooFewType ==
    ASSUME TypeOK, NEW n, TooFew(n)
    PROVE  TypeOK'
<1>1. enough' \in BOOLEAN /\ dropped' \in BOOLEAN /\ pc' \in {"idle", "loop", "call"}
  BY ReturnType DEF TooFew
<1> QED
  BY <1>1 DEF TooFew, TypeOK

LEMMA ReceiveType ==
    ASSUME TypeOK, NEW n \in 1..Len(wire), Receive(n)
    PROVE  TypeOK'
<1>1. wire \in Seq(Byte) /\ buf \in Seq(Byte) /\ Len(wire) \in Nat
  BY LenProperties DEF TypeOK
<1>2. SubSeq(wire, 1, n) \in Seq(Byte) /\ SubSeq(wire, n + 1, Len(wire)) \in Seq(Byte)
  BY <1>1, CutType
<1>3. buf' \in Seq(Byte) /\ wire' \in Seq(Byte)
  BY <1>1, <1>2, ConcatProperties DEF Receive
<1>4. ty' \in {"UnControlFrame", "ControlFrame", "FrameInvalid"}
  BY DEF Receive, FrameControl
<1> QED
  BY <1>3, <1>4 DEF Receive, TypeOK

LEMMA FrameHeaderType ==
    ASSUME TypeOK, ParseFrameHeader
    PROVE  TypeOK'
<1>1. CASE TooFew(kHeaderLen)
  BY <1>1, TooFewType
<1>2. CASE Len(buf) >= kHeaderLen /\ ~TooFew(kHeaderLen)
  <2>1. buf \in Seq(Byte) /\ Len(buf) \in Nat /\ header \in Headers
    BY LenProperties DEF TypeOK, Headers
  <2>2. 2 \in 0..Len(buf)
    BY <1>2, <2>1 DEF kHeaderLen
  <2>3. /\ Peek(2) \in Seq(Byte) /\ Len(Peek(2)) = 2
        /\ Retrieve(2) \in Seq(Byte)
    BY <2>1, <2>2, CutType DEF Peek, Retrieve
  <2>4. header' \in Headers /\ buf' \in Seq(Byte)
    BY <1>2, <2>1, <2>3, HeaderType DEF ParseFrameHeader, kHeaderLen
  <2>5. step' \in Steps
    BY <1>2 DEF ParseFrameHeader, BodyStep, Steps
  <2>6. dataMessage' \in Messages({TextMessage, BinaryMessage})
    BY <1>2 DEF ParseFrameHeader, SetMessageTypes, TypeOK, Messages
  <2>7. controlMessage' \in Messages(ControlOpcodes)
    BY <1>2 DEF ParseFrameHeader, SetMessageTypes, TypeOK, Messages
  <2>8. /\ pc' = "call" /\ dropped' = TRUE
        /\ UNCHANGED <<script, wire, wsState, ty, enough, calls>>
    BY <1>2 DEF ParseFrameHeader
  <2> QED
    BY <2>4, <2>5, <2>6, <2>7, <2>8 DEF TypeOK, Headers, Messages
<1> QED
  BY <1>1, <1>2 DEF ParseFrameHeader

LEMMA ExtendedLengthType ==
    ASSUME TypeOK, NEW s, NEW width \in Nat, NEW len, NEW next \in Steps,
           Len(buf) >= width => len \in Nat,
           ParseExtendedLength(s, width, len, next)
    PROVE  TypeOK'
<1>1. CASE TooFew(width)
  BY <1>1, TooFewType
<1>2. CASE Len(buf) >= width /\ ~TooFew(width)
  <2>1. buf \in Seq(Byte) /\ Len(buf) \in Nat /\ header \in Headers
    BY LenProperties DEF TypeOK, Headers
  <2>2. width \in 0..Len(buf)
    BY <1>2, <2>1
  <2>3. Retrieve(width) \in Seq(Byte)
    BY <2>1, <2>2, CutType DEF Retrieve
  <2>4. len \in Nat
    BY <1>2
  <2>5. header' = [header EXCEPT !.ext = len] /\ buf' = Retrieve(width)
    BY <1>2 DEF ParseExtendedLength
  <2>6. header' \in Headers /\ buf' \in Seq(Byte)
    BY <2>1, <2>3, <2>4, <2>5 DEF Headers
  <2>7. step' \in Steps
    BY <1>2 DEF ParseExtendedLength, Steps
  <2>8. enough' \in BOOLEAN /\ dropped' \in BOOLEAN /\ pc' \in {"idle", "loop", "call"}
    BY <1>2, ReturnType DEF ParseExtendedLength
  <2>9. UNCHANGED <<script, wire, dataMessage, controlMessage, wsState, ty, calls>>
    BY <1>2 DEF ParseExtendedLength
  <2> QED
    BY <2>6, <2>7, <2>8, <2>9 DEF TypeOK, Headers
<1> QED
  BY <1>1, <1>2 DEF ParseExtendedLength

LEMMA MaskingkeyType ==
    ASSUME TypeOK, ParseMaskingkey
    PROVE  TypeOK'
<1>1. CASE TooFew(kMaskingkeyLen)
  BY <1>1, TooFewType
<1>2. CASE Len(buf) >= kMaskingkeyLen /\ ~TooFew(kMaskingkeyLen)
  <2>1. buf \in Seq(Byte) /\ Len(buf) \in Nat /\ header \in Headers
    BY LenProperties DEF TypeOK, Headers
  <2>2. 4 \in 0..Len(buf)
    BY <1>2, <2>1 DEF kMaskingkeyLen
  <2>3. /\ Peek(4) \in Seq(Byte) /\ Len(Peek(4)) = 4
        /\ Retrieve(4) \in Seq(Byte)
    BY <2>1, <2>2, CutType DEF Peek, Retrieve
  <2>4. Peek(4) \in [1..4 -> Byte]
    BY <2>3, LenProperties, ElementOfSeq
  <2>5. header' = [header EXCEPT !.key = Peek(4)] /\ buf' = Retrieve(4)
    BY <1>2 DEF ParseMaskingkey, kMaskingkeyLen
  <2>6. header' \in Headers /\ buf' \in Seq(Byte)
    BY <2>1, <2>3, <2>4, <2>5 DEF Headers, kMaskingkeyLen
  <2>7. step' \in Steps
    BY <1>2 DEF ParseMaskingkey, PayloadStep, Steps
  <2>8. /\ pc' = "call"
        /\ UNCHANGED <<script, wire, dataMessage, controlMessage, wsState, ty,
                       enough, dropped, calls>>
    BY <1>2 DEF ParseMaskingkey
  <2> QED
    BY <2>6, <2>7, <2>8 DEF TypeOK, Headers
<1> QED
  BY <1>1, <1>2 DEF ParseMaskingkey

LEMMA NextFrameType ==
    ASSUME TypeOK, Len(buf) >= getRealDatalen(header), NextFrame
    PROVE  /\ buf' \in Seq(Byte) /\ wire' \in Seq(Byte)
           /\ header' \in Headers /\ step' \in Steps
           /\ ty' \in {"UnControlFrame", "ControlFrame", "FrameInvalid"}
           /\ enough' \in BOOLEAN /\ dropped' \in BOOLEAN /\ pc' \in {"idle", "loop", "call"}
<1> DEFINE n == getRealDatalen(header)
<1>1. buf \in Seq(Byte) /\ Len(buf) \in Nat /\ n \in Nat
  BY LenProperties, DatalenType DEF TypeOK, Headers
<1>2. n \in 0..Len(buf)
  BY <1>1
<1>3. buf' \in Seq(Byte)
  BY <1>1, <1>2, CutType DEF NextFrame, Retrieve
<1>4. ZeroHeader \in Headers
  BY DEF ZeroHeader, Headers, kMaskingkeyLen, Byte
<1>5. enough' \in BOOLEAN /\ dropped' \in BOOLEAN /\ pc' \in {"idle", "loop", "call"}
  BY ReturnType DEF NextFrame
<1> QED
  BY <1>3, <1>4, <1>5 DEF NextFrame, Steps, TypeOK

LEMMA PayloadStepType ==
    ASSUME TypeOK, NEW s, UncontrolPayload(s) \/ ControlPayload(s)
    PROVE  TypeOK'
<1>1. CASE TooFew(getRealDatalen(header))
  BY <1>1, TooFewType
<1>2. CASE Len(buf) >= getRealDatalen(header) /\ ~TooFew(getRealDatalen(header))
  <2> DEFINE Data    == {TextMessage, BinaryMessage}
             Control == ControlOpcodes
  <2>1. dataMessage \in Messages(Data) /\ controlMessage \in Messages(Control)
    BY DEF TypeOK, Messages
  <2>2. /\ Payload(dataMessage) \in Messages(Data)
        /\ resetMessage(dataMessage) \in Messages(Data)
        /\ Append(calls, [type |-> dataMessage.type, body |-> Payload(dataMessage).body])
              \in Seq(CallRecords)
    BY <1>2, <2>1, DeliverType
  <2>3. /\ Payload(controlMessage) \in Messages(Control)
        /\ resetMessage(controlMessage) \in Messages(Control)
        /\ Append(calls, [type |-> controlMessage.type, body |-> Payload(controlMessage).body])
              \in Seq(CallRecords)
    BY <1>2, <2>1, DeliverType
  <2>4. calls \in Seq(CallRecords)
    BY DEF TypeOK, CallRecords
  <2>5. NextFrame
    BY <1>2 DEF UncontrolPayload, ControlPayload
  <2>6. /\ buf' \in Seq(Byte) /\ wire' \in Seq(Byte)
        /\ header' \in Headers /\ step' \in Steps
        /\ ty' \in {"UnControlFrame", "ControlFrame", "FrameInvalid"}
        /\ enough' \in BOOLEAN /\ dropped' \in BOOLEAN /\ pc' \in {"idle", "loop", "call"}
    BY <1>2, <2>5, NextFrameType
  <2>7. dataMessage' \in Messages(Data) /\ controlMessage' \in Messages(Control)
    BY <1>2, <2>1, <2>2, <2>3 DEF UncontrolPayload, ControlPayload
  <2>8. calls' \in Seq(CallRecords)
    BY <1>2, <2>2, <2>3, <2>4 DEF UncontrolPayload, ControlPayload
  <2>9. wsState' \in {"kConnected", "kClosed"}
    BY <1>2 DEF UncontrolPayload, ControlPayload, TypeOK
  <2> QED
    BY <2>6, <2>7, <2>8, <2>9 DEF TypeOK, Headers, Messages, CallRecords
<1> QED
  BY <1>1, <1>2 DEF UncontrolPayload, ControlPayload

LEMMA TypeInvariant ==
    ASSUME TypeOK, [Next]_vars
    PROVE  TypeOK'
<1>1. ASSUME NEW n \in 1..Len(wire), Receive(n)
      PROVE  TypeOK'
  BY <1>1, ReceiveType
<1>2. CASE ParseFrameHeader
  BY <1>2, FrameHeaderType
<1>3. CASE ParseExtendedPayloadlenU16
  <2>1. Len(buf) >= 2 => networkToHost16(Peek(2)) \in Nat
    BY PeekType, Length16Type
  <2>2. "ReadExtendedPayloadDataU16" \in Steps
    BY DEF Steps
  <2> QED
    BY <1>3, <2>1, <2>2, ExtendedLengthType
       DEF ParseExtendedPayloadlenU16, kExtendedPayloadlenU16
<1>4. CASE ParseExtendedPayloadlenI64
  <2>1. Len(buf) >= 8 => networkToHost64(Peek(8)) \in Nat
    BY PeekType, Length64Type
  <2>2. "ReadExtendedPayloadDataI64" \in Steps
    BY DEF Steps
  <2> QED
    BY <1>4, <2>1, <2>2, ExtendedLengthType
       DEF ParseExtendedPayloadlenI64, kExtendedPayloadlenI64
<1>5. CASE ParseMaskingkey
  BY <1>5, MaskingkeyType
<1>6. ASSUME NEW s, UncontrolPayload(s) \/ ControlPayload(s)
      PROVE  TypeOK'
  BY <1>6, PayloadStepType
<1>7. CASE ParseReturns
  BY <1>7 DEF ParseReturns, TypeOK
<1>8. CASE UNCHANGED vars
  BY <1>8 DEF vars, TypeOK
<1>9. CASE ParseControlPayloadDataU16
  BY <1>9 DEF ParseControlPayloadDataU16, TypeOK
<1> QED
  BY <1>1, <1>2, <1>3, <1>4, <1>5, <1>6, <1>7, <1>8, <1>9
     DEF Next, ParseStep, ParseUncontrolPayloadData, ParseUncontrolPayloadDataU16,
         ParseUncontrolPayloadDataI64, ParseControlPayloadData,
         ParseControlPayloadDataI64

LEMMA InitInv == Init => Inv
<1> SUFFICES ASSUME Init PROVE Inv
  OBVIOUS
<1>1. <<>> \in Seq(Byte) /\ <<>> \in Seq(CallRecords)
  BY EmptySeq
<1>2. wire \in Seq(Byte)
  BY ScriptsEncodable DEF Init
<1>3. ZeroHeader \in Headers
  BY DEF ZeroHeader, Headers, kMaskingkeyLen, Byte
<1>4. TypeOK
  BY <1>1, <1>2, <1>3 DEF Init, TypeOK, Steps, Headers, CallRecords, ControlOpcodes
<1> QED
  BY <1>4 DEF Init, Inv, StepInv, KindInv, PayloadSteps

LEMMA InductiveInvariant == Spec => []Inv
<1>1. Inv /\ [Next]_vars => Inv'
  BY TypeInvariant, StepInvInductive, KindInvInductive DEF Inv
<1> QED
  BY <1>1, InitInv, PTL DEF Spec

-----------------------------------------------------------------------------
(* The variables of the parser keep their types, for any script of frames  *)
(* in any pieces: the bit fields of header_t, the extended length and the  *)
(* masking key never leave the range their declarations give them.         *)
THEOREM ParserTypes == Spec => []TypeOK
  BY InductiveInvariant, PTL DEF Inv

(* The asserts of the step functions on the order of the steps never fail. *)
THEOREM StepsInOrder == Spec => []StepAsserts
<1>1. Inv => StepAsserts
  BY DEF Inv, StepInv, StepAsserts, Running, PayloadSteps
<1> QED
  BY <1>1, InductiveInvariant, PTL

(* The kind parse_frame finds on entry and keeps over several frames never *)
(* sends the payload of a masked frame to the wrong message.               *)
THEOREM PayloadGoesToItsMessage == Spec => []KindIsFresh
<1>1. Inv => KindIsFresh
  <2> SUFFICES ASSUME Inv, NEW s \in PayloadSteps, Running(s), header.MASK = 1,
                      Len(buf) >= getRealDatalen(header)
               PROVE  UncontrolCallee <=> FrameControl(header) = "UnControlFrame"
    BY DEF KindIsFresh
  <2>1. header \in Headers /\ buf \in Seq(Byte)
    BY DEF Inv, TypeOK, Headers
  <2>2. ~(Len(buf) < getRealDatalen(header))
    BY <2>1, DatalenType, LenProperties
  <2>3. CASE pc = "loop"
    BY <2>2, <2>3 DEF Inv, KindInv, Running, UncontrolCallee
  <2>4. CASE pc = "call"
    BY <2>4 DEF UncontrolCallee
  <2> QED BY <2>3, <2>4 DEF Running
<1> QED
  BY <1>1, InductiveInvariant, PTL
=============================================================================
