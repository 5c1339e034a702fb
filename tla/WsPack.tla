-------------------------------- MODULE WsPack --------------------------------
(***************************************************************************)
(* The sending half of libwebsocket: how a message or a control payload is *)
(* packed into unmasked frames, chunked or not.  A frame is its header     *)
(* fields, the bytes of its extended length as they lie in the buffer, and *)
(* the part of the caller's data appended to it.  The machine is           *)
(* little-endian.                                                          *)
(***************************************************************************)
EXTENDS Integers, Sequences

CONSTANTS
    Lengths,        \* lengths of the data to pack
    ChunkSize       \* chunksz of pack_unmask_data_frame

(* 2^31 - 1: TLC's largest integer bounds the data of a call.              *)
MaxLength == 2147483647

ASSUME PackConstants ==
    /\ Lengths \subseteq Nat
    /\ \A l \in Lengths : l <= MaxLength
    /\ ChunkSize \in Nat \ {0}

VARIABLES
    pc,             \* "idle", "chunks", "done", "aborted"
    type,           \* opcode the caller asked for
    len,            \* length of the caller's data
    n, left,        \* the locals of pack_unmask_data_frame_chunk
    frames          \* the frames in the buffer

vars == <<pc, type, len, n, left, frames>>

Init ==
    /\ pc = "idle"
    /\ type = "none"
    /\ len = 0 /\ n = 0 /\ left = 0
    /\ frames = <<>>

(* A mistake in the 16-bit length: host byte order.                        *)
U16HostBytes(k) == <<k % 256, k \div 256>>

(* Endian::hostToNetwork16, as bytes in memory.                            *)
U16Bytes(k) == <<k \div 256, k % 256>>

(* The eight bytes of Endian::hostToNetwork64(len).                        *)
BigEndian64(k) == <<0, 0, 0, 0, k \div 16777216, (k \div 65536) % 256, (k \div 256) % 256, k % 256>>

(* The same cast to int16_t and widened to int64_t again, as the code does *)
(* it: the first two bytes and the sign of the second.                     *)
I64Bytes(k) ==
    LET b == BigEndian64(k)
        sign == IF b[2] >= 128 THEN 255 ELSE 0
    IN  <<b[1], b[2], sign, sign, sign, sign, sign, sign>>

(* The largest length that two bytes can say.                              *)
MaxU16 == 65535

Payloadlen(k) == IF k < 126 THEN k ELSE IF k <= MaxU16 THEN 126 ELSE 127

Extended(k) == IF k < 126 THEN <<>> ELSE IF k <= MaxU16 THEN U16Bytes(k) ELSE I64Bytes(k)

(* pack_unmask_uncontrol_frame and pack_unmask_control_frame.              *)
PackFrame(from, size, opcode, fin) ==
    [opcode |-> opcode, fin |-> fin, code |-> Payloadlen(size), ext |-> Extended(size),
     from |-> from, size |-> size]

-----------------------------------------------------------------------------
DataTypes == {"TextMessage", "BinaryMessage"}
ControlTypes == {"CloseMessage", "PingMessage", "PongMessage"}

(* pack_unmask_data_frame without chunks, or with too little data for two. *)
PackWhole(l, t, chunk) ==
    /\ pc = "idle"
    /\ ~(chunk /\ l > ChunkSize)
    /\ frames' = <<PackFrame(0, l, t, "FrameFinished")>>
    /\ type' = t /\ len' = l /\ n' = l /\ left' = 0
    /\ pc' = "done"

(* pack_unmask_data_frame_chunk: the first frame ...                       *)
PackFirstChunk(l, t) ==
    /\ pc = "idle"
    /\ l > ChunkSize
    /\ frames' = <<PackFrame(0, ChunkSize, t, "FrameContinue")>>
    /\ type' = t /\ len' = l /\ n' = ChunkSize /\ left' = l - ChunkSize
    /\ pc' = "chunks"

(* A mistake in the loop over the chunks: n is not advanced.               *)
PackSameChunk ==
    /\ pc = "chunks"
    /\ left > ChunkSize
    /\ frames' = Append(frames, PackFrame(n, ChunkSize, "SegmentMessage", "FrameContinue"))
    /\ left' = left - ChunkSize
    /\ UNCHANGED <<pc, type, len, n>>

(* ... the frames in the middle ...                                        *)
PackChunk ==
    /\ pc = "chunks"
    /\ left > ChunkSize
    /\ frames' = Append(frames, PackFrame(n, ChunkSize, "SegmentMessage", "FrameContinue"))
    /\ n' = n + ChunkSize
    /\ left' = left - ChunkSize
    /\ UNCHANGED <<pc, type, len>>

(* ... and the last one.                                                   *)
PackLastChunk ==
    /\ pc = "chunks"
    /\ left <= ChunkSize
    /\ frames' = Append(frames, PackFrame(n, left, "SegmentMessage", "FrameFinished"))
    /\ n' = n + left
    /\ left' = 0
    /\ pc' = "done"
    /\ UNCHANGED <<type, len>>

(* pack_unmask_close_frame, _ping_frame and _pong_frame; the header is     *)
(* checked before it is appended.                                          *)
PackControl(l, t) ==
    /\ pc = "idle"
    /\ type' = t /\ len' = l /\ n' = l /\ left' = 0
    /\ IF Payloadlen(l) <= 126
       THEN frames' = <<PackFrame(0, l, t, "FrameFinished")>> /\ pc' = "done"
       ELSE frames' = <<>> /\ pc' = "aborted"

Next ==
    \/ \E l \in Lengths :
         \/ \E t \in DataTypes : PackFirstChunk(l, t) \/ \E chunk \in BOOLEAN : PackWhole(l, t, chunk)
         \/ \E t \in ControlTypes : PackControl(l, t)
    \/ PackChunk
    \/ PackLastChunk

Spec == Init /\ [][Next]_vars

-----------------------------------------------------------------------------
(* The length a receiver reads from a frame (RFC 6455, 5.2), below 2^31.   *)
ReceivedLength(f) ==
    IF f.code < 126 THEN f.code
    ELSE IF f.code = 126 THEN f.ext[1] * 256 + f.ext[2]
    ELSE f.ext[5] * 16777216 + f.ext[6] * 65536 + f.ext[7] * 256 + f.ext[8]

(* How a receiver reads the frames packed so far: the first frame alone    *)
(* carries the type of the message, the last one alone is final, and the   *)
(* parts of the data follow each other without gap or overlap and make up  *)
(* the data when packing is done.                                          *)
FramesMakeMessage ==
    LET k == Len(frames) IN
    /\ \A i \in 1 .. k :
         /\ frames[i].opcode = IF i = 1 THEN type ELSE "SegmentMessage"
         /\ frames[i].fin = IF pc = "done" /\ i = k THEN "FrameFinished" ELSE "FrameContinue"
         /\ frames[i].from = IF i = 1 THEN 0 ELSE frames[i - 1].from + frames[i - 1].size
    /\ pc = "done" => k > 0 /\ frames[k].from + frames[k].size = len

(* A receiver reads the length of each frame as it is, up to the 65535     *)
(* bytes that two length bytes can say.                                    *)
LengthsReadBack ==
    \A i \in 1 .. Len(frames) : frames[i].size <= MaxU16 => ReceivedLength(frames[i]) = frames[i].size

(* A receiver reads the length of each frame as it is.                     *)
EveryLengthReadsBack ==
    \A i \in 1 .. Len(frames) : ReceivedLength(frames[i]) = frames[i].size

(* A control frame carries at most 126 bytes.                              *)
ControlIsShort ==
    type \in ControlTypes => \A i \in 1 .. Len(frames) : frames[i].size <= 126
===============================================================================
