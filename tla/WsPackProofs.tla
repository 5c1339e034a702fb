----------------------------- MODULE WsPackProofs -----------------------------
(***************************************************************************)
(* WsPack's invariants, for every set of lengths and every chunk size.     *)
(***************************************************************************)
EXTENDS WsPack, SequenceTheorems, TLAPS

Opcodes == DataTypes \cup ControlTypes \cup {"SegmentMessage"}

FinE == {"FrameContinue", "FrameFinished"}

Frames == [opcode : Opcodes, fin : FinE, code : Nat, ext : Seq(Nat), from : Nat, size : Nat]

(* The locals of the chunk loop follow the frames: n is where the next     *)
(* part of the data begins, and left is what remains of it.                *)
LocalsInv ==
    /\ pc \in {"idle", "chunks", "done", "aborted"}
    /\ len \in Nat /\ n \in Nat /\ left \in Nat
    /\ frames \in Seq(Frames)
    /\ pc \in {"idle", "aborted"} => frames = <<>>
    /\ pc \in {"chunks", "done"} =>
         /\ frames # <<>>
         /\ n + left = len
         /\ frames[Len(frames)].from + frames[Len(frames)].size = n
    /\ pc = "done" => left = 0

Inv == LocalsInv /\ FramesMakeMessage /\ LengthsReadBack

-------------------------------------------------------------------------------
(* Two length bytes say any length up to 65535.                            *)
LEMMA U16ReadsBack ==
    ASSUME NEW k \in Nat, k <= MaxU16
    PROVE  /\ U16Bytes(k) \in Seq(Nat)
           /\ U16Bytes(k)[1] * 256 + U16Bytes(k)[2] = k
  BY DEF U16Bytes, MaxU16

(* A frame that is packed is a frame, and reads back its length up to      *)
(* 65535 bytes.                                                            *)
LEMMA PackedFrame ==
    ASSUME NEW from \in Nat, NEW size \in Nat, NEW opcode \in Opcodes, NEW fin \in FinE
    PROVE  /\ PackFrame(from, size, opcode, fin) \in Frames
           /\ PackFrame(from, size, opcode, fin).from = from
           /\ PackFrame(from, size, opcode, fin).size = size
           /\ PackFrame(from, size, opcode, fin).opcode = opcode
           /\ PackFrame(from, size, opcode, fin).fin = fin
           /\ size <= MaxU16 => ReceivedLength(PackFrame(from, size, opcode, fin)) = size
  <1> DEFINE f == PackFrame(from, size, opcode, fin)
  <1>1. Payloadlen(size) \in Nat
    BY DEF Payloadlen
  <1>2. I64Bytes(size) \in Seq(Nat)
    BY DEF I64Bytes, BigEndian64
  <1>3. Extended(size) \in Seq(Nat)
    BY <1>2, U16ReadsBack DEF Extended
  <1>4. f \in Frames
    BY <1>1, <1>3 DEF PackFrame, Frames
  <1>5. ASSUME size <= MaxU16 PROVE ReceivedLength(f) = size
    <2>1. CASE size < 126
      BY <2>1 DEF PackFrame, ReceivedLength, Payloadlen
    <2>2. CASE size >= 126
      <3>1. f.code = 126 /\ f.ext = U16Bytes(size)
        BY <1>5, <2>2 DEF PackFrame, Payloadlen, Extended
      <3> QED BY <3>1, <1>5, U16ReadsBack DEF ReceivedLength
    <2> QED BY <2>1, <2>2
  <1> QED BY <1>4, <1>5 DEF PackFrame

(* Appending a frame whose part of the data follows the last one keeps the *)
(* frames in sequence.                                                     *)
LEMMA AppendFrame ==
    ASSUME NEW f \in Frames, frames \in Seq(Frames),
           NEW s, s = Append(frames, f)
    PROVE  /\ s \in Seq(Frames) /\ s # <<>>
           /\ Len(s) = Len(frames) + 1
           /\ \A i \in 1 .. Len(frames) : s[i] = frames[i]
           /\ s[Len(s)] = f
  BY AppendProperties

LEMMA WholeFrame ==
    ASSUME NEW l \in Nat, NEW t \in DataTypes \cup ControlTypes,
           frames' = <<PackFrame(0, l, t, "FrameFinished")>>,
           type' = t, len' = l, n' = l, left' = 0, pc' = "done"
    PROVE  Inv'
  <1> DEFINE f == PackFrame(0, l, t, "FrameFinished")
  <1>1. /\ f \in Frames /\ f.from = 0 /\ f.size = l /\ f.opcode = t /\ f.fin = "FrameFinished"
        /\ l <= MaxU16 => ReceivedLength(f) = l
    BY PackedFrame DEF Opcodes, FinE
  <1>2. frames' \in Seq(Frames) /\ Len(frames') = 1 /\ frames'[1] = f /\ frames' # <<>>
    BY <1>1
  <1>3. LocalsInv'
    BY <1>1, <1>2 DEF LocalsInv
  <1>4. FramesMakeMessage'
    BY <1>1, <1>2 DEF FramesMakeMessage
  <1>5. LengthsReadBack'
    BY <1>1, <1>2 DEF LengthsReadBack
  <1> QED BY <1>3, <1>4, <1>5 DEF Inv

(* A frame that is appended in the loop: size bytes from n on.             *)
LEMMA NextFrame ==
    ASSUME Inv, pc = "chunks",
           NEW size \in Nat, size <= left, NEW fin \in FinE,
           frames' = Append(frames, PackFrame(n, size, "SegmentMessage", fin)),
           n' = n + size, left' = left - size,
           pc' = (IF fin = "FrameFinished" THEN "done" ELSE "chunks"), fin = "FrameFinished" => size = left,
           UNCHANGED <<type, len>>
    PROVE  Inv'
  <1> DEFINE f == PackFrame(n, size, "SegmentMessage", fin)
  <1> USE DEF Inv
  <1>1. /\ f \in Frames /\ f.from = n /\ f.size = size /\ f.opcode = "SegmentMessage" /\ f.fin = fin
        /\ size <= MaxU16 => ReceivedLength(f) = size
    BY PackedFrame DEF Opcodes, FinE, LocalsInv
  <1>2. /\ frames' \in Seq(Frames) /\ frames' # <<>>
        /\ Len(frames') = Len(frames) + 1
        /\ \A i \in 1 .. Len(frames) : frames'[i] = frames[i]
        /\ frames'[Len(frames')] = f
    BY <1>1, AppendFrame DEF LocalsInv
  <1>3. Len(frames) \in Nat /\ Len(frames) > 0
    BY LenProperties, EmptySeq DEF LocalsInv
  <1>4. LocalsInv'
    BY <1>1, <1>2 DEF LocalsInv
  <1>5. \A i \in 1 .. Len(frames') : i \in 1 .. Len(frames) \/ i = Len(frames')
    BY <1>2, <1>3
  <1>6. ASSUME NEW i \in 1 .. Len(frames')
        PROVE  /\ frames'[i].opcode = IF i = 1 THEN type' ELSE "SegmentMessage"
               /\ frames'[i].fin = IF pc' = "done" /\ i = Len(frames') THEN "FrameFinished" ELSE "FrameContinue"
               /\ frames'[i].from = IF i = 1 THEN 0 ELSE frames'[i - 1].from + frames'[i - 1].size
    <2>1. CASE i \in 1 .. Len(frames)
      <3>1. i - 1 \in 1 .. Len(frames) \/ i = 1
        BY <1>3, <2>1
      <3>2. i # Len(frames')
        BY <1>2, <1>3, <2>1
      <3>3. frames[i].fin = "FrameContinue"
        BY <2>1 DEF FramesMakeMessage
      <3> QED BY <1>2, <2>1, <3>1, <3>2, <3>3 DEF FramesMakeMessage
    <2>2. CASE i = Len(frames')
      <3>1. i # 1 /\ i - 1 = Len(frames) /\ i - 1 \in 1 .. Len(frames)
        BY <1>2, <1>3, <2>2
      <3>2. frames'[i - 1].from + frames'[i - 1].size = n
        BY <1>2, <3>1 DEF LocalsInv
      <3>3. f.fin = IF pc' = "done" THEN "FrameFinished" ELSE "FrameContinue"
        BY <1>1 DEF FinE
      <3> QED BY <1>1, <1>2, <2>2, <3>1, <3>2, <3>3
    <2> QED BY <1>5, <2>1, <2>2
  <1>7. pc' = "done" => Len(frames') > 0 /\ frames'[Len(frames')].from + frames'[Len(frames')].size = len'
    BY <1>1, <1>2, <1>3 DEF LocalsInv
  <1>8. FramesMakeMessage'
    BY <1>6, <1>7 DEF FramesMakeMessage
  <1>9. LengthsReadBack'
    BY <1>1, <1>2, <1>5 DEF LengthsReadBack
  <1> QED BY <1>4, <1>8, <1>9

LEMMA PackInductive == Inv /\ [Next]_vars => Inv'
  <1> SUFFICES ASSUME Inv, [Next]_vars PROVE Inv'
    OBVIOUS
  <1> USE PackConstants
  <1>1. ASSUME NEW l \in Lengths, NEW t \in DataTypes, PackFirstChunk(l, t) PROVE Inv'
    <2> DEFINE f == PackFrame(0, ChunkSize, t, "FrameContinue")
    <2>1. /\ f \in Frames /\ f.from = 0 /\ f.size = ChunkSize /\ f.opcode = t /\ f.fin = "FrameContinue"
          /\ ChunkSize <= MaxU16 => ReceivedLength(f) = ChunkSize
      BY PackedFrame DEF Opcodes, FinE
    <2>2. frames' \in Seq(Frames) /\ Len(frames') = 1 /\ frames'[1] = f /\ frames' # <<>>
      BY <1>1, <2>1 DEF PackFirstChunk
    <2>3. LocalsInv'
      BY <1>1, <2>1, <2>2 DEF PackFirstChunk, LocalsInv
    <2>4. FramesMakeMessage'
      BY <1>1, <2>1, <2>2 DEF PackFirstChunk, FramesMakeMessage
    <2>5. LengthsReadBack'
      BY <2>1, <2>2 DEF LengthsReadBack
    <2> QED BY <2>3, <2>4, <2>5 DEF Inv
  <1>2. ASSUME NEW l \in Lengths, NEW t \in DataTypes, NEW chunk \in BOOLEAN, PackWhole(l, t, chunk)
        PROVE Inv'
    BY <1>2, WholeFrame DEF PackWhole
  <1>3. ASSUME NEW l \in Lengths, NEW t \in ControlTypes, PackControl(l, t) PROVE Inv'
    <2>1. CASE Payloadlen(l) <= 126
      BY <1>3, <2>1, WholeFrame DEF PackControl
    <2>2. CASE ~(Payloadlen(l) <= 126)
      <3>1. frames' = <<>> /\ pc' = "aborted" /\ len' = l /\ n' = l /\ left' = 0
        BY <1>3, <2>2 DEF PackControl
      <3>2. frames' \in Seq(Frames) /\ Len(frames') = 0
        BY <3>1
      <3> QED BY <3>1, <3>2 DEF Inv, LocalsInv, FramesMakeMessage, LengthsReadBack
    <2> QED BY <2>1, <2>2
  <1>4. CASE PackChunk
    <2>1. /\ pc = "chunks" /\ ChunkSize \in Nat /\ ChunkSize <= left
          /\ "FrameContinue" \in FinE /\ "FrameContinue" # "FrameFinished"
          /\ frames' = Append(frames, PackFrame(n, ChunkSize, "SegmentMessage", "FrameContinue"))
          /\ n' = n + ChunkSize /\ left' = left - ChunkSize
          /\ pc' = "chunks" /\ UNCHANGED <<type, len>>
      BY <1>4 DEF PackChunk, FinE, Inv, LocalsInv
    <2> QED BY <2>1, NextFrame
  <1>5. CASE PackLastChunk
    <2>1. /\ pc = "chunks" /\ left \in Nat /\ left <= left
          /\ "FrameFinished" \in FinE
          /\ frames' = Append(frames, PackFrame(n, left, "SegmentMessage", "FrameFinished"))
          /\ n' = n + left /\ left' = left - left
          /\ pc' = "done" /\ UNCHANGED <<type, len>>
      BY <1>5 DEF PackLastChunk, FinE, Inv, LocalsInv
    <2> QED BY <2>1, NextFrame
  <1>6. CASE UNCHANGED vars
    BY <1>6 DEF vars, Inv, LocalsInv, FramesMakeMessage, LengthsReadBack
  <1> QED BY <1>1, <1>2, <1>3, <1>4, <1>5, <1>6 DEF Next

LEMMA PackInvariant == Spec => []Inv
  <1>1. Init => Inv
    BY DEF Init, Inv, LocalsInv, FramesMakeMessage, LengthsReadBack
  <1> QED BY <1>1, PackInductive, PTL DEF Spec

(* For any chunk size, the frames of pack_unmask_data_frame make up the    *)
(* message: its type is on the first frame, FIN on the last, and the parts *)
(* of the data are in order, without gap or overlap, and complete.         *)
THEOREM PackedFramesMakeMessage == Spec => []FramesMakeMessage
  BY PackInvariant, PTL DEF Inv

(* A receiver reads the length of every frame of up to 65535 bytes as the  *)
(* sender meant it.                                                        *)
THEOREM PackedLengthsReadBack == Spec => []LengthsReadBack
  BY PackInvariant, PTL DEF Inv
===============================================================================
