--------------------------- MODULE MCWsFrameParser ---------------------------
(* Instances of WsFrameParser for TLC *)
EXTENDS WsFrameParser

CONSTANTS MaxFrames,     \* frames in a script
          DataKinds,     \* kinds of data frames: <<opcode, fin, form, length>>
          ControlKinds   \* kinds of control frames

(* A key of its own for each frame, so that a stale key shows              *)
Keys == << <<1, 0, 0, 0>>, <<0, 1, 1, 0>>, <<1, 1, 0, 1>> >>

FrameOfKind(k, i) ==
    [opcode  |-> k[1], fin |-> k[2], form |-> k[3], key |-> Keys[i],
     payload |-> [j \in 1..k[4] |-> (i + j) % 2]]

MCScripts ==
    {s \in UNION {{[i \in 1..n |-> FrameOfKind(ks[i], i)] :
                      ks \in [1..n -> DataKinds \cup ControlKinds]} : n \in 1..MaxFrames} :
        WellFormed(s)}

(* Every length form, empty and short payloads, whole and fragmented       *)
AllDataKinds ==
    ({SegmentMessage, TextMessage} \X {0, 1} \X {"len7"} \X {0, 1})
    \cup ({SegmentMessage, TextMessage} \X {0, 1} \X {"u16"} \X {4})
    \cup {<<TextMessage, 1, "i64", 1>>, <<SegmentMessage, 1, "i64", 2>>,
          <<BinaryMessage, 1, "len7", 3>>}
AllControlKinds ==
    {<<CloseMessage, 1, "len7", 0>>, <<CloseMessage, 1, "len7", 2>>,
     <<PingMessage, 1, "len7", 0>>, <<PongMessage, 1, "len7", 1>>}

(* Fewer, for the temporal properties.  Control frames also have the       *)
(* longer forms of the length field, which the parser has code for: the    *)
(* eight-byte form is parsed, the two-byte one ends in a failed assert.    *)
StreamDataKinds ==
    {<<TextMessage, 0, "len7", 1>>, <<BinaryMessage, 1, "i64", 1>>,
     <<SegmentMessage, 0, "len7", 0>>, <<SegmentMessage, 1, "u16", 2>>}
StreamControlKinds ==
    {<<PingMessage, 1, "len7", 1>>, <<PingMessage, 1, "u16", 1>>,
     <<PongMessage, 1, "i64", 2>>, <<CloseMessage, 1, "u16", 0>>}

(* One message in two fragments, the first of 1 or of 4 bytes              *)
FragmentKinds ==
    ({TextMessage} \X {0} \X {"len7"} \X {1, 4}) \cup {<<SegmentMessage, 1, "len7", 2>>}
=============================================================================
