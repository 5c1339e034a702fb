------------------------------ MODULE WsSession ------------------------------
(***************************************************************************)
(* One WebSocket connection in its event loop: the opening handshake, the  *)
(* callbacks, the close, and the TcpConnection under it.  An iteration of  *)
(* the loop handles the connection's events and then runs the functors     *)
(* queued by then (EventLoop).  The application behaves as the demo does:  *)
(* it hooks a Context to the connection when it comes up, resets it when   *)
(* it goes down, and may answer in its callbacks; another thread may send. *)
(*                                                                         *)
(* Requests and frames are whole here (WsFrameParser has their bytes).  A  *)
(* handler is one step; w is the session while its functions run.          *)
(***************************************************************************)
EXTENDS Integers, Sequences

CONSTANTS
    InParts,        \* whether a request may arrive in two segments
    MayFail,        \* whether writes may fail
    MaxSegments,    \* bound: segments the peer sends
    MaxFrames,      \* bound: frames in a segment
    MaxSends        \* bound: messages another thread sends

ASSUME SessionConstants ==
    /\ InParts \in BOOLEAN /\ MayFail \in BOOLEAN
    /\ MaxSegments \in Nat /\ MaxFrames \in Nat /\ MaxSends \in Nat

VARIABLES
    session,        \* the connection, its Context and what they have done
    phase,          \* where the loop is: "poll", "swap", "run"
    batch,          \* functors the loop has swapped out
    full,           \* the socket's send buffer is full
    broken,         \* writes fail
    segments,       \* segments the peer has sent
    sends           \* messages the other thread has sent

vars == <<session, phase, batch, full, broken, segments, sends>>

(* tcp: TcpConnection::state_; out: outputBuffer_; wire: what was written; *)
(* pending: functors queued; context: the connection has its Context; ws,  *)
(* http: the Context's state_ and whether it has its httpContext_; buf:    *)
(* the handshake request so far.  History: the callbacks made; output was  *)
(* waiting when the Close frame was answered; what went wrong first.       *)
Hooked ==
    [tcp |-> "kConnected", out |-> <<>>, wire |-> <<>>, pending |-> <<>>,
     context |-> TRUE, ws |-> "kClosed", http |-> TRUE, buf |-> <<>>,
     log |-> <<>>, waiting |-> FALSE, failed |-> "none"]

Init ==
    /\ session = Hooked
    /\ phase = "poll"
    /\ batch = <<>>
    /\ full = FALSE
    /\ broken = FALSE
    /\ segments = 0
    /\ sends = 0

Has(s, x) == \E i \in 1 .. Len(s) : s[i] = x

Fail(w, what) == IF w.failed = "none" THEN [w EXCEPT !.failed = what] ELSE w

-----------------------------------------------------------------------------
(* TcpConnection, as far as the session needs it.                          *)

(* handleClose; the connection callback resets the Context.                *)
HandleClose(w) == [w EXCEPT !.tcp = "kDisconnected", !.context = FALSE]

SendInLoop(w, x) ==
    IF w.tcp = "kDisconnected" THEN w
    ELSE IF w.out # <<>> \/ (full /\ ~broken) THEN [w EXCEPT !.out = Append(@, x)]
    ELSE IF broken THEN HandleClose(w)
    ELSE [w EXCEPT !.wire = Append(@, x)]

Send(w, x) == IF w.tcp = "kConnected" THEN SendInLoop(w, x) ELSE w

Shutdown(w) == IF w.tcp = "kConnected" THEN [w EXCEPT !.tcp = "kDisconnecting"] ELSE w

ForceClose(w) ==
    IF w.tcp = "kDisconnected" THEN w
    ELSE [w EXCEPT !.tcp = "kDisconnecting", !.pending = Append(@, "forceClose")]

-----------------------------------------------------------------------------
(* A callback, and an answer to it if the application sends one.           *)
Callback(w, name) ==
    LET called == [w EXCEPT !.log = Append(@, name)] IN {called, Send(called, "data")}

(* The library goes on with its Context after it called the application.   *)
Resume(w) == IF w.context THEN w ELSE Fail(w, "Context destroyed in its own callback")

(* What do_handshake makes of the bytes it has.                            *)
Verdict(buf) ==
    CASE Has(buf, "big") -> "WS_ERROR_PACKSZ"
      [] Has(buf, "bad") -> "WS_ERROR_PARSE"
      [] Has(buf, "req") \/ Has(buf, "rest") -> "succ"
      [] Has(buf, "part") -> "WS_ERROR_CRLFCRLF"
      [] OTHER -> "WS_ERROR_WANT_MORE"

(* A mistake in do_handshake: the callback comes before the response.      *)
AcceptCallbackFirst(w) ==
    LET connected == [w EXCEPT !.buf = <<>>, !.ws = "kConnected"] IN
    {[Resume(Send(Resume(x), "101")) EXCEPT !.http = FALSE] : x \in Callback(connected, "connected")}

(* The end of a good request: the response, then the callback.             *)
Accept(w) ==
    LET connected == [w EXCEPT !.buf = <<>>, !.ws = "kConnected"] IN
    {[x EXCEPT !.http = FALSE] :
       x \in {Resume(y) : y \in Callback(Resume(Send(connected, "101")), "connected")}}

(* do_handshake, and parse_message_frame around it.  Every outcome asks    *)
(* for the httpContext_, asserting that it is there, and releases it.  A   *)
(* request that holds CRLFCRLF and parses is complete (parseRequest ends   *)
(* at the first line without a colon), so gotAll() is true; nothing may    *)
(* follow it in the buffer.                                                *)
DoHandshake(w) ==
    LET verdict == Verdict(w.buf)
        released == [w EXCEPT !.http = FALSE] IN
    IF ~w.http
    THEN {Fail(w, IF Has(w.log, "closed") THEN "assert: httpContext_, after Close"
                                          ELSE "assert: httpContext_")}
    ELSE CASE verdict = "succ" /\ Has(w.buf, "early") -> {Fail(w, "assert: !readableBytes")}
           [] verdict = "succ" /\ ~Has(w.buf, "early") -> Accept(w)
           [] verdict \in {"WS_ERROR_PARSE", "WS_ERROR_PACKSZ"} ->
                {Shutdown(Resume(Send(released, "400")))}
           [] OTHER -> {released}

(* Mistakes with a Close frame: the connection is closed after a delay,    *)
(* not at all, or before the answer.                                       *)
CloseDelayed(w) ==
    LET called == [w EXCEPT !.log = Append(@, "closed"), !.waiting = @ \/ w.out # <<>> \/ full]
    IN  [Shutdown(Resume(Send(called, "close"))) EXCEPT !.ws = "kClosed"]

CloseOnly(w) ==
    LET called == [w EXCEPT !.log = Append(@, "closed"), !.waiting = @ \/ w.out # <<>> \/ full]
    IN  [Resume(Send(called, "close")) EXCEPT !.ws = "kClosed"]

CloseFirst(w) ==
    LET called == [ForceClose(w) EXCEPT !.log = Append(@, "closed"), !.waiting = @ \/ w.out # <<>> \/ full]
    IN  [Resume(Send(called, "close")) EXCEPT !.ws = "kClosed"]

(* A Close frame: the callback answers it with a Close frame, then the     *)
(* connection is closed by force.                                          *)
CloseFrame(w) ==
    LET called == [w EXCEPT !.log = Append(@, "closed"), !.waiting = @ \/ w.out # <<>> \/ full]
        answered == Resume(Send(called, "close"))
    IN  [ForceClose(answered) EXCEPT !.ws = "kClosed"]

(* One frame of the segment.                                               *)
Frame(w, f) ==
    IF w.failed # "none" THEN {w}
    ELSE IF f = "close" THEN {CloseFrame(w)}
    ELSE {Resume(x) : x \in Callback(w, "message")}

(* parse_frame: all frames of the segment.                                 *)
ParseFrames(w, seg) ==
    LET after[i \in 0 .. Len(seg)] ==
          IF i = 0 THEN {w} ELSE UNION {Frame(x, seg[i]) : x \in after[i - 1]}
    IN  after[Len(seg)]

(* websocket::onMessage and parse_message_frame.                           *)
ParseMessageFrame(w, seg) ==
    IF w.ws = "kClosed" THEN DoHandshake([w EXCEPT !.buf = @ \o seg])
    ELSE ParseFrames(w, seg)

-----------------------------------------------------------------------------
(* What the peer sends: a request, whole or in parts, and frames once it   *)
(* has the response, or with its first data right behind the request.      *)
Segments ==
    IF Has(session.wire, "101")
    THEN UNION {[1 .. n -> {"data", "close"}] : n \in 1 .. MaxFrames}
    ELSE IF segments = 0 THEN {<<"req">>, <<"req", "early">>, <<"bad">>, <<"big">>} \cup IF InParts THEN {<<"part">>} ELSE {}
    ELSE IF InParts /\ session.buf = <<"part">> THEN {<<"rest">>}
    ELSE {}

(* The connection is readable: TcpConnection::handleRead calls onMessage.  *)
HandleRead ==
    /\ phase = "poll" /\ session.tcp # "kDisconnected"
    /\ segments < MaxSegments
    /\ \E seg \in Segments : session' \in ParseMessageFrame(session, seg)
    /\ segments' = segments + 1
    /\ phase' = "swap"
    /\ UNCHANGED <<batch, full, broken, sends>>

(* The peer closes the connection.                                         *)
ReadEnd ==
    /\ phase = "poll" /\ session.tcp # "kDisconnected"
    /\ session' = HandleClose(session)
    /\ phase' = "swap"
    /\ UNCHANGED <<batch, full, broken, segments, sends>>

(* The connection is writable, in the same iteration or another.           *)
HandleWrite ==
    /\ phase \in {"poll", "swap"} /\ session.tcp # "kDisconnected"
    /\ session.out # <<>> /\ (~full \/ broken)
    /\ session' = IF broken THEN HandleClose(session)
                  ELSE [session EXCEPT !.wire = @ \o session.out, !.out = <<>>]
    /\ phase' = "swap"
    /\ UNCHANGED <<batch, full, broken, segments, sends>>

(* The poll ends for another reason.                                       *)
PollReturns ==
    /\ phase = "poll" /\ session.pending # <<>>
    /\ phase' = "swap"
    /\ UNCHANGED <<session, batch, full, broken, segments, sends>>

(* EventLoop::doPendingFunctors.                                           *)
SwapFunctors ==
    /\ phase = "swap"
    /\ batch' = session.pending
    /\ session' = [session EXCEPT !.pending = <<>>]
    /\ phase' = "run"
    /\ UNCHANGED <<full, broken, segments, sends>>

RunFunctor ==
    /\ phase = "run" /\ batch # <<>>
    /\ session' = IF Head(batch) = "send" THEN SendInLoop(session, "other")
                  ELSE IF session.tcp # "kDisconnected" THEN HandleClose(session)
                  ELSE session
    /\ batch' = Tail(batch)
    /\ UNCHANGED <<phase, full, broken, segments, sends>>

FunctorsDone ==
    /\ phase = "run" /\ batch = <<>>
    /\ phase' = "poll"
    /\ UNCHANGED <<session, batch, full, broken, segments, sends>>

(* Another thread sends a message on the open connection.                  *)
SendFromThread ==
    /\ session.tcp = "kConnected" /\ Has(session.log, "connected")
    /\ sends < MaxSends
    /\ sends' = sends + 1
    /\ session' = [session EXCEPT !.pending = Append(@, "send")]
    /\ UNCHANGED <<phase, batch, full, broken, segments>>

(* The socket's send buffer fills up and drains; the connection breaks.    *)
SocketChanges ==
    /\ \/ full' = ~full /\ UNCHANGED broken
       \/ MayFail /\ ~broken /\ broken' = TRUE /\ UNCHANGED full
    /\ UNCHANGED <<session, phase, batch, segments, sends>>

LoopStep == HandleRead \/ ReadEnd \/ HandleWrite \/ PollReturns \/ SwapFunctors \/ RunFunctor \/ FunctorsDone

Next == session.failed = "none" /\ (LoopStep \/ SendFromThread \/ SocketChanges)

Spec == Init /\ [][Next]_vars

(* The loop goes on: the poll returns when functors wait, and they run.    *)
FairSpec ==
    /\ Spec
    /\ WF_vars(session.failed = "none" /\ PollReturns)
    /\ WF_vars(session.failed = "none" /\ SwapFunctors)
    /\ WF_vars(session.failed = "none" /\ (RunFunctor \/ FunctorsDone))

-----------------------------------------------------------------------------
(* After a Close frame the connection is not read again: the functor that  *)
(* closes it runs before the loop polls.  Otherwise the frame would be     *)
(* taken for a handshake, without an HttpContext.                          *)
ClosedIsNotReread == session.failed # "assert: httpContext_, after Close"

(* A handshake always finds its HttpContext, however the request arrives.  *)
HandshakeHasContext == session.failed # "assert: httpContext_"

(* The Context is there as long as the library works with it.              *)
ContextOutlivesCallback == session.failed # "Context destroyed in its own callback"

(* The response to the handshake is the first thing on the wire: no data   *)
(* of the application overtakes it.                                        *)
ResponseFirst ==
    LET sent == session.wire \o session.out IN
    \A i \in 1 .. Len(sent) : sent[i] \in {"data", "other", "close"} => sent[1] = "101"

(* The loop sends nothing after its Close frame.                           *)
LoopSilentAfterClose ==
    LET sent == session.wire \o session.out IN
    \A i, j \in 1 .. Len(sent) : sent[i] = "close" /\ i < j => sent[j] = "other"

(* Nothing is sent after the Close frame.                                  *)
SilentAfterClose ==
    LET sent == session.wire \o session.out IN
    \A i, j \in 1 .. Len(sent) : sent[i] = "close" => j <= i

(* A Close frame has been answered when the connection is closed, unless   *)
(* it broke or output was waiting.                                         *)
CloseAnsweredIfIdle ==
    session.tcp = "kDisconnected" /\ Has(session.log, "closed") /\ ~session.waiting /\ ~broken =>
        Has(session.wire, "close")

(* A Close frame has been answered when the connection is closed, unless   *)
(* it broke.                                                               *)
CloseAnswered ==
    session.tcp = "kDisconnected" /\ Has(session.log, "closed") /\ ~broken => Has(session.wire, "close")

(* A Close frame closes the connection.                                    *)
CloseCloses ==
    Has(session.log, "closed") ~> (session.tcp = "kDisconnected" \/ session.failed # "none")
=============================================================================
