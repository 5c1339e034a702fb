---------------------------- MODULE TcpConnection ----------------------------
(***************************************************************************)
(* The connections of one event loop: TcpConnection's reading, writing and *)
(* closing on plain (not TLS) sockets, and the errno they share.  All of   *)
(* it runs in the loop thread; other threads queue functors (send and      *)
(* forceClose), which run in order.  A forceClose of another thread tests  *)
(* state_, sets it and queues its functor in three steps, without a lock.  *)
(*                                                                         *)
(* A handler is one action, but the functions inside it run one after the  *)
(* other on the same connection: w is the connection while they do, with   *)
(* errno.  Bytes are numbered in the order the application hands them to   *)
(* sendInLoop, from 1.  No write-complete or high-water-mark callback is   *)
(* set, as on the connections of the WebSocket server.                     *)
(*                                                                         *)
(* The asserts of TcpConnection.cc are compiled out (EventLoop.h defines   *)
(* NDEBUG): handleClose goes on when the connection is closed already.     *)
(***************************************************************************)
EXTENDS Integers, Sequences

CONSTANTS
    Conns,          \* the connections of the loop
    Lengths,        \* lengths of the messages sent
    Faults,         \* what may happen to a peer: "shut", "reset", "lost"
    Room,           \* bytes the socket's send buffer holds
    MaxSends,       \* bound: messages other threads send on a connection
    MaxReceived,    \* bound: messages received on a connection
    MaxPending      \* bound: functors in the queue

ASSUME ConnectionConstants ==
    /\ Lengths \subseteq Nat
    /\ Faults \subseteq {"shut", "reset", "lost"}
    /\ Room \in Nat /\ MaxSends \in Nat /\ MaxReceived \in Nat /\ MaxPending \in Nat

VARIABLES
    conn,           \* each connection's TcpConnection object
    peer,           \* what has become of its peer
    unread,         \* bytes in its send buffer, not taken by the peer
    inbox,          \* its receive buffer: a message has arrived
    received,       \* messages that have arrived on it
    sends,          \* messages other threads have sent on it
    errno,          \* the loop thread's errno
    forcing,        \* how far another thread is in a forceClose of it
    pending         \* functors other threads queued: <<connection, "send" | "close", length>>

vars == <<conn, peer, unread, inbox, received, sends, errno, forcing, pending>>

(* The part of a TcpConnection that matters here: state_, the events of    *)
(* channel_, outputBuffer_; and of its socket: the bytes written, whether  *)
(* the write side is shut down.  The rest is history: bytes handed over so *)
(* far, and when the write side was shut down; whether a direct write was  *)
(* cut short; how often handleClose has run, counted to 2; whether the     *)
(* connection was closed while its peer was up and nobody had asked for    *)
(* it.                                                                     *)
Established ==
    [state |-> "kConnected", reading |-> TRUE, writing |-> FALSE, out |-> <<>>,
     wire |-> <<>>, fin |-> FALSE,
     sent |-> 0, finAt |-> 0, split |-> FALSE, closes |-> 0, spurious |-> FALSE]

Init ==
    /\ conn = [c \in Conns |-> Established]
    /\ peer = [c \in Conns |-> "up"]
    /\ unread = [c \in Conns |-> 0]
    /\ inbox = [c \in Conns |-> FALSE]
    /\ received = [c \in Conns |-> 0]
    /\ sends = [c \in Conns |-> 0]
    /\ errno = "0"
    /\ forcing = [c \in Conns |-> "no"]
    /\ pending = <<>>

(* The connection while a handler works on it.                             *)
Work(c) == [k |-> conn[c], errno |-> errno]

(* The handler has finished.                                               *)
Done(c, w) ==
    /\ conn' = [conn EXCEPT ![c] = w.k]
    /\ errno' = w.errno
    /\ unread' = [unread EXCEPT ![c] = @ + Len(w.k.wire) - Len(conn[c].wire)]

-----------------------------------------------------------------------------
(* The socket calls.  rc is what the last read or write returned: 1 stands *)
(* for any positive count.  A call that succeeds leaves errno alone.       *)

(* How a call fails once the peer is gone: the kernel reports a reset once *)
(* and a broken pipe from then on.                                         *)
FaultErrno(c) ==
    CASE peer[c] = "reset" -> {"ECONNRESET", "EPIPE"}
      [] peer[c] = "lost" -> {"ETIMEDOUT"}
      [] OTHER -> {}

(* IBytesBuffer::writeFull: write until all is written or a write fails.   *)
(* With nothing to write there is no write, and rc stays 0.                *)
WriteFull(c, w, len) ==
    LET free == Room - unread[c] IN
    IF len = 0 THEN {[n |-> 0, rc |-> 0, errno |-> w.errno]}
    ELSE IF w.k.fin THEN {[n |-> 0, rc |-> -1, errno |-> "EPIPE"]}
    ELSE IF FaultErrno(c) # {} THEN {[n |-> 0, rc |-> -1, errno |-> e] : e \in FaultErrno(c)}
    ELSE IF len <= free THEN {[n |-> len, rc |-> 1, errno |-> w.errno]}
    ELSE {[n |-> free, rc |-> -1, errno |-> "EAGAIN"]}

(* IBytesBuffer::readFull: read until a read returns 0 or fails.           *)
ReadFull(c) ==
    CASE peer[c] = "up" -> {[rc |-> -1, errno |-> "EAGAIN"]}
      [] peer[c] = "shut" -> {[rc |-> 0, errno |-> errno]}
      [] peer[c] = "reset" -> {[rc |-> -1, errno |-> "ECONNRESET"], [rc |-> 0, errno |-> errno]}
      [] peer[c] = "lost" -> {[rc |-> -1, errno |-> "ETIMEDOUT"]}

-----------------------------------------------------------------------------
(* TcpConnection::handleClose.  The callbacks it ends with make the server *)
(* forget the connection; they find it in state kDisconnected and can send *)
(* nothing more.                                                           *)
HandleClose(c, w) ==
    [w EXCEPT !.k.state = "kDisconnected",
              !.k.reading = FALSE,
              !.k.writing = FALSE,
              !.k.closes = IF @ < 2 THEN @ + 1 ELSE @,
              !.k.spurious = @ \/ (w.k.state = "kConnected" /\ peer[c] = "up")]

(* A mistake in CheckErrno: errno is left set.                             *)
KeepsErrno(c, w, rc, again) ==
    IF rc = 0 THEN HandleClose(c, w)
    ELSE IF w.errno = "EAGAIN" THEN again
    ELSE IF w.errno = "0" THEN w
    ELSE HandleClose(c, w)

(* What every handler does with the result of its read or write: close on  *)
(* end of file and on an errno that is neither clear nor a request to try  *)
(* again.  again is the connection with the event to wait for enabled.     *)
CheckErrno(c, w, rc, again) ==
    IF rc = 0 THEN HandleClose(c, w)
    ELSE IF w.errno = "EAGAIN" THEN [again EXCEPT !.errno = "0"]
    ELSE IF w.errno = "0" THEN w
    ELSE HandleClose(c, w)

(* TcpConnection::sendInLoop's direct write, when nothing is waiting to be *)
(* written before it; r is the result of writeFull.                        *)
WriteDirectly(c, w, data, r) ==
    LET written == [w EXCEPT !.errno = r.errno,
                             !.k.wire = @ \o SubSeq(data, 1, r.n),
                             !.k.split = @ \/ r.n \in 1 .. Len(data) - 1] IN
    CheckErrno(c, written, r.rc, written)

(* A mistake in Enqueue: the write event is not enabled.                   *)
EnqueueOnly(w, data, remaining) == [w EXCEPT !.k.out = @ \o SubSeq(data, 1, remaining)]

(* The rest of sendInLoop: what remains is queued in outputBuffer_.  The   *)
(* code resets nwrote to 0 after the direct write, so the remaining bytes  *)
(* are taken from the head of the message.                                 *)
Enqueue(w, data, remaining) ==
    IF remaining = 0 THEN w
    ELSE [w EXCEPT !.k.out = @ \o SubSeq(data, 1, remaining),
                   !.k.writing = TRUE]

(* A mistake in sendInLoop: it does not look at outputBuffer_ first.       *)
SendOvertakes(c, w, len) ==
    LET data == [i \in 1 .. len |-> w.k.sent + i]
        handed == [w EXCEPT !.k.sent = @ + len] IN
    IF w.k.state = "kDisconnected" THEN {w}
    ELSE {LET after == WriteDirectly(c, handed, data, r) IN
          IF after.errno \in {"EPIPE", "ECONNRESET"} THEN after
          ELSE Enqueue(after, data, len - r.n) : r \in WriteFull(c, handed, len)}

(* TcpConnection::sendInLoop.                                              *)
SendInLoop(c, w, len) ==
    LET data == [i \in 1 .. len |-> w.k.sent + i]
        handed == [w EXCEPT !.k.sent = @ + len] IN
    IF w.k.state = "kDisconnected" THEN {w}
    ELSE IF w.k.writing \/ w.k.out # <<>> THEN {Enqueue(handed, data, len)}
    ELSE {LET after == WriteDirectly(c, handed, data, r) IN
          IF after.errno \in {"EPIPE", "ECONNRESET"} THEN after
          ELSE Enqueue(after, data, len - r.n) : r \in WriteFull(c, handed, len)}

(* A mistake in shutdownInLoop: pending output is not waited for.          *)
ShutdownAtOnce(w) ==
    [w EXCEPT !.k.finAt = IF w.k.fin THEN @ ELSE w.k.sent, !.k.fin = TRUE]

(* TcpConnection::shutdownInLoop.                                          *)
ShutdownInLoop(w) ==
    IF w.k.writing THEN w
    ELSE [w EXCEPT !.k.finAt = IF w.k.fin THEN @ ELSE w.k.sent, !.k.fin = TRUE]

(* TcpConnection::shutdown, called in the loop.                            *)
Shutdown(w) ==
    IF w.k.state # "kConnected" THEN w
    ELSE ShutdownInLoop([w EXCEPT !.k.state = "kDisconnecting"])

(* TcpConnection::forceCloseInLoop.                                        *)
ForceCloseInLoop(c, w) ==
    IF w.k.state \in {"kConnected", "kDisconnecting"} THEN HandleClose(c, w) ELSE w

(* What the application's message callback may do with its connection:     *)
(* nothing, answer (TcpConnection::send sends only when connected), or     *)
(* shut down.                                                              *)
MessageCallback(c, w) ==
    {w, Shutdown(w)}
      \cup UNION {SendInLoop(c, w, len) :
                    len \in {l \in Lengths : w.k.state = "kConnected"}}

-----------------------------------------------------------------------------
(* TcpConnection::handleRead.  The message callback runs between the read  *)
(* and the test of errno.                                                  *)
HandleRead(c) ==
    /\ conn[c].reading
    /\ inbox[c] \/ peer[c] # "up"
    /\ \E r \in ReadFull(c) :
         LET read == [Work(c) EXCEPT !.errno = IF inbox[c] /\ r.errno = "EAGAIN" THEN "0" ELSE r.errno]
         IN  \E w \in IF inbox[c] THEN MessageCallback(c, read) ELSE {read} :
               Done(c, CheckErrno(c, w, r.rc, [w EXCEPT !.k.reading = TRUE]))
    /\ inbox' = [inbox EXCEPT ![c] = FALSE]
    /\ UNCHANGED <<peer, received, sends, forcing, pending>>

(* A mistake in handleWrite: a shutdown that waits is forgotten.           *)
RetrieveOnly(w, n) ==
    LET left == [w EXCEPT !.k.wire = @ \o SubSeq(w.k.out, 1, n),
                          !.k.out = SubSeq(@, n + 1, Len(@))]
    IN  IF n = 0 \/ left.k.out # <<>> THEN left ELSE [left EXCEPT !.k.writing = FALSE]

(* outputBuffer_ after handleWrite has written n bytes of it: when it is   *)
(* empty the write event is disabled and a shutdown that waited for the    *)
(* output is done.                                                         *)
Retrieve(w, n) ==
    LET left == [w EXCEPT !.k.wire = @ \o SubSeq(w.k.out, 1, n),
                          !.k.out = SubSeq(@, n + 1, Len(@))]
        quiet == [left EXCEPT !.k.writing = FALSE]
    IN  IF n = 0 \/ left.k.out # <<>> THEN left
        ELSE IF quiet.k.state = "kDisconnecting" THEN ShutdownInLoop(quiet)
        ELSE quiet

(* TcpConnection::handleWrite, when the socket is writable or has failed.  *)
HandleWrite(c) ==
    /\ conn[c].writing
    /\ unread[c] < Room \/ FaultErrno(c) # {}
    /\ \E r \in WriteFull(c, Work(c), Len(conn[c].out)) :
         LET w == Retrieve([Work(c) EXCEPT !.errno = r.errno], r.n)
         IN  Done(c, CheckErrno(c, w, r.rc, [w EXCEPT !.k.writing = TRUE]))
    /\ UNCHANGED <<peer, inbox, received, sends, forcing, pending>>

(* TcpConnection::send from another thread.                                *)
QueueSend(c) ==
    /\ conn[c].state = "kConnected"
    /\ sends[c] < MaxSends
    /\ Len(pending) < MaxPending
    /\ sends' = [sends EXCEPT ![c] = @ + 1]
    /\ \E len \in Lengths : pending' = Append(pending, [conn |-> c, op |-> "send", len |-> len])
    /\ UNCHANGED <<conn, peer, unread, inbox, received, errno, forcing>>

(* TcpConnection::forceClose from another thread: the test of state_ ...   *)
ForceClose(c) ==
    /\ forcing[c] = "no"
    /\ conn[c].state \in {"kConnected", "kDisconnecting"}
    /\ forcing' = [forcing EXCEPT ![c] = "tested"]
    /\ UNCHANGED <<conn, peer, unread, inbox, received, sends, errno, pending>>

(* ... the assignment ...                                                  *)
ForceCloseSets(c) ==
    /\ forcing[c] = "tested"
    /\ conn' = [conn EXCEPT ![c].state = "kDisconnecting"]
    /\ forcing' = [forcing EXCEPT ![c] = "set"]
    /\ UNCHANGED <<peer, unread, inbox, received, sends, errno, pending>>

(* ... and the functor.                                                    *)
ForceCloseQueues(c) ==
    /\ forcing[c] = "set"
    /\ Len(pending) < MaxPending
    /\ pending' = Append(pending, [conn |-> c, op |-> "close", len |-> 0])
    /\ forcing' = [forcing EXCEPT ![c] = "no"]
    /\ UNCHANGED <<conn, peer, unread, inbox, received, sends, errno>>

(* The loop runs the oldest functor.                                       *)
RunFunctor ==
    /\ pending # <<>>
    /\ LET f == Head(pending) IN
         \/ /\ f.op = "send"
            /\ \E w \in SendInLoop(f.conn, Work(f.conn), f.len) : Done(f.conn, w)
         \/ /\ f.op = "close"
            /\ Done(f.conn, ForceCloseInLoop(f.conn, Work(f.conn)))
    /\ pending' = Tail(pending)
    /\ UNCHANGED <<peer, inbox, received, sends, forcing>>

-----------------------------------------------------------------------------
(* The other end of each connection.                                       *)

PeerReads(c) ==
    /\ peer[c] \in {"up", "shut"}
    /\ \E n \in 0 .. unread[c] - 1 : unread' = [unread EXCEPT ![c] = n]
    /\ UNCHANGED <<conn, peer, inbox, received, sends, errno, forcing, pending>>

PeerSends(c) ==
    /\ peer[c] = "up"
    /\ received[c] < MaxReceived
    /\ inbox' = [inbox EXCEPT ![c] = TRUE]
    /\ received' = [received EXCEPT ![c] = @ + 1]
    /\ UNCHANGED <<conn, peer, unread, sends, errno, forcing, pending>>

PeerFails(c) ==
    /\ peer[c] = "up"
    /\ \E f \in Faults : peer' = [peer EXCEPT ![c] = f]
    /\ UNCHANGED <<conn, unread, inbox, received, sends, errno, forcing, pending>>

Next ==
    \/ RunFunctor
    \/ \E c \in Conns :
         \/ HandleRead(c) \/ HandleWrite(c)
         \/ QueueSend(c) \/ ForceClose(c) \/ ForceCloseSets(c) \/ ForceCloseQueues(c)
         \/ PeerReads(c) \/ PeerSends(c) \/ PeerFails(c)

Spec == Init /\ [][Next]_vars

(* The loop polls every enabled event and runs every functor; a thread     *)
(* finishes its forceClose; a peer that is up goes on reading.             *)
FairSpec ==
    /\ Spec
    /\ WF_vars(RunFunctor)
    /\ \A c \in Conns : WF_vars(HandleRead(c)) /\ WF_vars(HandleWrite(c)) /\ WF_vars(PeerReads(c))
    /\ \A c \in Conns : WF_vars(ForceCloseSets(c) \/ ForceCloseQueues(c))

-----------------------------------------------------------------------------
TypeOK ==
    /\ conn \in [Conns -> [state : {"kConnected", "kDisconnecting", "kDisconnected"},
                           reading : BOOLEAN, writing : BOOLEAN,
                           out : Seq(Nat), wire : Seq(Nat), fin : BOOLEAN,
                           sent : Nat, finAt : Nat, split : BOOLEAN, closes : 0 .. 2,
                           spurious : BOOLEAN]]
    /\ peer \in [Conns -> {"up", "shut", "reset", "lost"}]
    /\ unread \in [Conns -> 0 .. Room]
    /\ inbox \in [Conns -> BOOLEAN]
    /\ received \in [Conns -> Nat]
    /\ sends \in [Conns -> Nat]
    /\ errno \in {"0", "EAGAIN", "EPIPE", "ECONNRESET", "ETIMEDOUT"}
    /\ forcing \in [Conns -> {"no", "tested", "set"}]
    /\ pending \in Seq([conn : Conns, op : {"send", "close"}, len : Lengths \cup {0}])

(* Until a connection is closed it waits for its socket to become writable *)
(* exactly when it has output: output never waits for an event that nobody *)
(* asked for, and handleWrite never runs without output, which it would    *)
(* take for the end of the connection.                                     *)
WritingIffPending ==
    \A c \in Conns : conn[c].closes = 0 => (conn[c].writing <=> conn[c].out # <<>>)

(* What reaches the socket, and what is queued behind it until the         *)
(* connection is closed, are the bytes handed to sendInLoop, each once and *)
(* in order, unless a direct write was cut short.                          *)
OutputIntact ==
    \A c \in Conns : ~conn[c].split =>
        LET k == conn[c]
            all == k.wire \o k.out IN
        /\ \A i \in 1 .. Len(all) : all[i] = i
        /\ k.closes = 0 => Len(all) = k.sent

(* The bytes on the wire are those handed to sendInLoop, each once and in  *)
(* order.                                                                  *)
WireInOrder ==
    \A c \in Conns : \A i \in 1 .. Len(conn[c].wire) : conn[c].wire[i] = i

(* shutdown() half-closes the socket only after all the output handed over *)
(* before has been written.                                                *)
FinAfterOutput ==
    \A c \in Conns : conn[c].fin => Len(conn[c].wire) >= conn[c].finAt

(* A connection is closed once, as handleClose asserts.                    *)
ClosedOnce == \A c \in Conns : conn[c].closes < 2

(* A closed connection waits for no event any more, as Channel::remove     *)
(* asserts when the connection is destroyed.                               *)
ClosedIsQuiet ==
    \A c \in Conns : conn[c].closes > 0 => ~conn[c].reading /\ ~conn[c].writing

(* A connection whose peer is up and that nobody closes stays open.        *)
HealthyStaysOpen == \A c \in Conns : ~conn[c].spurious

Longest == CHOOSE l \in Lengths : \A m \in Lengths : m <= l

(* Every byte handed over is written, or the connection is closed.         *)
EveryByteIsWritten ==
    \A c \in Conns : \A n \in 1 .. (MaxSends + MaxReceived) * Longest :
        conn[c].sent >= n ~> (Len(conn[c].wire) >= n \/ conn[c].closes > 0)

(* shutdown() ends in the half-close, or in the close of the connection.   *)
ShutdownCompletes ==
    \A c \in Conns : conn[c].state = "kDisconnecting" ~> (conn[c].fin \/ conn[c].closes > 0)
=============================================================================
