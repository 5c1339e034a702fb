------------------------------ MODULE TcpServer ------------------------------
(***************************************************************************)
(* The life of a server's connections: TcpServer accepts them in the base  *)
(* loop and hands each to an I/O loop; closing one goes from the I/O loop  *)
(* to the base loop, which forgets it, and back to the I/O loop, which     *)
(* destroys it.  Meanwhile the application sends on connections and closes *)
(* them from their own callbacks and from other threads, and may destroy   *)
(* the server.                                                             *)
(*                                                                         *)
(* A loop runs its functors in the order they were queued (EventLoop); a   *)
(* handler or functor of a loop is one step.  Another thread's call on a   *)
(* connection is not: it tests state_, sets it, and queues a functor, and  *)
(* the loops run in between.  A functor owns its connection unless the     *)
(* code binds it to the bare this.                                         *)
(*                                                                         *)
(* EventLoop.h defines NDEBUG, and by the order of includes the asserts    *)
(* of TcpConnection.cc and TcpServer.cc are compiled out and the program   *)
(* goes on where their conditions are false.  Those of Channel.cc are not: *)
(* they end it, and so does the use of a destroyed object.                 *)
(***************************************************************************)
EXTENDS Integers, Sequences, FiniteSetsExt

CONSTANTS
    Conns,          \* the connections that arrive
    Base,           \* the base loop
    IoLoops,        \* the I/O loops; with none, the base loop serves the connections
    Threads,        \* other threads of the application
    LoopCalls,      \* what callbacks in the loop call: "send", "shutdown", "forceClose", "forceCloseWithDelay"
    ThreadCalls,    \* what other threads call: "send", "shutdown", "forceClose"
    Teardown,       \* whether the server is destroyed while loops run
    MaxCalls,       \* bound: calls the application makes on connections
    MaxCloses       \* bound: times the poller reports a connection closed

ASSUME ServerConstants ==
    /\ LoopCalls \subseteq {"send", "shutdown", "forceClose", "forceCloseWithDelay"}
    /\ ThreadCalls \subseteq {"send", "shutdown", "forceClose"}
    /\ Teardown \in BOOLEAN
    /\ MaxCalls \in Nat /\ MaxCloses \in Nat

Loops == IoLoops \cup {Base}

VARIABLES
    obj,            \* each connection's TcpConnection
    queue,          \* pendingFunctors_ of each loop
    batch,          \* the functors a loop has swapped out and not yet run
    kept,           \* connections of the ones it has run: they go with the batch
    failed,         \* what ended the program, or "none"
    timers,         \* connections with a forceCloseWithDelay timer
    tpc,            \* where each thread is in a call
    calls,          \* calls the application has made on connections
    server          \* "running" or "destroyed"

vars == <<obj, queue, batch, kept, failed, timers, tpc, calls, server>>

(* A connection before it arrives.  inMap: connections_ holds it; events,  *)
(* added, polled: its channel's events_, addedToLoop_ and whether it is in *)
(* the epoll set; freed: the object is destroyed.  The rest is history:    *)
(* how often handleClose and connectDestroyed have run, whether a removal  *)
(* did not find it in connections_, and whether the write event was        *)
(* enabled after a close.                                                  *)
Absent ==
    [loop |-> Base, state |-> "none", inMap |-> FALSE, freed |-> FALSE,
     events |-> {}, added |-> FALSE, polled |-> FALSE,
     closes |-> 0, destroyed |-> 0, missing |-> FALSE, rearmed |-> FALSE]

Idle == [call |-> "none"]

Init ==
    /\ obj = [c \in Conns |-> Absent]
    /\ queue = [l \in Loops |-> <<>>]
    /\ batch = [l \in Loops |-> <<>>]
    /\ kept = [l \in Loops |-> {}]
    /\ failed = "none"
    /\ timers = {}
    /\ tpc = [t \in Threads |-> Idle]
    /\ calls = 0
    /\ server = "running"

(* What runs in one step of a loop works on the connections and the        *)
(* queues, one function after the other, until something ends the program. *)
World == [obj |-> obj, queue |-> queue, failed |-> failed]

Fail(w, cond, what) == IF cond /\ w.failed = "none" THEN [w EXCEPT !.failed = what] ELSE w

(* EventLoop::queueInLoop.  late: the connection was closed already.       *)
QueueInLoop(w, f, c, l) ==
    [w EXCEPT !.queue[l] = Append(@, [f |-> f, c |-> c, late |-> w.obj[c].closes > 0])]

(* Channel::update with new events_: EPollPoller::updateChannel takes a    *)
(* channel with no event out of the epoll set, and puts any channel that   *)
(* is not in the set into it, even one with no event.                      *)
Update(w, c, ev) ==
    [w EXCEPT !.obj[c].events = ev, !.obj[c].added = TRUE,
              !.obj[c].polled = ~@ \/ ev # {}]

(* Channel::remove and EPollPoller::removeChannel.                         *)
Remove(w, c) ==
    Fail([w EXCEPT !.obj[c].added = FALSE, !.obj[c].polled = FALSE],
         w.obj[c].events # {}, "assert: Channel::remove: isNoneEvent()")

-----------------------------------------------------------------------------
(* Who keeps a connection alive: connections_, a functor that owns it, a   *)
(* thread in a call on it.                                                 *)
OwningFunctors == {"connectEstablished", "removeConnection", "connectDestroyed", "forceClose"}

OwnedBy(fs, c) == \E i \in 1 .. Len(fs) : fs[i].c = c /\ fs[i].f \in OwningFunctors

(* TcpConnection::~TcpConnection and Channel::~Channel, for every          *)
(* connection that has no owner after the step.                            *)
Finish(w, b, k, tp) ==
    LET orphans == {c \in Conns :
                      /\ w.obj[c].state # "none" /\ ~w.obj[c].freed /\ ~w.obj[c].inMap
                      /\ \A l \in Loops : c \notin k[l] /\ ~OwnedBy(w.queue[l], c) /\ ~OwnedBy(b[l], c)
                      /\ \A t \in Threads : tp[t].call = "none" \/ tp[t].conn # c}
        r == Fail(w, \E c \in orphans : w.obj[c].added, "assert: ~Channel: !addedToLoop_")
    IN  /\ obj' = [c \in Conns |-> [r.obj[c] EXCEPT !.freed = @ \/ c \in orphans]]
        /\ queue' = r.queue
        /\ failed' = r.failed
        /\ batch' = b
        /\ kept' = k
        /\ tpc' = tp

-----------------------------------------------------------------------------
(* The functions a loop runs, each on the result of what ran before it.    *)

(* TcpConnection::connectDestroyed.                                        *)
ConnectDestroyed(w, c) ==
    LET counted == [w EXCEPT !.obj[c].destroyed = @ + 1]
        closed == IF w.obj[c].state # "kConnected" THEN counted
                  ELSE Update([counted EXCEPT !.obj[c].state = "kDisconnected"], c, {})
    IN  Remove(closed, c)

(* A mistake in removeConnectionInLoop: connectDestroyed is called at once *)
(* and not queued in the connection's loop.                                *)
DestroyAtOnce(w, c) ==
    ConnectDestroyed([w EXCEPT !.obj[c].inMap = FALSE, !.obj[c].missing = @ \/ ~w.obj[c].inMap], c)

(* A mistake in removeConnectionInLoop: the connection stays in the map.   *)
DestroyOnly(w, c) == QueueInLoop(w, "connectDestroyed", c, w.obj[c].loop)

(* TcpServer::removeConnectionInLoop.                                      *)
RemoveConnectionInLoop(w, c) ==
    QueueInLoop([w EXCEPT !.obj[c].inMap = FALSE, !.obj[c].missing = @ \/ ~w.obj[c].inMap],
                "connectDestroyed", c, w.obj[c].loop)

(* TcpServer::removeConnection: bound to the server's this.                *)
RemoveConnection(w, c) ==
    IF server = "destroyed" THEN Fail(w, TRUE, "use of destroyed TcpServer")
    ELSE IF w.obj[c].loop = Base THEN RemoveConnectionInLoop(w, c)
    ELSE QueueInLoop(w, "removeConnection", c, Base)

(* A mistake in handleClose: the channel keeps its events.                 *)
CloseKeepsEvents(w, c) ==
    RemoveConnection([w EXCEPT !.obj[c].state = "kDisconnected", !.obj[c].closes = @ + 1], c)

(* TcpConnection::handleClose.                                             *)
HandleClose(w, c) ==
    RemoveConnection(Update([w EXCEPT !.obj[c].state = "kDisconnected", !.obj[c].closes = @ + 1], c, {}), c)

(* TcpConnection::sendInLoop: the message is written, or waits for the     *)
(* write event, or fails and closes the connection.  After a failure other *)
(* than EPIPE and ECONNRESET it goes on and enables the write event.       *)
SendInLoop(w, c) ==
    LET Enqueue(x) ==
          IF "write" \in x.obj[c].events THEN x
          ELSE Update([x EXCEPT !.obj[c].rearmed = @ \/ x.obj[c].closes > 0], c, x.obj[c].events \cup {"write"})
        closed == HandleClose(w, c)
    IN  IF w.obj[c].state = "kDisconnected" THEN {w}
        ELSE {w, Enqueue(w), closed, Enqueue(closed)}

(* TcpConnection::connectEstablished; the connection callback sets up the  *)
(* connection and sends nothing.                                           *)
ConnectEstablished(w, c) == Update([w EXCEPT !.obj[c].state = "kConnected"], c, {"read"})

(* TcpConnection::forceCloseInLoop.                                        *)
ForceCloseInLoop(w, c) ==
    IF w.obj[c].state \in {"kConnected", "kDisconnecting"} THEN HandleClose(w, c) ELSE w

(* A mistake in forceClose: a connection already closing is left alone.    *)
ForceCloseOnce(w, c) ==
    IF w.obj[c].state # "kConnected" THEN w
    ELSE QueueInLoop([w EXCEPT !.obj[c].state = "kDisconnecting"], "forceClose", c, w.obj[c].loop)

(* TcpConnection::forceClose, called in the connection's loop.             *)
ForceClose(w, c) ==
    IF w.obj[c].state \notin {"kConnected", "kDisconnecting"} THEN w
    ELSE QueueInLoop([w EXCEPT !.obj[c].state = "kDisconnecting"], "forceClose", c, w.obj[c].loop)

(* A functor bound to the connection's bare this: sendInLoop, or           *)
(* shutdownInLoop, which changes nothing here.                             *)
UseThis(w, f) ==
    IF w.obj[f.c].freed
    THEN {Fail(w, TRUE, IF f.late THEN "use of destroyed TcpConnection, queued late"
                                  ELSE "use of destroyed TcpConnection")}
    ELSE IF f.f = "send" THEN SendInLoop(w, f.c)
    ELSE {w}

(* One functor of a batch.                                                 *)
Run(w, f) ==
    CASE f.f = "connectEstablished" -> {ConnectEstablished(w, f.c)}
      [] f.f = "connectDestroyed" -> {ConnectDestroyed(w, f.c)}
      [] f.f = "removeConnection" ->
           {IF server = "destroyed" THEN Fail(w, TRUE, "use of destroyed TcpServer")
            ELSE RemoveConnectionInLoop(w, f.c)}
      [] f.f = "forceClose" -> {ForceCloseInLoop(w, f.c)}
      [] OTHER -> UseThis(w, f)

-----------------------------------------------------------------------------
(* The steps of the loops.  A loop handles events between two batches.     *)
InEvents(l) == batch[l] = <<>>

(* TcpServer::newConnection.                                               *)
NewConnection(c) ==
    /\ server = "running" /\ InEvents(Base)
    /\ obj[c].state = "none"
    /\ \E l \in IF IoLoops = {} THEN {Base} ELSE IoLoops :
         LET w == [World EXCEPT !.obj[c] = [Absent EXCEPT !.loop = l, !.state = "kConnecting", !.inMap = TRUE]]
         IN  Finish(IF l = Base THEN ConnectEstablished(w, c) ELSE QueueInLoop(w, "connectEstablished", c, l),
                    batch, kept, tpc)
    /\ UNCHANGED <<timers, calls, server>>

(* The poller reports an event of c that its loop handles now.             *)
Event(c) == InEvents(obj[c].loop) /\ obj[c].polled /\ ~obj[c].freed

(* Channel::handleEvent closes the connection: TcpConnection::handleRead   *)
(* finds its end, handleWrite fails, or the socket has hung up, which      *)
(* epoll reports also for a channel with no event.                         *)
CloseEvent(c) ==
    /\ Event(c) /\ obj[c].closes < MaxCloses
    /\ Finish(HandleClose(World, c), batch, kept, tpc)
    /\ UNCHANGED <<timers, calls, server>>

(* TcpConnection::handleWrite writes the last of the output.               *)
OutputWritten(c) ==
    /\ Event(c) /\ "write" \in obj[c].events
    /\ Finish(Update(World, c, obj[c].events \ {"write"}), batch, kept, tpc)
    /\ UNCHANGED <<timers, calls, server>>

(* TcpConnection::handleRead with a message callback that sends: when the  *)
(* send fails the callback comes back with errno set, or with the end of   *)
(* the input read before, and handleRead closes the connection again.      *)
MessageSend(w, c) ==
    {IF x.obj[c].closes > w.obj[c].closes THEN HandleClose(x, c) ELSE x : x \in SendInLoop(w, c)}

(* A callback in the connection's loop sends, or calls shutdown,           *)
(* forceClose or forceCloseWithDelay.  A send comes from the message       *)
(* callback or from another one (a timer's).                               *)
CallInLoop(c) ==
    /\ InEvents(obj[c].loop) /\ "read" \in obj[c].events
    /\ calls < MaxCalls
    /\ calls' = calls + 1
    /\ \/ /\ "send" \in LoopCalls
          /\ obj[c].state = "kConnected"
          /\ \E w \in SendInLoop(World, c) \cup MessageSend(World, c) : Finish(w, batch, kept, tpc)
          /\ UNCHANGED timers
       \/ /\ "shutdown" \in LoopCalls
          /\ obj[c].state = "kConnected"
          /\ Finish([World EXCEPT !.obj[c].state = "kDisconnecting"], batch, kept, tpc)
          /\ UNCHANGED timers
       \/ /\ "forceClose" \in LoopCalls
          /\ Finish(ForceClose(World, c), batch, kept, tpc)
          /\ UNCHANGED timers
       \/ /\ "forceCloseWithDelay" \in LoopCalls
          /\ obj[c].state \in {"kConnected", "kDisconnecting"}
          /\ Finish([World EXCEPT !.obj[c].state = "kDisconnecting"], batch, kept, tpc)
          /\ timers' = timers \cup {c}
    /\ UNCHANGED server

(* The timer of forceCloseWithDelay: WeakCallback does nothing when the    *)
(* connection is gone.                                                     *)
TimerFires(c) ==
    /\ c \in timers /\ InEvents(obj[c].loop)
    /\ Finish(IF obj[c].freed THEN World ELSE ForceClose(World, c), batch, kept, tpc)
    /\ timers' = timers \ {c}
    /\ UNCHANGED <<calls, server>>

(* EventLoop::doPendingFunctors: the swap ...                              *)
SwapFunctors(l) ==
    /\ batch[l] = <<>> /\ queue[l] # <<>>
    /\ Finish([World EXCEPT !.queue[l] = <<>>], [batch EXCEPT ![l] = queue[l]], kept, tpc)
    /\ UNCHANGED <<timers, calls, server>>

(* ... and one functor; the batch is destroyed after the last.             *)
RunFunctor(l) ==
    /\ batch[l] # <<>>
    /\ LET f == Head(batch[l])
           owned == IF f.f \in OwningFunctors THEN {f.c} ELSE {}
       IN  \E w \in Run(World, f) :
             Finish(w, [batch EXCEPT ![l] = Tail(@)],
                    [kept EXCEPT ![l] = IF Len(batch[l]) = 1 THEN {} ELSE @ \cup owned], tpc)
    /\ UNCHANGED <<timers, calls, server>>

(* TcpServer::~TcpServer.                                                  *)
DestroyServer ==
    /\ Teardown /\ server = "running" /\ InEvents(Base)
    /\ server' = "destroyed"
    /\ LET Drop(c, w) ==
             LET dropped == [w EXCEPT !.obj[c].inMap = FALSE]
             IN  IF w.obj[c].loop = Base THEN ConnectDestroyed(dropped, c)
                 ELSE QueueInLoop(dropped, "connectDestroyed", c, w.obj[c].loop)
       IN  Finish(FoldSet(Drop, World, {c \in Conns : obj[c].inMap}), batch, kept, tpc)
    /\ UNCHANGED <<timers, calls>>

-----------------------------------------------------------------------------
(* Another thread's call on a connection it holds.                         *)

(* The test of state_ ...                                                  *)
Call(t, c) ==
    /\ tpc[t] = Idle /\ calls < MaxCalls
    /\ ~obj[c].freed
    /\ \E op \in ThreadCalls :
         /\ obj[c].state \in IF op = "forceClose" THEN {"kConnected", "kDisconnecting"} ELSE {"kConnected"}
         /\ Finish(World, batch, kept,
                   [tpc EXCEPT ![t] = [call |-> op, conn |-> c, step |-> IF op = "send" THEN "queue" ELSE "set"]])
    /\ calls' = calls + 1
    /\ UNCHANGED <<timers, server>>

(* ... the assignment that shutdown and forceClose make ...                *)
SetState(t) ==
    /\ tpc[t] # Idle /\ tpc[t].step = "set"
    /\ Finish([World EXCEPT !.obj[tpc[t].conn].state = "kDisconnecting"], batch, kept,
              [tpc EXCEPT ![t].step = "queue"])
    /\ UNCHANGED <<timers, calls, server>>

(* ... and the functor.                                                    *)
QueueCall(t) ==
    /\ tpc[t] # Idle /\ tpc[t].step = "queue"
    /\ LET c == tpc[t].conn
       IN  Finish(QueueInLoop(World, tpc[t].call, c, obj[c].loop), batch, kept, [tpc EXCEPT ![t] = Idle])
    /\ UNCHANGED <<timers, calls, server>>

Next ==
    /\ failed = "none"
    /\ \/ \E c \in Conns : NewConnection(c) \/ CloseEvent(c) \/ OutputWritten(c) \/ CallInLoop(c) \/ TimerFires(c)
       \/ \E l \in Loops : SwapFunctors(l) \/ RunFunctor(l)
       \/ DestroyServer
       \/ \E t \in Threads : (\E c \in Conns : Call(t, c)) \/ SetState(t) \/ QueueCall(t)

Spec == Init /\ [][Next]_vars

(* Loops run their functors and timers; a thread finishes its call.        *)
FairSpec ==
    /\ Spec
    /\ \A l \in Loops : WF_vars(failed = "none" /\ SwapFunctors(l)) /\ WF_vars(failed = "none" /\ RunFunctor(l))
    /\ \A c \in Conns : WF_vars(failed = "none" /\ TimerFires(c))
    /\ \A t \in Threads : WF_vars(failed = "none" /\ SetState(t)) /\ WF_vars(failed = "none" /\ QueueCall(t))

-----------------------------------------------------------------------------
ChannelAsserts == {"assert: Channel::remove: isNoneEvent()", "assert: ~Channel: !addedToLoop_"}

(* The asserts of Channel.cc hold when a connection is removed from its    *)
(* poller and destroyed, however often and in whatever order it is closed, *)
(* written to and destroyed: no event is enabled and the channel is out of *)
(* the poller.  They fail in two cases only: sendInLoop enabled the write  *)
(* event of a connection that was already closed, or the server is         *)
(* destroyed while a connection is half-closed.                            *)
ChannelAssertsHold ==
    failed \in ChannelAsserts =>
        \E c \in Conns :
            \/ obj[c].rearmed
            \/ server = "destroyed" /\ obj[c].state = "kDisconnecting" /\ obj[c].closes = 0

(* A connection is in connections_ when it is removed from it, as          *)
(* removeConnectionInLoop asserts (n == 1).                                *)
RemovedOnce == \A c \in Conns : ~obj[c].missing

(* The asserts of Channel.cc hold also when connections are half-closed.   *)
ChannelAssertsHoldInTeardown ==
    failed \in ChannelAsserts => \E c \in Conns : obj[c].rearmed

(* sendInLoop leaves a connection that it has closed alone.                *)
ClosedIsNotRearmed == \A c \in Conns : ~obj[c].rearmed

(* While the server is up, a functor bound to a connection's bare this     *)
(* finds the connection alive if the connection was open when the functor  *)
(* was queued: the functor runs before the connectDestroyed that the close *)
(* queues behind it.                                                       *)
ThisOutlivesFunctor == server = "running" => failed # "use of destroyed TcpConnection"

(* A functor never runs on a connection that has been destroyed.           *)
NoUseAfterFree ==
    failed \notin {"use of destroyed TcpConnection", "use of destroyed TcpConnection, queued late"}

(* Functors of kind f for c that wait in some loop.                        *)
Waiting(f, c) ==
    UNION {{<<l, "queue", i>> : i \in {j \in 1 .. Len(queue[l]) : queue[l][j].f = f /\ queue[l][j].c = c}}
             \cup {<<l, "batch", i>> : i \in {j \in 1 .. Len(batch[l]) : batch[l][j].f = f /\ batch[l][j].c = c}}
             : l \in Loops}

(* While the server runs, every close of a connection is on its way to the *)
(* base loop, or on its way back, or has been carried out by a             *)
(* connectDestroyed of its own, also when a connection is closed more than *)
(* once; and connections_ holds a connection until its first close gets to *)
(* the base loop, and not after.                                           *)
MapAgrees ==
    failed = "none" /\ server = "running" => \A c \in Conns :
        LET removals == Cardinality(Waiting("removeConnection", c)) IN
        /\ obj[c].closes = removals + Cardinality(Waiting("connectDestroyed", c)) + obj[c].destroyed
        /\ obj[c].state # "none" => (obj[c].inMap <=> obj[c].closes = removals)

(* A connection that has been closed, and every connection once the server *)
(* is destroyed, is freed: nothing leaks.                                  *)
ClosedIsFreed ==
    \A c \in Conns :
        (obj[c].closes > 0 \/ (server = "destroyed" /\ obj[c].state # "none")) ~>
            (obj[c].freed \/ failed # "none")

(* forceClose closes the connection, also after a delay, unless it is gone *)
(* by then.                                                                *)
ForceCloseCloses ==
    \A c \in Conns :
        (c \in timers \/ Waiting("forceClose", c) # {}) ~>
            (obj[c].state = "kDisconnected" \/ obj[c].freed \/ failed # "none")
=============================================================================
