------------------------------ MODULE EventLoop ------------------------------
(***************************************************************************)
(* The reactor of EventLoop.cc: the loop thread polls, handles the active  *)
(* channels and runs the functors that were queued for it; other threads   *)
(* queue functors and ask it to quit.  A functor or a channel callback is  *)
(* user code: while it runs, the loop thread may queue functors and quit   *)
(* too.                                                                    *)
(*                                                                         *)
(* queueInLoop and quit are two steps each, the change of the loop's state *)
(* and the write to the eventfd, and other threads run between them.       *)
(***************************************************************************)
EXTENDS Integers, Sequences

CONSTANTS Threads,      \* the threads that share the loop
          Loop,         \* the loop thread
          Tasks         \* functors, each handed to the loop at most once

ASSUME LoopIsNoOther == Loop \notin Threads

VARIABLES
    pc,             \* where the loop thread is
    pending,        \* pendingFunctors_
    functors,       \* doPendingFunctors' local list: what is left to run
    calling,        \* callingPendingFunctors_
    quit,           \* quit_
    wakeups,        \* the counter of the eventfd wakeupFd_
    active,         \* activeChannels_: the wakeup channel, other channels
    tpc,            \* where each thread is in queueInLoop or quit
    quitters,       \* history: the threads that have called quit
    queued,         \* history: the functors queued, in order
    ran,            \* history: the queued functors that were started, in order
    direct,         \* history: the functors runInLoop ran at once
    early           \* history: the functors the loop thread queued before loop()

vars == <<pc, pending, functors, calling, quit, wakeups, active, tpc, quitters,
          queued, ran, direct, early>>

AllThreads == Threads \cup {Loop}
Elements(s) == {s[i] : i \in 1..Len(s)}

Init ==
    /\ pc = "created"
    /\ pending = <<>> /\ functors = <<>>
    /\ calling = FALSE /\ quit = FALSE
    /\ wakeups = 0
    /\ active = {}
    /\ tpc = [t \in AllThreads |-> "idle"]
    /\ quitters = {}
    /\ queued = <<>> /\ ran = <<>> /\ direct = {} /\ early = {}

(* The loop thread runs user code: before loop(), in a channel's callback, *)
(* in a functor                                                            *)
InUserCode == pc \in {"created", "handler", "functor"}

(* t is free to call the loop; a task is handed over once                  *)
Free(t) == tpc[t] = "idle" /\ (t = Loop => InUserCode)
Fresh(f) == f \notin Elements(queued) \cup direct

-----------------------------------------------------------------------------
(* queueInLoop: the functor is appended under the mutex ...                *)
QueueInLoop(t, f) ==
    /\ Free(t) /\ Fresh(f)
    /\ pending' = Append(pending, f)
    /\ queued' = Append(queued, f)
    /\ early' = IF t = Loop /\ pc = "created" THEN early \cup {f} ELSE early
    /\ tpc' = [tpc EXCEPT ![t] = "queued"]
    /\ UNCHANGED <<pc, functors, calling, quit, wakeups, active, quitters, ran, direct>>

(* Mutants: one half of the condition for a wakeup                         *)
OnlyOtherThreads(t) == t # Loop
OnlyWhileCalling(t) == calling

(* ... and the loop is woken, unless the loop thread itself queued it and  *)
(* is not yet past this round's functors                                   *)
NeedsWakeup(t) == t # Loop \/ calling

QueueWakeup(t) ==
    /\ tpc[t] = "queued"
    /\ wakeups' = IF NeedsWakeup(t) THEN wakeups + 1 ELSE wakeups
    /\ tpc' = [tpc EXCEPT ![t] = "idle"]
    /\ UNCHANGED <<pc, pending, functors, calling, quit, active, quitters, queued, ran,
                   direct, early>>

(* runInLoop: in the loop thread the functor runs at once, ahead of all    *)
(* that are queued; from another thread it is queued                       *)
RunInLoop(t, f) ==
    \/ /\ t # Loop
       /\ QueueInLoop(t, f)
    \/ /\ t = Loop
       /\ Free(t) /\ Fresh(f)
       /\ direct' = direct \cup {f}
       /\ UNCHANGED <<pc, pending, functors, calling, quit, wakeups, active, tpc, quitters,
                      queued, ran, early>>

(* Mutant: quit only sets the flag                                         *)
QuitWithoutWakeup(t) ==
    /\ Free(t) /\ t \notin quitters
    /\ quit' = TRUE
    /\ quitters' = quitters \cup {t}
    /\ UNCHANGED <<pc, pending, functors, calling, wakeups, active, tpc, queued, ran, direct,
                   early>>

(* quit: the flag is set, then the loop is woken from another thread       *)
Quit(t) ==
    /\ Free(t) /\ t \notin quitters
    /\ quit' = TRUE
    /\ quitters' = quitters \cup {t}
    /\ tpc' = [tpc EXCEPT ![t] = IF t = Loop THEN "idle" ELSE "quitting"]
    /\ UNCHANGED <<pc, pending, functors, calling, wakeups, active, queued, ran, direct, early>>

QuitWakeup(t) ==
    /\ tpc[t] = "quitting"
    /\ wakeups' = wakeups + 1
    /\ tpc' = [tpc EXCEPT ![t] = "idle"]
    /\ UNCHANGED <<pc, pending, functors, calling, quit, active, quitters, queued, ran,
                   direct, early>>

-----------------------------------------------------------------------------
(* loop() starts: quit_ is reset                                           *)
StartLoop ==
    /\ pc = "created" /\ tpc[Loop] = "idle"
    /\ quit' = FALSE
    /\ pc' = "test"
    /\ UNCHANGED <<pending, functors, calling, wakeups, active, tpc, quitters, queued, ran,
                   direct, early>>

(* while (!quit_) *)
TestQuit ==
    /\ pc = "test"
    /\ pc' = IF quit THEN "ended" ELSE "poll"
    /\ UNCHANGED <<pending, functors, calling, quit, wakeups, active, tpc, quitters, queued,
                   ran, direct, early>>

(* The poll returns with the channels that are ready.  The wakeup channel  *)
(* is level-triggered: it is ready whenever the eventfd is not zero.       *)
PollReturns(other) ==
    /\ pc = "poll"
    /\ active' = other \cup (IF wakeups > 0 THEN {"wakeup"} ELSE {})
    /\ pc' = "handle"
    /\ UNCHANGED <<pending, functors, calling, quit, wakeups, tpc, quitters, queued, ran,
                   direct, early>>

PollWoken == wakeups > 0 /\ \E other \in SUBSET {"other"} : PollReturns(other)

(* Another channel is ready, or kPollTimeMs are over *)
PollElse == wakeups = 0 /\ \E other \in SUBSET {"other"} : PollReturns(other)

(* The wakeup channel's callback, handleRead: reading the eventfd resets it *)
HandleRead ==
    /\ pc = "handle" /\ "wakeup" \in active
    /\ wakeups' = 0
    /\ active' = active \ {"wakeup"}
    /\ UNCHANGED <<pc, pending, functors, calling, quit, tpc, quitters, queued, ran, direct, early>>

(* Another channel's callback starts *)
HandleEvent ==
    /\ pc = "handle" /\ "other" \in active
    /\ active' = active \ {"other"}
    /\ pc' = "handler"
    /\ UNCHANGED <<pending, functors, calling, quit, wakeups, tpc, quitters, queued, ran,
                   direct, early>>

HandlerReturns ==
    /\ pc = "handler" /\ tpc[Loop] = "idle"
    /\ pc' = "handle"
    /\ UNCHANGED <<pending, functors, calling, quit, wakeups, active, tpc, quitters, queued,
                   ran, direct, early>>

(* doPendingFunctors: the list is swapped out under the mutex, its         *)
(* functors run without it, one by one                                     *)
MarkCalling ==
    /\ pc = "handle" /\ active = {}
    /\ calling' = TRUE
    /\ pc' = "swap"
    /\ UNCHANGED <<pending, functors, quit, wakeups, active, tpc, quitters, queued, ran,
                   direct, early>>

SwapFunctors ==
    /\ pc = "swap"
    /\ functors' = pending /\ pending' = <<>>
    /\ pc' = "run"
    /\ UNCHANGED <<calling, quit, wakeups, active, tpc, quitters, queued, ran, direct, early>>

(* Mutant: the functors are taken from the back of the list                *)
RunLastFunctor ==
    /\ pc = "run" /\ functors # <<>>
    /\ ran' = Append(ran, functors[Len(functors)])
    /\ functors' = SubSeq(functors, 1, Len(functors) - 1)
    /\ pc' = "functor"
    /\ UNCHANGED <<pending, calling, quit, wakeups, active, tpc, quitters, queued, direct, early>>

RunFunctor ==
    /\ pc = "run" /\ functors # <<>>
    /\ ran' = Append(ran, Head(functors))
    /\ functors' = Tail(functors)
    /\ pc' = "functor"
    /\ UNCHANGED <<pending, calling, quit, wakeups, active, tpc, quitters, queued, direct, early>>

FunctorReturns ==
    /\ pc = "functor" /\ tpc[Loop] = "idle"
    /\ pc' = "run"
    /\ UNCHANGED <<pending, functors, calling, quit, wakeups, active, tpc, quitters, queued,
                   ran, direct, early>>

(* Mutant: the list is cleared after the run                               *)
ClearAfterRun ==
    /\ pc = "run" /\ functors = <<>>
    /\ calling' = FALSE
    /\ pending' = <<>>
    /\ pc' = "test"
    /\ UNCHANGED <<functors, quit, wakeups, active, tpc, quitters, queued, ran, direct, early>>

FunctorsDone ==
    /\ pc = "run" /\ functors = <<>>
    /\ calling' = FALSE
    /\ pc' = "test"
    /\ UNCHANGED <<pending, functors, quit, wakeups, active, tpc, quitters, queued, ran,
                   direct, early>>

-----------------------------------------------------------------------------
(* The steps that happen by themselves: all of the loop thread's, except   *)
(* that a poll nobody woke may last                                        *)
LoopStep ==
    \/ StartLoop \/ TestQuit \/ PollWoken \/ HandleRead \/ HandleEvent \/ HandlerReturns
    \/ MarkCalling \/ SwapFunctors \/ RunFunctor \/ FunctorReturns \/ FunctorsDone

WakeStep(t) == QueueWakeup(t) \/ QuitWakeup(t)

Next ==
    \/ LoopStep
    \/ PollElse
    \/ \E t \in AllThreads :
          \/ WakeStep(t)
          \/ Quit(t)
          \/ \E f \in Tasks : QueueInLoop(t, f) \/ RunInLoop(t, f)

(* The loop thread runs, user code returns, and a thread that is inside    *)
(* queueInLoop or quit gets to the end of it.  Nothing is assumed of the   *)
(* poll's timeout or of other channels.                                    *)
Fairness == WF_vars(LoopStep) /\ \A t \in AllThreads : WF_vars(WakeStep(t))

Spec == Init /\ [][Next]_vars /\ Fairness

-----------------------------------------------------------------------------
TypeOK ==
    /\ pc \in {"created", "test", "poll", "handle", "handler", "swap", "run", "functor", "ended"}
    /\ pending \in Seq(Tasks) /\ functors \in Seq(Tasks)
    /\ calling \in BOOLEAN /\ quit \in BOOLEAN
    /\ wakeups \in Nat
    /\ active \subseteq {"wakeup", "other"}
    /\ tpc \in [AllThreads -> {"idle", "queued", "quitting"}]
    /\ quitters \subseteq AllThreads
    /\ queued \in Seq(Tasks) /\ ran \in Seq(Tasks)
    /\ direct \subseteq Tasks /\ early \subseteq Tasks

(* A wakeup is never lost: the loop does not sleep in its poll on a        *)
(* functor unless the eventfd is set, or the thread that queued it is      *)
(* about to set it.  (What the loop thread itself queued before loop() is  *)
(* the exception: queueInLoop writes no eventfd there.)                    *)
NoLostWakeup ==
    pc = "poll" /\ (\E f \in Elements(pending) : f \notin early) =>
        wakeups > 0 \/ \E t \in Threads : tpc[t] = "queued"

(* The same for quit_: the loop does not sleep past a quit.                *)
NoLostQuit ==
    pc = "poll" /\ quit => wakeups > 0 \/ \E t \in Threads : tpc[t] = "quitting"

(* The functors of all threads together run in the order they were queued  *)
(* in, each once: swapping the list out neither drops nor reorders any.    *)
QueueOrder == ran \o functors \o pending = queued

(* A queued functor runs, however threads and loop interleave, without the *)
(* help of the poll's timeout, unless the loop is asked to quit.           *)
EveryFunctorRuns ==
    \A f \in Tasks :
        f \in Elements(pending) \ early ~> f \in Elements(ran) \/ quit

(* A quit that the running loop sees ends it, without the help of the      *)
(* poll's timeout.                                                         *)
QuitEnds == (quit /\ pc # "created") ~> pc = "ended"

(* "Quits loop.": after a quit, whenever it was called, the loop ends.     *)
QuitAlwaysEnds == (quitters # {}) ~> pc = "ended"

(* What the threads may rely on: an executor that runs functors one after  *)
(* the other in the order of submission.                                   *)
Executor == INSTANCE SerialExecutor WITH waiting <- functors \o pending

ImplementsExecutor == Executor!Spec
=============================================================================
