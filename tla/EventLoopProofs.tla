-------------------------- MODULE EventLoopProofs --------------------------
(***************************************************************************)
(* The wakeup protocol and the order of functors, for any number of        *)
(* threads and functors.                                                   *)
(***************************************************************************)
EXTENDS EventLoop, TLAPS, SequenceTheorems

(* The loop thread is inside queueInLoop only in user code; the flag       *)
(* callingPendingFunctors_ covers the run of the functors; functors are    *)
(* left over only during that run                                          *)
PhaseInv ==
    /\ tpc[Loop] # "idle" => InUserCode
    /\ tpc[Loop] # "quitting"
    /\ calling <=> pc \in {"swap", "run", "functor"}
    /\ pc \notin {"run", "functor"} => functors = <<>>

(* From the swap of the list to the next poll, a functor left waiting has  *)
(* its wakeup                                                              *)
WakeInv ==
    pc \in {"created", "test", "poll", "run", "functor"}
        /\ (\E f \in Elements(pending) : f \notin early) =>
            \/ wakeups > 0
            \/ \E t \in AllThreads : tpc[t] = "queued" /\ NeedsWakeup(t)

Inv == TypeOK /\ PhaseInv /\ WakeInv /\ NoLostQuit /\ QueueOrder

-----------------------------------------------------------------------------
LEMMA AppendElements ==
    ASSUME NEW S, NEW s \in Seq(S), NEW x \in S
    PROVE  Elements(Append(s, x)) = Elements(s) \cup {x}
<1>1. /\ Append(s, x) \in Seq(S) /\ Len(s) \in Nat
      /\ Len(Append(s, x)) = Len(s) + 1
      /\ \A i \in 1..Len(s) : Append(s, x)[i] = s[i]
      /\ Append(s, x)[Len(s) + 1] = x
  BY AppendProperties, LenProperties
<1>2. \A i : i \in 1..Len(s) + 1 <=> i \in 1..Len(s) \/ i = Len(s) + 1
  BY <1>1
<1> QED
  BY <1>1, <1>2 DEF Elements

LEMMA AppendOfConcat ==
    ASSUME NEW S, NEW s \in Seq(S), NEW t \in Seq(S), NEW x \in S
    PROVE  s \o Append(t, x) = Append(s \o t, x)
<1>1. <<x>> \in Seq(S) /\ s \o t \in Seq(S)
  BY ConcatProperties
<1>2. Append(t, x) = t \o <<x>> /\ Append(s \o t, x) = (s \o t) \o <<x>>
  BY <1>1, AppendIsConcat
<1> QED
  BY <1>1, <1>2, ConcatAssociative

LEMMA HeadThenTail ==
    ASSUME NEW S, NEW s \in Seq(S), s # <<>>
    PROVE  s = <<Head(s)>> \o Tail(s)
<1>1. /\ Head(s) \in S /\ Tail(s) \in Seq(S) /\ Len(Tail(s)) = Len(s) - 1
      /\ \A i \in 1..Len(Tail(s)) : Tail(s)[i] = s[i + 1]
      /\ Len(s) \in Nat \ {0}
  BY HeadTailProperties, EmptySeq
<1> DEFINE h == <<Head(s)>>
<1>2. h \in Seq(S) /\ Len(h) = 1 /\ h[1] = s[1]
  BY <1>1
<1>3. /\ h \o Tail(s) \in Seq(S) /\ Len(h \o Tail(s)) = Len(h) + Len(Tail(s))
      /\ \A i \in 1..Len(h) + Len(Tail(s)) :
            (h \o Tail(s))[i] = IF i <= Len(h) THEN h[i] ELSE Tail(s)[i - Len(h)]
  BY <1>1, <1>2, ConcatProperties
<1>4. Len(h \o Tail(s)) = Len(s)
  BY <1>1, <1>2, <1>3
<1> HIDE DEF h
<1>5. ASSUME NEW i \in 1..Len(s)
      PROVE  (h \o Tail(s))[i] = s[i]
  <2>1. CASE i = 1
    BY <1>1, <1>2, <1>3, <2>1
  <2>2. CASE i # 1
    <3>1. i - 1 \in 1..Len(Tail(s)) /\ ~(i <= 1) /\ i \in 1..1 + Len(Tail(s))
      BY <1>1, <2>2
    <3>2. (h \o Tail(s))[i] = Tail(s)[i - 1]
      BY <1>2, <1>3, <3>1
    <3>3. Tail(s)[i - 1] = s[(i - 1) + 1]
      BY <1>1, <3>1
    <3>4. (i - 1) + 1 = i
      BY <1>1
    <3> QED BY <3>2, <3>3, <3>4
  <2> QED BY <2>1, <2>2
<1> QED
  BY <1>3, <1>4, <1>5, SeqEqual DEF h

LEMMA MoveHead ==
    ASSUME NEW S, NEW r \in Seq(S), NEW s \in Seq(S), s # <<>>
    PROVE  Append(r, Head(s)) \o Tail(s) = r \o s
<1>1. Head(s) \in S /\ Tail(s) \in Seq(S) /\ <<Head(s)>> \in Seq(S)
  BY HeadTailProperties
<1>2. Append(r, Head(s)) = r \o <<Head(s)>>
  BY <1>1, AppendIsConcat
<1>3. (r \o <<Head(s)>>) \o Tail(s) = r \o (<<Head(s)>> \o Tail(s))
  BY <1>1, ConcatAssociative
<1> QED
  BY <1>2, <1>3, HeadThenTail

LEMMA HeadTailOfConcat ==
    ASSUME NEW S, NEW s \in Seq(S), NEW t \in Seq(S), s # <<>>
    PROVE  /\ s \o t # <<>>
           /\ Head(s \o t) = Head(s)
           /\ Tail(s \o t) = Tail(s) \o t
<1>1. /\ Tail(s) \in Seq(S) /\ Len(Tail(s)) = Len(s) - 1
      /\ \A i \in 1..Len(Tail(s)) : Tail(s)[i] = s[i + 1]
      /\ Len(s) \in Nat \ {0} /\ Len(t) \in Nat
  BY HeadTailProperties, EmptySeq, LenProperties
<1>2. /\ s \o t \in Seq(S) /\ Len(s \o t) = Len(s) + Len(t)
      /\ \A i \in 1..Len(s) + Len(t) : (s \o t)[i] = IF i <= Len(s) THEN s[i] ELSE t[i - Len(s)]
  BY ConcatProperties
<1>3. s \o t # <<>>
  BY ConcatEqualIffEmpty
<1>4. Head(s \o t) = Head(s)
  BY <1>1, <1>2
<1>5. /\ Tail(s \o t) \in Seq(S) /\ Len(Tail(s \o t)) = Len(s) + Len(t) - 1
      /\ \A i \in 1..Len(Tail(s \o t)) : Tail(s \o t)[i] = (s \o t)[i + 1]
  BY <1>2, <1>3, HeadTailProperties
<1>6. /\ Tail(s) \o t \in Seq(S) /\ Len(Tail(s) \o t) = Len(s) - 1 + Len(t)
      /\ \A i \in 1..Len(s) - 1 + Len(t) :
            (Tail(s) \o t)[i] = IF i <= Len(s) - 1 THEN Tail(s)[i] ELSE t[i - (Len(s) - 1)]
  BY <1>1, ConcatProperties
<1>7. Len(Tail(s \o t)) = Len(Tail(s) \o t)
  BY <1>1, <1>5, <1>6
<1>8. ASSUME NEW i \in 1..Len(Tail(s \o t))
      PROVE  Tail(s \o t)[i] = (Tail(s) \o t)[i]
  <2>1. i \in 1..Len(s) - 1 + Len(t) /\ i + 1 \in 1..Len(s) + Len(t) /\ i \in Nat
    BY <1>1, <1>5
  <2>2. Tail(s \o t)[i] = IF i + 1 <= Len(s) THEN s[i + 1] ELSE t[i + 1 - Len(s)]
    BY <1>2, <1>5, <2>1
  <2>3. (Tail(s) \o t)[i] = IF i <= Len(s) - 1 THEN Tail(s)[i] ELSE t[i - (Len(s) - 1)]
    BY <1>6, <2>1
  <2>4. CASE i + 1 <= Len(s)
    <3>1. i \in 1..Len(Tail(s)) /\ i <= Len(s) - 1
      BY <1>1, <2>1, <2>4
    <3> QED BY <1>1, <2>2, <2>3, <2>4, <3>1
  <2>5. CASE ~(i + 1 <= Len(s))
    <3>1. ~(i <= Len(s) - 1) /\ i + 1 - Len(s) = i - (Len(s) - 1)
      BY <1>1, <2>1, <2>5
    <3> QED BY <2>2, <2>3, <2>5, <3>1
  <2> QED BY <2>4, <2>5
<1>9. Tail(s \o t) = Tail(s) \o t
  BY <1>5, <1>6, <1>7, <1>8, SeqEqual
<1> QED
  BY <1>3, <1>4, <1>9
-----------------------------------------------------------------------------
(* What a step may do to the loop's list and its histories: nothing, queue *)
(* one functor, swap the list, start a functor                             *)
Idles == UNCHANGED <<pending, functors, queued, ran>>

LEMMA Steps ==
    ASSUME [Next]_vars
    PROVE  \/ Idles
           \/ \E t \in AllThreads, f \in Tasks : QueueInLoop(t, f)
           \/ SwapFunctors
           \/ RunFunctor
  BY DEF Next, vars, Idles, LoopStep, WakeStep, RunInLoop, StartLoop, TestQuit, PollWoken,
         PollElse, PollReturns, HandleRead, HandleEvent, HandlerReturns, MarkCalling,
         FunctorReturns, FunctorsDone, QueueWakeup, QuitWakeup, Quit

LEMMA TypeInductive ==
    ASSUME TypeOK, [Next]_vars
    PROVE  TypeOK'
<1> USE DEF TypeOK
<1>1. ASSUME NEW t \in AllThreads, NEW f \in Tasks, QueueInLoop(t, f)
      PROVE  TypeOK'
  BY <1>1, AppendProperties DEF QueueInLoop
<1>2. ASSUME NEW t \in AllThreads, NEW f \in Tasks, RunInLoop(t, f)
      PROVE  TypeOK'
  BY <1>1, <1>2 DEF RunInLoop
<1>3. ASSUME NEW t \in AllThreads, QueueWakeup(t) \/ QuitWakeup(t) \/ Quit(t)
      PROVE  TypeOK'
  <2>1. CASE QueueWakeup(t)
    BY <2>1 DEF QueueWakeup
  <2>2. CASE QuitWakeup(t)
    BY <2>2 DEF QuitWakeup
  <2>3. CASE Quit(t)
    BY <2>3 DEF Quit
  <2> QED BY <1>3, <2>1, <2>2, <2>3
<1>4. CASE StartLoop \/ TestQuit
  BY <1>4 DEF StartLoop, TestQuit
<1>5. CASE PollWoken \/ PollElse
  BY <1>5 DEF PollWoken, PollElse, PollReturns
<1>6. CASE HandleRead \/ HandleEvent \/ HandlerReturns
  <2>1. CASE HandleRead
    BY <2>1 DEF HandleRead
  <2>2. CASE HandleEvent
    BY <2>2 DEF HandleEvent
  <2>3. CASE HandlerReturns
    BY <2>3 DEF HandlerReturns
  <2> QED BY <1>6, <2>1, <2>2, <2>3
<1>7. CASE MarkCalling \/ FunctorReturns \/ FunctorsDone
  BY <1>7 DEF MarkCalling, FunctorReturns, FunctorsDone
<1>8. CASE SwapFunctors
  <2>1. <<>> \in Seq(Tasks)
    BY EmptySeq
  <2> QED BY <1>8, <2>1 DEF SwapFunctors
<1>9. CASE RunFunctor
  <2>1. Head(functors) \in Tasks /\ Tail(functors) \in Seq(Tasks)
    BY <1>9, HeadTailProperties DEF RunFunctor
  <2>2. Append(ran, Head(functors)) \in Seq(Tasks)
    BY <2>1, AppendProperties
  <2> QED BY <1>9, <2>1, <2>2 DEF RunFunctor
<1>10. CASE UNCHANGED vars
  BY <1>10 DEF vars
<1> QED
  BY <1>1, <1>2, <1>3, <1>4, <1>5, <1>6, <1>7, <1>8, <1>9, <1>10
     DEF Next, LoopStep, WakeStep

LEMMA PhaseInductive ==
    ASSUME TypeOK, PhaseInv, [Next]_vars
    PROVE  PhaseInv'
<1> USE LoopIsNoOther DEF PhaseInv, InUserCode
<1>a. \A t \in AllThreads : \A v :
          [tpc EXCEPT ![t] = v][Loop] = IF t = Loop THEN v ELSE tpc[Loop]
  BY DEF TypeOK, AllThreads
<1>1. ASSUME NEW t \in AllThreads, NEW f \in Tasks, QueueInLoop(t, f) \/ RunInLoop(t, f)
      PROVE  PhaseInv'
  <2>1. CASE QueueInLoop(t, f)
    <3>1. tpc'[Loop] = IF t = Loop THEN "queued" ELSE tpc[Loop]
      BY <1>a, <2>1 DEF QueueInLoop
    <3> QED BY <2>1, <3>1 DEF QueueInLoop, Free
  <2>2. CASE RunInLoop(t, f) /\ ~QueueInLoop(t, f)
    BY <2>2 DEF RunInLoop
  <2> QED BY <1>1, <2>1, <2>2
<1>2. ASSUME NEW t \in AllThreads, QueueWakeup(t) \/ QuitWakeup(t) \/ Quit(t)
      PROVE  PhaseInv'
  <2>1. CASE QueueWakeup(t) \/ QuitWakeup(t)
    <3>1. tpc'[Loop] \in {"idle", tpc[Loop]}
      BY <1>a, <2>1 DEF QueueWakeup, QuitWakeup
    <3> QED BY <2>1, <3>1 DEF QueueWakeup, QuitWakeup
  <2>2. CASE Quit(t)
    <3>1. tpc'[Loop] = tpc[Loop]
      BY <1>a, <2>2 DEF Quit, Free
    <3> QED BY <2>2, <3>1 DEF Quit
  <2> QED BY <1>2, <2>1, <2>2
<1>3. CASE StartLoop \/ TestQuit
  BY <1>3 DEF StartLoop, TestQuit
<1>4. CASE PollWoken \/ PollElse
  BY <1>4 DEF PollWoken, PollElse, PollReturns
<1>5. CASE HandleRead \/ HandleEvent \/ HandlerReturns
  BY <1>5 DEF HandleRead, HandleEvent, HandlerReturns
<1>6. CASE MarkCalling \/ FunctorReturns \/ FunctorsDone
  BY <1>6 DEF MarkCalling, FunctorReturns, FunctorsDone
<1>7. CASE SwapFunctors \/ RunFunctor
  BY <1>7 DEF SwapFunctors, RunFunctor
<1>8. CASE UNCHANGED vars
  BY <1>8 DEF vars
<1> QED
  BY <1>1, <1>2, <1>3, <1>4, <1>5, <1>6, <1>7, <1>8 DEF Next, LoopStep, WakeStep

LEMMA WakeInductive ==
    ASSUME TypeOK, PhaseInv, WakeInv, [Next]_vars
    PROVE  WakeInv'
<1> DEFINE Waits == \E f \in Elements(pending) : f \notin early
           Pushes == \E t \in AllThreads : tpc[t] = "queued" /\ NeedsWakeup(t)
<1>1. ASSUME NEW t \in AllThreads, NEW f \in Tasks, QueueInLoop(t, f)
      PROVE  WakeInv'
  <2>1. tpc'[t] = "queued" /\ calling' = calling /\ pc' = pc
    BY <1>1 DEF QueueInLoop, TypeOK
  <2>2. CASE NeedsWakeup(t)
    BY <2>1, <2>2 DEF WakeInv, NeedsWakeup
  <2>3. CASE ~NeedsWakeup(t)
    <3>1. t = Loop /\ ~calling /\ InUserCode
      BY <1>1, <2>3 DEF NeedsWakeup, QueueInLoop, Free
    <3>2. CASE pc = "created"
      <4>1. Elements(pending') = Elements(pending) \cup {f} /\ early' = early \cup {f}
        BY <1>1, <3>1, <3>2, AppendElements DEF QueueInLoop, TypeOK
      <4>2. Waits' => Waits
        BY <4>1
      <4>3. ASSUME NEW u \in AllThreads, tpc[u] = "queued", NeedsWakeup(u)
            PROVE  tpc'[u] = "queued" /\ NeedsWakeup(u)'
        BY <1>1, <2>1, <4>3 DEF QueueInLoop, TypeOK, NeedsWakeup
      <4>4. wakeups' = wakeups
        BY <1>1 DEF QueueInLoop
      <4> QED BY <2>1, <4>2, <4>3, <4>4 DEF WakeInv
    <3>3. CASE pc # "created"
      BY <2>1, <3>1, <3>3 DEF InUserCode, PhaseInv, WakeInv
    <3> QED BY <3>2, <3>3
  <2> QED BY <2>2, <2>3
<1>2. ASSUME NEW t \in AllThreads, QueueWakeup(t)
      PROVE  WakeInv'
  <2>1. CASE NeedsWakeup(t)
    <3>1. wakeups' > 0
      BY <1>2, <2>1 DEF QueueWakeup, TypeOK
    <3> QED BY <3>1 DEF WakeInv
  <2>2. CASE ~NeedsWakeup(t)
    <3>1. ASSUME NEW u \in AllThreads, tpc[u] = "queued", NeedsWakeup(u)
          PROVE  tpc'[u] = "queued" /\ NeedsWakeup(u)'
      BY <1>2, <2>2, <3>1 DEF QueueWakeup, TypeOK, NeedsWakeup
    <3>2. wakeups' = wakeups /\ pending' = pending /\ early' = early /\ pc' = pc
      BY <1>2, <2>2 DEF QueueWakeup
    <3> QED BY <3>1, <3>2 DEF WakeInv
  <2> QED BY <2>1, <2>2
<1>3. ASSUME NEW t \in AllThreads, QuitWakeup(t)
      PROVE  WakeInv'
  <2>1. wakeups' > 0
    BY <1>3 DEF QuitWakeup, TypeOK
  <2> QED BY <2>1 DEF WakeInv
<1>4. ASSUME NEW t \in AllThreads, Quit(t)
      PROVE  WakeInv'
  <2>1. ASSUME NEW u \in AllThreads, tpc[u] = "queued", NeedsWakeup(u)
        PROVE  tpc'[u] = "queued" /\ NeedsWakeup(u)'
    BY <1>4, <2>1 DEF Quit, Free, TypeOK, NeedsWakeup
  <2>2. wakeups' = wakeups /\ pending' = pending /\ early' = early /\ pc' = pc
    BY <1>4 DEF Quit
  <2> QED BY <2>1, <2>2 DEF WakeInv
<1>5. CASE SwapFunctors
  <2>1. pending' = <<>>
    BY <1>5 DEF SwapFunctors
  <2>2. Elements(pending') = {}
    BY <2>1 DEF Elements
  <2> QED BY <2>2 DEF WakeInv
<1>6. CASE FunctorsDone
  <2>1. tpc[Loop] # "queued"
    BY <1>6 DEF FunctorsDone, PhaseInv, InUserCode
  <2>2. ASSUME NEW u \in AllThreads, tpc[u] = "queued"
        PROVE  NeedsWakeup(u)'
    BY <2>1, <2>2 DEF NeedsWakeup
  <2>3. wakeups' = wakeups /\ pending' = pending /\ early' = early /\ tpc' = tpc /\ pc = "run"
    BY <1>6 DEF FunctorsDone
  <2> QED BY <2>2, <2>3 DEF WakeInv
<1>7. CASE HandleRead \/ HandleEvent \/ HandlerReturns \/ MarkCalling
  BY <1>7 DEF HandleRead, HandleEvent, HandlerReturns, MarkCalling, WakeInv
<1>8. CASE PollWoken \/ PollElse
  BY <1>8 DEF PollWoken, PollElse, PollReturns, WakeInv
<1>9. CASE StartLoop \/ TestQuit \/ RunFunctor \/ FunctorReturns
  <2>1. /\ pc \in {"created", "test", "run", "functor"}
        /\ UNCHANGED <<wakeups, pending, early, tpc, calling>>
    BY <1>9 DEF StartLoop, TestQuit, RunFunctor, FunctorReturns
  <2> QED BY <2>1 DEF WakeInv, NeedsWakeup
<1>10. CASE UNCHANGED vars
  BY <1>10 DEF vars, WakeInv, NeedsWakeup
<1>11. ASSUME NEW t \in AllThreads, NEW f \in Tasks, RunInLoop(t, f), ~QueueInLoop(t, f)
       PROVE  WakeInv'
  BY <1>11 DEF RunInLoop, WakeInv, NeedsWakeup
<1> QED
  BY <1>1, <1>2, <1>3, <1>4, <1>5, <1>6, <1>7, <1>8, <1>9, <1>10, <1>11
     DEF Next, LoopStep, WakeStep

LEMMA QuitInductive ==
    ASSUME TypeOK, NoLostQuit, PhaseInv, [Next]_vars
    PROVE  NoLostQuit'
<1>1. ASSUME NEW t \in AllThreads, NEW f \in Tasks, QueueInLoop(t, f) \/ RunInLoop(t, f)
      PROVE  NoLostQuit'
  <2>1. ASSUME NEW u \in Threads, tpc[u] = "quitting"
        PROVE  tpc'[u] = "quitting"
    BY <1>1, <2>1 DEF QueueInLoop, RunInLoop, Free, TypeOK, AllThreads
  <2> QED BY <1>1, <2>1 DEF QueueInLoop, RunInLoop, NoLostQuit
<1>2. ASSUME NEW t \in AllThreads, QueueWakeup(t)
      PROVE  NoLostQuit'
  <2>1. ASSUME NEW u \in Threads, tpc[u] = "quitting"
        PROVE  tpc'[u] = "quitting"
    BY <1>2, <2>1 DEF QueueWakeup, TypeOK, AllThreads
  <2>2. wakeups > 0 => wakeups' > 0
    BY <1>2 DEF QueueWakeup, TypeOK
  <2> QED BY <1>2, <2>1, <2>2 DEF QueueWakeup, NoLostQuit
<1>3. ASSUME NEW t \in AllThreads, QuitWakeup(t)
      PROVE  NoLostQuit'
  <2>1. wakeups' > 0
    BY <1>3 DEF QuitWakeup, TypeOK
  <2> QED BY <2>1 DEF NoLostQuit
<1>4. ASSUME NEW t \in AllThreads, Quit(t)
      PROVE  NoLostQuit'
  <2>1. CASE pc = "poll"
    <3>1. t # Loop
      BY <1>4, <2>1 DEF Quit, Free, InUserCode
    <3>2. t \in Threads /\ tpc'[t] = "quitting"
      BY <1>4, <3>1 DEF Quit, AllThreads, TypeOK
    <3> QED BY <3>2 DEF NoLostQuit
  <2>2. CASE pc # "poll"
    BY <1>4, <2>2 DEF Quit, NoLostQuit
  <2> QED BY <2>1, <2>2
<1>5. CASE LoopStep \/ PollElse
  BY <1>5 DEF LoopStep, StartLoop, TestQuit, PollWoken, PollElse, PollReturns, HandleRead,
              HandleEvent, HandlerReturns, MarkCalling, SwapFunctors, RunFunctor,
              FunctorReturns, FunctorsDone, NoLostQuit
<1>6. CASE UNCHANGED vars
  BY <1>6 DEF vars, NoLostQuit
<1> QED
  BY <1>1, <1>2, <1>3, <1>4, <1>5, <1>6 DEF Next, WakeStep

LEMMA OrderInductive ==
    ASSUME TypeOK, PhaseInv, QueueOrder, [Next]_vars
    PROVE  QueueOrder'
<1> USE DEF QueueOrder
<1>0. ran \in Seq(Tasks) /\ functors \in Seq(Tasks) /\ pending \in Seq(Tasks)
  BY DEF TypeOK
<1>1. CASE Idles
  BY <1>1 DEF Idles
<1>2. ASSUME NEW t \in AllThreads, NEW f \in Tasks, QueueInLoop(t, f)
      PROVE  QueueOrder'
  <2>1. ran \o functors \in Seq(Tasks)
    BY <1>0, ConcatProperties
  <2>2. (ran \o functors) \o Append(pending, f) = Append((ran \o functors) \o pending, f)
    BY <1>0, <2>1, AppendOfConcat
  <2> QED BY <1>2, <2>2 DEF QueueInLoop
<1>3. CASE SwapFunctors
  <2>1. functors = <<>> /\ functors' = pending /\ pending' = <<>> /\ ran' = ran /\ queued' = queued
    BY <1>3 DEF SwapFunctors, PhaseInv
  <2>2. ran \o pending \in Seq(Tasks)
    BY <1>0, ConcatProperties
  <2>3. (ran \o pending) \o <<>> = ran \o pending /\ ran \o <<>> = ran
    BY <1>0, <2>2, ConcatEmptySeq
  <2> QED BY <2>1, <2>3
<1>4. CASE RunFunctor
  <2>1. Append(ran, Head(functors)) \o Tail(functors) = ran \o functors
    BY <1>0, <1>4, MoveHead DEF RunFunctor
  <2> QED BY <1>4, <2>1 DEF RunFunctor
<1> QED
  BY <1>1, <1>2, <1>3, <1>4, Steps

LEMMA InductiveInvariant == Spec => []Inv
<1>1. Init => Inv
  <2> SUFFICES ASSUME Init PROVE Inv
    OBVIOUS
  <2>1. <<>> \in Seq(Tasks) /\ <<>> \o <<>> = <<>>
    BY EmptySeq, ConcatEmptySeq
  <2>2. TypeOK
    BY <2>1 DEF Init, TypeOK
  <2>3. PhaseInv
    BY DEF Init, PhaseInv, AllThreads
  <2>4. WakeInv
    BY DEF Init, WakeInv, Elements
  <2>5. NoLostQuit /\ QueueOrder
    BY <2>1 DEF Init, NoLostQuit, QueueOrder
  <2> QED BY <2>2, <2>3, <2>4, <2>5 DEF Inv
<1>2. Inv /\ [Next]_vars => Inv'
  BY TypeInductive, PhaseInductive, WakeInductive, QuitInductive, OrderInductive DEF Inv
<1> QED
  BY <1>1, <1>2, PTL DEF Spec

-----------------------------------------------------------------------------
(* The loop's variables keep their types.                                  *)
THEOREM LoopTypes == Spec => []TypeOK
  BY InductiveInvariant, PTL DEF Inv

(* queueInLoop wakes the loop: whatever the number of threads, the loop    *)
(* never sleeps on a functor without a wakeup set or about to be set.      *)
THEOREM WakeupsAreNotLost == Spec => []NoLostWakeup
<1>1. Inv => NoLostWakeup
  <2> SUFFICES ASSUME Inv, pc = "poll", \E f \in Elements(pending) : f \notin early
               PROVE  wakeups > 0 \/ \E t \in Threads : tpc[t] = "queued"
    BY DEF NoLostWakeup
  <2>1. ~(tpc[Loop] = "queued")
    BY DEF Inv, PhaseInv, InUserCode
  <2>2. wakeups > 0 \/ \E t \in AllThreads : tpc[t] = "queued"
    BY DEF Inv, WakeInv
  <2> QED BY <2>1, <2>2 DEF AllThreads
<1> QED
  BY <1>1, InductiveInvariant, PTL

(* quit wakes the loop: it never sleeps past a quit it has not seen.       *)
THEOREM QuitsAreNotLost == Spec => []NoLostQuit
  BY InductiveInvariant, PTL DEF Inv

(* doPendingFunctors runs the functors of all threads in the order         *)
(* queueInLoop appended them, each once.                                   *)
THEOREM FunctorsInOrder == Spec => []QueueOrder
  BY InductiveInvariant, PTL DEF Inv

(* The event loop implements a serial executor: the two lists of           *)
(* doPendingFunctors together are its queue.                               *)
THEOREM LoopImplementsExecutor == Spec => ImplementsExecutor
<1>1. Init => Executor!Init
  <2> SUFFICES ASSUME Init PROVE Executor!Init
    OBVIOUS
  <2>1. <<>> \o <<>> = <<>>
    BY EmptySeq, ConcatEmptySeq
  <2> QED BY <2>1 DEF Init, Executor!Init
<1>2. ASSUME Inv, [Next]_vars
      PROVE  [Executor!Next]_<<functors \o pending, ran>>
  <2>0. functors \in Seq(Tasks) /\ pending \in Seq(Tasks)
    BY <1>2 DEF Inv, TypeOK
  <2>1. CASE Idles
    BY <2>1 DEF Idles
  <2>2. ASSUME NEW t \in AllThreads, NEW f \in Tasks, QueueInLoop(t, f)
        PROVE  Executor!Next
    <3>1. functors \o Append(pending, f) = Append(functors \o pending, f)
      BY <2>0, AppendOfConcat
    <3>2. Executor!Submit(f)
      BY <2>2, <3>1 DEF QueueInLoop, Executor!Submit
    <3> QED BY <3>2 DEF Executor!Next
  <2>3. CASE SwapFunctors
    <3>1. functors = <<>> /\ functors' = pending /\ pending' = <<>> /\ ran' = ran
      BY <1>2, <2>3 DEF SwapFunctors, Inv, PhaseInv
    <3>2. <<>> \o pending = pending /\ pending \o <<>> = pending
      BY <2>0, ConcatEmptySeq
    <3> QED BY <3>1, <3>2
  <2>4. CASE RunFunctor
    <3>1. /\ functors \o pending # <<>>
          /\ Head(functors \o pending) = Head(functors)
          /\ Tail(functors \o pending) = Tail(functors) \o pending
      BY <2>0, <2>4, HeadTailOfConcat DEF RunFunctor
    <3>2. Executor!Start
      BY <2>4, <3>1 DEF RunFunctor, Executor!Start
    <3> QED BY <3>2 DEF Executor!Next
  <2> QED BY <1>2, <2>1, <2>2, <2>3, <2>4, Steps
<1> QED
  BY <1>1, <1>2, InductiveInvariant, PTL DEF Spec, ImplementsExecutor, Executor!Spec
=============================================================================
