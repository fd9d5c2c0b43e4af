------------------- MODULE SocketReceiveMultiplexerProofs -------------------
(***************************************************************************)
(* The invariants of SocketReceiveMultiplexer, for any sockets, timers,    *)
(* delays, periods and numbers of runs, breaks and signals: the iterators  *)
(* of Run stay in their vectors, the queue is in order whenever select()   *)
(* waits, timers keep their times, and breaks are prompt.  (RunServesAll   *)
(* is a liveness property and left to TLC.)                                *)
(***************************************************************************)
EXTENDS SocketReceiveMultiplexer, SequenceTheorems, TLAPS

Entry == [at : Nat, timer : AttachedTimerListener]

ListTypes ==
  /\ socketListeners_ \in Seq(Sockets)
  /\ timerListeners_ \in Seq(AttachedTimerListener)
  /\ inbox \in [Sockets -> Nat]
  /\ tempfds \subseteq masterfds
  /\ place \in {"idle", "entry"} => tempfds = {}

QueueTypes ==
  /\ timerQueue_ \in Seq(Entry)
  /\ i \in Nat
  /\ clock \in 0..MaxTime
  /\ currentTimeMs \in 0..clock
  /\ started \in 0..clock
  /\ place \in {"sockets", "timers"} => i >= 1
  /\ place = "packet" => i \in DOMAIN socketListeners_
  /\ place = "timer" => i \in DOMAIN timerQueue_ /\ timerQueue_[i].at <= currentTimeMs

FlagTypes ==
  /\ place \in InLoop \cup {"idle", "entry"}
  /\ resort \in BOOLEAN
  /\ break_ \in BOOLEAN
  /\ waker \in BOOLEAN
  /\ sigint \in BOOLEAN
  /\ breaker \in InCall \cup {"outside", Nobody}

One(b) == IF b THEN 1 ELSE 0

\* Every byte in the pipe is of a call of AsynchronousBreak or of SIGINT, of which a run
\* handles one.
CountTypes ==
  /\ breakPipe \in Nat
  /\ begun \in Nat
  /\ runs \in 0..MaxRuns
  /\ arrivals \in 0..MaxDatagrams
  /\ breaks \in 0..MaxBreaks
  /\ interrupts \in 0..MaxInterrupts
  /\ breakPipe + One(waker) + One(sigint) <= breaks + runs

\* The queue is out of order only in the loop over the timers, and after a break in it.
QueueOK ==
  \/ Ordered(timerQueue_)
  \/ place \in {"timers", "timer"} /\ resort
  \/ place = "loop" /\ break_

\* How many listeners Run may have called since break_ was set, from where it is now.
BreakOK ==
  /\ ~break_ => breaker = Nobody /\ begun = 0
  /\ break_ => breaker # Nobody
  /\ place \in {"select", "drain", "test", "sockets"} => begun = 0
  /\ place \in {"packet", "expire", "timers"} => begun \in {0, 1}
  /\ begun \in {0, 1, 2}
  /\ breaker = "packet" => /\ begun \in {0, 1}
                           /\ place \notin {"select", "drain", "test", "sockets"}
                           /\ place \in {"packet", "expire", "timers"} => begun = 0
  /\ breaker = "timer" => begun = 0 /\ place \in {"timer", "loop", "idle", "entry"}

OnTime(e) ==
  \E n \in 0..MaxTime + 1 : e.at = started + e.timer.initialDelayMs + n * e.timer.periodMs

TimesOK == \A k \in DOMAIN timerQueue_ : OnTime(timerQueue_[k])

Types == ListTypes /\ QueueTypes /\ FlagTypes /\ CountTypes
IInv  == Types /\ QueueOK /\ BreakOK /\ TimesOK

USE ConstantsAssumption

-----------------------------------------------------------------------------
(* Facts about sequences                                                   *)

\* Without one element, a sequence is still a sequence over the same set.
LEMMA RemoveAtTypes ==
  ASSUME NEW S, NEW s \in Seq(S), NEW k \in DOMAIN s
  PROVE  RemoveAt(s, k) \in Seq(S)
<1>1. Len(s) \in Nat /\ k \in 1..Len(s)
  OBVIOUS
<1>2. SubSeq(s, 1, k - 1) \in Seq(S) /\ SubSeq(s, k + 1, Len(s)) \in Seq(S)
  BY <1>1, SubSeqProperties
<1>3. QED
  BY <1>2, ConcatProperties DEF RemoveAt

\* std::sort puts the same entries in order.
LEMMA SortedProperties ==
  ASSUME NEW S, NEW q \in Seq(S), NEW p \in Sorted(q)
  PROVE  /\ p \in Seq(S)
         /\ Ordered(p)
         /\ \A k \in DOMAIN p : \E j \in DOMAIN q : p[k] = q[j]
<1>1. PICK f \in Bijection(DOMAIN q, DOMAIN q) : p = [k \in DOMAIN q |-> q[f[k]]] /\ Ordered(p)
  BY DEF Sorted
<1>2. f \in [DOMAIN q -> DOMAIN q]
  BY <1>1 DEF Bijection, Injection
<1>3. DOMAIN q = 1..Len(q) /\ Len(q) \in Nat /\ \A k \in DOMAIN q : q[k] \in S
  OBVIOUS
<1>4. p \in Seq(S)
  BY <1>1, <1>2, <1>3, IsASeq
<1>5. QED
  BY <1>1, <1>2, <1>4

LEMMA OneBit == One(TRUE) = 1 /\ One(FALSE) = 0 /\ \A b \in BOOLEAN : One(b) \in {0, 1}
BY DEF One

\* The parts of the types make up TypeOK.
LEMMA TypesImplyTypeOK == Types => TypeOK
<1> SUFFICES ASSUME Types PROVE TypeOK
  OBVIOUS
<1>1. One(waker) \in {0, 1} /\ One(sigint) \in {0, 1}
  BY DEF One
<1>2. breakPipe \in 0..MaxBreaks + MaxRuns
  BY <1>1 DEF Types, CountTypes
<1>3. QED
  BY <1>2 DEF Types, ListTypes, QueueTypes, FlagTypes, CountTypes, TypeOK, Entry

-----------------------------------------------------------------------------
LEMMA InitOK == Init => IInv
<1> SUFFICES ASSUME Init PROVE IInv
  OBVIOUS
<1>1. ListTypes /\ QueueTypes
  BY DEF Init, ListTypes, QueueTypes
<1>2. FlagTypes
  BY DEF Init, FlagTypes
<1>3. CountTypes
  BY DEF Init, CountTypes, One
<1>4. QueueOK /\ TimesOK
  BY DEF Init, QueueOK, Ordered, TimesOK
<1>5. BreakOK
  BY DEF Init, BreakOK, Nobody
<1>6. QED
  BY <1>1, <1>2, <1>3, <1>4, <1>5 DEF IInv, Types

\* Between two runs the vectors of the listeners change, and nothing else.
LEMMA ConfigurationOK ==
  ASSUME IInv,
         \/ \E s \in Sockets : AttachSocketListener(s)
         \/ \E k \in DOMAIN socketListeners_ : DetachSocketListener(k)
         \/ \E t \in AttachedTimerListener : AttachPeriodicTimerListener(t)
         \/ \E k \in DOMAIN timerListeners_ : DetachPeriodicTimerListener(k)
  PROVE  IInv'
<1>1. place = "idle" /\ UNCHANGED <<place, queue, i, tempfds, breaking, begun, inbox, clock, counts>>
  BY DEF AttachSocketListener, DetachSocketListener, AttachPeriodicTimerListener,
         DetachPeriodicTimerListener, Reconfigure
<1>2. /\ socketListeners_ \in Seq(Sockets) /\ timerListeners_ \in Seq(AttachedTimerListener)
      /\ tempfds = {}
  BY <1>1 DEF IInv, Types, ListTypes
<1>3. socketListeners_' \in Seq(Sockets) /\ timerListeners_' \in Seq(AttachedTimerListener)
  <2>1. CASE \E s \in Sockets : AttachSocketListener(s)
    BY <1>2, <2>1 DEF AttachSocketListener
  <2>2. CASE \E k \in DOMAIN socketListeners_ : DetachSocketListener(k)
    BY <1>2, <2>2, RemoveAtTypes DEF DetachSocketListener
  <2>3. CASE \E t \in AttachedTimerListener : AttachPeriodicTimerListener(t)
    BY <1>2, <2>3 DEF AttachPeriodicTimerListener
  <2>4. CASE \E k \in DOMAIN timerListeners_ : DetachPeriodicTimerListener(k)
    BY <1>2, <2>4, RemoveAtTypes DEF DetachPeriodicTimerListener
  <2>5. QED
    BY <2>1, <2>2, <2>3, <2>4
<1>4. ListTypes' /\ QueueTypes'
  BY <1>1, <1>2, <1>3 DEF IInv, Types, ListTypes, QueueTypes, queue
<1>5. FlagTypes' /\ CountTypes' /\ BreakOK'
  BY <1>1 DEF IInv, Types, FlagTypes, CountTypes, BreakOK, queue, breaking, counts
<1>6. QueueOK' /\ TimesOK'
  BY <1>1 DEF IInv, QueueOK, TimesOK, OnTime, queue, breaking
<1>7. QED
  BY <1>4, <1>5, <1>6 DEF IInv, Types

-----------------------------------------------------------------------------
(* Run                                                                     *)

LEMMA RunCalledOK ==
  ASSUME IInv, NEW untilSigInt \in BOOLEAN, RunCalled(untilSigInt)
  PROVE  IInv'
<1>1. ListTypes'
  BY DEF IInv, Types, ListTypes, masterfds, attached, RunCalled, Goto
<1>2. QueueTypes'
  BY DEF IInv, Types, QueueTypes, attached, queue, RunCalled, Goto
<1>3. FlagTypes'
  BY DEF IInv, Types, FlagTypes, InLoop, InCall, queue, RunCalled, Goto
<1>4. CountTypes'
  <2>1. CountTypes /\ One(waker) \in {0, 1} /\ One(sigint) \in {0, 1}
    BY OneBit DEF IInv, Types, CountTypes, FlagTypes
  <2>2. One(waker') = One(waker) /\ One(sigint') \in {0, 1}
    BY OneBit DEF IInv, Types, FlagTypes, breaking, RunCalled
  <2>3. runs < MaxRuns /\ runs' = runs + 1
        /\ UNCHANGED <<breakPipe, begun, arrivals, breaks, interrupts>>
    BY DEF breaking, counts, RunCalled
  <2>4. QED
    BY <2>1, <2>2, <2>3 DEF CountTypes
<1>5. QueueOK'
  BY DEF IInv, QueueOK, queue, RunCalled, Goto
<1>6. BreakOK'
  BY DEF IInv, Types, FlagTypes, BreakOK, InLoop, InCall, Nobody, RunCalled, Goto
<1>7. TimesOK'
  BY DEF IInv, TimesOK, OnTime, queue, RunCalled, Goto
<1>8. QED
  BY <1>1, <1>2, <1>3, <1>4, <1>5, <1>6, <1>7 DEF IInv, Types

LEMMA LoopOK ==
  ASSUME IInv, Loop
  PROVE  IInv'
<1>1. ListTypes'
  BY DEF IInv, Types, ListTypes, masterfds, attached, Loop, Return
<1>2. QueueTypes'
  <2>1. UNCHANGED <<attached, clock, currentTimeMs>>
    BY DEF Loop, Return
  <2>2. CASE break_
    <3>1. place' = "idle" /\ timerQueue_' = <<>> /\ started' = 0 /\ i' = i
      BY <2>2 DEF Loop, Return
    <3>2. QED
      BY <2>1, <3>1 DEF IInv, Types, QueueTypes
  <2>3. CASE ~break_
    <3>1. timerQueue_' = timerQueue_ /\ started' = started /\ (i' = i \/ i' = 1)
          /\ (place' = "select" \/ (place' = "sockets" /\ i' = 1))
      BY <2>3 DEF Loop, Return
    <3>2. QED
      BY <2>1, <3>1 DEF IInv, Types, QueueTypes
  <2>4. QED
    BY <2>2, <2>3
<1>3. FlagTypes'
  BY DEF IInv, Types, FlagTypes, InLoop, InCall, Loop, Return
<1>4. CountTypes'
  <2>1. CountTypes /\ One(waker) \in {0, 1} /\ One(sigint) \in {0, 1}
    BY OneBit DEF IInv, Types, CountTypes, FlagTypes
  <2>2. One(waker') = One(waker) /\ One(sigint') \in {0, One(sigint)}
    BY OneBit DEF IInv, Types, FlagTypes, breaking, Loop, Return
  <2>3. UNCHANGED <<breakPipe, begun, counts>>
    BY DEF breaking, counts, Loop, Return
  <2>4. QED
    BY <2>1, <2>2, <2>3 DEF CountTypes, counts
<1>5. QueueOK'
  BY DEF IInv, QueueOK, Loop, Return, Ordered
<1>6. BreakOK'
  BY DEF IInv, Types, FlagTypes, BreakOK, InLoop, InCall, Nobody, Loop, Return
<1>7. TimesOK'
  BY DEF IInv, TimesOK, OnTime, Loop, Return
<1>8. QED
  BY <1>1, <1>2, <1>3, <1>4, <1>5, <1>6, <1>7 DEF IInv, Types

LEMMA SelectOK ==
  ASSUME IInv, Select
  PROVE  IInv'
<1>1. ListTypes'
  BY DEF IInv, Types, ListTypes, masterfds, attached, Select, Readable, Goto
<1>2. QueueTypes'
  BY DEF IInv, Types, QueueTypes, attached, queue, Select, Readable, Goto
<1>3. FlagTypes'
  BY DEF IInv, Types, FlagTypes, InLoop, InCall, queue, breaking, Select, Readable, Goto
<1>4. CountTypes'
  BY DEF IInv, Types, CountTypes, breaking, counts, Select, Readable, Goto
<1>5. QueueOK'
  BY DEF IInv, QueueOK, queue, breaking, Select, Readable, Goto
<1>6. BreakOK'
  BY DEF IInv, Types, FlagTypes, BreakOK, InLoop, InCall, Nobody, breaking, Select, Readable, Goto
<1>7. TimesOK'
  BY DEF IInv, TimesOK, OnTime, queue, Select, Readable, Goto
<1>8. QED
  BY <1>1, <1>2, <1>3, <1>4, <1>5, <1>6, <1>7 DEF IInv, Types

LEMMA SelectInterruptedOK ==
  ASSUME IInv, SelectInterrupted
  PROVE  IInv'
<1>1. ListTypes'
  BY DEF IInv, Types, ListTypes, masterfds, attached, SelectInterrupted, Goto
<1>2. QueueTypes'
  BY DEF IInv, Types, QueueTypes, attached, queue, SelectInterrupted, Goto
<1>3. FlagTypes'
  BY DEF IInv, Types, FlagTypes, InLoop, InCall, queue, breaking, SelectInterrupted, Goto
<1>4. CountTypes'
  BY DEF IInv, Types, CountTypes, breaking, SelectInterrupted, Goto
<1>5. QueueOK'
  BY DEF IInv, QueueOK, queue, breaking, SelectInterrupted, Goto
<1>6. BreakOK'
  BY DEF IInv, Types, FlagTypes, BreakOK, InLoop, InCall, Nobody, breaking, SelectInterrupted, Goto
<1>7. TimesOK'
  BY DEF IInv, TimesOK, OnTime, queue, SelectInterrupted, Goto
<1>8. QED
  BY <1>1, <1>2, <1>3, <1>4, <1>5, <1>6, <1>7 DEF IInv, Types

LEMMA DrainOK ==
  ASSUME IInv, Drain
  PROVE  IInv'
<1>1. ListTypes'
  BY DEF IInv, Types, ListTypes, masterfds, attached, Drain, Goto
<1>2. QueueTypes'
  BY DEF IInv, Types, QueueTypes, attached, queue, Drain, Goto
<1>3. FlagTypes'
  BY DEF IInv, Types, FlagTypes, InLoop, InCall, queue, Drain, Goto
<1>4. CountTypes'
  <2>1. CountTypes /\ One(waker) \in {0, 1} /\ One(sigint) \in {0, 1}
    BY OneBit DEF IInv, Types, CountTypes, FlagTypes
  <2>2. One(waker') = One(waker) /\ One(sigint') = One(sigint)
    BY OneBit DEF IInv, Types, FlagTypes, breaking, Drain
  <2>3. UNCHANGED <<begun, counts>> /\ (breakPipe' = breakPipe \/ (breakPipe > 0 /\ breakPipe' = breakPipe - 1))
    BY DEF breaking, counts, Drain
  <2>4. QED
    BY <2>1, <2>2, <2>3 DEF CountTypes, counts
<1>5. QueueOK'
  BY DEF IInv, QueueOK, queue, Drain, Goto
<1>6. BreakOK'
  BY DEF IInv, Types, FlagTypes, BreakOK, InLoop, InCall, Nobody, Drain, Goto
<1>7. TimesOK'
  BY DEF IInv, TimesOK, OnTime, queue, Drain, Goto
<1>8. QED
  BY <1>1, <1>2, <1>3, <1>4, <1>5, <1>6, <1>7 DEF IInv, Types

LEMMA TestBreakOK ==
  ASSUME IInv, TestBreak
  PROVE  IInv'
<1>1. ListTypes'
  BY DEF IInv, Types, ListTypes, masterfds, attached, TestBreak, Return
<1>2. QueueTypes'
  <2>1. UNCHANGED <<attached, clock, currentTimeMs>>
    BY DEF TestBreak, Return
  <2>2. CASE break_
    <3>1. place' = "idle" /\ timerQueue_' = <<>> /\ started' = 0 /\ i' = i
      BY <2>2 DEF TestBreak, Return
    <3>2. QED
      BY <2>1, <3>1 DEF IInv, Types, QueueTypes
  <2>3. CASE ~break_
    <3>1. timerQueue_' = timerQueue_ /\ started' = started /\ (i' = i \/ i' = 1)
          /\ (place' = "select" \/ (place' = "sockets" /\ i' = 1))
      BY <2>3 DEF TestBreak, Return
    <3>2. QED
      BY <2>1, <3>1 DEF IInv, Types, QueueTypes
  <2>4. QED
    BY <2>2, <2>3
<1>3. FlagTypes'
  BY DEF IInv, Types, FlagTypes, InLoop, InCall, TestBreak, Return
<1>4. CountTypes'
  <2>1. CountTypes /\ One(waker) \in {0, 1} /\ One(sigint) \in {0, 1}
    BY OneBit DEF IInv, Types, CountTypes, FlagTypes
  <2>2. One(waker') = One(waker) /\ One(sigint') \in {0, One(sigint)}
    BY OneBit DEF IInv, Types, FlagTypes, breaking, TestBreak, Return
  <2>3. UNCHANGED <<breakPipe, begun, counts>>
    BY DEF breaking, counts, TestBreak, Return
  <2>4. QED
    BY <2>1, <2>2, <2>3 DEF CountTypes, counts
<1>5. QueueOK'
  BY DEF IInv, QueueOK, TestBreak, Return, Ordered
<1>6. BreakOK'
  BY DEF IInv, Types, FlagTypes, BreakOK, InLoop, InCall, Nobody, TestBreak, Return
<1>7. TimesOK'
  BY DEF IInv, TimesOK, OnTime, TestBreak, Return
<1>8. QED
  BY <1>1, <1>2, <1>3, <1>4, <1>5, <1>6, <1>7 DEF IInv, Types

LEMMA SkipSocketOK ==
  ASSUME IInv, SkipSocket
  PROVE  IInv'
<1>1. ListTypes'
  BY DEF IInv, Types, ListTypes, masterfds, attached, SkipSocket, SocketsDone
<1>2. QueueTypes'
  BY DEF IInv, Types, QueueTypes, attached, queue, SkipSocket, SocketsDone
<1>3. FlagTypes'
  BY DEF IInv, Types, FlagTypes, InLoop, InCall, queue, breaking, SkipSocket, SocketsDone
<1>4. CountTypes'
  BY DEF IInv, Types, CountTypes, breaking, counts, SkipSocket, SocketsDone
<1>5. QueueOK'
  BY DEF IInv, QueueOK, queue, breaking, SkipSocket, SocketsDone
<1>6. BreakOK'
  BY DEF IInv, Types, FlagTypes, BreakOK, InLoop, InCall, Nobody, breaking, SkipSocket, SocketsDone
<1>7. TimesOK'
  BY DEF IInv, TimesOK, OnTime, queue, SkipSocket, SocketsDone
<1>8. QED
  BY <1>1, <1>2, <1>3, <1>4, <1>5, <1>6, <1>7 DEF IInv, Types

LEMMA ReceiveFromOK ==
  ASSUME IInv, ReceiveFrom
  PROVE  IInv'
<1>1. ListTypes'
  <2>1. socketListeners_[i] \in Sockets
    BY DEF IInv, Types, ListTypes, QueueTypes, ReceiveFrom
  <2>2. inbox' \in [Sockets -> Nat]
    BY <2>1 DEF IInv, Types, ListTypes, ReceiveFrom
  <2>3. place' \notin {"idle", "entry"} /\ UNCHANGED <<socketListeners_, timerListeners_, tempfds>>
    BY DEF ReceiveFrom, attached
  <2>4. QED
    BY <2>2, <2>3 DEF IInv, Types, ListTypes, masterfds
<1>2. QueueTypes'
  <2>1. UNCHANGED <<timerQueue_, clock, currentTimeMs, started, resort>>
    BY DEF ReceiveFrom, queue
  <2>2. /\ place = "sockets" /\ i <= Len(socketListeners_)
        /\ UNCHANGED socketListeners_
        /\ \/ place' = "packet" /\ i' = i
           \/ place' = "sockets" /\ i' = i + 1
    BY DEF ReceiveFrom, attached
  <2>3. i \in Nat /\ i >= 1 /\ socketListeners_ \in Seq(Sockets)
    BY <2>2 DEF IInv, Types, QueueTypes, ListTypes
  <2>4. i' \in Nat /\ i' >= 1 /\ (place' = "packet" => i' \in DOMAIN socketListeners_)
    BY <2>2, <2>3
  <2>5. QED
    BY <2>1, <2>2, <2>4 DEF IInv, Types, QueueTypes
<1>3. FlagTypes'
  BY DEF IInv, Types, FlagTypes, InLoop, InCall, queue, breaking, ReceiveFrom, Count
<1>4. CountTypes'
  BY DEF IInv, Types, CountTypes, breaking, counts, ReceiveFrom, Count
<1>5. QueueOK'
  BY DEF IInv, QueueOK, queue, breaking, ReceiveFrom, Count
<1>6. BreakOK'
  BY DEF IInv, Types, FlagTypes, BreakOK, InLoop, InCall, Nobody, breaking, ReceiveFrom, Count
<1>7. TimesOK'
  BY DEF IInv, TimesOK, OnTime, queue, ReceiveFrom, Count
<1>8. QED
  BY <1>1, <1>2, <1>3, <1>4, <1>5, <1>6, <1>7 DEF IInv, Types

LEMMA PacketProcessedOK ==
  ASSUME IInv, PacketProcessed
  PROVE  IInv'
<1>1. ListTypes'
  BY DEF IInv, Types, ListTypes, masterfds, attached, PacketProcessed, SocketsDone
<1>2. QueueTypes'
  BY DEF IInv, Types, QueueTypes, attached, queue, PacketProcessed, SocketsDone
<1>3. FlagTypes'
  BY DEF IInv, Types, FlagTypes, InLoop, InCall, queue, breaking, PacketProcessed, SocketsDone
<1>4. CountTypes'
  BY DEF IInv, Types, CountTypes, breaking, counts, PacketProcessed, SocketsDone
<1>5. QueueOK'
  BY DEF IInv, QueueOK, queue, breaking, PacketProcessed, SocketsDone
<1>6. BreakOK'
  BY DEF IInv, Types, FlagTypes, BreakOK, InLoop, InCall, Nobody, breaking, PacketProcessed,
         SocketsDone
<1>7. TimesOK'
  BY DEF IInv, TimesOK, OnTime, queue, PacketProcessed, SocketsDone
<1>8. QED
  BY <1>1, <1>2, <1>3, <1>4, <1>5, <1>6, <1>7 DEF IInv, Types

LEMMA ExpireTimersOK ==
  ASSUME IInv, ExpireTimers
  PROVE  IInv'
<1>1. ListTypes'
  BY DEF IInv, Types, ListTypes, masterfds, attached, ExpireTimers, Goto
<1>2. QueueTypes'
  BY DEF IInv, Types, QueueTypes, attached, ExpireTimers, Goto
<1>3. FlagTypes'
  BY DEF IInv, Types, FlagTypes, InLoop, InCall, breaking, ExpireTimers, Goto
<1>4. CountTypes'
  BY DEF IInv, Types, CountTypes, breaking, counts, ExpireTimers, Goto
<1>5. QueueOK'
  BY DEF IInv, QueueOK, breaking, ExpireTimers, Goto
<1>6. BreakOK'
  BY DEF IInv, Types, FlagTypes, BreakOK, InLoop, InCall, Nobody, breaking, ExpireTimers, Goto
<1>7. TimesOK'
  BY DEF IInv, TimesOK, OnTime, ExpireTimers, Goto
<1>8. QED
  BY <1>1, <1>2, <1>3, <1>4, <1>5, <1>6, <1>7 DEF IInv, Types

LEMMA TimerExpiredOK ==
  ASSUME IInv, TimerExpired
  PROVE  IInv'
<1>1. ListTypes'
  BY DEF IInv, Types, ListTypes, masterfds, attached, TimerExpired, TimerDue, Count, Goto
<1>2. QueueTypes'
  BY DEF IInv, Types, QueueTypes, attached, queue, TimerExpired, TimerDue, Count, Goto
<1>3. FlagTypes'
  BY DEF IInv, Types, FlagTypes, InLoop, InCall, queue, breaking, TimerExpired, TimerDue, Count,
         Goto
<1>4. CountTypes'
  BY DEF IInv, Types, CountTypes, breaking, counts, TimerExpired, TimerDue, Count, Goto
<1>5. QueueOK'
  BY DEF IInv, QueueOK, queue, breaking, TimerExpired, TimerDue, Count, Goto
<1>6. BreakOK'
  BY DEF IInv, Types, FlagTypes, BreakOK, InLoop, InCall, Nobody, breaking, TimerExpired, TimerDue,
         Count, Goto
<1>7. TimesOK'
  BY DEF IInv, TimesOK, OnTime, queue, TimerExpired, TimerDue, Count, Goto
<1>8. QED
  BY <1>1, <1>2, <1>3, <1>4, <1>5, <1>6, <1>7 DEF IInv, Types


(* Breaks *)
LEMMA BreakCallOK ==
  ASSUME IInv, Break
  PROVE  IInv'
<1>1. ListTypes'
  BY DEF IInv, Types, ListTypes, masterfds, attached, Break, SetBreak
<1>2. QueueTypes'
  BY DEF IInv, Types, QueueTypes, attached, queue, Break, SetBreak
<1>3. FlagTypes'
  BY DEF IInv, Types, FlagTypes, InLoop, InCall, queue, Break, SetBreak
<1>4. CountTypes'
  BY DEF IInv, Types, CountTypes, counts, Break, SetBreak
<1>5. QueueOK'
  BY DEF IInv, QueueOK, queue, Break, SetBreak
<1>6. BreakOK'
  BY DEF IInv, Types, FlagTypes, BreakOK, InLoop, InCall, Nobody, Break, SetBreak
<1>7. TimesOK'
  BY DEF IInv, TimesOK, OnTime, queue, Break, SetBreak
<1>8. QED
  BY <1>1, <1>2, <1>3, <1>4, <1>5, <1>6, <1>7 DEF IInv, Types

LEMMA BreakFlagOK ==
  ASSUME IInv, BreakFlag
  PROVE  IInv'
<1>1. ListTypes'
  BY DEF IInv, Types, ListTypes, masterfds, attached, BreakFlag, SetBreak, BetweenRuns
<1>2. QueueTypes'
  BY DEF IInv, Types, QueueTypes, attached, queue, BreakFlag, SetBreak, BetweenRuns
<1>3. FlagTypes'
  BY DEF IInv, Types, FlagTypes, InLoop, InCall, queue, BreakFlag, SetBreak, BetweenRuns
<1>4. CountTypes'
  <2>1. CountTypes /\ One(waker) \in {0, 1} /\ One(sigint) \in {0, 1}
    BY OneBit DEF IInv, Types, CountTypes, FlagTypes
  <2>2. One(waker) = 0 /\ One(waker') = 1 /\ One(sigint') = One(sigint)
    BY OneBit DEF IInv, Types, FlagTypes, breaking, BreakFlag
  <2>3. breaks < MaxBreaks /\ breaks' = breaks + 1 /\ begun' \in {begun, 0}
        /\ UNCHANGED <<breakPipe, runs, arrivals, interrupts>>
    BY DEF BreakFlag, SetBreak
  <2>4. QED
    BY <2>1, <2>2, <2>3 DEF CountTypes
<1>5. QueueOK'
  BY DEF IInv, QueueOK, queue, BreakFlag, SetBreak, BetweenRuns
<1>6. BreakOK'
  BY DEF IInv, Types, FlagTypes, BreakOK, InLoop, InCall, Nobody, BreakFlag, SetBreak, BetweenRuns
<1>7. TimesOK'
  BY DEF IInv, TimesOK, OnTime, queue, BreakFlag, SetBreak, BetweenRuns
<1>8. QED
  BY <1>1, <1>2, <1>3, <1>4, <1>5, <1>6, <1>7 DEF IInv, Types

LEMMA BreakSignalOK ==
  ASSUME IInv, BreakSignal
  PROVE  IInv'
<1>1. ListTypes'
  BY DEF IInv, Types, ListTypes, masterfds, attached, BreakSignal
<1>2. QueueTypes'
  BY DEF IInv, Types, QueueTypes, attached, queue, BreakSignal
<1>3. FlagTypes'
  BY DEF IInv, Types, FlagTypes, InLoop, InCall, queue, BreakSignal
<1>4. CountTypes'
  <2>1. CountTypes /\ One(waker) \in {0, 1} /\ One(sigint) \in {0, 1}
    BY OneBit DEF IInv, Types, CountTypes, FlagTypes
  <2>2. One(waker) = 1 /\ One(waker') = 0 /\ One(sigint') = One(sigint)
    BY OneBit DEF IInv, Types, FlagTypes, breaking, BreakSignal
  <2>3. breakPipe' = breakPipe + 1 /\ UNCHANGED <<begun, counts>>
    BY DEF breaking, counts, BreakSignal
  <2>4. QED
    BY <2>1, <2>2, <2>3 DEF CountTypes, counts
<1>5. QueueOK'
  BY DEF IInv, QueueOK, queue, BreakSignal
<1>6. BreakOK'
  BY DEF IInv, Types, FlagTypes, BreakOK, InLoop, InCall, Nobody, BreakSignal
<1>7. TimesOK'
  BY DEF IInv, TimesOK, OnTime, queue, BreakSignal
<1>8. QED
  BY <1>1, <1>2, <1>3, <1>4, <1>5, <1>6, <1>7 DEF IInv, Types

LEMMA SigIntOK ==
  ASSUME IInv, InterruptSignalHandler
  PROVE  IInv'
<1>1. ListTypes'
  BY DEF IInv, Types, ListTypes, masterfds, attached, InterruptSignalHandler, SetBreak, Goto
<1>2. QueueTypes'
  BY DEF IInv, Types, QueueTypes, attached, queue, InterruptSignalHandler, SetBreak, Goto
<1>3. FlagTypes'
  BY DEF IInv, Types, FlagTypes, InLoop, InCall, queue, InterruptSignalHandler, SetBreak, Goto
<1>4. CountTypes'
  <2>1. CountTypes /\ One(waker) \in {0, 1} /\ One(sigint) \in {0, 1}
    BY OneBit DEF IInv, Types, CountTypes, FlagTypes
  <2>2. One(sigint) = 1 /\ One(sigint') = 0 /\ One(waker') = One(waker)
    BY OneBit DEF IInv, Types, FlagTypes, breaking, InterruptSignalHandler
  <2>3. breakPipe' = breakPipe + 1 /\ begun' \in {begun, 0} /\ UNCHANGED counts
    BY DEF InterruptSignalHandler, SetBreak
  <2>4. QED
    BY <2>1, <2>2, <2>3 DEF CountTypes, counts
<1>5. QueueOK'
  BY DEF IInv, QueueOK, queue, InterruptSignalHandler, SetBreak, Goto
<1>6. BreakOK'
  BY DEF IInv, Types, FlagTypes, BreakOK, InLoop, InCall, Nobody, InterruptSignalHandler, SetBreak,
         Goto
<1>7. TimesOK'
  BY DEF IInv, TimesOK, OnTime, queue, InterruptSignalHandler, SetBreak, Goto
<1>8. QED
  BY <1>1, <1>2, <1>3, <1>4, <1>5, <1>6, <1>7 DEF IInv, Types

LEMMA ArriveOK ==
  ASSUME IInv, NEW s \in Sockets, Arrive(s)
  PROVE  IInv'
<1>1. ListTypes'
  BY DEF IInv, Types, ListTypes, masterfds, attached, Arrive
<1>2. QueueTypes'
  BY DEF IInv, Types, QueueTypes, attached, queue, Arrive
<1>3. FlagTypes'
  BY DEF IInv, Types, FlagTypes, InLoop, InCall, queue, breaking, Arrive
<1>4. CountTypes'
  BY DEF IInv, Types, CountTypes, breaking, Arrive
<1>5. QueueOK'
  BY DEF IInv, QueueOK, queue, breaking, Arrive
<1>6. BreakOK'
  BY DEF IInv, Types, FlagTypes, BreakOK, InLoop, InCall, Nobody, breaking, Arrive
<1>7. TimesOK'
  BY DEF IInv, TimesOK, OnTime, queue, Arrive
<1>8. QED
  BY <1>1, <1>2, <1>3, <1>4, <1>5, <1>6, <1>7 DEF IInv, Types

LEMMA TickOK ==
  ASSUME IInv, Tick
  PROVE  IInv'
<1>1. ListTypes'
  BY DEF IInv, Types, ListTypes, masterfds, attached, Tick
<1>2. QueueTypes'
  BY DEF IInv, Types, QueueTypes, attached, queue, Tick
<1>3. FlagTypes'
  BY DEF IInv, Types, FlagTypes, InLoop, InCall, queue, breaking, Tick
<1>4. CountTypes'
  BY DEF IInv, Types, CountTypes, breaking, counts, Tick
<1>5. QueueOK'
  BY DEF IInv, QueueOK, queue, breaking, Tick
<1>6. BreakOK'
  BY DEF IInv, Types, FlagTypes, BreakOK, InLoop, InCall, Nobody, breaking, Tick
<1>7. TimesOK'
  BY DEF IInv, TimesOK, OnTime, queue, Tick
<1>8. QED
  BY <1>1, <1>2, <1>3, <1>4, <1>5, <1>6, <1>7 DEF IInv, Types

-----------------------------------------------------------------------------
(* The timers                                                              *)

LEMMA TimerTypes ==
  ASSUME NEW t \in AttachedTimerListener
  PROVE  t.initialDelayMs \in Nat /\ t.periodMs \in Nat
<1>1. t.initialDelayMs \in Delays /\ t.periodMs \in Periods
  BY DEF AttachedTimerListener
<1>2. QED
  BY <1>1

LEMMA RunBeginsOK ==
  ASSUME IInv, RunBegins
  PROVE  IInv'
<1> DEFINE q == [k \in DOMAIN timerListeners_ |->
                   [at |-> clock + timerListeners_[k].initialDelayMs, timer |-> timerListeners_[k]]]
<1>1. timerListeners_ \in Seq(AttachedTimerListener) /\ clock \in Nat /\ tempfds = {}
  BY DEF IInv, Types, ListTypes, QueueTypes, RunBegins, Goto
<1>2. \A k \in DOMAIN timerListeners_ :
        timerListeners_[k] \in AttachedTimerListener /\ timerListeners_[k].initialDelayMs \in Nat
        /\ timerListeners_[k].periodMs \in Nat
  BY <1>1, TimerTypes
<1>3. q \in Seq(Entry)
  <2>1. \A k \in 1..Len(timerListeners_) : q[k] \in Entry
    BY <1>1, <1>2 DEF Entry
  <2>2. DOMAIN timerListeners_ = 1..Len(timerListeners_) /\ Len(timerListeners_) \in Nat
    BY <1>1
  <2>3. QED
    BY <2>1, <2>2, IsASeq
<1>4. \A k \in DOMAIN q : /\ q[k].at = clock + q[k].timer.initialDelayMs
                         /\ q[k].timer.periodMs \in Nat /\ q[k].timer.initialDelayMs \in Nat
  BY <1>2
<1>5. timerQueue_' \in Sorted(q)
  BY DEF RunBegins
<1> HIDE DEF q
<1>6. /\ timerQueue_' \in Seq(Entry) /\ Ordered(timerQueue_)'
      /\ \A k \in DOMAIN timerQueue_' : \E j \in DOMAIN q : timerQueue_'[k] = q[j]
  BY <1>3, <1>5, SortedProperties DEF Ordered
<1>7. ListTypes'
  BY DEF IInv, Types, ListTypes, masterfds, attached, RunBegins, Goto
<1>8. QueueTypes'
  BY <1>1, <1>6 DEF IInv, Types, QueueTypes, RunBegins, Goto
<1>9. FlagTypes'
  BY DEF IInv, Types, FlagTypes, InLoop, RunBegins, Goto
<1>10. CountTypes'
  BY DEF IInv, Types, CountTypes, counts, RunBegins
<1>11. QueueOK'
  BY <1>6 DEF QueueOK
<1>12. BreakOK'
  BY DEF BreakOK, RunBegins, Goto, Nobody
<1>13. TimesOK'
  <2>1. ASSUME NEW k \in DOMAIN timerQueue_' PROVE OnTime(timerQueue_[k])'
    <3>1. PICK j \in DOMAIN q : timerQueue_'[k] = q[j]
      BY <1>6, <2>1
    <3>2. started' = clock /\ 0 \in 0..MaxTime + 1
      BY DEF RunBegins
    <3>3. started' + q[j].timer.initialDelayMs + 0 * q[j].timer.periodMs = q[j].at
      BY <1>1, <1>4, <3>2
    <3>4. QED
      BY <3>1, <3>2, <3>3 DEF OnTime
  <2>2. QED
    BY <2>1 DEF TimesOK
<1>14. QED
  BY <1>7, <1>8, <1>9, <1>10, <1>11, <1>12, <1>13 DEF IInv, Types

\* An entry that is due is a whole number of periods after its start; so it is when it
\* is put off by one more.
LEMMA OneMorePeriod ==
  ASSUME NEW a \in Nat, NEW d \in Nat, NEW p \in Nat, NEW t \in Nat,
         NEW n \in 0..MaxTime + 1, t = a + d + n * p, t <= MaxTime
  PROVE  \E m \in 0..MaxTime + 1 : t + p = a + d + m * p
<1>1. CASE p = 0
  BY <1>1
<1>2. CASE p # 0
  <2>1. n * p <= MaxTime /\ n * p \in Nat
    OBVIOUS
  <2>2. n <= n * p
    BY <1>2
  <2>3. n + 1 \in 0..MaxTime + 1
    BY <2>1, <2>2
  <2>4. (n + 1) * p = n * p + p
    OBVIOUS
  <2>5. QED
    BY <2>1, <2>3, <2>4
<1>3. QED
  BY <1>1, <1>2

LEMMA TimerReturnsOK ==
  ASSUME IInv, TimerReturns
  PROVE  IInv'
<1> DEFINE e == timerQueue_[i]
<1>1. /\ timerQueue_ \in Seq(Entry) /\ i \in DOMAIN timerQueue_ /\ e.at <= currentTimeMs
      /\ clock \in 0..MaxTime /\ currentTimeMs \in 0..clock /\ started \in 0..clock
  BY DEF IInv, Types, QueueTypes, TimerReturns
<1>2. e \in Entry /\ e.at \in Nat /\ e.timer \in AttachedTimerListener
      /\ e.timer.periodMs \in Nat /\ e.timer.initialDelayMs \in Nat
  <2>1. e \in Entry
    BY <1>1
  <2>2. e.at \in Nat /\ e.timer \in AttachedTimerListener
    BY <2>1 DEF Entry
  <2>3. QED
    BY <2>1, <2>2, TimerTypes
<1>3. ListTypes'
  BY DEF IInv, Types, ListTypes, masterfds, attached, TimerReturns, LeaveTimers, PutOff
<1>4. FlagTypes'
  BY DEF IInv, Types, FlagTypes, InLoop, breaking, TimerReturns, LeaveTimers, PutOff
<1>5. CountTypes'
  BY DEF IInv, Types, CountTypes, breaking, counts, TimerReturns
<1>6. CASE break_
  <2>1. place' = "loop" /\ i' = 0 /\ currentTimeMs' = 0
        /\ UNCHANGED <<timerQueue_, started, clock, attached, break_, breaker, begun>>
    BY <1>6 DEF TimerReturns, LeaveTimers, breaking
  <2>2. QueueTypes'
    BY <1>1, <2>1 DEF QueueTypes
  <2>3. QueueOK'
    BY <1>6, <2>1 DEF QueueOK
  <2>4. BreakOK'
    BY <2>1 DEF IInv, BreakOK, TimerReturns
  <2>5. TimesOK'
    BY <2>1 DEF IInv, TimesOK, OnTime
  <2>6. QED
    BY <1>3, <1>4, <1>5, <2>2, <2>3, <2>4, <2>5 DEF IInv, Types
<1>7. CASE ~break_
  <2> DEFINE at == e.at + e.timer.periodMs
             x  == [e EXCEPT !.at = at]
  <2>1. place' = "timers" /\ resort' = TRUE /\ i' = i + 1
        /\ timerQueue_' = [timerQueue_ EXCEPT ![i] = x]
        /\ UNCHANGED <<currentTimeMs, started, clock, attached, break_, breaker, begun>>
    BY <1>7 DEF TimerReturns, PutOff, Period, breaking
  <2>2. x \in Entry /\ x.at = at /\ x.timer = e.timer
    BY <1>2 DEF Entry
  <2> HIDE DEF x
  <2>3. timerQueue_' \in Seq(Entry)
    BY <1>1, <2>1, <2>2, ExceptSeq
  <2>4. QueueTypes'
    BY <1>1, <2>1, <2>3 DEF QueueTypes
  <2>5. QueueOK'
    BY <2>1 DEF QueueOK
  <2>6. BreakOK'
    BY <1>7, <2>1 DEF IInv, BreakOK, Nobody
  <2>7. OnTime(x)
    <3>1. PICK n \in 0..MaxTime + 1 : e.at = started + e.timer.initialDelayMs + n * e.timer.periodMs
      BY <1>1 DEF IInv, TimesOK, OnTime
    <3>2. PICK m \in 0..MaxTime + 1 :
            e.at + e.timer.periodMs = started + e.timer.initialDelayMs + m * e.timer.periodMs
      <4> DEFINE p == e.timer.periodMs
                 d == e.timer.initialDelayMs
                 t == e.at
      <4>1. /\ started \in Nat /\ d \in Nat /\ p \in Nat /\ t \in Nat
            /\ n \in 0..MaxTime + 1 /\ t <= MaxTime /\ t = started + d + n * p
        BY <1>1, <1>2, <3>1
      <4> HIDE DEF p, d, t
      <4>2. \E m \in 0..MaxTime + 1 : t + p = started + d + m * p
        BY <4>1, OneMorePeriod
      <4>3. QED
        BY <4>2 DEF p, d, t
    <3>3. QED
      BY <2>2, <3>2 DEF OnTime
  <2>8. TimesOK'
    <3>1. ASSUME NEW k \in DOMAIN timerQueue_' PROVE OnTime(timerQueue_[k])'
      <4>1. k \in DOMAIN timerQueue_ /\ timerQueue_'[k] = IF k = i THEN x ELSE timerQueue_[k]
        BY <1>1, <2>1
      <4>2. OnTime(timerQueue_'[k])
        BY <2>7, <4>1 DEF IInv, TimesOK
      <4>3. QED
        BY <2>1, <4>2 DEF OnTime
    <3>2. QED
      BY <3>1 DEF TimesOK
  <2>9. QED
    BY <1>3, <1>4, <1>5, <2>4, <2>5, <2>6, <2>8 DEF IInv, Types
<1>8. QED
  BY <1>6, <1>7

LEMMA TimersDoneOK ==
  ASSUME IInv, TimersDone
  PROVE  IInv'
<1>1. place = "timers" /\ place' = "loop" /\ i' = 0 /\ currentTimeMs' = 0 /\ resort' = FALSE
      /\ UNCHANGED <<attached, started, tempfds, breaking, begun, inbox, clock, counts>>
  BY DEF TimersDone, LeaveTimers
<1>2. timerQueue_ \in Seq(Entry)
  BY DEF IInv, Types, QueueTypes
<1>3. /\ timerQueue_' \in Seq(Entry) /\ Ordered(timerQueue_')
      /\ \A k \in DOMAIN timerQueue_' : \E j \in DOMAIN timerQueue_ : timerQueue_'[k] = timerQueue_[j]
  <2>1. CASE resort
    <3>1. timerQueue_' \in Sorted(timerQueue_)
      BY <2>1 DEF TimersDone
    <3>2. QED
      BY <1>2, <3>1, SortedProperties
  <2>2. CASE ~resort
    <3>1. timerQueue_' = timerQueue_
      BY <2>2 DEF TimersDone
    <3>2. Ordered(timerQueue_)
      BY <1>1, <2>2 DEF IInv, QueueOK
    <3>3. QED
      BY <1>2, <3>1, <3>2
  <2>3. QED
    BY <2>1, <2>2
<1>4. ListTypes'
  BY <1>1 DEF IInv, Types, ListTypes, masterfds, attached
<1>5. QueueTypes'
  BY <1>1, <1>3 DEF IInv, Types, QueueTypes
<1>6. FlagTypes'
  BY <1>1 DEF IInv, Types, FlagTypes, InLoop, breaking
<1>7. CountTypes'
  BY <1>1 DEF IInv, Types, CountTypes, breaking, counts
<1>8. QueueOK'
  BY <1>3 DEF QueueOK, Ordered
<1>9. BreakOK'
  BY <1>1 DEF IInv, BreakOK, breaking
<1>10. TimesOK'
  BY <1>1, <1>3 DEF IInv, TimesOK, OnTime
<1>11. QED
  BY <1>4, <1>5, <1>6, <1>7, <1>8, <1>9, <1>10 DEF IInv, Types

-----------------------------------------------------------------------------
LEMMA NextOK == IInv /\ [Next]_vars => IInv'
<1> SUFFICES ASSUME IInv, [Next]_vars PROVE IInv'
  OBVIOUS
<1>1. CASE RunSteps
  BY <1>1, RunBeginsOK, LoopOK, SelectOK, DrainOK, TestBreakOK, SkipSocketOK, ReceiveFromOK,
     PacketProcessedOK, ExpireTimersOK, TimerExpiredOK, TimerReturnsOK, TimersDoneOK DEF RunSteps
<1>2. CASE \/ \E s \in Sockets : AttachSocketListener(s)
           \/ \E k \in DOMAIN socketListeners_ : DetachSocketListener(k)
           \/ \E t \in AttachedTimerListener : AttachPeriodicTimerListener(t)
           \/ \E k \in DOMAIN timerListeners_ : DetachPeriodicTimerListener(k)
  BY <1>2, ConfigurationOK
<1>3. CASE \/ Break \/ BreakFlag \/ BreakSignal \/ InterruptSignalHandler \/ SelectInterrupted
           \/ Tick
  BY <1>3, BreakCallOK, BreakFlagOK, BreakSignalOK, SigIntOK, SelectInterruptedOK, TickOK
<1>4. CASE \/ \E s \in Sockets : Arrive(s)
           \/ \E untilSigInt \in BOOLEAN : RunCalled(untilSigInt)
  BY <1>4, ArriveOK, RunCalledOK
<1>5. CASE UNCHANGED vars
  <2>1. UNCHANGED <<attached, place, queue, i, tempfds, breaking, begun, inbox, clock, counts>>
    BY <1>5 DEF vars
  <2>2. ListTypes' /\ QueueTypes'
    BY <2>1 DEF IInv, Types, ListTypes, QueueTypes, masterfds, attached, queue
  <2>3. FlagTypes' /\ CountTypes' /\ BreakOK'
    BY <2>1 DEF IInv, Types, FlagTypes, CountTypes, BreakOK, queue, breaking, counts
  <2>4. QueueOK' /\ TimesOK'
    BY <2>1 DEF IInv, QueueOK, TimesOK, OnTime, queue, breaking
  <2>5. QED
    BY <2>2, <2>3, <2>4 DEF IInv, Types
<1>6. QED
  BY <1>1, <1>2, <1>3, <1>4, <1>5 DEF Next

THEOREM Invariant == Spec => []IInv
<1>1. QED
  BY InitOK, NextOK, PTL DEF Spec

\* Type correctness; the iterators of the loops over sockets and timers stay in their
\* vectors (UdpSocket.cpp:442-470).
THEOREM TypeCorrect == Spec => []TypeOK
<1>1. IInv => TypeOK
  BY TypesImplyTypeOK DEF IInv
<1>2. QED
  BY <1>1, Invariant, PTL

\* The first entry of the queue is the first timer that is due, whenever select() takes
\* its timeout from it (UdpSocket.cpp:417-429).
THEOREM FirstTimerFirst == Spec => []SelectWakesForTheFirstTimer
<1>1. IInv => SelectWakesForTheFirstTimer
  BY DEF IInv, QueueOK, SelectWakesForTheFirstTimer
<1>2. QED
  BY <1>1, Invariant, PTL

\* No timer drifts, however late its calls are (UdpSocket.cpp:402-406, 456-470).
THEOREM TimesKept == Spec => []TimersKeepTheirTimes
<1>1. IInv => TimersKeepTheirTimes
  BY DEF IInv, TimesOK, OnTime, TimersKeepTheirTimes
<1>2. QED
  BY <1>1, Invariant, PTL

\* At most two more listener calls after a break from outside, one after Break by a
\* packet listener, none after Break by a timer (UdpSocket.cpp:414-474).
THEOREM BreaksArePrompt == Spec => []BreakIsPrompt
<1>1. IInv => BreakIsPrompt
  <2> SUFFICES ASSUME BreakOK PROVE BreakIsPrompt
    BY DEF IInv
  <2>1. CASE breaker = "timer"
    BY <2>1 DEF BreakOK, BreakIsPrompt
  <2>2. CASE breaker = "packet"
    BY <2>2 DEF BreakOK, BreakIsPrompt
  <2>3. CASE breaker # "timer" /\ breaker # "packet"
    BY <2>3 DEF BreakOK, BreakIsPrompt
  <2>4. QED
    BY <2>1, <2>2, <2>3
<1>2. QED
  BY <1>1, Invariant, PTL
=============================================================================
