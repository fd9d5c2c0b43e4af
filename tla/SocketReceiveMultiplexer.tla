---------------------- MODULE SocketReceiveMultiplexer ----------------------
(***************************************************************************)
(* SocketReceiveMultiplexer (ip/posix/UdpSocket.cpp) with any number of    *)
(* sockets and periodic timers: the loop of Run, which waits in select()   *)
(* for the sockets, the next timer and the pipe that AsynchronousBreak     *)
(* writes to, then calls the packet listeners and the timers that are due. *)
(*                                                                         *)
(* Listeners are attached and detached between two calls of Run only, as   *)
(* UdpSocket.h asks for.  While Run is running, datagrams arrive, time     *)
(* passes, listeners call Break, other threads AsynchronousBreak, and      *)
(* signals interrupt select().  Time does not go backwards.                *)
(* OscListener is the use that the product makes of it: one socket, no     *)
(* timer, one Run.                                                         *)
(***************************************************************************)
EXTENDS Naturals, Sequences, SequencesExt

CONSTANTS
  Sockets,        (* each with its packet listener                          *)
  TimerListeners,
  Delays, Periods,   (* milliseconds with which timers are attached         *)
  MaxTimers,      (* bound: timers attached at a time                       *)
  MaxRuns,        (* bound: calls of Run and RunUntilSigInt                 *)
  MaxTime,        (* bound: milliseconds                                    *)
  MaxDatagrams,   (* bound: datagrams that arrive                           *)
  MaxBreaks,      (* bound: calls of AsynchronousBreak                      *)
  MaxInterrupts   (* bound: signals other than SIGINT                       *)

ASSUME ConstantsAssumption ==
  /\ "pipe" \notin Sockets
  /\ Delays \subseteq Nat
  /\ Periods \subseteq Nat
  /\ {MaxTimers, MaxRuns, MaxTime, MaxDatagrams, MaxBreaks, MaxInterrupts} \subseteq Nat

AttachedTimerListener ==
  [initialDelayMs : Delays, periodMs : Periods, listener : TimerListeners]

InLoop   == {"loop", "select", "drain", "test", "sockets", "packet", "expire", "timers", "timer"}
InCall   == {"packet", "timer"}
Nobody   == "nobody"

VARIABLES
  socketListeners_, timerListeners_,
  place,            \* where Run is: "idle", "entry", or in its loop
  timerQueue_,      \* records of at, the time of the next call, and timer
  i,                \* the iterator of the loop over sockets or timers, 0 outside
  currentTimeMs, resort,   \* both reset when the loop over the timers ends
  tempfds,          \* reset when the loop over the sockets ends
  break_, breakPipe,
  waker,            \* is a thread between the two halves of AsynchronousBreak?
  sigint,           \* is SIGINT handled by InterruptSignalHandler?
  inbox,            \* datagrams in the kernel buffer of every socket
  clock,
  started,          \* history: time at which Run built its queue
  breaker,          \* history: place from which break_ was set, "outside" or Nobody
  begun,            \* history: listener calls begun since
  runs, arrivals, breaks, interrupts

attached == <<socketListeners_, timerListeners_>>
queue    == <<timerQueue_, currentTimeMs, resort, started>>
breaking == <<break_, breakPipe, waker, sigint, breaker>>
counts   == <<runs, arrivals, breaks, interrupts>>
vars     == <<attached, place, queue, i, tempfds, breaking, begun, inbox, clock, counts>>

Init ==
  /\ socketListeners_ = <<>>
  /\ timerListeners_ = <<>>
  /\ place = "idle"
  /\ timerQueue_ = <<>>
  /\ i = 0
  /\ currentTimeMs = 0
  /\ resort = FALSE
  /\ tempfds = {}
  /\ break_ = FALSE
  /\ breakPipe = 0
  /\ waker = FALSE
  /\ sigint = FALSE
  /\ inbox = [s \in Sockets |-> 0]
  /\ clock = 0
  /\ started = 0
  /\ breaker = Nobody
  /\ begun = 0
  /\ runs = 0
  /\ arrivals = 0
  /\ breaks = 0
  /\ interrupts = 0

-----------------------------------------------------------------------------
(* Configuration, between two runs                                         *)

Reconfigure ==
  /\ place = "idle"
  /\ runs < MaxRuns
  /\ UNCHANGED <<place, queue, i, tempfds, breaking, begun, inbox, clock, counts>>

AttachSocketListener(s) ==
  /\ Reconfigure
  /\ s \notin Range(socketListeners_)
  /\ socketListeners_' = Append(socketListeners_, s)
  /\ UNCHANGED timerListeners_

DetachSocketListener(k) ==
  /\ Reconfigure
  /\ socketListeners_' = RemoveAt(socketListeners_, k)
  /\ UNCHANGED timerListeners_

AttachPeriodicTimerListener(t) ==
  /\ Reconfigure
  /\ Len(timerListeners_) < MaxTimers
  /\ timerListeners_' = Append(timerListeners_, t)
  /\ UNCHANGED socketListeners_

\* The first entry of the listener is erased.
DetachPeriodicTimerListener(k) ==
  /\ Reconfigure
  /\ \A j \in 1..k - 1 : timerListeners_[j].listener # timerListeners_[k].listener
  /\ timerListeners_' = RemoveAt(timerListeners_, k)
  /\ UNCHANGED socketListeners_

-----------------------------------------------------------------------------
(* Run                                                                     *)

Goto(from, to) == place = from /\ place' = to

Ordered(q) == \A j, k \in DOMAIN q : j < k => q[j].at <= q[k].at

\* The outcomes of std::sort, which may swap entries of the same time.
Sorted(q) ==
  {p \in {[k \in DOMAIN q |-> q[f[k]]] : f \in Bijection(DOMAIN q, DOMAIN q)} : Ordered(p)}

\* Run and RunUntilSigInt are called; the latter installs its handler.
RunCalled(untilSigInt) ==
  /\ Goto("idle", "entry")
  /\ runs < MaxRuns
  /\ runs' = runs + 1
  /\ sigint' = untilSigInt
  /\ UNCHANGED <<attached, queue, i, tempfds, break_, breakPipe, waker, breaker, begun, inbox,
                 clock, arrivals, breaks, interrupts>>

\* break_ = false, and the queue of the timers.
RunBegins ==
  /\ Goto("entry", "loop")
  /\ break_' = FALSE
  /\ breaker' = Nobody
  /\ begun' = 0
  /\ started' = clock
  /\ timerQueue_' \in Sorted([k \in DOMAIN timerListeners_ |->
       [at |-> clock + timerListeners_[k].initialDelayMs, timer |-> timerListeners_[k]]])
  /\ UNCHANGED <<attached, i, currentTimeMs, resort, tempfds, breakPipe, waker, sigint, inbox,
                 clock, counts>>

\* Run returns, and RunUntilSigInt restores the default action.
Return ==
  /\ place' = "idle"
  /\ sigint' = FALSE
  /\ timerQueue_' = <<>>
  /\ started' = 0
  /\ tempfds' = {}

\* while( !break_ )
Loop ==
  /\ place = "loop"
  /\ IF break_ THEN Return
     ELSE place' = "select" /\ UNCHANGED <<sigint, timerQueue_, started, tempfds>>
  /\ UNCHANGED <<attached, currentTimeMs, resort, i, break_, breakPipe, waker, breaker,
                 begun, inbox, clock, counts>>

masterfds == {"pipe"} \cup Range(socketListeners_)
Readable  == {f \in masterfds : IF f = "pipe" THEN breakPipe > 0 ELSE inbox[f] > 0}

\* The timeout of select(): the time of the first timer of the queue.
TimedOut == timerQueue_ # <<>> /\ Head(timerQueue_).at <= clock

Select ==
  /\ Goto("select", "drain")
  /\ Readable # {} \/ TimedOut
  /\ tempfds' = Readable
  /\ UNCHANGED <<attached, queue, i, breaking, begun, inbox, clock, counts>>

\* A signal: select() fails with EINTR and leaves its sets as they were.
SelectInterrupted ==
  /\ interrupts < MaxInterrupts
  /\ interrupts' = interrupts + 1
  /\ Goto("select", "drain")
  /\ tempfds' = masterfds
  /\ UNCHANGED <<attached, queue, i, breaking, begun, inbox, clock, runs, arrivals, breaks>>

\* Faulty variant: the byte is taken for read without looking at the pipe.
DrainUnchecked ==
  /\ Goto("drain", "test")
  /\ breakPipe' = IF breakPipe = 0 THEN 255 ELSE breakPipe - 1
  /\ UNCHANGED <<attached, queue, i, tempfds, break_, waker, sigint, breaker, begun, inbox,
                 clock, counts>>

\* The pipe is read if it looks readable; the read blocks while it is empty.
Drain ==
  /\ Goto("drain", "test")
  /\ IF "pipe" \in tempfds THEN breakPipe > 0 /\ breakPipe' = breakPipe - 1
                           ELSE UNCHANGED breakPipe
  /\ UNCHANGED <<attached, queue, i, tempfds, break_, waker, sigint, breaker, begun, inbox,
                 clock, counts>>

TestBreak ==
  /\ place = "test"
  /\ IF break_ THEN Return /\ UNCHANGED i
     ELSE place' = "sockets" /\ i' = 1 /\ UNCHANGED <<sigint, timerQueue_, started, tempfds>>
  /\ UNCHANGED <<attached, currentTimeMs, resort, break_, breakPipe, waker, breaker,
                 begun, inbox, clock, counts>>

Count(called) == begun' = IF break_ /\ called THEN begun + 1 ELSE begun

SocketsDone ==
  /\ place' = "expire"
  /\ i' = 0
  /\ tempfds' = {}

SkipSocket ==
  /\ place = "sockets"
  /\ IF i > Len(socketListeners_)
     THEN SocketsDone
     ELSE /\ socketListeners_[i] \notin tempfds
          /\ i' = i + 1
          /\ UNCHANGED <<place, tempfds>>
  /\ UNCHANGED <<attached, queue, breaking, begun, inbox, clock, counts>>

\* ReceiveFrom, which blocks while there is no datagram, and ProcessPacket unless the
\* datagram is empty.
ReceiveFrom ==
  /\ place = "sockets"
  /\ i <= Len(socketListeners_)
  /\ LET s == socketListeners_[i]
     IN  /\ s \in tempfds
         /\ inbox[s] > 0
         /\ inbox' = [inbox EXCEPT ![s] = @ - 1]
  /\ \/ place' = "packet" /\ Count(TRUE) /\ UNCHANGED i
     \/ i' = i + 1 /\ UNCHANGED <<place, begun>>
  /\ UNCHANGED <<attached, queue, tempfds, breaking, clock, counts>>

PacketProcessed ==
  /\ place = "packet"
  /\ IF break_ THEN SocketsDone
     ELSE place' = "sockets" /\ i' = i + 1 /\ UNCHANGED tempfds
  /\ UNCHANGED <<attached, queue, breaking, begun, inbox, clock, counts>>

\* The clock is read for the timers.
ExpireTimers ==
  /\ Goto("expire", "timers")
  /\ currentTimeMs' = clock
  /\ resort' = FALSE
  /\ i' = 1
  /\ UNCHANGED <<attached, timerQueue_, started, tempfds, breaking, begun, inbox, clock, counts>>

TimerDue == i <= Len(timerQueue_) /\ timerQueue_[i].at <= currentTimeMs

TimerExpired ==
  /\ Goto("timers", "timer")
  /\ TimerDue
  /\ Count(TRUE)
  /\ UNCHANGED <<attached, queue, i, tempfds, breaking, inbox, clock, counts>>

LeaveTimers ==
  /\ place' = "loop"
  /\ i' = 0
  /\ currentTimeMs' = 0
  /\ resort' = FALSE

\* TimerExpired has returned: the entry is put off, and the loop goes on.
PutOff(at) ==
  /\ place' = "timers"
  /\ timerQueue_' = [timerQueue_ EXCEPT ![i].at = at]
  /\ resort' = TRUE
  /\ i' = i + 1
  /\ UNCHANGED currentTimeMs

Period == timerQueue_[i].timer.periodMs

\* Faulty variant: the next call is a period after this one, however late it was.
TimerReturnsLate ==
  /\ place = "timer"
  /\ IF break_ THEN LeaveTimers /\ UNCHANGED timerQueue_ ELSE PutOff(clock + Period)
  /\ UNCHANGED <<attached, started, tempfds, breaking, begun, inbox, clock, counts>>

\* Faulty variant: break_ is not looked at.
TimerReturnsUntested ==
  /\ place = "timer"
  /\ PutOff(timerQueue_[i].at + Period)
  /\ UNCHANGED <<attached, started, tempfds, breaking, begun, inbox, clock, counts>>

\* After a break the queue is not needed any more.
TimerReturns ==
  /\ place = "timer"
  /\ IF break_ THEN LeaveTimers /\ UNCHANGED timerQueue_ ELSE PutOff(timerQueue_[i].at + Period)
  /\ UNCHANGED <<attached, started, tempfds, breaking, begun, inbox, clock, counts>>

\* Faulty variant: the queue is left as it is.
TimersDoneUnsorted ==
  /\ place = "timers"
  /\ ~TimerDue
  /\ LeaveTimers
  /\ UNCHANGED <<attached, timerQueue_, started, tempfds, breaking, begun, inbox, clock, counts>>

TimersDone ==
  /\ place = "timers"
  /\ ~TimerDue
  /\ timerQueue_' \in IF resort THEN Sorted(timerQueue_) ELSE {timerQueue_}
  /\ LeaveTimers
  /\ UNCHANGED <<attached, started, tempfds, breaking, begun, inbox, clock, counts>>

-----------------------------------------------------------------------------
(* Breaks, signals, the network and time.  What happens between two runs   *)
(* has the effect of what happens when Run has just been called.           *)

BetweenRuns == place = "idle"

SetBreak(from) ==
  /\ break_' = TRUE
  /\ breaker' = IF break_ THEN breaker ELSE from
  /\ begun' = IF break_ THEN begun ELSE 0

\* Break, called by a listener.
Break ==
  /\ place \in InCall
  /\ SetBreak(place)
  /\ UNCHANGED <<attached, place, queue, i, tempfds, breakPipe, waker, sigint, inbox, clock,
                 counts>>

\* AsynchronousBreak, called by another thread: the flag, and the byte.
BreakFlag ==
  /\ ~BetweenRuns
  /\ ~waker
  /\ breaks < MaxBreaks
  /\ breaks' = breaks + 1
  /\ waker' = TRUE
  /\ SetBreak("outside")
  /\ UNCHANGED <<attached, place, queue, i, tempfds, breakPipe, sigint, inbox, clock, runs,
                 arrivals, interrupts>>

\* Faulty variant: select() is not woken.
BreakSignalMissing ==
  /\ waker
  /\ waker' = FALSE
  /\ UNCHANGED <<attached, place, queue, i, tempfds, break_, breakPipe, sigint, breaker, begun,
                 inbox, clock, counts>>

BreakSignal ==
  /\ waker
  /\ waker' = FALSE
  /\ breakPipe' = breakPipe + 1
  /\ UNCHANGED <<attached, place, queue, i, tempfds, break_, sigint, breaker, begun, inbox,
                 clock, counts>>

\* InterruptSignalHandler: AsynchronousBreak, and the default action again.  On the
\* thread of Run it interrupts select().
InterruptSignalHandler ==
  /\ sigint
  /\ sigint' = FALSE
  /\ SetBreak("outside")
  /\ breakPipe' = breakPipe + 1
  /\ \/ UNCHANGED <<place, tempfds>>
     \/ Goto("select", "drain") /\ tempfds' = masterfds
  /\ UNCHANGED <<attached, queue, i, waker, inbox, clock, counts>>

Arrive(s) ==
  /\ ~BetweenRuns
  /\ arrivals < MaxDatagrams
  /\ arrivals' = arrivals + 1
  /\ inbox' = [inbox EXCEPT ![s] = @ + 1]
  /\ UNCHANGED <<attached, place, queue, i, tempfds, breaking, begun, clock, runs, breaks,
                 interrupts>>

\* Time passes while Run waits and while a listener works.
Tick ==
  /\ place \in {"entry", "select"} \cup InCall
  /\ clock < MaxTime
  /\ clock' = clock + 1
  /\ UNCHANGED <<attached, place, queue, i, tempfds, breaking, begun, inbox, counts>>

-----------------------------------------------------------------------------
RunSteps ==
  \/ RunBegins \/ Loop \/ Select \/ Drain \/ TestBreak
  \/ SkipSocket \/ ReceiveFrom \/ PacketProcessed
  \/ ExpireTimers \/ TimerExpired \/ TimerReturns \/ TimersDone

Next ==
  \/ \E s \in Sockets : AttachSocketListener(s) \/ Arrive(s)
  \/ \E k \in DOMAIN socketListeners_ : DetachSocketListener(k)
  \/ \E t \in AttachedTimerListener : AttachPeriodicTimerListener(t)
  \/ \E k \in DOMAIN timerListeners_ : DetachPeriodicTimerListener(k)
  \/ \E untilSigInt \in BOOLEAN : RunCalled(untilSigInt)
  \/ RunSteps
  \/ Break \/ BreakFlag \/ BreakSignal
  \/ InterruptSignalHandler \/ SelectInterrupted
  \/ Tick

Spec == Init /\ [][Next]_vars

\* Run and its listeners go on, AsynchronousBreak comes to its end, and time passes.
FairSpec == Spec /\ WF_vars(RunSteps) /\ WF_vars(BreakSignal) /\ WF_vars(Tick)

-----------------------------------------------------------------------------
(* Properties                                                              *)

\* Type invariant; the iterators stay in the vectors they walk through, which nobody
\* changes under them.
TypeOK ==
  /\ socketListeners_ \in Seq(Sockets)
  /\ timerListeners_ \in Seq(AttachedTimerListener)
  /\ place \in InLoop \cup {"idle", "entry"}
  /\ timerQueue_ \in Seq([at : Nat, timer : AttachedTimerListener])
  /\ i \in Nat
  /\ currentTimeMs \in 0..clock
  /\ resort \in BOOLEAN
  /\ tempfds \subseteq masterfds
  /\ break_ \in BOOLEAN
  /\ breakPipe \in 0..MaxBreaks + MaxRuns
  /\ waker \in BOOLEAN
  /\ sigint \in BOOLEAN
  /\ inbox \in [Sockets -> Nat]
  /\ clock \in 0..MaxTime
  /\ started \in 0..clock
  /\ breaker \in InCall \cup {"outside", Nobody}
  /\ begun \in Nat
  /\ runs \in 0..MaxRuns
  /\ arrivals \in 0..MaxDatagrams
  /\ breaks \in 0..MaxBreaks
  /\ interrupts \in 0..MaxInterrupts
  /\ place = "packet" => i \in DOMAIN socketListeners_
  /\ place = "timer" => i \in DOMAIN timerQueue_

\* select() waits for the timer that is due first (UdpSocket.cpp:417-429), although
\* the loop over the timers puts entries off in place, and some of them only, before
\* the queue is sorted again.
SelectWakesForTheFirstTimer == place = "select" => Ordered(timerQueue_)

\* A timer is called at its initial delay and then at whole periods after it: a call
\* that comes late, behind a slow listener, moves none of the later ones
\* (UdpSocket.cpp:402-406, 456-470).
TimersKeepTheirTimes ==
  \A k \in DOMAIN timerQueue_ :
    LET t == timerQueue_[k].timer
    IN  \E n \in 0..MaxTime + 1 :
          timerQueue_[k].at = started + t.initialDelayMs + n * t.periodMs

\* How soon Run is left after a break.  A listener that calls Break is the last one if
\* it is a timer; after a packet listener one timer that is due may still be called,
\* because the loop over the timers tests break_ after the call (UdpSocket.cpp:450-464);
\* after a break from outside, one listener of each kind.
BreakIsPrompt ==
  begun <= CASE breaker = "timer"  -> 0
             [] breaker = "packet" -> 1
             [] OTHER              -> 2

\* Nothing is left to be done: no break, no datagram, no timer that is due.
CaughtUp ==
  /\ ~break_
  /\ \A s \in Range(socketListeners_) : inbox[s] = 0
  /\ \A k \in DOMAIN timerQueue_ :
       timerQueue_[k].timer.periodMs > 0 => timerQueue_[k].at > clock

\* No signal but SIGINT has interrupted select(): after one Run may read the empty pipe,
\* and stays there.
Undisturbed == interrupts = 0

\* Run serves all that it is asked for (UdpSocket.cpp:414-471): it never sleeps while a
\* break, a datagram or a timer waits for it, wherever the break came from, and timers
\* that are always due starve neither the sockets nor each other.
RunServesAll ==
  (place \in InLoop /\ Undisturbed) ~> (place = "idle" \/ CaughtUp \/ ~Undisturbed)
=============================================================================
