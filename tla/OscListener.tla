----------------------------- MODULE OscListener ----------------------------
(***************************************************************************)
(* osc::OscListener (OscListener.cpp) on top of UdpListeningReceiveSocket  *)
(* and SocketReceiveMultiplexer (ip/posix/UdpSocket.cpp).  setup() opens a *)
(* socket and spawns a thread that stays in SocketReceiveMultiplexer::Run; *)
(* shutdown() breaks it out, waits for it and deletes the socket.  The     *)
(* thread hands every message over, under mMutex, either to the registered *)
(* callback or to the queue that the application polls.                    *)
(*                                                                         *)
(* The application is one thread.  Messages are numbered in the order in   *)
(* which the listener thread takes them out of the socket.                 *)
(***************************************************************************)
EXTENDS Naturals, Sequences, FiniteSets, Functions

CONSTANTS
  MaxSetups,      (* bound: sockets opened                                  *)
  MaxDatagrams,   (* bound: datagrams that arrive                           *)
  MaxMessages     (* bound: messages in the bundle of one datagram          *)

ASSUME ConstantsAssumption ==
  /\ MaxSetups \in Nat
  /\ MaxDatagrams \in Nat
  /\ MaxMessages \in Nat \ {0}

\* A datagram is the number of its messages, or too long for the 4098 bytes that
\* Run reads: OscSender sends up to 32768, and what is left cannot be parsed.  A bundle
\* whose sizes are misread (see MessageUnreadable) may end like one that is too long.
TooLong   == 0
Datagrams == {TooLong} \cup 1..MaxMessages

AppPlaces == {"idle", "bind", "break", "signal", "wait", "join", "dead"}
InRun     == {"started", "loop", "select", "drain", "test", "receive", "message", "callback"}
ThreadPlaces == InRun \cup {"none", "returned", "exited", "dead"}

VARIABLES
  app,                 \* where the application thread is
  again,               \* it is in a shutdown() that setup() called
  thread,              \* where the listener thread is
  listening,           \* mListen_socket # NULL
  mSocketHasShutdown,
  break_,
  breakPipe,           \* bytes in the pipe
  tempfds,             \* which of "pipe" and "socket" select() left set
  inbox,               \* datagrams in the socket's kernel buffer
  left,                \* messages left in the packet being processed
  mMessages,
  mCallbackFn,         \* is a callback registered?
  setups, arrivals,    \* how many of each so far
  processed,           \* number of messages handed over
  polled, called       \* history: messages handed to the application by
                       \* getNextMessage and by the callback

mux     == <<break_, breakPipe, tempfds>>
handed  == <<mMessages, polled, called, processed>>
counts  == <<setups, arrivals>>
vars    == <<app, again, thread, listening, mSocketHasShutdown, mux, inbox, left,
             mCallbackFn, counts, handed>>

Init ==
  /\ app = "idle"
  /\ again = FALSE
  /\ thread = "none"
  /\ listening = FALSE
  /\ mSocketHasShutdown = FALSE
  /\ break_ = FALSE
  /\ breakPipe = 0
  /\ tempfds = {}
  /\ inbox = <<>>
  /\ left = 0
  /\ mMessages = <<>>
  /\ mCallbackFn = FALSE
  /\ setups = 0
  /\ arrivals = 0
  /\ processed = 0
  /\ polled = <<>>
  /\ called = <<>>

-----------------------------------------------------------------------------
(* The application: setup, shutdown and polling                            *)

AppGoto(from, to) == app = from /\ app' = to

\* setup() and shutdown() on a listener that has a socket.
ShutdownBegins(forSetup) ==
  /\ listening
  /\ AppGoto("idle", "break")
  /\ again' = forSetup
  /\ UNCHANGED <<thread, listening, mSocketHasShutdown, mux, inbox, left,
                 mCallbackFn, counts, handed>>

\* setup() without a socket.
SetupBegins ==
  /\ ~listening
  /\ setups < MaxSetups
  /\ AppGoto("idle", "bind")
  /\ UNCHANGED <<again, thread, listening, mSocketHasShutdown, mux, inbox, left,
                 mCallbackFn, counts, handed>>

\* A new socket with its own multiplexer, and the thread that will Run it.
Bind ==
  /\ setups < MaxSetups
  /\ AppGoto("bind", "idle")
  /\ again' = FALSE
  /\ mSocketHasShutdown' = FALSE
  /\ listening' = TRUE
  /\ break_' = FALSE
  /\ breakPipe' = 0
  /\ tempfds' = {}
  /\ inbox' = <<>>
  /\ left' = 0
  /\ thread' = "started"
  /\ setups' = setups + 1
  /\ UNCHANGED <<mCallbackFn, arrivals, handed>>

\* The constructor of the socket throws: the port is taken.
BindFails ==
  /\ AppGoto("bind", "idle")
  /\ again' = FALSE
  /\ mSocketHasShutdown' = FALSE
  /\ UNCHANGED <<thread, listening, mux, inbox, left, mCallbackFn, counts, handed>>

\* AsynchronousBreak, first half: break_ = true.
BreakFlag ==
  /\ AppGoto("break", "signal")
  /\ break_' = TRUE
  /\ UNCHANGED <<again, thread, listening, mSocketHasShutdown, breakPipe, tempfds, inbox,
                 left, mCallbackFn, counts, handed>>

\* Faulty variant: select() is not woken.
BreakSignalMissing ==
  /\ AppGoto("signal", "wait")
  /\ UNCHANGED <<again, thread, listening, mSocketHasShutdown, mux, inbox, left,
                 mCallbackFn, counts, handed>>

\* AsynchronousBreak, second half: the byte that makes select() return.
BreakSignal ==
  /\ AppGoto("signal", "wait")
  /\ breakPipe' = breakPipe + 1
  /\ UNCHANGED <<again, thread, listening, mSocketHasShutdown, break_, tempfds, inbox, left,
                 mCallbackFn, counts, handed>>

\* delete mListen_socket; setup() goes on to open the next one.
Delete ==
  /\ listening' = FALSE
  /\ inbox' = <<>>
  /\ app' = IF again THEN "bind" ELSE "idle"
  /\ UNCHANGED <<again, thread, mSocketHasShutdown, mux, left, mCallbackFn, 
                 counts, handed>>

\* Faulty variant: neither the flag nor the thread is waited for.
AwaitNothing == app = "wait" /\ Delete

\* The loop that sleeps until mSocketHasShutdown.
AwaitShutdown ==
  /\ mSocketHasShutdown
  /\ AppGoto("wait", "join")
  /\ UNCHANGED <<again, thread, listening, mSocketHasShutdown, mux, inbox, left,
                 mCallbackFn, counts, handed>>

\* mThread->join(), then the socket is deleted.
JoinAndDelete ==
  /\ app = "join"
  /\ thread = "exited"
  /\ Delete

\* The thread holds mMutex while it runs the callback.
MutexIsFree == thread # "callback"

\* Faulty variant: the newest message is taken.
GetNewestMessage ==
  /\ app = "idle"
  /\ MutexIsFree
  /\ mMessages # <<>>
  /\ polled' = Append(polled, mMessages[Len(mMessages)])
  /\ mMessages' = SubSeq(mMessages, 1, Len(mMessages) - 1)
  /\ UNCHANGED <<app, again, thread, listening, mSocketHasShutdown, mux, inbox, left,
                 mCallbackFn, counts, processed, called>>

GetNextMessage ==
  /\ app = "idle"
  /\ MutexIsFree
  /\ mMessages # <<>>
  /\ polled' = Append(polled, Head(mMessages))
  /\ mMessages' = Tail(mMessages)
  /\ UNCHANGED <<app, again, thread, listening, mSocketHasShutdown, mux, inbox, left,
                 mCallbackFn, counts, processed, called>>

\* The process is terminated, with both threads.
Terminate == app' = "dead" /\ thread' = "dead"

\* setMessageReceivedCb assigns without the lock: a callback replaced while it is
\* being called may take the process down.  FALSE: an empty function is assigned.
SetMessageReceivedCb(registered) ==
  /\ app = "idle"
  /\ mCallbackFn' = registered
  /\ \/ UNCHANGED <<app, thread>>
     \/ thread = "callback" /\ Terminate
  /\ UNCHANGED <<again, listening, mSocketHasShutdown, mux, inbox, left,
                 counts, handed>>

-----------------------------------------------------------------------------
(* The listener thread: threadSocket, Run, ProcessMessage                  *)

ThreadGoto(from, to) == thread = from /\ thread' = to

untouched == <<app, again, listening, counts>>

\* Run begins: break_ = false, whatever has been asked for before.
RunBegins ==
  /\ ThreadGoto("started", "loop")
  /\ break_' = FALSE
  /\ UNCHANGED <<untouched, mSocketHasShutdown, breakPipe, tempfds, inbox, left,
                 mCallbackFn, handed>>

\* while( !break_ )
Loop ==
  /\ ThreadGoto("loop", IF break_ THEN "returned" ELSE "select")
  /\ UNCHANGED <<untouched, mSocketHasShutdown, mux, inbox, left, mCallbackFn, handed>>

\* select() returns once the pipe or the socket is readable.  There is no timer.
Select ==
  /\ ThreadGoto("select", "drain")
  /\ breakPipe > 0 \/ inbox # <<>>
  /\ tempfds' = {f \in {"pipe", "socket"} : IF f = "pipe" THEN breakPipe > 0 ELSE inbox # <<>>}
  /\ UNCHANGED <<untouched, mSocketHasShutdown, break_, breakPipe, inbox, left,
                 mCallbackFn, handed>>

\* select() fails with EINTR and leaves both descriptors set: the loop goes on.
SelectInterrupted ==
  /\ ThreadGoto("select", "drain")
  /\ tempfds' = {"pipe", "socket"}
  /\ UNCHANGED <<untouched, mSocketHasShutdown, break_, breakPipe, inbox, left,
                 mCallbackFn, handed>>

\* Faulty variant: the byte is taken for read without looking at the pipe.
DrainUnchecked ==
  /\ ThreadGoto("drain", "test")
  /\ breakPipe' = IF breakPipe = 0 THEN 255 ELSE breakPipe - 1
  /\ UNCHANGED <<untouched, mSocketHasShutdown, break_, tempfds, inbox, left,
                 mCallbackFn, handed>>

\* The byte is read from the pipe; the read blocks while there is none.
Drain ==
  /\ ThreadGoto("drain", "test")
  /\ \/ "pipe" \notin tempfds /\ breakPipe' = breakPipe
     \/ "pipe" \in tempfds /\ breakPipe > 0 /\ breakPipe' = breakPipe - 1
  /\ UNCHANGED <<untouched, mSocketHasShutdown, break_, tempfds, inbox, left,
                 mCallbackFn, handed>>

\* if( break_ ) break, then FD_ISSET of the socket.
TestBreak ==
  /\ ThreadGoto("test", IF break_ THEN "returned"
                        ELSE IF "socket" \in tempfds THEN "receive" ELSE "loop")
  /\ UNCHANGED <<untouched, mSocketHasShutdown, mux, inbox, left, mCallbackFn, handed>>

\* ReceiveFrom and ProcessPacket.  The exception for a packet that was cut off
\* leaves the thread: the process is terminated.
Receive ==
  /\ thread = "receive"
  /\ inbox # <<>>
  /\ inbox' = Tail(inbox)
  /\ \/ /\ Head(inbox) = TooLong
        /\ Terminate
        /\ UNCHANGED left
     \/ /\ Head(inbox) # TooLong
        /\ left' = Head(inbox)
        /\ thread' = "message"
        /\ UNCHANGED app
  /\ UNCHANGED <<again, listening, counts, mSocketHasShutdown, mux, mCallbackFn, handed>>

Current == processed + 1        \* the message being processed

\* Back from ProcessMessage: the next message of the packet, or the loop.
AfterMessage ==
  /\ left' = left - 1
  /\ thread' = IF left = 1 THEN "loop" ELSE "message"
  /\ processed' = Current

\* ProcessMessage, with mMutex held.
ProcessMessage ==
  /\ thread = "message"
  /\ \/ /\ ~mCallbackFn
        /\ mMessages' = Append(mMessages, Current)
        /\ AfterMessage
     \/ /\ mCallbackFn
        /\ thread' = "callback"
        /\ UNCHANGED <<mMessages, processed, left>>
  /\ UNCHANGED <<untouched, mSocketHasShutdown, mux, inbox, mCallbackFn, 
                 polled, called>>

\* The next message of the packet cannot be read: the exception ends the process.  It
\* happens to good packets where an int32 has 8 bytes, since ToInt32 and ToUInt32 leave
\* its upper half as it was in memory (OscReceivedElements.cpp:90-127).
MessageUnreadable ==
  /\ thread = "message"
  /\ Terminate
  /\ UNCHANGED <<again, listening, counts, mSocketHasShutdown, mux, inbox, left,
                 mCallbackFn, handed>>

\* The callback has run; mMutex is released.
CallbackReturns ==
  /\ thread = "callback"
  /\ called' = Append(called, Current)
  /\ AfterMessage
  /\ UNCHANGED <<untouched, mSocketHasShutdown, mux, inbox, mCallbackFn, 
                 mMessages, polled>>

\* Run has returned: threadSocket sets mSocketHasShutdown and ends.
ThreadSocketEnds ==
  /\ ThreadGoto("returned", "exited")
  /\ mSocketHasShutdown' = TRUE
  /\ UNCHANGED <<untouched, mux, inbox, left, mCallbackFn, handed>>

\* A datagram arrives at the open socket.
Arrive(d) ==
  /\ listening
  /\ app # "dead"
  /\ arrivals < MaxDatagrams
  /\ arrivals' = arrivals + 1
  /\ inbox' = Append(inbox, d)
  /\ UNCHANGED <<app, again, thread, listening, mSocketHasShutdown, mux, left, mCallbackFn,
                 setups, handed>>

-----------------------------------------------------------------------------
AppSteps == Bind \/ BindFails \/ BreakFlag \/ BreakSignal \/ AwaitShutdown \/ JoinAndDelete

ThreadSteps ==
  \/ RunBegins \/ Loop \/ Select \/ Drain \/ TestBreak \/ Receive
  \/ ProcessMessage \/ CallbackReturns \/ ThreadSocketEnds

Next ==
  \/ \E forSetup \in BOOLEAN : ShutdownBegins(forSetup)
  \/ SetupBegins
  \/ GetNextMessage
  \/ \E registered \in BOOLEAN : SetMessageReceivedCb(registered)
  \/ AppSteps
  \/ ThreadSteps
  \/ SelectInterrupted \/ MessageUnreadable
  \/ \E d \in Datagrams : Arrive(d)

\* Both threads are scheduled.  Nothing obliges the application to make another
\* call, a datagram to arrive or a signal to interrupt select().
Fairness == WF_vars(AppSteps) /\ WF_vars(ThreadSteps)

Spec     == Init /\ [][Next]_vars
FairSpec == Spec /\ Fairness

-----------------------------------------------------------------------------
(* Properties                                                              *)

\* Type invariant.
TypeOK ==
  /\ app \in AppPlaces
  /\ again \in BOOLEAN
  /\ thread \in ThreadPlaces
  /\ listening \in BOOLEAN
  /\ mSocketHasShutdown \in BOOLEAN
  /\ break_ \in BOOLEAN
  /\ breakPipe \in 0..1
  /\ tempfds \subseteq {"pipe", "socket"}
  /\ inbox \in Seq(Datagrams)
  /\ left \in 0..MaxMessages
  /\ mMessages \in Seq(Nat)
  /\ mCallbackFn \in BOOLEAN
  /\ setups \in 0..MaxSetups
  /\ arrivals \in 0..MaxDatagrams
  /\ processed \in Nat
  /\ polled \in Seq(Nat)
  /\ called \in Seq(Nat)

Increasing(s) == \A i, j \in 1..Len(s) : i < j => s[i] < s[j]

\* Every message is handed over exactly once, by the queue or by the callback,
\* and each of the two in the order of arrival, however often the callback is
\* changed, the queue polled and the listener set up again
\* (OscListener.cpp:129-182).
HandedOverOnce ==
  LET byQueue == polled \o mMessages
  IN  /\ Increasing(byQueue)
      /\ Increasing(called)
      /\ Range(byQueue) \cap Range(called) = {}
      /\ Range(byQueue) \cup Range(called) = 1..processed

\* The thread never runs in a multiplexer whose socket has been deleted, and no
\* thread is left behind when shutdown() or setup() has returned
\* (OscListener.cpp:98-127).
SocketOutlivesRun == thread \in InRun \cup {"returned"} => listening

\* A shutdown() that breaks a thread which is already inside the loop of Run
\* returns, whatever the thread is doing at that moment (UdpSocket.cpp:373-487).
LateShutdownReturns ==
  (app = "break" /\ thread \in InRun \ {"started"})
    ~> (app \in {"idle", "bind", "dead"})

\* "call this from another thread or signal handler to exit the Run() state"
\* (ip/UdpSocket.h:71): every shutdown() returns.
ShutdownReturns == (app = "break") ~> (app \in {"idle", "bind", "dead"})

\* "Always false if callbacks have been registered" (OscListener.h:56).
NoWaitingMessagesWithCallback == mCallbackFn => mMessages = <<>>
=============================================================================
