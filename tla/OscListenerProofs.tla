-------------------------- MODULE OscListenerProofs -------------------------
(***************************************************************************)
(* Type correctness of OscListener, SocketOutlivesRun and HandedOverOnce,  *)
(* for every number of set-ups, datagrams and messages.  The bound of the  *)
(* pipe in TypeOK needs BreakOnce: a socket is broken at most once.        *)
(***************************************************************************)
EXTENDS OscListener, TLAPS

\* One byte at most is ever written to the pipe of a multiplexer, because
\* shutdown() does not return before the socket is deleted.
BreakOnce ==
  /\ app \in {"break", "signal", "wait", "join"} => listening
  /\ app = "bind" => ~listening
  /\ listening /\ app \in {"idle", "break", "signal"} => breakPipe = 0
  /\ thread \in {"message", "callback"} => left >= 1

IInv == TypeOK /\ BreakOnce /\ SocketOutlivesRun /\ HandedOverOnce

ByQueue == polled \o mMessages

USE ConstantsAssumption

\* A later message goes to the end of a list in the order of arrival.
LEMMA IncreasingAppend ==
  ASSUME NEW s \in Seq(Nat), NEW n \in Nat, Increasing(s),
         \A i \in 1..Len(s) : s[i] < n
  PROVE  Increasing(Append(s, n))
<1> DEFINE t == Append(s, n)
<1>1. Len(t) = Len(s) + 1 /\ t[Len(s) + 1] = n /\ \A i \in 1..Len(s) : t[i] = s[i]
  OBVIOUS
<1>2. Len(s) \in Nat /\ \A i \in 1..Len(s) : s[i] \in Nat
  OBVIOUS
<1> HIDE DEF t
<1>3. ASSUME NEW i \in 1..Len(t), NEW j \in 1..Len(t), i < j
      PROVE  t[i] < t[j]
  <2>1. i \in 1..Len(s)
    BY <1>1, <1>2, <1>3
  <2>2. CASE j = Len(s) + 1
    BY <1>1, <2>1, <2>2
  <2>3. CASE j # Len(s) + 1
    <3>1. j \in 1..Len(s)
      BY <1>1, <1>2, <2>3
    <3>2. QED
      BY <1>1, <1>3, <2>1, <3>1 DEF Increasing
  <2>4. QED
    BY <2>2, <2>3
<1>4. Increasing(t)
  BY <1>3 DEF Increasing
<1>5. QED
  BY <1>4 DEF t

\* Appending a message adds it, and nothing else, to what a list holds.
LEMMA RangeAppend ==
  ASSUME NEW s \in Seq(Nat), NEW n \in Nat
  PROVE  Range(Append(s, n)) = Range(s) \cup {n}
<1> DEFINE t == Append(s, n)
<1>1. DOMAIN t = 1..(Len(s) + 1) /\ t[Len(s) + 1] = n /\ \A i \in 1..Len(s) : t[i] = s[i]
  OBVIOUS
<1>2. DOMAIN s = 1..Len(s) /\ Len(s) \in Nat
  OBVIOUS
<1> HIDE DEF t
<1>3. ASSUME NEW x \in Range(t) PROVE x \in Range(s) \cup {n}
  <2>1. PICK i \in 1..(Len(s) + 1) : t[i] = x
    BY <1>1, <1>3 DEF Range
  <2>2. i = Len(s) + 1 \/ i \in 1..Len(s)
    BY <1>2
  <2>3. QED
    BY <1>1, <1>2, <2>1, <2>2 DEF Range
<1>4. ASSUME NEW x \in Range(s) PROVE x \in Range(t)
  <2>1. PICK i \in 1..Len(s) : s[i] = x
    BY <1>2, <1>4 DEF Range
  <2>2. i \in 1..(Len(s) + 1) /\ t[i] = x
    BY <1>1, <1>2, <2>1
  <2>3. QED
    BY <1>1, <2>2 DEF Range
<1>5. n \in Range(t)
  <2>1. Len(s) + 1 \in 1..(Len(s) + 1)
    BY <1>2
  <2>2. QED
    BY <1>1, <2>1 DEF Range
<1>6. Range(t) = Range(s) \cup {n}
  BY <1>3, <1>4, <1>5
<1>7. QED
  BY <1>6 DEF t

\* The message in hand, numbered processed + 1, is later than all the others: it
\* may join the list it goes to, other = the list it does not go to.
LEMMA HandOver ==
  ASSUME NEW k \in Nat, NEW s \in Seq(Nat), NEW other \in Seq(Nat),
         Increasing(s), Range(s) \cap Range(other) = {},
         Range(s) \cup Range(other) = 1..k
  PROVE  /\ Increasing(Append(s, k + 1))
         /\ Range(Append(s, k + 1)) \cap Range(other) = {}
         /\ Range(Append(s, k + 1)) \cup Range(other) = 1..(k + 1)
<1>1. Range(Append(s, k + 1)) = Range(s) \cup {k + 1}
  BY RangeAppend
<1>2. k + 1 \notin 1..k /\ 1..(k + 1) = (1..k) \cup {k + 1}
  OBVIOUS
<1>3. \A i \in 1..Len(s) : s[i] < k + 1
  <2>1. ASSUME NEW i \in 1..Len(s) PROVE s[i] < k + 1
    <3>1. s[i] \in Range(s)
      BY DEF Range
    <3>2. s[i] \in 1..k
      BY <3>1
    <3>3. QED
      BY <3>2
  <2>2. QED
    BY <2>1
<1>4. Increasing(Append(s, k + 1))
  BY <1>3, IncreasingAppend
<1>5. QED
  BY <1>1, <1>2, <1>4

\* A listener that was never set up satisfies the invariant.
LEMMA InitInv == Init => IInv
<1> SUFFICES ASSUME Init PROVE IInv
  OBVIOUS
<1> USE DEF Init
<1>1. TypeOK
  <2>1. <<>> \in Seq(Datagrams) /\ <<>> \in Seq(Nat)
    OBVIOUS
  <2>2. 0 \in 0..MaxSetups /\ 0 \in 0..MaxDatagrams /\ 0 \in 0..MaxMessages /\ 0 \in 0..1
    OBVIOUS
  <2>3. QED
    BY <2>1, <2>2 DEF TypeOK, AppPlaces, ThreadPlaces, InRun
<1>2. BreakOnce /\ SocketOutlivesRun
  BY DEF BreakOnce, SocketOutlivesRun, InRun
<1>3. HandedOverOnce
  <2>1. polled \o mMessages = <<>> /\ called = <<>>
    OBVIOUS
  <2>2. Range(<<>>) = {} /\ 1..0 = {}
    BY DEF Range
  <2>3. Increasing(<<>>)
    BY DEF Increasing
  <2>4. QED
    BY <2>1, <2>2, <2>3 DEF HandedOverOnce
<1>4. QED
  BY <1>1, <1>2, <1>3 DEF IInv

-----------------------------------------------------------------------------
\* Types, and the two facts about the life of the socket.
LEMMA TypesPreserved ==
  ASSUME TypeOK, BreakOnce, SocketOutlivesRun, [Next]_vars
  PROVE  TypeOK' /\ BreakOnce' /\ SocketOutlivesRun'
<1> USE DEF TypeOK, BreakOnce, SocketOutlivesRun, AppPlaces, ThreadPlaces, InRun,
            AppGoto, ThreadGoto, mux, handed, counts, untouched
<1>1. ASSUME NEW forSetup \in BOOLEAN, ShutdownBegins(forSetup)
      PROVE  TypeOK' /\ BreakOnce' /\ SocketOutlivesRun'
  BY <1>1 DEF ShutdownBegins
<1>2. CASE SetupBegins
  BY <1>2 DEF SetupBegins
<1>3. CASE Bind
  <2>1. setups' \in 0..MaxSetups
    BY <1>3 DEF Bind
  <2>2. inbox' \in Seq(Datagrams)
    BY <1>3 DEF Bind
  <2>3. /\ app' = "idle" /\ again' = FALSE /\ mSocketHasShutdown' = FALSE
        /\ listening' = TRUE /\ break_' = FALSE /\ breakPipe' = 0 /\ tempfds' = {}
        /\ left' = 0 /\ thread' = "started"
        /\ UNCHANGED <<mCallbackFn, arrivals, mMessages, polled, called, processed>>
    BY <1>3 DEF Bind
  <2>4. left' \in 0..MaxMessages /\ breakPipe' \in 0..1
    BY <2>3
  <2>5. TypeOK'
    <3>1. /\ arrivals' \in 0..MaxDatagrams /\ processed' \in Nat /\ mCallbackFn' \in BOOLEAN
          /\ mMessages' \in Seq(Nat) /\ polled' \in Seq(Nat) /\ called' \in Seq(Nat)
      BY <2>3
    <3>2. /\ app' \in AppPlaces /\ again' \in BOOLEAN /\ thread' \in ThreadPlaces
          /\ listening' \in BOOLEAN /\ mSocketHasShutdown' \in BOOLEAN /\ break_' \in BOOLEAN
          /\ tempfds' \subseteq {"pipe", "socket"}
      BY <2>3
    <3> HIDE DEF AppPlaces, ThreadPlaces, InRun
    <3>3. QED
      BY <2>1, <2>2, <2>4, <3>1, <3>2 DEF TypeOK
  <2>6. BreakOnce' /\ SocketOutlivesRun'
    BY <2>3
  <2>7. QED
    BY <2>5, <2>6
<1>4. CASE BindFails
  BY <1>4 DEF BindFails
<1>5. CASE BreakFlag
  BY <1>5 DEF BreakFlag
<1>6. CASE BreakSignal
  BY <1>6 DEF BreakSignal
<1>7. CASE AwaitShutdown
  BY <1>7 DEF AwaitShutdown
<1>8. CASE JoinAndDelete
  <2>1. /\ listening' = FALSE /\ inbox' = <<>> /\ thread = "exited"
        /\ app' \in {"bind", "idle"}
        /\ UNCHANGED <<again, thread, mSocketHasShutdown, break_, breakPipe, tempfds, left,
                       mCallbackFn, setups, arrivals, mMessages, polled, called, processed>>
    BY <1>8 DEF JoinAndDelete, Delete
  <2>2. inbox' \in Seq(Datagrams)
    BY <2>1
  <2>3. TypeOK'
    BY <2>1, <2>2
  <2>4. BreakOnce' /\ SocketOutlivesRun'
    BY <2>1
  <2>5. QED
    BY <2>3, <2>4
<1>9. CASE GetNextMessage
  <2>1. mMessages' \in Seq(Nat)
    BY <1>9 DEF GetNextMessage
  <2>2. polled' \in Seq(Nat)
    BY <1>9 DEF GetNextMessage
  <2>3. QED
    BY <1>9, <2>1, <2>2 DEF GetNextMessage
<1>10. ASSUME NEW registered \in BOOLEAN, SetMessageReceivedCb(registered)
       PROVE  TypeOK' /\ BreakOnce' /\ SocketOutlivesRun'
  BY <1>10 DEF SetMessageReceivedCb, Terminate
<1>11. CASE RunBegins
  BY <1>11 DEF RunBegins
<1>12. CASE Loop
  BY <1>12 DEF Loop
<1>13. CASE Select
  BY <1>13 DEF Select
<1>14. CASE SelectInterrupted
  BY <1>14 DEF SelectInterrupted
<1>15. CASE Drain
  BY <1>15 DEF Drain
<1>16. CASE TestBreak
  BY <1>16 DEF TestBreak
<1>17. CASE Receive
  <2>1. inbox' \in Seq(Datagrams) /\ Head(inbox) \in Datagrams
    BY <1>17 DEF Receive
  <2>2. Head(inbox) # TooLong => Head(inbox) \in 1..MaxMessages
    BY <2>1 DEF Datagrams
  <2>3. QED
    BY <1>17, <2>1, <2>2 DEF Receive, Terminate
<1>18. CASE ProcessMessage
  <2>0. processed + 1 \in Nat /\ mMessages \in Seq(Nat)
    OBVIOUS
  <2>1. mMessages' \in Seq(Nat)
    <3>1. CASE mMessages' = Append(mMessages, processed + 1)
      BY <2>0, <3>1
    <3>2. CASE mMessages' = mMessages
      BY <2>0, <3>2
    <3>3. QED
      BY <1>18, <3>1, <3>2 DEF ProcessMessage, Current
  <2>2. processed' \in Nat
    BY <1>18 DEF ProcessMessage, AfterMessage, Current
  <2>3. left' \in 0..MaxMessages
    BY <1>18 DEF ProcessMessage, AfterMessage
  <2>4. QED
    BY <1>18, <2>1, <2>2, <2>3 DEF ProcessMessage, AfterMessage
<1>19. CASE CallbackReturns
  <2>1. called' \in Seq(Nat)
    BY <1>19 DEF CallbackReturns, Current
  <2>2. processed' \in Nat
    BY <1>19 DEF CallbackReturns, AfterMessage, Current
  <2>3. left' \in 0..MaxMessages
    BY <1>19 DEF CallbackReturns, AfterMessage
  <2>4. QED
    BY <1>19, <2>1, <2>2, <2>3 DEF CallbackReturns, AfterMessage
<1>20. CASE ThreadSocketEnds
  BY <1>20 DEF ThreadSocketEnds
<1>21. ASSUME NEW d \in Datagrams, Arrive(d)
       PROVE  TypeOK' /\ BreakOnce' /\ SocketOutlivesRun'
  <2>1. inbox' \in Seq(Datagrams)
    BY <1>21 DEF Arrive
  <2>2. arrivals' \in 0..MaxDatagrams
    BY <1>21 DEF Arrive
  <2>3. QED
    BY <1>21, <2>1, <2>2 DEF Arrive
<1>22. CASE MessageUnreadable
  BY <1>22 DEF MessageUnreadable, Terminate
<1>23. CASE UNCHANGED vars
  BY <1>23 DEF vars
<1>24. QED
  BY <1>1, <1>2, <1>3, <1>4, <1>5, <1>6, <1>7, <1>8, <1>9, <1>10, <1>11, <1>12, <1>13,
     <1>14, <1>15, <1>16, <1>17, <1>18, <1>19, <1>20, <1>21, <1>22, <1>23
  DEF Next, AppSteps, ThreadSteps

\* Taking the head of one sequence to the end of another keeps their
\* concatenation.
LEMMA MoveHead ==
  ASSUME NEW s \in Seq(Nat), NEW t \in Seq(Nat), t # <<>>
  PROVE  Append(s, Head(t)) \o Tail(t) = s \o t
<1> DEFINE moved == Append(s, Head(t)) \o Tail(t)
           whole == s \o t
<1>1. Head(t) \in Nat /\ Tail(t) \in Seq(Nat) /\ Len(Tail(t)) = Len(t) - 1 /\ Len(t) \in Nat \ {0}
  OBVIOUS
<1>2. Append(s, Head(t)) \in Seq(Nat) /\ Len(Append(s, Head(t))) = Len(s) + 1
  BY <1>1
<1>3. moved \in Seq(Nat) /\ whole \in Seq(Nat) /\ Len(moved) = Len(s) + Len(t)
      /\ Len(whole) = Len(s) + Len(t)
  BY <1>1, <1>2
<1>4. ASSUME NEW i \in 1..Len(moved)
      PROVE  moved[i] = whole[i]
  <2>1. CASE i <= Len(s)
    BY <1>1, <1>2, <1>3, <2>1
  <2>2. CASE i = Len(s) + 1
    BY <1>1, <1>2, <1>3, <2>2
  <2>3. CASE i > Len(s) + 1
    BY <1>1, <1>2, <1>3, <2>3
  <2>4. QED
    BY <1>3, <2>1, <2>2, <2>3
<1>5. QED
  <2> HIDE DEF moved, whole
  <2>1. moved = whole
    BY <1>3, <1>4
  <2>2. QED
    BY <2>1 DEF moved, whole

\* Only three operations hand a message over.
LEMMA HandedOverPreserved ==
  ASSUME TypeOK, HandedOverOnce, [Next]_vars
  PROVE  HandedOverOnce'
<1>0. /\ polled \in Seq(Nat) /\ mMessages \in Seq(Nat) /\ called \in Seq(Nat)
      /\ processed \in Nat /\ ByQueue \in Seq(Nat)
  BY DEF TypeOK, ByQueue
<1>1. /\ Increasing(ByQueue) /\ Increasing(called)
      /\ Range(ByQueue) \cap Range(called) = {}
      /\ Range(ByQueue) \cup Range(called) = 1..processed
  BY DEF HandedOverOnce, ByQueue
<1>2. CASE UNCHANGED handed
  BY <1>2 DEF HandedOverOnce, handed
<1>3. CASE GetNextMessage
  <2>1. /\ mMessages # <<>> /\ polled' = Append(polled, Head(mMessages))
        /\ mMessages' = Tail(mMessages) /\ UNCHANGED <<processed, called>>
    BY <1>3 DEF GetNextMessage
  <2>2. Append(polled, Head(mMessages)) \o Tail(mMessages) = polled \o mMessages
    BY <1>0, <2>1, MoveHead
  <2>3. ByQueue' = ByQueue
    BY <2>1, <2>2 DEF ByQueue
  <2>4. QED
    BY <1>1, <2>1, <2>3 DEF HandedOverOnce, ByQueue
<1>4. ASSUME mMessages' = Append(mMessages, processed + 1), processed' = processed + 1,
             UNCHANGED <<polled, called>>
      PROVE  HandedOverOnce'
  <2>1. polled \o Append(mMessages, processed + 1) = Append(polled \o mMessages, processed + 1)
    BY <1>0
  <2>2. ByQueue' = Append(ByQueue, processed + 1)
    BY <1>4, <2>1 DEF ByQueue
  <2>3. /\ Increasing(ByQueue')
        /\ Range(ByQueue') \cap Range(called) = {}
        /\ Range(ByQueue') \cup Range(called) = 1..(processed + 1)
    BY <1>0, <1>1, <2>2, HandOver
  <2>4. QED
    BY <1>1, <1>4, <2>3 DEF HandedOverOnce, ByQueue
<1>5. CASE CallbackReturns
  <2>1. /\ called' = Append(called, processed + 1) /\ processed' = processed + 1
        /\ UNCHANGED <<polled, mMessages>>
    BY <1>5 DEF CallbackReturns, AfterMessage, Current
  <2>2. Range(called) \cap Range(ByQueue) = {} /\ Range(called) \cup Range(ByQueue) = 1..processed
    BY <1>1
  <2>3. /\ Increasing(called')
        /\ Range(called') \cap Range(ByQueue) = {}
        /\ Range(called') \cup Range(ByQueue) = 1..(processed + 1)
    BY <1>0, <1>1, <2>1, <2>2, HandOver
  <2>4. ByQueue' = ByQueue
    BY <2>1 DEF ByQueue
  <2>5. QED
    BY <1>1, <2>1, <2>3, <2>4 DEF HandedOverOnce, ByQueue
<1>6. CASE ProcessMessage
  <2>1. \/ UNCHANGED handed
        \/ /\ mMessages' = Append(mMessages, processed + 1) /\ processed' = processed + 1
           /\ UNCHANGED <<polled, called>>
    BY <1>6 DEF ProcessMessage, AfterMessage, Current, handed
  <2>2. QED
    BY <1>2, <1>4, <2>1
<1>7. CASE UNCHANGED vars
  BY <1>2, <1>7 DEF vars
<1>8. ASSUME [Next]_vars, ~GetNextMessage, ~ProcessMessage, ~CallbackReturns
      PROVE  UNCHANGED handed
  <2>1. CASE AppSteps
    BY <2>1 DEF AppSteps, Bind, BindFails, BreakFlag, BreakSignal, AwaitShutdown, JoinAndDelete,
                Delete
  <2>2. CASE ThreadSteps
    BY <1>8, <2>2 DEF ThreadSteps, RunBegins, Loop, Select, Drain, TestBreak, Receive,
                      ThreadSocketEnds
  <2>3. CASE ~AppSteps /\ ~ThreadSteps
    BY <1>8, <2>3 DEF Next, vars, ShutdownBegins, SetupBegins, SetMessageReceivedCb,
                      SelectInterrupted, MessageUnreadable, Arrive
  <2>4. QED
    BY <2>1, <2>2, <2>3
<1>9. QED
  BY <1>2, <1>3, <1>5, <1>6, <1>8

\* The conjunction of the safety invariants, with BreakOnce, is inductive.
THEOREM InductiveInvariant == Spec => []IInv
<1>1. IInv /\ [Next]_vars => IInv'
  BY TypesPreserved, HandedOverPreserved DEF IInv
<1>2. QED
  BY <1>1, InitInv, PTL DEF Spec

\* Every variable keeps its type; the pipe never holds more than one byte.
THEOREM TypeCorrect == Spec => []TypeOK
<1>1. IInv => TypeOK
  BY DEF IInv
<1>2. QED
  BY <1>1, InductiveInvariant, PTL

\* The listener thread never runs with a deleted socket (OscListener.cpp:98-127).
THEOREM SocketIsSafe == Spec => []SocketOutlivesRun
<1>1. IInv => SocketOutlivesRun
  BY DEF IInv
<1>2. QED
  BY <1>1, InductiveInvariant, PTL

\* No message is lost, duplicated or overtaken on its way from the socket to the
\* application (OscListener.cpp:129-182).
THEOREM DeliveryIsExact == Spec => []HandedOverOnce
<1>1. IInv => HandedOverOnce
  BY DEF IInv
<1>2. QED
  BY <1>1, InductiveInvariant, PTL
=============================================================================
