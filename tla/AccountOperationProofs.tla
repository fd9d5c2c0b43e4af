----------------------- MODULE AccountOperationProofs -----------------------
(***************************************************************************)
(* AccountOperation implements AccountPromise, for any number of objects   *)
(* and of calls of init().  What a returned SUCCESS or FAILURE says        *)
(* of its request must stay true while the server may still serve requests *)
(* that were given up.  ReplyOK relates what is on its way to what the     *)
(* server has done: a request in transit has not been served, and a reply  *)
(* tells the truth about it.                                               *)
(***************************************************************************)
EXTENDS AccountOperation, TLAPS

USE ConstantsAssumption DEF Objects, Clients, None

FreshOK ==
  /\ \A o \in Objects : mClient[o] <= clients
  /\ \A c \in Clients : c > clients => /\ stream[c] = "new"
                                       /\ transit[c] = "none"
                                       /\ c \notin committed
  /\ \A o \in Objects : place[o] = "connect" => /\ transit[mClient[o]] = "none"
                                                /\ mClient[o] \notin committed
  /\ \A o \in Objects : place[o] # "idle" => mStatus[o] = "INCOMPLETE"

ReplyOK ==
  \A c \in Clients :
    /\ transit[c] \in Requests \cup {"fields", "registered", "refused"} => c \notin committed
    /\ transit[c] = "done" => c \in committed

\* The request of an object that has returned with a verdict is over.
VerdictOK ==
  \A o \in Objects : mClient[o] # None =>
    /\ mStatus[o] = "SUCCESS" => mClient[o] \in committed
    /\ mStatus[o] = "FAILURE" => /\ mClient[o] \notin committed
                                 /\ transit[mClient[o]] = "none"

IInv == TypeOK /\ FreshOK /\ ReplyOK /\ VerdictOK

-----------------------------------------------------------------------------
LEMMA InitOK == Init => IInv
BY DEF Init, IInv, TypeOK, FreshOK, ReplyOK, VerdictOK, Requests, Replies

LEMMA InitBeginsOK ==
  ASSUME IInv, NEW o \in Objects, InitBegins(o)
  PROVE  IInv'
<1> USE DEF IInv, InitBegins
<1>1. TypeOK'
  BY DEF TypeOK, FreshOK
<1>2. FreshOK'
  BY DEF TypeOK, FreshOK
<1>3. ReplyOK' /\ VerdictOK'
  BY DEF TypeOK, ReplyOK, VerdictOK
<1>4. QED
  BY <1>1, <1>2, <1>3

LEMMA ConnectFailsOK ==
  ASSUME IInv, NEW o \in Objects, ConnectFails(o)
  PROVE  IInv'
<1> USE DEF IInv, ConnectFails
<1>1. TypeOK'
  BY DEF TypeOK
<1>2. FreshOK'
  BY DEF TypeOK, FreshOK
<1>3. ReplyOK' /\ VerdictOK'
  BY DEF ReplyOK, VerdictOK
<1>4. QED
  BY <1>1, <1>2, <1>3

LEMMA OnConnectOK ==
  ASSUME IInv, NEW o \in Objects, OnConnect(o)
  PROVE  IInv'
<1> USE DEF IInv, OnConnect
<1>1. mClient[o] \in Clients
  BY DEF TypeOK
<1>2. TypeOK'
  BY <1>1 DEF TypeOK, Requests, Replies
<1>3. FreshOK'
  BY <1>1 DEF TypeOK, FreshOK
<1>4. ReplyOK'
  BY <1>1 DEF TypeOK, FreshOK, ReplyOK, Requests
<1>5. VerdictOK'
  BY <1>1 DEF TypeOK, FreshOK, VerdictOK
<1>6. QED
  BY <1>2, <1>3, <1>4, <1>5

LEMMA HandleFieldsOK ==
  ASSUME IInv, NEW o \in Objects, HandleFields(o)
  PROVE  IInv'
<1> USE DEF IInv, HandleFields, object
<1>1. mClient[o] \in Clients
  BY DEF TypeOK
<1>2. TypeOK'
  BY <1>1 DEF TypeOK, Requests, Replies
<1>3. FreshOK'
  BY <1>1 DEF TypeOK, FreshOK
<1>4. ReplyOK'
  BY <1>1 DEF TypeOK, ReplyOK, Requests
<1>5. VerdictOK'
  BY <1>1 DEF TypeOK, VerdictOK
<1>6. QED
  BY <1>2, <1>3, <1>4, <1>5

LEMMA HandleResultOK ==
  ASSUME IInv, NEW o \in Objects, HandleResult(o)
  PROVE  IInv'
<1>1. mClient[o] \in Clients
  BY DEF IInv, TypeOK, HandleResult
<1>2. PICK s \in Terminal :
        /\ mStatus' = [mStatus EXCEPT ![o] = s]
        /\ s = "SUCCESS" => transit[mClient[o]] = "done"
        /\ s = "FAILURE" => transit[mClient[o]] \in {"registered", "refused"}
        /\ place' = [place EXCEPT ![o] = "idle"]
  BY DEF HandleResult, AfterRecv, Terminal
<1>3. /\ transit' = [transit EXCEPT ![mClient[o]] = "none"]
      /\ UNCHANGED <<mClient, clients, stream, exists, committed>>
  BY DEF HandleResult
<1>4. TypeOK'
  BY <1>1, <1>2, <1>3 DEF IInv, TypeOK
<1>5. FreshOK'
  BY <1>1, <1>2, <1>3 DEF IInv, TypeOK, FreshOK
<1>6. ReplyOK'
  BY <1>1, <1>2, <1>3 DEF IInv, TypeOK, ReplyOK, Requests
<1>7. VerdictOK'
  BY <1>1, <1>2, <1>3 DEF IInv, TypeOK, ReplyOK, VerdictOK, Terminal
<1>8. QED
  BY <1>4, <1>5, <1>6, <1>7 DEF IInv

LEMMA RecvFailsOK ==
  ASSUME IInv, NEW o \in Objects, RecvFails(o)
  PROVE  IInv'
BY DEF IInv, TypeOK, FreshOK, ReplyOK, VerdictOK, RecvFails

\* What the server and the network do with what is in transit: a reply replaces a
\* request, or something is lost.
LEMMA ServerOK ==
  ASSUME IInv, NEW c \in Clients, ServerStep(c) \/ Break(c)
  PROVE  IInv'
<1> USE DEF IInv
<1>1. UNCHANGED <<place, mStatus, mClient, clients>>
  BY DEF ServerStep, AnswerFetch, Serve, Refuse, Break, object
<1>2. \/ UNCHANGED stream
      \/ stream[c] = "up" /\ stream' = [stream EXCEPT ![c] = "down"]
  BY DEF ServerStep, AnswerFetch, Serve, Refuse, Break
<1>3. /\ exists' \in BOOLEAN
      /\ \/ UNCHANGED committed
         \/ transit[c] \in {"create", "remove"} /\ committed' = committed \cup {c}
  BY DEF TypeOK, ServerStep, AnswerFetch, Serve, Refuse, Break
<1>4. PICK r \in Requests \cup Replies \cup {"none", "unsent"} :
        /\ transit' = [transit EXCEPT ![c] = r]
        /\ transit[c] = "none" => r = "none"
        /\ r \in Requests \cup {"fields", "registered", "refused"} => c \notin committed'
        /\ r = "done" => c \in committed'
  <2>1. transit \in [Clients -> Requests \cup Replies \cup {"none", "unsent"}]
    BY DEF TypeOK
  <2>2. CASE AnswerFetch(c)
    <3>1. c \notin committed /\ UNCHANGED committed
      BY <2>2 DEF AnswerFetch, ReplyOK, Requests
    <3>2. QED
      BY <2>2, <3>1 DEF AnswerFetch, Reply, Replies
  <2>3. CASE Serve(c)
    <3>1. c \in committed' /\ transit[c] # "none"
      BY <2>3 DEF Serve
    <3>2. PICK x \in {"done", "none"} : transit' = [transit EXCEPT ![c] = x]
      BY <2>3 DEF Serve, Reply
    <3>3. x \notin Requests \cup {"fields", "registered", "refused"}
          /\ x \in Requests \cup Replies \cup {"none", "unsent"}
      BY DEF Requests, Replies
    <3>4. QED
      BY <3>1, <3>2, <3>3
  <2>4. CASE Refuse(c)
    <3>1. c \notin committed /\ UNCHANGED committed
      BY <2>4 DEF Refuse, ReplyOK, Requests
    <3>2. PICK x \in {"refused", "none"} : transit' = [transit EXCEPT ![c] = x]
      BY <2>4 DEF Refuse, Reply
    <3>3. transit[c] # "none" /\ x \in Requests \cup Replies \cup {"none", "unsent"}
      BY <2>4 DEF Refuse, Replies
    <3>4. QED
      BY <3>1, <3>2, <3>3
  <2>5. CASE Break(c)
    <3>1. transit' \in {transit, [transit EXCEPT ![c] = "none"]} /\ UNCHANGED committed
          /\ (transit[c] \in Replies => transit'[c] = "none")
      BY <2>5 DEF Break
    <3>2. CASE transit' = transit
      <4>1. transit[c] \in Requests \cup {"none", "unsent"}
        BY <2>1, <3>1, <3>2 DEF Replies
      <4>2. transit' = [transit EXCEPT ![c] = transit[c]]
        BY <2>1, <3>2
      <4>3. transit[c] \in Requests => c \notin committed
        BY DEF ReplyOK
      <4>4. QED
        BY <3>1, <4>1, <4>2, <4>3 DEF Requests
    <3>3. CASE transit' = [transit EXCEPT ![c] = "none"]
      <4>1. PICK x \in {"none"} : transit' = [transit EXCEPT ![c] = x]
        BY <3>3
      <4>2. x \notin Requests \cup {"fields", "registered", "refused", "done"}
            /\ x \in Requests \cup Replies \cup {"none", "unsent"}
        BY DEF Requests
      <4>3. QED
        BY <4>1, <4>2
    <3>4. QED
      BY <3>1, <3>2, <3>3
  <2>6. QED
    BY <2>2, <2>3, <2>4, <2>5 DEF ServerStep
<1>5. c <= clients
  <2>1. transit[c] # "none" \/ stream[c] = "up"
    BY DEF ServerStep, AnswerFetch, Serve, Refuse, Break
  <2>2. QED
    BY <2>1 DEF FreshOK, TypeOK
<1>6. TypeOK'
  BY <1>1, <1>2, <1>3, <1>4 DEF TypeOK
<1>7. FreshOK'
  BY <1>1, <1>2, <1>3, <1>4, <1>5 DEF TypeOK, FreshOK
<1>8. ReplyOK'
  BY <1>3, <1>4 DEF TypeOK, ReplyOK
<1>9. VerdictOK'
  BY <1>1, <1>3, <1>4 DEF TypeOK, VerdictOK
<1>10. QED
  BY <1>6, <1>7, <1>8, <1>9

LEMMA NextOK == IInv /\ [Next]_vars => IInv'
<1> SUFFICES ASSUME IInv, [Next]_vars PROVE IInv'
  OBVIOUS
<1>1. CASE Next
  BY <1>1, InitBeginsOK, ConnectFailsOK, OnConnectOK, HandleFieldsOK, HandleResultOK, RecvFailsOK,
     ServerOK DEF Next, ObjectStep
<1>2. CASE UNCHANGED vars
  BY <1>2 DEF IInv, TypeOK, FreshOK, ReplyOK, VerdictOK, vars, object
<1>3. QED
  BY <1>1, <1>2

THEOREM Invariant == Spec => []IInv
<1>1. QED
  BY InitOK, NextOK, PTL DEF Spec

\* Type correctness; an object inside init() has a client that no other object uses
\* (AccountRegistration.cpp:32-47, AccountEraser.cpp:33-48).
THEOREM TypeCorrect == Spec => []TypeOK
<1>1. IInv => TypeOK
  BY DEF IInv
<1>2. QED
  BY <1>1, Invariant, PTL

-----------------------------------------------------------------------------
(* The refinement                                                          *)

\* What status() says, seen from outside.
Said == [o \in Objects |-> IF place[o] = "idle" THEN mStatus[o] ELSE "INCOMPLETE"]
Inside == {o \in Objects : place[o] # "idle"}

LEMMA InitRefines == Init => Promise!Init
BY DEF Init, Promise!Init, Promise!Objects

\* init() begins: Begin.
LEMMA BeginRefines ==
  ASSUME IInv, NEW o \in Objects, InitBegins(o)
  PROVE  Promise!Begin(o)
<1>1. Inside' = Inside \cup {o} /\ o \notin Inside
  BY DEF InitBegins, IInv, TypeOK, Inside
<1>2. Said' = [Said EXCEPT ![o] = "INCOMPLETE"]
  BY DEF InitBegins, IInv, TypeOK, Said
<1>3. QED
  BY <1>1, <1>2 DEF InitBegins, Promise!Begin, Inside, Said

\* init() returns with a status: Return.
LEMMA ReturnRefines ==
  ASSUME IInv, NEW o \in Objects, ConnectFails(o) \/ RecvFails(o) \/ HandleResult(o)
  PROVE  \E s \in {"INCOMPLETE", "SUCCESS", "FAILURE"} : Promise!Return(o, s)
<1>1. mClient[o] \in Clients /\ place[o] # "idle" /\ mStatus[o] = "INCOMPLETE"
  BY DEF IInv, TypeOK, FreshOK, ConnectFails, RecvFails, HandleResult
<1>2. PICK s \in {"INCOMPLETE", "SUCCESS", "FAILURE"} :
        /\ mStatus' = [mStatus EXCEPT ![o] = s]
        /\ s = "SUCCESS" => mClient[o] \in committed
        /\ s = "FAILURE" => mClient[o] \notin committed
        /\ place' = [place EXCEPT ![o] = "idle"]
        /\ UNCHANGED <<exists, clients, mClient, committed>>
  <2>1. CASE ConnectFails(o) \/ RecvFails(o)
    <3>1. mStatus' = [mStatus EXCEPT ![o] = "INCOMPLETE"]
      BY <1>1, <2>1 DEF ConnectFails, RecvFails, IInv, TypeOK
    <3>2. QED
      BY <2>1, <3>1 DEF ConnectFails, RecvFails
  <2>2. CASE HandleResult(o)
    BY <1>1, <2>2 DEF HandleResult, AfterRecv, Terminal, IInv, ReplyOK
  <2>3. QED
    BY <2>1, <2>2
<1>3. Inside' = Inside \ {o} /\ o \in Inside
  BY <1>1, <1>2 DEF IInv, TypeOK, Inside
<1>4. Said' = [Said EXCEPT ![o] = s]
  BY <1>1, <1>2 DEF IInv, TypeOK, Said
<1>5. Promise!Return(o, s)
  BY <1>2, <1>3, <1>4 DEF Promise!Return, Inside, Said
<1>6. QED
  BY <1>5

\* The server carries out a request: Commit.
LEMMA ServeRefines ==
  ASSUME IInv, NEW c \in Clients, Serve(c)
  PROVE  Promise!Commit(c)
<1>1. c <= clients
  BY DEF IInv, FreshOK, TypeOK, Serve
<1>2. c \notin committed /\ transit[c] # "none"
  BY DEF IInv, ReplyOK, Serve, Requests
<1>3. \A o \in Objects \ Inside : ~(mClient[o] = c /\ Said[o] = "FAILURE")
  BY <1>2 DEF IInv, VerdictOK, Inside, Said
<1>4. ~Promise!Denied(c)
  BY <1>3 DEF Promise!Denied, Promise!Objects, Inside, Said, Objects
<1>5. UNCHANGED <<clients, mClient, Inside, Said>>
  BY DEF Serve, object, Inside, Said
<1>6. QED
  BY <1>1, <1>2, <1>4, <1>5 DEF Serve, Promise!Commit, Inside, Said

\* The other steps are not seen from outside.
LEMMA OthersStutter ==
  ASSUME IInv, \/ \E o \in Objects : OnConnect(o) \/ HandleFields(o)
               \/ \E c \in Clients : AnswerFetch(c) \/ Refuse(c) \/ Break(c)
               \/ UNCHANGED vars
  PROVE  UNCHANGED Promise!vars
<1>1. UNCHANGED <<exists, clients, mClient, committed, mStatus>>
  BY DEF OnConnect, HandleFields, AnswerFetch, Refuse, Break, vars, object
<1>2. \A o \in Objects : place'[o] = "idle" <=> place[o] = "idle"
  BY DEF OnConnect, HandleFields, AnswerFetch, Refuse, Break, vars, object, IInv, TypeOK
<1>3. Inside' = Inside /\ Said' = Said
  BY <1>1, <1>2 DEF Inside, Said
<1>4. QED
  BY <1>1, <1>3 DEF Promise!vars, Inside, Said

\* What AccountRegistration and AccountEraser report is what AccountPromise allows, for
\* every interleaving with the server, broken connections and later calls of init()
\* (AccountRegistration.cpp:19-96, AccountEraser.cpp:21-86).
THEOREM PromiseKept == Spec => ImplementsPromise
<1>1. Init => Promise!Init
  BY InitRefines
<1>2. IInv /\ [Next]_vars => [Promise!Next]_(Promise!vars)
  <2> SUFFICES ASSUME IInv, [Next]_vars PROVE [Promise!Next]_(Promise!vars)
    OBVIOUS
  <2>1. CASE \E o \in Objects : InitBegins(o)
    BY <2>1, BeginRefines DEF Promise!Next, Promise!Objects
  <2>2. CASE \E o \in Objects : ConnectFails(o) \/ RecvFails(o) \/ HandleResult(o)
    BY <2>2, ReturnRefines DEF Promise!Next, Promise!Objects
  <2>3. CASE \E c \in Clients : Serve(c)
    BY <2>3, ServeRefines DEF Promise!Next, Promise!Requests
  <2>4. CASE \/ \E o \in Objects : OnConnect(o) \/ HandleFields(o)
             \/ \E c \in Clients : AnswerFetch(c) \/ Refuse(c) \/ Break(c)
             \/ UNCHANGED vars
    BY <2>4, OthersStutter
  <2>5. QED
    BY <2>1, <2>2, <2>3, <2>4 DEF Next, ObjectStep, ServerStep
<1>3. QED
  BY <1>1, <1>2, Invariant, PTL DEF Spec, ImplementsPromise, Promise!Spec
=============================================================================
