-------------------------- MODULE XmppClientProofs --------------------------
(***************************************************************************)
(* Type correctness of XmppClient and ConnectedMeansLive, for every number *)
(* of connects and with or without overlapping calls of startInterface.    *)
(* TypeOK is not inductive: it needs SessionOK, which says that a thread   *)
(* that is about to use a gloox client has one.                            *)
(***************************************************************************)
EXTENDS XmppClient, TLAPS

SessionOK ==
  /\ \A t \in Ids : pc[t] # "unborn" => t <= connects
  /\ \A a \in Actors : pc[a] = "spawn" => sid[a] \in 1..connects
  /\ \A t \in Ids : pc[t] \in {"connecting", "recv"} => sid[t] \in Ids
  /\ (pc[Main] = "spawn" \/ \E t \in Ids : t > base /\ Running(t)) => mClient # Nothing

IInv == TypeOK /\ SessionOK /\ ConnectedMeansLive

USE ConstantsAssumption DEF Main, Nothing, Ids, Actors

\* Where a thread may be: an application thread and a listener differ.
PlacesOf(a) == IF a = Main THEN MainPC ELSE ListenerPC

\* Moving one thread to one of its places keeps the types of pc.
LEMMA GotoTypes ==
  ASSUME TypeOK, NEW a \in Actors, NEW place \in PlacesOf(a), Goto(a, place)
  PROVE  /\ pc' \in [Actors -> MainPC \cup ListenerPC]
         /\ pc'[Main] \in MainPC
         /\ \A t \in Ids : pc'[t] \in ListenerPC
<1>1. pc \in [Actors -> MainPC \cup ListenerPC] /\ pc[Main] \in MainPC
      /\ \A t \in Ids : pc[t] \in ListenerPC
  BY DEF TypeOK
<1>2. CASE a = Main
  BY <1>1, <1>2 DEF Goto, PlacesOf
<1>3. CASE a # Main
  <2>1. place \in ListenerPC
    BY <1>3 DEF PlacesOf
  <2>2. QED
    BY <1>1, <1>3, <2>1 DEF Goto
<1>4. QED
  BY <1>2, <1>3

\* Client::onDisconnect keeps the types, whoever called gloox.
LEMMA OnDisconnectTypes ==
  ASSUME TypeOK, NEW a \in Actors, NEW e, NEW continue \in PlacesOf(a),
         a = Main => e \notin AuthErrors,
         conn' \in [Ids -> Conn],
         OnDisconnect(a, e, continue)
  PROVE  TypeOK'
<1>0. /\ mIsConnected' = FALSE
      /\ UNCHANGED <<clientPtr, mInitialConnection, mListenerThread, mClient, connects,
                     base, sid, overlapped, connectResult>>
  BY DEF OnDisconnect
<1>1. CASE e \in AuthErrors /\ mInitialConnection
  <2>1. "register" \in PlacesOf(a)
    BY <1>1 DEF PlacesOf, ListenerPC
  <2>2. Goto(a, "register")
    BY <1>1 DEF OnDisconnect
  <2>3. /\ pc' \in [Actors -> MainPC \cup ListenerPC]
        /\ pc'[Main] \in MainPC
        /\ \A t \in Ids : pc'[t] \in ListenerPC
    BY <2>1, <2>2, GotoTypes
  <2>4. /\ mAccountStatus' \in Account
        /\ registrations' = registrations + 1
        /\ UNCHANGED <<mStateQueue, reported>>
    BY <1>1 DEF OnDisconnect, Account
  <2>5. /\ mStateQueue' \in Seq(States) /\ reported' \in States \cup {"none"}
        /\ registrations' \in Nat
    BY <2>4 DEF TypeOK
  <2>6. QED
    BY <1>0, <2>3, <2>4, <2>5 DEF TypeOK
<1>2. CASE ~(e \in AuthErrors /\ mInitialConnection)
  <2>1. Goto(a, continue)
    BY <1>2 DEF OnDisconnect
  <2>2. /\ pc' \in [Actors -> MainPC \cup ListenerPC]
        /\ pc'[Main] \in MainPC
        /\ \A t \in Ids : pc'[t] \in ListenerPC
    BY <2>1, GotoTypes
  <2>3. /\ mStateQueue' = Append(mStateQueue, "DISCONNECTED")
        /\ reported' = "DISCONNECTED"
        /\ UNCHANGED <<mAccountStatus, registrations>>
    BY <1>2 DEF OnDisconnect, Push
  <2>4. mStateQueue' \in Seq(States) /\ reported' \in States
    BY <2>3 DEF TypeOK, States
  <2>5. QED
    BY <1>0, <2>2, <2>3, <2>4 DEF TypeOK
<1>3. QED
  BY <1>1, <1>2

\* xmpp::Client::connect, on whichever thread it runs, keeps the types.
LEMMA ConnectCallTypes ==
  ASSUME TypeOK, SessionOK, NEW a \in Actors, ConnectCall(a)
  PROVE  TypeOK'
<1> USE DEF TypeOK, SessionOK, Goto, Running, Attached, object, history, vars,
           States, Account, Conn, MainPC, ListenerPC, ConnectPC, AfterConnect
<1>1. CASE ConnectSetup(a)
  BY <1>1 DEF ConnectSetup
<1>2. CASE ConnectSpawn(a)
  <2>1. sid[a] \in Ids /\ pc' = [pc EXCEPT ![a] = "finish", ![sid[a]] = "entry"]
    BY <1>2 DEF ConnectSpawn
  <2>2. "finish" \in MainPC \cap ListenerPC /\ "entry" \in ListenerPC
    OBVIOUS
  <2> HIDE DEF TypeOK, States, Account, Conn, MainPC, ListenerPC, ConnectPC
  <2>3. pc \in [Actors -> MainPC \cup ListenerPC] /\ pc[Main] \in MainPC
        /\ \A t \in Ids : pc[t] \in ListenerPC
    BY DEF TypeOK
  <2> DEFINE spawning == [pc EXCEPT ![a] = "finish"]
  <2>4. /\ spawning \in [Actors -> MainPC \cup ListenerPC]
        /\ spawning[Main] \in MainPC
        /\ \A t \in Ids : spawning[t] \in ListenerPC
    BY <2>2, <2>3
  <2>5. pc' = [spawning EXCEPT ![sid[a]] = "entry"]
    BY <2>1
  <2> HIDE DEF spawning
  <2>6. /\ pc' \in [Actors -> MainPC \cup ListenerPC]
        /\ pc'[Main] \in MainPC
        /\ \A t \in Ids : pc'[t] \in ListenerPC
    BY <2>1, <2>2, <2>4, <2>5
  <2>7. QED
    BY <1>2, <2>1, <2>6 DEF ConnectSpawn, TypeOK
<1>3. CASE ConnectSpawnFails(a)
  <2>1. AfterConnect(a) \in PlacesOf(a)
    BY DEF PlacesOf, AfterConnect
  <2>2. Goto(a, AfterConnect(a))
    BY <1>3 DEF ConnectSpawnFails
  <2> HIDE DEF States, Account, Conn, MainPC, ListenerPC, ConnectPC, Goto, AfterConnect
  <2>3. /\ pc' \in [Actors -> MainPC \cup ListenerPC]
        /\ pc'[Main] \in MainPC
        /\ \A t \in Ids : pc'[t] \in ListenerPC
    BY <2>1, <2>2, GotoTypes
  <2>4. QED
    BY <1>3, <2>3 DEF ConnectSpawnFails
<1>4. CASE ConnectFinish(a)
  <2>1. AfterConnect(a) \in PlacesOf(a)
    BY DEF PlacesOf, AfterConnect
  <2>2. Goto(a, AfterConnect(a))
    BY <1>4 DEF ConnectFinish
  <2> HIDE DEF States, Account, Conn, MainPC, ListenerPC, ConnectPC, Goto, AfterConnect
  <2>3. /\ pc' \in [Actors -> MainPC \cup ListenerPC]
        /\ pc'[Main] \in MainPC
        /\ \A t \in Ids : pc'[t] \in ListenerPC
    BY <2>1, <2>2, GotoTypes
  <2>4. QED
    BY <1>4, <2>3 DEF ConnectFinish
<1>5. QED
  BY <1>1, <1>2, <1>3, <1>4 DEF ConnectCall

\* A step of a listener thread that needs no network keeps the types.
LEMMA ListenerStepTypes ==
  ASSUME TypeOK, SessionOK, NEW t \in Ids, ListenerStep(t)
  PROVE  TypeOK'
<1> USE DEF TypeOK, SessionOK, Goto, Running, Attached, object, history, vars,
           States, Account, Conn, MainPC, ListenerPC, ConnectPC
<1>1. CASE OpenSkipped(t)
  BY <1>1 DEF OpenSkipped
<1>2. CASE OpenConnect(t)
  <2>1. PICK place \in {"loop", "connecting"} : Goto(t, place)
    BY <1>2 DEF OpenConnect
  <2>2. place \in PlacesOf(t)
    BY <2>1 DEF PlacesOf
  <2>3. conn' \in [Ids -> Conn]
    BY <1>2 DEF OpenConnect
  <2> HIDE DEF States, Account, Conn, MainPC, ListenerPC, ConnectPC
  <2>4. /\ pc' \in [Actors -> MainPC \cup ListenerPC]
        /\ pc'[Main] \in MainPC
        /\ \A u \in Ids : pc'[u] \in ListenerPC
    BY <2>1, <2>2, GotoTypes
  <2>5. QED
    BY <1>2, <2>3, <2>4 DEF OpenConnect
<1>3. CASE RecvEnter(t)
  BY <1>3 DEF RecvEnter
<1>4. CASE RecvNotConnected(t)
  BY <1>4 DEF RecvNotConnected
<1>5. CASE RegisterCheck(t)
  <2> DEFINE place == IF mAccountStatus = "SUCCESS" THEN "setup" ELSE "loop"
  <2>1. place \in PlacesOf(t)
    BY DEF PlacesOf
  <2>2. Goto(t, place)
    BY <1>5 DEF RegisterCheck
  <2>3. /\ pc' \in [Actors -> MainPC \cup ListenerPC]
        /\ pc'[Main] \in MainPC
        /\ \A u \in Ids : pc'[u] \in ListenerPC
    BY <2>1, <2>2, GotoTypes
  <2> HIDE DEF States, Account, Conn, MainPC, ListenerPC, ConnectPC, Goto, place
  <2>4. QED
    BY <1>5, <2>3 DEF RegisterCheck
<1>6. QED
  BY <1>1, <1>2, <1>3, <1>4, <1>5 DEF ListenerStep

\* What the network does to a listener thread keeps the types.
LEMMA NetworkStepTypes ==
  ASSUME TypeOK, SessionOK, NEW t \in Ids, NetworkStep(t)
  PROVE  TypeOK'
<1> USE DEF TypeOK, SessionOK, Goto, Running, Attached, object, history, vars,
           States, Account, Conn, MainPC, ListenerPC, ConnectPC
<1>1. CASE ConnectAccepted(t)
  BY <1>1 DEF ConnectAccepted
<1>2. CASE ConnectRefused(t)
  <2>1. conn' \in [Ids -> Conn] /\ OnDisconnect(t, "ConnConnectionRefused", "exited")
    BY <1>2 DEF ConnectRefused
  <2>2. "exited" \in PlacesOf(t)
    BY DEF PlacesOf
  <2>3. QED
    BY <2>1, <2>2, OnDisconnectTypes
<1>3. CASE RecvTls(t)
  BY <1>3 DEF RecvTls, OnStatus, Push
<1>4. CASE RecvAuthenticated(t)
  BY <1>4 DEF RecvAuthenticated, OnStatus, Push
<1>5. CASE RecvRoster(t)
  BY <1>5 DEF RecvRoster, OnStatus, Push
<1>6. CASE RecvRejected(t)
  <2>1. conn' \in [Ids -> Conn]
    BY <1>6 DEF RecvRejected
  <2>2. PICK e \in AuthErrors : OnDisconnect(t, e, "loop")
    BY <1>6 DEF RecvRejected
  <2>3. "loop" \in PlacesOf(t)
    BY DEF PlacesOf
  <2>4. QED
    BY <2>1, <2>2, <2>3, OnDisconnectTypes
<1>7. CASE RecvStreamError(t)
  <2>1. conn' \in [Ids -> Conn] /\ OnDisconnect(t, "ConnStreamError", "loop")
    BY <1>7 DEF RecvStreamError
  <2>2. "loop" \in PlacesOf(t)
    BY DEF PlacesOf
  <2>3. QED
    BY <2>1, <2>2, OnDisconnectTypes
<1>8. CASE RecvClosed(t)
  <2>1. conn' \in [Ids -> Conn] /\ OnDisconnect(t, "ConnIoError", "exited")
    BY <1>8 DEF RecvClosed
  <2>2. "exited" \in PlacesOf(t)
    BY DEF PlacesOf
  <2>3. QED
    BY <2>1, <2>2, OnDisconnectTypes
<1>9. CASE RegisterReturns(t)
  BY <1>9 DEF RegisterReturns
<1>10. QED
  BY <1>1, <1>2, <1>3, <1>4, <1>5, <1>6, <1>7, <1>8, <1>9 DEF NetworkStep

\* A running listener that moves to another place of its life, and at most
\* takes up the current gloox client, keeps SessionOK.
LEMMA ListenerMoveSessions ==
  ASSUME TypeOK, SessionOK, NEW t \in Ids, Running(t), Attached(t),
         NEW place \in ListenerPC \ {"unborn", "spawn"}, Goto(t, place),
         UNCHANGED <<mClient, connects, base>>,
         sid' = sid \/ sid' = [sid EXCEPT ![t] = mClient],
         place = "connecting" => sid' = [sid EXCEPT ![t] = mClient],
         place = "recv" => sid' = [sid EXCEPT ![t] = mClient]
  PROVE  SessionOK'
<1>1. mClient \in Ids
  BY DEF SessionOK, TypeOK, Attached
<1>2. /\ \A u \in Actors : u # t => pc'[u] = pc[u] /\ sid'[u] = sid[u]
      /\ pc'[t] = place
      /\ pc[t] # "unborn"
  BY DEF TypeOK, Goto, Running
<1>3. \A u \in Ids : pc'[u] # "unborn" => u <= connects
  BY <1>2 DEF SessionOK
<1>4. \A a \in Actors : pc'[a] = "spawn" => sid'[a] \in 1..connects
  BY <1>2 DEF SessionOK
<1>5. \A u \in Ids : pc'[u] \in {"connecting", "recv"} => sid'[u] \in Ids
  <2>1. place \in {"connecting", "recv"} => sid'[t] \in Ids
    BY <1>1 DEF TypeOK
  <2>2. QED
    BY <1>2, <2>1 DEF SessionOK
<1>6. mClient' # Nothing
  BY <1>1
<1>7. QED
  BY <1>3, <1>4, <1>5, <1>6 DEF SessionOK

\* xmpp::Client::connect, on whichever thread it runs, keeps SessionOK.
LEMMA ConnectCallSessions ==
  ASSUME TypeOK, SessionOK, NEW a \in Actors, ConnectCall(a)
  PROVE  SessionOK'
<1> USE DEF TypeOK, SessionOK, Goto, Running, Attached, object, history, vars,
           States, Account, Conn, MainPC, ListenerPC, ConnectPC, AfterConnect
<1>1. CASE ConnectSetup(a)
  BY <1>1 DEF ConnectSetup
<1>2. CASE ConnectSpawn(a)
  <2>1. sid[a] \in Ids /\ sid[a] <= connects
    BY <1>2 DEF ConnectSpawn
  <2>2. /\ pc'[sid[a]] = "entry"
        /\ a # sid[a] => pc'[a] = "finish"
        /\ \A u \in Actors : u # a /\ u # sid[a] => pc'[u] = pc[u]
        /\ UNCHANGED <<mClient, connects, base, sid>>
    BY <1>2, <2>1 DEF ConnectSpawn
  <2>3. a \in Ids => a <= connects
    BY <1>2 DEF ConnectSpawn
  <2>4. \A u \in Ids : pc'[u] # "unborn" => u <= connects
    BY <2>1, <2>2, <2>3
  <2>5. \A u \in Actors : pc'[u] = "spawn" => sid'[u] \in 1..connects'
    BY <2>2
  <2>6. \A u \in Ids : pc'[u] \in {"connecting", "recv"} => sid'[u] \in Ids
    BY <2>2
  <2>7. mClient # Nothing
    BY <1>2 DEF ConnectCall, ConnectSpawn
  <2>8. QED
    BY <2>2, <2>4, <2>5, <2>6, <2>7
<1>3. CASE ConnectSpawnFails(a)
  BY <1>3 DEF ConnectSpawnFails
<1>4. CASE ConnectFinish(a)
  BY <1>4 DEF ConnectFinish
<1>5. QED
  BY <1>1, <1>2, <1>3, <1>4 DEF ConnectCall

\* So does a failed or ended connection, which may begin a registration.
LEMMA OnDisconnectSessions ==
  ASSUME TypeOK, SessionOK, NEW t \in Ids, Running(t), Attached(t), NEW e,
         NEW continue \in {"loop", "exited"}, OnDisconnect(t, e, continue)
  PROVE  SessionOK'
<1>1. UNCHANGED <<mClient, connects, base, sid>>
  BY DEF OnDisconnect
<1>2. Goto(t, "register") \/ Goto(t, continue)
  BY DEF OnDisconnect
<1>3. QED
  BY <1>1, <1>2, ListenerMoveSessions DEF ListenerPC, ConnectPC

\* A step of a listener thread that needs no network keeps SessionOK.
LEMMA ListenerStepSessions ==
  ASSUME TypeOK, SessionOK, NEW t \in Ids, ListenerStep(t)
  PROVE  SessionOK'
<1> USE DEF ListenerPC, ConnectPC, Running, object, history
<1>0. Attached(t)
  BY DEF ListenerStep
<1>1. CASE OpenSkipped(t)
  BY <1>0, <1>1, ListenerMoveSessions DEF OpenSkipped
<1>2. CASE OpenConnect(t)
  <2>1. /\ sid' = [sid EXCEPT ![t] = mClient]
        /\ UNCHANGED <<mClient, connects, base>>
        /\ Running(t)
    BY <1>2 DEF OpenConnect
  <2>2. Goto(t, "loop") \/ Goto(t, "connecting")
    BY <1>2 DEF OpenConnect
  <2>3. QED
    BY <1>0, <2>1, <2>2, ListenerMoveSessions
<1>3. CASE RecvEnter(t)
  <2>1. /\ sid' = [sid EXCEPT ![t] = mClient]
        /\ UNCHANGED <<mClient, connects, base>>
        /\ Running(t)
        /\ Goto(t, "recv")
    BY <1>3 DEF RecvEnter
  <2>2. QED
    BY <1>0, <2>1, ListenerMoveSessions
<1>4. CASE RecvNotConnected(t)
  BY <1>0, <1>4, ListenerMoveSessions DEF RecvNotConnected
<1>5. CASE RegisterCheck(t)
  <2>1. UNCHANGED <<mClient, connects, base, sid>> /\ Running(t)
    BY <1>5 DEF RegisterCheck
  <2>2. Goto(t, "setup") \/ Goto(t, "loop")
    BY <1>5 DEF RegisterCheck
  <2>3. QED
    BY <1>0, <2>1, <2>2, ListenerMoveSessions
<1>6. QED
  BY <1>1, <1>2, <1>3, <1>4, <1>5 DEF ListenerStep

\* What the network does to a listener thread keeps SessionOK.
LEMMA NetworkStepSessions ==
  ASSUME TypeOK, SessionOK, NEW t \in Ids, NetworkStep(t)
  PROVE  SessionOK'
<1> USE DEF ListenerPC, ConnectPC, Running, object, history
<1>0. Attached(t)
  BY DEF NetworkStep
<1>1. CASE ConnectAccepted(t)
  BY <1>0, <1>1, ListenerMoveSessions DEF ConnectAccepted
<1>2. CASE ConnectRefused(t)
  <2>1. OnDisconnect(t, "ConnConnectionRefused", "exited") /\ Running(t)
    BY <1>2 DEF ConnectRefused
  <2>2. QED
    BY <1>0, <2>1, OnDisconnectSessions
<1>3. CASE RecvTls(t)
  BY <1>0, <1>3, ListenerMoveSessions DEF RecvTls, OnStatus
<1>4. CASE RecvAuthenticated(t)
  BY <1>0, <1>4, ListenerMoveSessions DEF RecvAuthenticated, OnStatus
<1>5. CASE RecvRoster(t)
  BY <1>0, <1>5, ListenerMoveSessions DEF RecvRoster, OnStatus
<1>6. CASE RecvRejected(t)
  <2>1. PICK e \in AuthErrors : OnDisconnect(t, e, "loop")
    BY <1>6 DEF RecvRejected
  <2>2. Running(t)
    BY <1>6 DEF RecvRejected
  <2>3. QED
    BY <1>0, <2>1, <2>2, OnDisconnectSessions
<1>7. CASE RecvStreamError(t)
  <2>1. OnDisconnect(t, "ConnStreamError", "loop") /\ Running(t)
    BY <1>7 DEF RecvStreamError
  <2>2. QED
    BY <1>0, <2>1, OnDisconnectSessions
<1>8. CASE RecvClosed(t)
  <2>1. OnDisconnect(t, "ConnIoError", "exited") /\ Running(t)
    BY <1>8 DEF RecvClosed
  <2>2. QED
    BY <1>0, <2>1, OnDisconnectSessions
<1>9. CASE RegisterReturns(t)
  BY <1>0, <1>9, ListenerMoveSessions DEF RegisterReturns
<1>10. QED
  BY <1>1, <1>2, <1>3, <1>4, <1>5, <1>6, <1>7, <1>8, <1>9 DEF NetworkStep

\* The application's own calls.
MainStep ==
  \/ StartInterface
  \/ StartRejected
  \/ StopRefused
  \/ StopCheck
  \/ StopBegin
  \/ StopClose
  \/ JoinBegin
  \/ StopJoin
  \/ GetNextStatusChange

\* startInterface, stopInterface and getNextStatusChange keep the types.
LEMMA MainStepTypes ==
  ASSUME TypeOK, MainStep
  PROVE  TypeOK'
<1> USE DEF TypeOK, Goto, object, history, vars, States, Account, Conn,
           MainPC, ListenerPC, ConnectPC
<1>1. CASE StartInterface
  BY <1>1 DEF StartInterface
<1>2. CASE StartRejected
  BY <1>2 DEF StartRejected
<1>3. CASE StopRefused
  BY <1>3 DEF StopRefused
<1>4. CASE StopBegin
  <2>1. "close" \in PlacesOf(Main)
    BY DEF PlacesOf
  <2> HIDE DEF States, Account, Conn, MainPC, ListenerPC, ConnectPC
  <2>2. /\ pc' \in [Actors -> MainPC \cup ListenerPC]
        /\ pc'[Main] \in MainPC
        /\ \A u \in Ids : pc'[u] \in ListenerPC
    BY <1>4, <2>1, GotoTypes DEF StopBegin
  <2>3. QED
    BY <1>4, <2>2 DEF StopBegin
<1>5. CASE StopClose
  <2>1. CASE mIsConnected /\ Live(mClient)
    <3>1. conn' \in [Ids -> Conn] /\ OnDisconnect(Main, "ConnUserDisconnected", "join")
      BY <1>5, <2>1 DEF StopClose
    <3>2. "join" \in PlacesOf(Main) /\ "ConnUserDisconnected" \notin AuthErrors
      BY DEF PlacesOf, AuthErrors
    <3>3. QED
      BY <3>1, <3>2, OnDisconnectTypes
  <2>2. CASE ~(mIsConnected /\ Live(mClient))
    BY <1>5, <2>2 DEF StopClose
  <2>3. QED
    BY <2>1, <2>2
<1>6. CASE StopJoin
  <2>1. DeleteClient
    BY <1>6 DEF StopJoin
  <2>2. /\ clientPtr' = FALSE /\ mInitialConnection' = FALSE /\ mIsConnected' = FALSE
        /\ mListenerThread' = 0 /\ mClient' = 0 /\ mStateQueue' = <<>>
        /\ mAccountStatus' = "INCOMPLETE" /\ reported' = "none"
        /\ registrations' = 0 /\ overlapped' = FALSE
        /\ base' = connects /\ UNCHANGED <<connects, sid, connectResult>>
        /\ conn' = [conn EXCEPT ![mClient] = "down"]
    BY <2>1 DEF DeleteClient
  <2>3. "idle" \in PlacesOf(Main) /\ Goto(Main, "idle")
    BY <2>1 DEF DeleteClient, PlacesOf
  <2>4. /\ pc' \in [Actors -> MainPC \cup ListenerPC]
        /\ pc'[Main] \in MainPC
        /\ \A t \in Ids : pc'[t] \in ListenerPC
    BY <2>3, GotoTypes
  <2>5. /\ conn' \in [Ids -> Conn]
        /\ base' \in 0..connects'
    <3> HIDE DEF States, Account, MainPC, ListenerPC, ConnectPC
    <3>1. connects \in Nat /\ conn \in [Ids -> Conn] /\ "down" \in Conn
      OBVIOUS
    <3>2. base' \in 0..connects'
      BY <2>2, <3>1
    <3>3. conn' \in [Ids -> Conn]
      BY <2>2, <3>1
    <3>4. QED
      BY <3>2, <3>3
  <2>6. /\ mStateQueue' \in Seq(States)
        /\ mAccountStatus' \in Account
        /\ reported' \in States \cup {"none"}
        /\ mListenerThread' \in Ids \cup {Nothing}
        /\ mClient' \in Ids \cup {Nothing}
    BY <2>2
  <2>7. /\ connects' \in 0..MaxConnects
        /\ sid' \in [Actors -> Ids \cup {Nothing}]
        /\ connectResult' \in BOOLEAN
    BY <2>2
  <2> HIDE DEF States, Account, Conn, MainPC, ListenerPC
  <2>8. QED
    BY <2>2, <2>4, <2>5, <2>6, <2>7
<1>7. CASE GetNextStatusChange
  BY <1>7 DEF GetNextStatusChange
<1>8. CASE StopCheck
  BY <1>8 DEF StopCheck
<1>9. CASE JoinBegin
  BY <1>9 DEF JoinBegin
<1>10. QED
  BY <1>1, <1>2, <1>3, <1>4, <1>5, <1>6, <1>7, <1>8, <1>9 DEF MainStep

\* They keep SessionOK; deleting the Client leaves no listener attached.
LEMMA MainStepSessions ==
  ASSUME TypeOK, SessionOK, MainStep
  PROVE  SessionOK'
<1> USE DEF TypeOK, SessionOK, Running, Goto, object, history, vars,
           MainPC, ListenerPC, ConnectPC
<1>1. CASE StartInterface
  BY <1>1 DEF StartInterface
<1>2. CASE StartRejected
  BY <1>2 DEF StartRejected
<1>3. CASE StopRefused
  BY <1>3 DEF StopRefused
<1>4. CASE StopBegin
  BY <1>4 DEF StopBegin
<1>5. CASE StopClose
  <2>1. pc' = [pc EXCEPT ![Main] = "join"]
    <3>1. CASE mIsConnected /\ Live(mClient)
      <4>1. OnDisconnect(Main, "ConnUserDisconnected", "join")
        BY <1>5, <3>1 DEF StopClose
      <4>2. QED
        BY <4>1 DEF OnDisconnect, AuthErrors
    <3>2. CASE ~(mIsConnected /\ Live(mClient))
      BY <1>5, <3>2 DEF StopClose
    <3>3. QED
      BY <3>1, <3>2
  <2>2. UNCHANGED <<mClient, connects, base, sid>>
    BY <1>5 DEF StopClose, OnDisconnect
  <2>3. QED
    BY <2>1, <2>2
<1>6. CASE StopJoin
  <2>1. /\ base' = connects
        /\ UNCHANGED <<connects, sid>>
        /\ pc' = [pc EXCEPT ![Main] = "idle"]
    BY <1>6 DEF StopJoin, DeleteClient
  <2>2. pc'[Main] = "idle" /\ \A t \in Ids : pc'[t] = pc[t]
    BY <2>1
  <2>3. ~\E t \in Ids : t > base' /\ pc'[t] \notin {"unborn", "exited"}
    BY <2>1, <2>2
  <2>4. \A a \in Actors : pc'[a] = "spawn" => sid'[a] \in 1..connects'
    BY <2>1, <2>2
  <2>5. QED
    BY <2>1, <2>2, <2>3, <2>4
<1>7. CASE GetNextStatusChange
  BY <1>7 DEF GetNextStatusChange
<1>8. CASE StopCheck
  BY <1>8 DEF StopCheck
<1>9. CASE JoinBegin
  BY <1>9 DEF JoinBegin
<1>10. QED
  BY <1>1, <1>2, <1>3, <1>4, <1>5, <1>6, <1>7, <1>8, <1>9 DEF MainStep

\* mIsConnected and the gloox clients change together: no step takes away the
\* last secured connection without clearing the flag.
LEMMA StepConnectedMeansLive ==
  ASSUME TypeOK, SessionOK, ConnectedMeansLive, Next
  PROVE  ConnectedMeansLive'
<1> USE DEF ConnectedMeansLive, Secured
<1>1. ASSUME UNCHANGED <<mIsConnected, conn>>
      PROVE  ConnectedMeansLive'
  BY <1>1
<1>2. ASSUME mIsConnected' = FALSE
      PROVE  ConnectedMeansLive'
  BY <1>2
<1>3. CASE MainStep
  <2>1. UNCHANGED <<mIsConnected, conn>> \/ mIsConnected' = FALSE
    BY <1>3 DEF MainStep, StartInterface, StartRejected, StopRefused, StopCheck,
                StopBegin, StopClose, JoinBegin, StopJoin, GetNextStatusChange,
                DeleteClient, OnDisconnect, object, vars
  <2>2. QED
    BY <1>1, <1>2, <2>1
<1>4. ASSUME NEW a \in Actors, ConnectCall(a)
      PROVE  ConnectedMeansLive'
  BY <1>1, <1>4 DEF ConnectCall, ConnectSetup, ConnectSpawn, ConnectSpawnFails,
                    ConnectFinish, object
<1>5. ASSUME NEW t \in Ids, ListenerStep(t)
      PROVE  ConnectedMeansLive'
  <2>1. CASE OpenConnect(t)
    <3>1. mIsConnected' = FALSE
      BY <2>1 DEF OpenConnect, object, TypeOK
    <3>2. QED
      BY <1>2, <3>1
  <2>2. CASE ~OpenConnect(t)
    BY <1>1, <1>5, <2>2 DEF ListenerStep, OpenSkipped, RecvEnter, RecvNotConnected,
                            RegisterCheck, object
  <2>3. QED
    BY <2>1, <2>2
<1>6. ASSUME NEW t \in Ids, NetworkStep(t)
      PROVE  ConnectedMeansLive'
  <2>1. CASE ConnectAccepted(t)
    <3>1. UNCHANGED mIsConnected
      BY <2>1 DEF ConnectAccepted, object
    <3>2. \A c \in Ids : Secured(c) => Secured(c)'
      BY <2>1 DEF ConnectAccepted, TypeOK
    <3>3. QED
      BY <3>1, <3>2
  <2>2. CASE RecvTls(t) \/ RecvAuthenticated(t)
    <3>1. sid[t] \in Ids
      BY <2>2 DEF RecvTls, RecvAuthenticated, SessionOK
    <3>2. conn'[sid[t]] \in {"tls", "auth"}
      BY <2>2, <3>1 DEF RecvTls, RecvAuthenticated, OnStatus, TypeOK
    <3>3. QED
      BY <3>1, <3>2
  <2>3. CASE RecvRoster(t)
    <3>1. UNCHANGED mIsConnected
      BY <2>3 DEF RecvRoster
    <3>2. \A c \in Ids : Secured(c) => Secured(c)'
      BY <2>3 DEF RecvRoster, OnStatus, TypeOK
    <3>3. QED
      BY <3>1, <3>2
  <2>4. CASE RegisterReturns(t)
    BY <1>1, <2>4 DEF RegisterReturns
  <2>5. CASE ConnectRefused(t) \/ RecvRejected(t) \/ RecvStreamError(t) \/ RecvClosed(t)
    <3>1. mIsConnected' = FALSE
      BY <2>5 DEF ConnectRefused, RecvRejected, RecvStreamError, RecvClosed, OnDisconnect
    <3>2. QED
      BY <1>2, <3>1
  <2>6. QED
    BY <1>6, <2>1, <2>2, <2>3, <2>4, <2>5 DEF NetworkStep
<1>7. QED
  BY <1>3, <1>4, <1>5, <1>6 DEF Next, MainStep

\* The inductive invariant.
LEMMA InductiveInvariant == Spec => []IInv
<1>1. Init => IInv
  <2> SUFFICES ASSUME Init PROVE IInv
    OBVIOUS
  <2>1. /\ pc = [a \in Actors |-> IF a = Main THEN "idle" ELSE "unborn"]
        /\ "idle" \in MainPC /\ "unborn" \in ListenerPC
    BY DEF Init, MainPC, ListenerPC, ConnectPC
  <2>2. /\ pc \in [Actors -> MainPC \cup ListenerPC]
        /\ pc[Main] \in MainPC
        /\ \A t \in Ids : pc[t] \in ListenerPC
    BY <2>1
  <2>3. conn \in [Ids -> Conn] /\ sid \in [Actors -> Ids \cup {Nothing}]
    BY DEF Init, Conn
  <2>4. mStateQueue \in Seq(States) /\ base \in 0..connects /\ connects \in 0..MaxConnects
    BY DEF Init
  <2>5. TypeOK
    BY <2>2, <2>3, <2>4 DEF Init, TypeOK, Account
  <2>6. SessionOK /\ ConnectedMeansLive
    BY DEF Init, SessionOK, ConnectedMeansLive, Running
  <2>7. QED
    BY <2>5, <2>6 DEF IInv
<1>2. IInv /\ [Next]_vars => IInv'
  <2> SUFFICES ASSUME IInv, [Next]_vars
               PROVE  IInv'
    OBVIOUS
  <2> USE DEF IInv
  <2>1. CASE UNCHANGED vars
    BY <2>1 DEF vars, object, history, TypeOK, SessionOK, ConnectedMeansLive, Secured,
                Running
  <2>2. CASE MainStep
    BY <2>2, MainStepTypes, MainStepSessions, StepConnectedMeansLive DEF Next, MainStep
  <2>3. ASSUME NEW a \in Actors, ConnectCall(a)
        PROVE  IInv'
    BY <2>3, ConnectCallTypes, ConnectCallSessions, StepConnectedMeansLive DEF Next
  <2>4. ASSUME NEW t \in Ids, ListenerStep(t)
        PROVE  IInv'
    BY <2>4, ListenerStepTypes, ListenerStepSessions, StepConnectedMeansLive DEF Next
  <2>5. ASSUME NEW t \in Ids, NetworkStep(t)
        PROVE  IInv'
    BY <2>5, NetworkStepTypes, NetworkStepSessions, StepConnectedMeansLive DEF Next
  <2>6. QED
    BY <2>1, <2>2, <2>3, <2>4, <2>5 DEF Next, MainStep
<1>3. QED
  BY <1>1, <1>2, PTL DEF Spec

\* Every variable of the client keeps its type, whatever the threads do.
THEOREM TypeCorrect == Spec => []TypeOK
<1>1. IInv => TypeOK
  BY DEF IInv
<1>2. QED
  BY <1>1, InductiveInvariant, PTL

\* isConnected() never outlives the last connection past its TLS handshake,
\* however many threads, sessions and restarts overlap.
THEOREM ConnectedIsLive == Spec => []ConnectedMeansLive
<1>1. IInv => ConnectedMeansLive
  BY DEF IInv
<1>2. QED
  BY <1>1, InductiveInvariant, PTL
=============================================================================
