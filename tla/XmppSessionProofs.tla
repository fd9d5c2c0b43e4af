-------------------------- MODULE XmppSessionProofs --------------------------
(***************************************************************************)
(* What holds of a Client that was started once, for every number of       *)
(* connects: a failed login may register an account and connect again from *)
(* the listener thread, so that two threads share the Client, but only one *)
(* of them is ever on its way to a new connection, the gloox clients       *)
(* before the current one are down, and as long as the end of the current  *)
(* one was not reported there is a thread that will report it.             *)
(***************************************************************************)
EXTENDS XmppClientProofs

USE ConstantsAssumption DEF Main, Nothing, Ids, Actors

\* The threads of the Client in use, with the application's.
Mine(a) == a = Main \/ a > base

Registering == {"register", "check", "setup", "spawn", "finish"}

\* Holds of every Client: identities are given out in order.
Numbering ==
  /\ mClient <= connects
  /\ \A t \in Ids : pc[t] \in {"connecting", "recv"} => sid[t] <= connects
  /\ \A c \in Ids : c > connects => conn[c] = "new" /\ pc[c] = "unborn"

\* The rest holds of a Client that was started once at most.
Unused ==
  mClient = Nothing =>
    /\ connects = base
    /\ ~mInitialConnection
    /\ ~mIsConnected
    /\ mListenerThread = Nothing
    /\ registrations = 0
    /\ pc[Main] \in {"idle", "setup"}

Used ==
  mClient # Nothing =>
    /\ mClient = connects
    /\ base < connects
    /\ pc[Main] # "setup"

\* One thread at a time registers or connects, and nobody else may begin to: until it
\* has finished, the current connection is down or there is no login to fail.
OneRegistering ==
  \A a, b \in Actors :
    Mine(a) /\ Mine(b) /\ pc[a] \in Registering /\ pc[b] \in Registering => a = b

RegisteringThread ==
  \A a \in Actors : Mine(a) =>
    /\ a # Main /\ pc[a] \in Registering => registrations > 0
    /\ a # Main /\ pc[a] \in {"register", "check", "setup"} => conn[mClient] = "down"
    /\ pc[a] \in {"setup", "spawn", "finish"} => ~mInitialConnection
    /\ pc[a] = "spawn" => sid[a] = mClient /\ conn[mClient] = "new" /\ pc[mClient] = "unborn"

\* The thread that was spawned for the current gloox client is the one that opens it.
Openers ==
  \A t \in Ids : t > base =>
    /\ pc[t] = "entry" => t = mClient /\ conn[mClient] = "new"
    /\ pc[t] = "connecting" => t = mClient /\ sid[t] = mClient /\ conn[mClient] = "connecting"
    /\ pc[t] = "recv" => sid[t] > base /\ sid[t] <= mClient

OldClientsDown == \A c \in Ids : base < c /\ c < mClient => conn[c] = "down"

Current == mIsConnected <=> Secured(mClient)

\* Without a registration there is one thread and one gloox client.
FirstConnect ==
  registrations = 0 =>
    /\ mClient \in {Nothing, base + 1}
    /\ mListenerThread \in {Nothing, mClient}
    /\ pc[Main] = "joining" => sid[Main] \in {Nothing, mClient}

\* The end of the connection is reported, or is one that nobody reports.
EndKnown ==
  \/ reported = "DISCONNECTED"
  \/ registrations > 0 /\ mAccountStatus # "SUCCESS"

\* A thread will open a connection, or notice the end of the current one.
Up == {"up", "tls", "auth", "ready"}

WillReport ==
  \/ \E a \in Actors : Mine(a) /\ pc[a] \in {"check", "setup", "spawn"}
  \/ conn[mClient] = "new" /\ pc[mClient] = "entry"
  \/ conn[mClient] = "connecting" /\ pc[mClient] = "connecting"
  \/ /\ conn[mClient] \in Up
     /\ \E t \in Ids : t > base /\ (pc[t] = "loop" \/ (pc[t] = "recv" /\ sid[t] = mClient))

Finishing == \E a \in Actors : Mine(a) /\ pc[a] = "finish"

EndSeen == mClient # Nothing /\ (connectResult \/ Finishing) => EndKnown \/ WillReport

Threads == OneRegistering /\ RegisteringThread /\ Openers /\ OldClientsDown
Session == Unused /\ Used /\ Threads /\ Current /\ FirstConnect /\ EndSeen

SessionInv == Numbering /\ (~overlapped => Session)

-----------------------------------------------------------------------------

\* What a step of one thread leaves alone.
LEMMA GotoOnly ==
  ASSUME TypeOK, NEW a \in Actors, NEW place, Goto(a, place)
  PROVE  pc'[a] = place /\ \A b \in Actors : b # a => pc'[b] = pc[b]
BY DEF Goto, TypeOK

\* A listener thread that is not connecting leaves the Client as it is.
LEMMA ListenerFrame ==
  ASSUME TypeOK, SessionOK, Session, NEW t \in Ids, t > base, Running(t),
         UNCHANGED <<mClient, connects, base, mListenerThread>>,
         registrations' \in {registrations, registrations + 1},
         pc'[Main] = pc[Main], sid'[Main] = sid[Main]
  PROVE  mClient \in Ids /\ mClient > base /\ mClient = connects
         /\ Unused' /\ Used' /\ FirstConnect'
<1>1. mClient \in Ids
  BY DEF SessionOK, TypeOK
<1>2. mClient = connects /\ base < connects
  BY <1>1 DEF Session, Used
<1>3. Unused' /\ Used'
  BY <1>1 DEF Session, Unused, Used
<1>4. FirstConnect'
  BY <1>1 DEF Session, FirstConnect, TypeOK
<1>5. QED
  BY <1>1, <1>2, <1>3, <1>4

\* A connection that is up is the current one.
LEMMA UpIsCurrent ==
  ASSUME TypeOK, SessionOK, Session, NEW t \in Ids, t > base, pc[t] = "recv",
         conn[sid[t]] \in Up
  PROVE  sid[t] = mClient /\ mClient \in Ids
<1>1. sid[t] \in Ids /\ sid[t] > base /\ sid[t] <= mClient
  BY DEF SessionOK, Session, Threads, Openers
<1>2. ~(sid[t] < mClient)
  BY <1>1 DEF Session, Threads, OldClientsDown, Up
<1>3. QED
  BY <1>1, <1>2 DEF TypeOK

-----------------------------------------------------------------------------
(* The listener thread                                                     *)

\* The thread that opens a connection finds nothing connected.
LEMMA NotSkipped ==
  ASSUME TypeOK, SessionOK, Session, NEW t \in Ids, t > base, OpenSkipped(t)
  PROVE  FALSE
<1>1. pc[t] = "entry" /\ mIsConnected
  BY DEF OpenSkipped
<1>2. conn[mClient] = "new"
  BY <1>1 DEF Session, Threads, Openers
<1>3. QED
  BY <1>1, <1>2 DEF Session, Current, Secured

\* It connects the gloox client that it was spawned for.
LEMMA OpenConnectSession ==
  ASSUME TypeOK, SessionOK, Session, NEW t \in Ids, t > base, OpenConnect(t)
  PROVE  Session'
<1>1. pc[t] = "entry" /\ ~mIsConnected
  BY DEF OpenConnect
<1>2. t = mClient /\ conn[mClient] = "new"
  BY <1>1 DEF Session, Threads, Openers
<1>3. /\ sid' = [sid EXCEPT ![t] = mClient]
      /\ conn' = [conn EXCEPT ![mClient] = "connecting"]
      /\ Goto(t, "connecting")
      /\ UNCHANGED <<clientPtr, object, connects, base, history>>
  BY <1>2 DEF OpenConnect, Live
<1>4. pc'[t] = "connecting" /\ \A b \in Actors : b # t => pc'[b] = pc[b]
  BY <1>3, GotoOnly
<1>5. sid'[t] = mClient /\ \A b \in Actors : b # t => sid'[b] = sid[b]
  BY <1>3 DEF TypeOK
<1>6. conn'[mClient] = "connecting" /\ \A c \in Ids : c # mClient => conn'[c] = conn[c]
  BY <1>2, <1>3 DEF TypeOK
<1>7. Unused' /\ Used' /\ FirstConnect' /\ mClient = connects /\ mClient > base
  BY <1>1, <1>3, <1>4, <1>5, ListenerFrame DEF Running, object, history
<1>8. \A a \in Actors : ~(Mine(a) /\ pc[a] \in {"register", "check", "setup", "spawn"} /\ a # Main)
      /\ pc[Main] \notin {"setup", "spawn"}
  BY <1>1, <1>2, <1>7 DEF Session, Threads, RegisteringThread, Mine, Used
<1>9. Threads'
  <2>1. OneRegistering'
    BY <1>3, <1>4 DEF Session, Threads, OneRegistering, Mine, Registering, object
  <2>2. RegisteringThread'
    BY <1>3, <1>4, <1>8 DEF Session, Threads, RegisteringThread, Mine, Registering, object, history
  <2>3. Openers'
    BY <1>2, <1>3, <1>4, <1>5, <1>6, <1>7 DEF Session, Threads, Openers, object
  <2>4. OldClientsDown'
    BY <1>2, <1>3, <1>6 DEF Session, Threads, OldClientsDown, object
  <2>5. QED
    BY <2>1, <2>2, <2>3, <2>4 DEF Threads
<1>10. Current'
  BY <1>1, <1>3, <1>6 DEF Current, Secured, object
<1>11. EndSeen'
  BY <1>2, <1>3, <1>4, <1>6 DEF EndSeen, WillReport, object
<1>12. QED
  BY <1>7, <1>9, <1>10, <1>11 DEF Session

\* connect() of gloox opens the socket.
LEMMA ConnectAcceptedSession ==
  ASSUME TypeOK, SessionOK, Session, NEW t \in Ids, t > base, ConnectAccepted(t)
  PROVE  Session'
<1>1. pc[t] = "connecting"
  BY DEF ConnectAccepted
<1>2. t = mClient /\ sid[t] = mClient /\ conn[mClient] = "connecting"
  BY <1>1 DEF Session, Threads, Openers
<1>3. /\ conn' = [conn EXCEPT ![mClient] = "up"]
      /\ Goto(t, "loop")
      /\ UNCHANGED <<clientPtr, object, connects, base, sid, history>>
  BY <1>2 DEF ConnectAccepted
<1>4. pc'[t] = "loop" /\ \A b \in Actors : b # t => pc'[b] = pc[b]
  BY <1>3, GotoOnly
<1>5. conn'[mClient] = "up" /\ \A c \in Ids : c # mClient => conn'[c] = conn[c]
  BY <1>2, <1>3 DEF TypeOK
<1>6. Unused' /\ Used' /\ FirstConnect' /\ mClient = connects /\ mClient > base
  BY <1>1, <1>3, <1>4, ListenerFrame DEF Running, object, history
<1>7. \A a \in Actors : ~(Mine(a) /\ pc[a] \in {"register", "check", "setup", "spawn"} /\ a # Main)
      /\ pc[Main] \notin {"setup", "spawn"}
  BY <1>1, <1>2, <1>6 DEF Session, Threads, RegisteringThread, Mine, Used
<1>8. Threads'
  <2>1. OneRegistering'
    BY <1>3, <1>4 DEF Session, Threads, OneRegistering, Mine, Registering, object
  <2>2. RegisteringThread'
    BY <1>3, <1>4, <1>7 DEF Session, Threads, RegisteringThread, Mine, Registering, object, history
  <2>3. Openers'
    BY <1>2, <1>3, <1>4, <1>5, <1>6 DEF Session, Threads, Openers, object
  <2>4. OldClientsDown'
    BY <1>2, <1>3, <1>5 DEF Session, Threads, OldClientsDown, object
  <2>5. QED
    BY <2>1, <2>2, <2>3, <2>4 DEF Threads
<1>9. Current'
  BY <1>2, <1>3, <1>5 DEF Session, Current, Secured, object
<1>10. EndSeen'
  BY <1>2, <1>3, <1>4, <1>5 DEF EndSeen, WillReport, Up, object
<1>11. QED
  BY <1>6, <1>8, <1>9, <1>10 DEF Session

\* The current connection ends, on the thread t that is inside gloox: the end is
\* reported, or a registration begins.
LEMMA OnDisconnectSession ==
  ASSUME TypeOK, SessionOK, Session, ~overlapped,
         NEW t \in Ids, t > base, sid[t] = mClient,
         \/ pc[t] = "connecting" /\ conn[mClient] = "connecting"
         \/ pc[t] = "recv" /\ conn[mClient] \in Up,
         conn' = [conn EXCEPT ![mClient] = "down"],
         NEW e, NEW continue \in {"loop", "exited"}, OnDisconnect(t, e, continue)
  PROVE  Session'
<1>1. /\ mIsConnected' = FALSE
      /\ UNCHANGED <<clientPtr, mInitialConnection, mListenerThread, mClient, connects,
                     base, sid, overlapped, connectResult>>
  BY DEF OnDisconnect
<1>2. /\ \/ /\ mInitialConnection /\ mAccountStatus' = "INCOMPLETE"
            /\ registrations' = registrations + 1 /\ Goto(t, "register")
         \/ /\ reported' = "DISCONNECTED" /\ UNCHANGED <<mAccountStatus, registrations>>
            /\ Goto(t, continue)
  BY DEF OnDisconnect, Push
<1>3. PICK place \in {"register", "loop", "exited"} :
        /\ Goto(t, place)
        /\ \/ /\ place = "register" /\ mInitialConnection /\ mAccountStatus' = "INCOMPLETE"
              /\ registrations' = registrations + 1
           \/ /\ place # "register" /\ reported' = "DISCONNECTED"
              /\ UNCHANGED <<mAccountStatus, registrations>>
  BY <1>2
<1>4. pc'[t] = place /\ \A b \in Actors : b # t => pc'[b] = pc[b]
  BY <1>3, GotoOnly
<1>5. Unused' /\ Used' /\ FirstConnect' /\ mClient \in Ids /\ mClient = connects /\ mClient > base
  BY <1>1, <1>3, <1>4, ListenerFrame DEF Running
<1>6. conn'[mClient] = "down" /\ \A c \in Ids : c # mClient => conn'[c] = conn[c]
  BY <1>5 DEF TypeOK
<1>7. \A a \in Actors : Mine(a) =>
        /\ a # Main => pc[a] \notin {"register", "check", "setup", "spawn"}
        /\ pc[a] \notin {"setup", "spawn"}
        /\ pc[a] = "finish" => ~mInitialConnection
  BY <1>5 DEF Session, Threads, RegisteringThread, Mine, Used, Up
<1>8. pc[Main] \notin {"register", "check"}
  BY DEF TypeOK, MainPC, ConnectPC
<1>9. registrations \in Nat /\ pc[t] \notin Registering
  BY DEF TypeOK, Registering
<1>10. Threads'
  <2>1. OneRegistering'
    <3>1. CASE place = "register"
      <4>1. \A a \in Actors : Mine(a) => pc[a] \notin Registering
        BY <1>3, <1>7, <1>8, <3>1 DEF Registering
      <4>2. \A a \in Actors : Mine(a)' /\ pc'[a] \in Registering => a = t
        BY <1>1, <1>4, <4>1 DEF Mine
      <4>3. QED
        BY <4>2 DEF OneRegistering
    <3>2. CASE place # "register"
      BY <1>1, <1>3, <1>4, <3>2 DEF Session, Threads, OneRegistering, Mine, Registering
    <3>3. QED
      BY <3>1, <3>2
  <2>2. RegisteringThread'
    BY <1>1, <1>3, <1>4, <1>6, <1>7, <1>9 DEF Session, Threads, RegisteringThread, Mine, Registering
  <2>3. Openers'
    <3>1. \A u \in Ids : u > base /\ u # t => pc[u] \notin {"entry", "connecting"}
      BY DEF Session, Threads, Openers, Up
    <3>2. QED
      BY <1>1, <1>3, <1>4, <3>1 DEF Session, Threads, Openers
  <2>4. OldClientsDown'
    BY <1>1, <1>5, <1>6 DEF Session, Threads, OldClientsDown
  <2>5. QED
    BY <2>1, <2>2, <2>3, <2>4 DEF Threads
<1>11. Current'
  BY <1>1, <1>6 DEF Current, Secured
<1>12. EndSeen'
  BY <1>3, <1>9 DEF EndSeen, EndKnown
<1>13. QED
  BY <1>5, <1>10, <1>11, <1>12 DEF Session

\* Each round of the loop takes the current gloox client.
LEMMA RecvEnterSession ==
  ASSUME TypeOK, SessionOK, Session, NEW t \in Ids, t > base, RecvEnter(t)
  PROVE  Session'
<1>1. /\ pc[t] = "loop"
      /\ sid' = [sid EXCEPT ![t] = mClient]
      /\ Goto(t, "recv")
      /\ UNCHANGED <<clientPtr, object, connects, base, conn, history>>
  BY DEF RecvEnter
<1>2. pc'[t] = "recv" /\ \A b \in Actors : b # t => pc'[b] = pc[b]
  BY <1>1, GotoOnly
<1>3. sid'[t] = mClient /\ \A b \in Actors : b # t => sid'[b] = sid[b]
  BY <1>1 DEF TypeOK
<1>4. Unused' /\ Used' /\ FirstConnect' /\ mClient \in Ids /\ mClient = connects /\ mClient > base
  BY <1>1, <1>2, <1>3, ListenerFrame DEF Running, object, history
<1>5. Threads'
  <2>1. OneRegistering'
    BY <1>1, <1>2 DEF Session, Threads, OneRegistering, Mine, Registering, object
  <2>2. RegisteringThread'
    BY <1>1, <1>2, <1>3, <1>4 DEF Session, Threads, RegisteringThread, Mine, Registering, object, history
  <2>3. Openers'
    BY <1>1, <1>2, <1>3, <1>4 DEF Session, Threads, Openers, object
  <2>4. OldClientsDown'
    BY <1>1 DEF Session, Threads, OldClientsDown, object
  <2>5. QED
    BY <2>1, <2>2, <2>3, <2>4 DEF Threads
<1>6. Current'
  BY <1>1 DEF Session, Current, Secured, object
<1>7. EndSeen'
  <2>1. Finishing' => Finishing
    BY <1>1, <1>2 DEF Finishing, Mine
  <2>2. WillReport => WillReport'
    BY <1>1, <1>2, <1>3, <1>4 DEF WillReport, Mine, object
  <2>3. QED
    BY <1>1, <2>1, <2>2 DEF Session, EndSeen, EndKnown, object, history
<1>8. QED
  BY <1>4, <1>5, <1>6, <1>7 DEF Session

\* A thread that finds no connection leaves: it was not the one that would report.
LEMMA RecvNotConnectedSession ==
  ASSUME TypeOK, SessionOK, Session, NEW t \in Ids, t > base, RecvNotConnected(t)
  PROVE  Session'
<1>1. /\ pc[t] = "recv"
      /\ conn[sid[t]] \in {"new", "connecting", "down"}
      /\ Goto(t, "exited")
      /\ UNCHANGED <<clientPtr, object, connects, base, conn, sid, history>>
  BY DEF RecvNotConnected
<1>2. pc'[t] = "exited" /\ \A b \in Actors : b # t => pc'[b] = pc[b]
  BY <1>1, GotoOnly
<1>3. Unused' /\ Used' /\ FirstConnect' /\ mClient \in Ids /\ mClient = connects /\ mClient > base
  BY <1>1, <1>2, ListenerFrame DEF Running, object, history
<1>4. Threads'
  <2>1. OneRegistering'
    BY <1>1, <1>2 DEF Session, Threads, OneRegistering, Mine, Registering, object
  <2>2. RegisteringThread'
    BY <1>1, <1>2, <1>3 DEF Session, Threads, RegisteringThread, Mine, Registering, object, history
  <2>3. Openers'
    BY <1>1, <1>2 DEF Session, Threads, Openers, object
  <2>4. OldClientsDown'
    BY <1>1 DEF Session, Threads, OldClientsDown, object
  <2>5. QED
    BY <2>1, <2>2, <2>3, <2>4 DEF Threads
<1>5. Current'
  BY <1>1 DEF Session, Current, Secured, object
<1>6. EndSeen'
  <2>1. Finishing' => Finishing
    BY <1>1, <1>2 DEF Finishing, Mine
  <2>2. WillReport => WillReport'
    BY <1>1, <1>2, <1>3 DEF WillReport, Mine, Up, object
  <2>3. QED
    BY <1>1, <2>1, <2>2 DEF Session, EndSeen, EndKnown, object, history
<1>7. QED
  BY <1>3, <1>4, <1>5, <1>6 DEF Session

\* The handshake, the login and the roster advance the current connection.
LEMMA OnStatusSession ==
  ASSUME TypeOK, SessionOK, Session, NEW t \in Ids, t > base, pc[t] = "recv",
         sid[t] = mClient, conn[mClient] \in Up,
         NEW state \in Up, NEW status, OnStatus(t, state, status),
         mIsConnected' <=> state # "up"
  PROVE  Session'
<1>1. /\ conn' = [conn EXCEPT ![mClient] = state]
      /\ Goto(t, "loop")
      /\ UNCHANGED <<mInitialConnection, mListenerThread, mClient, connects, base, sid,
                     registrations, mAccountStatus, overlapped, connectResult>>
  BY DEF OnStatus
<1>2. pc'[t] = "loop" /\ \A b \in Actors : b # t => pc'[b] = pc[b]
  BY <1>1, GotoOnly
<1>3. Unused' /\ Used' /\ FirstConnect' /\ mClient \in Ids /\ mClient = connects /\ mClient > base
  BY <1>1, <1>2, ListenerFrame DEF Running
<1>4. conn'[mClient] = state /\ \A c \in Ids : c # mClient => conn'[c] = conn[c]
  BY <1>1, <1>3 DEF TypeOK
<1>5. conn[mClient] \notin {"new", "connecting", "down"}
  BY DEF Up
<1>6. Threads'
  <2>1. OneRegistering'
    BY <1>1, <1>2 DEF Session, Threads, OneRegistering, Mine, Registering
  <2>2. RegisteringThread'
    BY <1>1, <1>2, <1>3, <1>5 DEF Session, Threads, RegisteringThread, Mine, Registering, Used
  <2>3. Openers'
    BY <1>1, <1>2, <1>5 DEF Session, Threads, Openers
  <2>4. OldClientsDown'
    BY <1>1, <1>3, <1>4 DEF Session, Threads, OldClientsDown
  <2>5. QED
    BY <2>1, <2>2, <2>3, <2>4 DEF Threads
<1>7. Current'
  BY <1>1, <1>3, <1>4 DEF Current, Secured, Up
<1>8. EndSeen'
  BY <1>1, <1>2, <1>4 DEF EndSeen, WillReport
<1>9. QED
  BY <1>3, <1>6, <1>7, <1>8 DEF Session

\* The registration returns, with whatever result.
LEMMA RegisterReturnsSession ==
  ASSUME TypeOK, SessionOK, Session, NEW t \in Ids, t > base, RegisterReturns(t)
  PROVE  Session'
<1>1. /\ pc[t] = "register"
      /\ Goto(t, "check")
      /\ UNCHANGED <<clientPtr, mInitialConnection, mListenerThread, mStateQueue,
                     mIsConnected, mClient, connects, base, conn, sid, history>>
  BY DEF RegisterReturns
<1>2. pc'[t] = "check" /\ \A b \in Actors : b # t => pc'[b] = pc[b]
  BY <1>1, GotoOnly
<1>3. Unused' /\ Used' /\ FirstConnect' /\ mClient \in Ids
  BY <1>1, <1>2, ListenerFrame DEF Running, history
<1>4. Threads'
  <2>1. OneRegistering'
    BY <1>1, <1>2 DEF Session, Threads, OneRegistering, Mine, Registering
  <2>2. RegisteringThread'
    BY <1>1, <1>2, <1>3 DEF Session, Threads, RegisteringThread, Mine, Registering, history
  <2>3. Openers'
    BY <1>1, <1>2 DEF Session, Threads, Openers
  <2>4. OldClientsDown'
    BY <1>1 DEF Session, Threads, OldClientsDown
  <2>5. QED
    BY <2>1, <2>2, <2>3, <2>4 DEF Threads
<1>5. Current'
  BY <1>1 DEF Session, Current, Secured
<1>6. EndSeen'
  BY <1>1, <1>2 DEF EndSeen, WillReport, Mine
<1>7. QED
  BY <1>3, <1>4, <1>5, <1>6 DEF Session

\* After it the thread connects again, or returns to its loop.
LEMMA RegisterCheckSession ==
  ASSUME TypeOK, SessionOK, Session, NEW t \in Ids, t > base, RegisterCheck(t)
  PROVE  Session'
<1>1. /\ pc[t] = "check"
      /\ mInitialConnection' = FALSE
      /\ UNCHANGED <<clientPtr, mListenerThread, mStateQueue, mAccountStatus,
                     mIsConnected, mClient, connects, base, conn, sid, history>>
  BY DEF RegisterCheck
<1>2. PICK place \in {"setup", "loop"} :
        /\ Goto(t, place)
        /\ place = "loop" => mAccountStatus # "SUCCESS"
  BY DEF RegisterCheck
<1>3. pc'[t] = place /\ \A b \in Actors : b # t => pc'[b] = pc[b]
  BY <1>2, GotoOnly
<1>4. mClient \in Ids /\ FirstConnect' /\ Used'
  BY <1>1, <1>3, ListenerFrame DEF Running, history
<1>5. Unused'
  BY <1>1, <1>4 DEF Unused
<1>6. Threads'
  <2>1. OneRegistering'
    BY <1>1, <1>3 DEF Session, Threads, OneRegistering, Mine, Registering
  <2>2. RegisteringThread'
    BY <1>1, <1>3, <1>4 DEF Session, Threads, RegisteringThread, Mine, Registering, history
  <2>3. Openers'
    BY <1>1, <1>3 DEF Session, Threads, Openers
  <2>4. OldClientsDown'
    BY <1>1 DEF Session, Threads, OldClientsDown
  <2>5. QED
    BY <2>1, <2>2, <2>3, <2>4 DEF Threads
<1>7. Current'
  BY <1>1 DEF Session, Current, Secured
<1>8. EndSeen'
  <2>1. registrations > 0
    BY <1>1 DEF Session, Threads, RegisteringThread, Mine, Registering
  <2>2. CASE place = "setup"
    BY <1>1, <1>3, <2>2 DEF EndSeen, WillReport, Mine
  <2>3. CASE place = "loop"
    BY <1>1, <1>2, <2>1, <2>3 DEF EndSeen, EndKnown, history
  <2>4. QED
    BY <2>2, <2>3
<1>9. QED
  BY <1>4, <1>5, <1>6, <1>7, <1>8 DEF Session

-----------------------------------------------------------------------------
(* Client::connect, on the application's thread or on a listener thread    *)

\* A new gloox client takes the place of one that is down, or is the first.
LEMMA ConnectSetupSession ==
  ASSUME TypeOK, SessionOK, Numbering, Session, NEW a \in Actors, Mine(a), ConnectSetup(a)
  PROVE  Session'
<1>1. /\ pc[a] = "setup"
      /\ connects < MaxConnects
      /\ connects' = connects + 1
      /\ mClient' = connects + 1
      /\ sid' = [sid EXCEPT ![a] = connects + 1]
      /\ Goto(a, "spawn")
      /\ UNCHANGED <<clientPtr, mInitialConnection, mListenerThread, mAccountStatus,
                     mIsConnected, base, conn, registrations, overlapped, connectResult>>
  BY DEF ConnectSetup
<1>2. connects \in Nat /\ connects + 1 \in Ids /\ base \in Nat /\ base <= connects
      /\ mClient \in Ids \cup {0}
  BY <1>1 DEF TypeOK
<1>3. conn[connects + 1] = "new" /\ pc[connects + 1] = "unborn"
  BY <1>2 DEF Numbering
<1>4. pc'[a] = "spawn" /\ \A b \in Actors : b # a => pc'[b] = pc[b]
  BY <1>1, GotoOnly
<1>5. sid'[a] = connects + 1 /\ \A b \in Actors : b # a => sid'[b] = sid[b]
  BY <1>1, <1>2 DEF TypeOK
<1>6. \/ a = Main /\ mClient = Nothing /\ connects = base /\ ~mIsConnected /\ ~mInitialConnection
         /\ registrations = 0 /\ mListenerThread = Nothing
      \/ a # Main /\ a > base /\ mClient # Nothing /\ mClient = connects /\ conn[mClient] = "down"
         /\ registrations > 0 /\ ~mInitialConnection
  BY <1>1, <1>2 DEF Session, Used, Unused, Threads, RegisteringThread, Mine, Registering,
                    SessionOK, Running
<1>7. ~mIsConnected
  BY <1>6 DEF Session, Current, Secured
<1>8. \A b \in Actors : Mine(b) /\ pc[b] \in Registering => b = a
  BY <1>1 DEF Session, Threads, OneRegistering, Registering
<1>9. Unused'
  BY <1>1, <1>2 DEF Unused
<1>10. Used'
  BY <1>1, <1>2, <1>4, <1>6 DEF Session, Used
<1>11. Threads'
  <2>1. OneRegistering'
    BY <1>1, <1>4, <1>8 DEF OneRegistering, Mine
  <2>2. RegisteringThread'
    BY <1>1, <1>2, <1>3, <1>4, <1>5, <1>6, <1>8
       DEF Session, Threads, RegisteringThread, Mine, Registering
  <2>3. Openers'
    <3>1. \A t \in Ids : t > base => pc[t] \notin {"entry", "connecting"}
      BY <1>2, <1>6 DEF Session, Threads, Openers, SessionOK, Running
    <3>2. \A t \in Ids : t > base /\ pc[t] = "recv" => sid[t] > base /\ sid[t] <= connects
      BY <1>2 DEF Session, Threads, Openers, SessionOK, Numbering
    <3>3. QED
      <4>1. \A t \in Ids : t > base' =>
               /\ pc'[t] \notin {"entry", "connecting"}
               /\ pc'[t] = "recv" => sid'[t] = sid[t] /\ pc[t] = "recv"
        BY <1>1, <1>4, <1>5, <3>1
      <4>2. \A t \in Ids : sid[t] \in Nat
        BY DEF TypeOK
      <4>3. \A t \in Ids : t > base' /\ pc'[t] = "recv" => sid'[t] > base' /\ sid'[t] <= mClient'
        BY <1>1, <1>2, <3>2, <4>1, <4>2
      <4>4. QED
        BY <4>1, <4>3 DEF Openers
  <2>4. OldClientsDown'
    BY <1>1, <1>2, <1>6 DEF Session, Threads, OldClientsDown
  <2>5. QED
    BY <2>1, <2>2, <2>3, <2>4 DEF Threads
<1>12. Current'
  BY <1>1, <1>2, <1>3, <1>7 DEF Current, Secured
<1>13. FirstConnect'
  BY <1>1, <1>2, <1>4, <1>6 DEF FirstConnect
<1>14. EndSeen'
  BY <1>1, <1>4 DEF EndSeen, WillReport, Mine
<1>15. QED
  BY <1>9, <1>10, <1>11, <1>12, <1>13, <1>14 DEF Session

\* What the thread that is about to spawn another one knows.
LEMMA Spawning ==
  ASSUME TypeOK, SessionOK, Session, NEW a \in Actors, Mine(a), pc[a] = "spawn"
  PROVE  /\ sid[a] = mClient /\ mClient \in Ids /\ mClient > base /\ a # mClient
         /\ conn[mClient] = "new" /\ pc[mClient] = "unborn"
         /\ ~mInitialConnection
         /\ a # Main => registrations > 0
         /\ \A b \in Actors : Mine(b) /\ pc[b] \in Registering => b = a
<1>1. /\ sid[a] = mClient /\ conn[mClient] = "new" /\ pc[mClient] = "unborn"
      /\ ~mInitialConnection
      /\ a # Main => registrations > 0
  BY DEF Session, Threads, RegisteringThread, Registering
<1>2. mClient \in Ids
  BY <1>1 DEF SessionOK, TypeOK
<1>3. mClient > base
  BY <1>2 DEF Session, Used
<1>4. \A b \in Actors : Mine(b) /\ pc[b] \in Registering => b = a
  BY DEF Session, Threads, OneRegistering, Registering
<1>5. QED
  BY <1>1, <1>2, <1>3, <1>4

\* The thread of the new gloox client starts.
LEMMA ConnectSpawnSession ==
  ASSUME TypeOK, SessionOK, Session, NEW a \in Actors, Mine(a), ConnectSpawn(a)
  PROVE  Session'
<1>1. /\ pc[a] = "spawn"
      /\ pc' = [pc EXCEPT ![a] = "finish", ![sid[a]] = "entry"]
      /\ mListenerThread' = sid[a]
      /\ UNCHANGED <<clientPtr, mInitialConnection, mStateQueue, mAccountStatus,
                     mIsConnected, mClient, connects, base, conn, sid, history>>
  BY DEF ConnectSpawn
<1>2. /\ sid[a] = mClient /\ mClient \in Ids /\ mClient > base /\ a # mClient
      /\ conn[mClient] = "new" /\ pc[mClient] = "unborn"
      /\ ~mInitialConnection
      /\ a # Main => registrations > 0
      /\ \A b \in Actors : Mine(b) /\ pc[b] \in Registering => b = a
  BY <1>1, Spawning
<1>3. /\ pc'[a] = "finish" /\ pc'[mClient] = "entry"
      /\ \A b \in Actors : b # a /\ b # mClient => pc'[b] = pc[b]
  BY <1>1, <1>2 DEF TypeOK
<1>4. Unused' /\ Used'
  <2>1. mClient # Nothing /\ Used /\ base \in Nat /\ connects \in Nat
    BY <1>2 DEF Session, TypeOK
  <2>2. pc'[Main] # "setup"
    BY <1>2, <1>3, <2>1 DEF Used
  <2>3. QED
    BY <1>1, <2>1, <2>2 DEF Unused, Used
<1>5. Threads'
  <2>1. OneRegistering'
    BY <1>1, <1>2, <1>3 DEF OneRegistering, Mine, Registering
  <2>2. RegisteringThread'
    BY <1>1, <1>2, <1>3 DEF RegisteringThread, Mine, Registering, history
  <2>3. Openers'
    <3>1. \A t \in Ids : t > base /\ t # mClient /\ t # a => pc'[t] = pc[t]
      BY <1>3
    <3>2. \A t \in Ids : t > base => pc[t] \notin {"connecting"}
      BY <1>2 DEF Session, Threads, Openers
    <3>3. QED
      BY <1>1, <1>2, <1>3, <3>1, <3>2 DEF Session, Threads, Openers
  <2>4. OldClientsDown'
    BY <1>1 DEF Session, Threads, OldClientsDown
  <2>5. QED
    BY <2>1, <2>2, <2>3, <2>4 DEF Threads
<1>6. Current'
  BY <1>1 DEF Session, Current, Secured
<1>7. FirstConnect'
  BY <1>1, <1>2, <1>3 DEF Session, FirstConnect, history
<1>8. EndSeen'
  BY <1>1, <1>2, <1>3 DEF EndSeen, WillReport
<1>9. QED
  BY <1>4, <1>5, <1>6, <1>7, <1>8 DEF Session

\* It does not start: connect() returns false.
LEMMA ConnectSpawnFailsSession ==
  ASSUME TypeOK, SessionOK, Session, NEW a \in Actors, Mine(a), ConnectSpawnFails(a)
  PROVE  Session'
<1>1. /\ pc[a] = "spawn"
      /\ connectResult' = FALSE
      /\ Goto(a, AfterConnect(a))
      /\ UNCHANGED <<clientPtr, object, connects, base, conn, sid, reported, registrations,
                     overlapped>>
  BY DEF ConnectSpawnFails
<1>2. /\ sid[a] = mClient /\ mClient \in Ids /\ mClient > base /\ a # mClient
      /\ conn[mClient] = "new" /\ pc[mClient] = "unborn"
      /\ \A b \in Actors : Mine(b) /\ pc[b] \in Registering => b = a
  BY <1>1, Spawning
<1>3. PICK place \in {"idle", "loop"} : Goto(a, place)
  BY <1>1 DEF AfterConnect
<1>4. pc'[a] = place /\ \A b \in Actors : b # a => pc'[b] = pc[b]
  BY <1>3, GotoOnly
<1>5. Unused' /\ Used'
  BY <1>1, <1>2, <1>4 DEF Session, Unused, Used, object
<1>6. Threads'
  <2>1. OneRegistering'
    BY <1>1, <1>2, <1>4 DEF OneRegistering, Mine, Registering, object
  <2>2. RegisteringThread'
    BY <1>1, <1>2, <1>4 DEF Session, Threads, RegisteringThread, Mine, Registering, object
  <2>3. Openers'
    BY <1>1, <1>2, <1>4 DEF Session, Threads, Openers, object
  <2>4. OldClientsDown'
    BY <1>1 DEF Session, Threads, OldClientsDown, object
  <2>5. QED
    BY <2>1, <2>2, <2>3, <2>4 DEF Threads
<1>7. Current'
  BY <1>1 DEF Session, Current, Secured, object
<1>8. FirstConnect'
  BY <1>1, <1>4 DEF Session, FirstConnect, object
<1>9. EndSeen'
  <2>1. ~Finishing'
    BY <1>1, <1>2, <1>4 DEF Finishing, Mine, Registering
  <2>2. QED
    BY <1>1, <2>1 DEF EndSeen
<1>10. QED
  BY <1>5, <1>6, <1>7, <1>8, <1>9 DEF Session

\* connect() returns true: from here on a failed login may register.
LEMMA ConnectFinishSession ==
  ASSUME TypeOK, SessionOK, Session, NEW a \in Actors, Mine(a), ConnectFinish(a)
  PROVE  Session'
<1>1. /\ pc[a] = "finish"
      /\ mInitialConnection' = TRUE
      /\ connectResult' = TRUE
      /\ Goto(a, AfterConnect(a))
      /\ UNCHANGED <<clientPtr, mListenerThread, mStateQueue, mAccountStatus,
                     mIsConnected, mClient, connects, base, conn, sid, reported,
                     registrations, overlapped>>
  BY DEF ConnectFinish
<1>2. PICK place \in {"idle", "loop"} : Goto(a, place)
  BY <1>1 DEF AfterConnect
<1>3. pc'[a] = place /\ \A b \in Actors : b # a => pc'[b] = pc[b]
  BY <1>2, GotoOnly
<1>4. \A b \in Actors : Mine(b) /\ pc[b] \in Registering => b = a
  BY <1>1 DEF Session, Threads, OneRegistering, Registering
<1>5. mClient \in Ids
  <2>1. CASE a = Main
    BY <1>1, <2>1 DEF Session, Unused, TypeOK
  <2>2. CASE a # Main
    BY <1>1, <2>2 DEF Mine, SessionOK, Running, TypeOK
  <2>3. QED
    BY <2>1, <2>2
<1>6. Unused' /\ Used'
  BY <1>1, <1>3, <1>5 DEF Session, Unused, Used
<1>7. Threads'
  <2>1. OneRegistering'
    BY <1>1, <1>3, <1>4 DEF OneRegistering, Mine, Registering
  <2>2. RegisteringThread'
    BY <1>1, <1>3, <1>4 DEF RegisteringThread, Mine, Registering
  <2>3. Openers'
    BY <1>1, <1>3 DEF Session, Threads, Openers
  <2>4. OldClientsDown'
    BY <1>1 DEF Session, Threads, OldClientsDown
  <2>5. QED
    BY <2>1, <2>2, <2>3, <2>4 DEF Threads
<1>8. Current'
  BY <1>1 DEF Session, Current, Secured
<1>9. FirstConnect'
  BY <1>1, <1>3 DEF Session, FirstConnect
<1>10. EndSeen'
  <2>1. EndKnown \/ WillReport
    BY <1>1, <1>5 DEF Session, EndSeen, Finishing
  <2>2. EndKnown => EndKnown'
    BY <1>1 DEF EndKnown
  <2>3. WillReport => WillReport'
    BY <1>1, <1>3, <1>5 DEF WillReport, Mine
  <2>4. QED
    BY <2>1, <2>2, <2>3 DEF EndSeen
<1>11. QED
  BY <1>6, <1>7, <1>8, <1>9, <1>10 DEF Session

\* connect(), on whichever thread it runs.
LEMMA ConnectCallSession ==
  ASSUME TypeOK, SessionOK, Numbering, Session, NEW a \in Actors, ConnectCall(a)
  PROVE  Session'
<1>1. Mine(a)
  BY DEF ConnectCall, Attached, Mine
<1>2. QED
  BY <1>1, ConnectSetupSession, ConnectSpawnSession, ConnectSpawnFailsSession,
     ConnectFinishSession DEF ConnectCall

-----------------------------------------------------------------------------
(* All steps of a listener thread                                          *)

LEMMA ListenerStepSession ==
  ASSUME TypeOK, SessionOK, Session, NEW t \in Ids, ListenerStep(t)
  PROVE  Session'
<1>1. t > base
  BY DEF ListenerStep, Attached
<1>2. QED
  BY <1>1, NotSkipped, OpenConnectSession, RecvEnterSession, RecvNotConnectedSession,
     RegisterCheckSession DEF ListenerStep

LEMMA NetworkStepSession ==
  ASSUME TypeOK, SessionOK, Session, ~overlapped, NEW t \in Ids, NetworkStep(t)
  PROVE  Session'
<1>1. t > base
  BY DEF NetworkStep, Attached
<1>2. pc[t] = "recv" /\ conn[sid[t]] \in Up =>
        sid[t] = mClient /\ mClient \in Ids /\ (mIsConnected <=> conn[mClient] # "up")
  BY <1>1, UpIsCurrent DEF Session, Current, Secured, Up
<1>3. CASE ConnectAccepted(t)
  BY <1>1, <1>3, ConnectAcceptedSession
<1>4. CASE ConnectRefused(t)
  <2>1. pc[t] = "connecting" /\ conn' = [conn EXCEPT ![sid[t]] = "down"]
        /\ OnDisconnect(t, "ConnConnectionRefused", "exited")
    BY <1>4 DEF ConnectRefused
  <2>2. sid[t] = mClient /\ conn[mClient] = "connecting"
    BY <1>1, <2>1 DEF Session, Threads, Openers
  <2>3. conn' = [conn EXCEPT ![mClient] = "down"]
    BY <2>1, <2>2
  <2>4. QED
    BY <1>1, <2>1, <2>2, <2>3, OnDisconnectSession
<1>5. CASE RecvTls(t)
  <2>1. pc[t] = "recv" /\ conn[sid[t]] = "up" /\ mIsConnected' = TRUE
        /\ OnStatus(t, "tls", "TLS_CONNECTED")
    BY <1>5 DEF RecvTls
  <2>2. QED
    BY <1>1, <1>2, <2>1, OnStatusSession DEF Up
<1>6. CASE RecvAuthenticated(t)
  <2>1. pc[t] = "recv" /\ conn[sid[t]] \in {"up", "tls"} /\ mIsConnected' = TRUE
        /\ OnStatus(t, "auth", "CONNECTED")
    BY <1>6 DEF RecvAuthenticated
  <2>2. QED
    BY <1>1, <1>2, <2>1, OnStatusSession DEF Up
<1>7. CASE RecvRoster(t)
  <2>1. pc[t] = "recv" /\ conn[sid[t]] = "auth" /\ mIsConnected' = mIsConnected
        /\ OnStatus(t, "ready", "ROSTER_LOADED")
    BY <1>7 DEF RecvRoster
  <2>2. QED
    BY <1>1, <1>2, <2>1, OnStatusSession DEF Up
<1>8. ASSUME pc[t] = "recv", conn[sid[t]] \in Up,
             conn' = [conn EXCEPT ![sid[t]] = "down"],
             NEW e, NEW continue \in {"loop", "exited"}, OnDisconnect(t, e, continue)
      PROVE  Session'
  <2>1. conn' = [conn EXCEPT ![mClient] = "down"]
    BY <1>2, <1>8
  <2>2. QED
    BY <1>1, <1>2, <1>8, <2>1, OnDisconnectSession
<1>9. CASE RecvRejected(t) \/ RecvStreamError(t) \/ RecvClosed(t)
  BY <1>8, <1>9 DEF RecvRejected, RecvStreamError, RecvClosed, Up
<1>10. CASE RegisterReturns(t)
  BY <1>1, <1>10, RegisterReturnsSession
<1>11. QED
  BY <1>3, <1>4, <1>5, <1>6, <1>7, <1>9, <1>10 DEF NetworkStep

-----------------------------------------------------------------------------
(* The application                                                         *)

\* A Client that was not used has no thread and no connection.
LEMMA NoThread ==
  ASSUME TypeOK, Numbering, connects = base, NEW t \in Ids, t > base
  PROVE  pc[t] = "unborn"
BY DEF Numbering, TypeOK

\* What is left when nothing has been started on a Client.
LEMMA FreshSession ==
  ASSUME connects' = base', ~mInitialConnection', ~mIsConnected', mListenerThread' = Nothing,
         mClient' = Nothing, registrations' = 0, pc'[Main] \in {"idle", "setup"},
         \A t \in Ids : t > base' => pc'[t] = "unborn"
  PROVE  Session'
<1>1. Unused' /\ Used'
  BY DEF Unused, Used
<1>2. Threads'
  BY DEF Threads, OneRegistering, RegisteringThread, Openers, OldClientsDown, Mine, Registering
<1>3. Current' /\ FirstConnect' /\ EndSeen'
  BY DEF Current, Secured, FirstConnect, EndSeen
<1>4. QED
  BY <1>1, <1>2, <1>3 DEF Session

LEMMA StartInterfaceSession ==
  ASSUME TypeOK, Numbering, Session, ~overlapped, ~overlapped', StartInterface
  PROVE  Session'
<1>1. /\ mClient = Nothing
      /\ Goto(Main, "setup")
      /\ UNCHANGED <<mInitialConnection, mListenerThread, mIsConnected, mClient,
                     connects, base, registrations>>
  BY DEF StartInterface, object
<1>2. pc'[Main] = "setup" /\ \A t \in Ids : pc'[t] = pc[t]
  BY <1>1, GotoOnly
<1>3. connects = base /\ ~mInitialConnection /\ ~mIsConnected /\ mListenerThread = Nothing
      /\ registrations = 0
  BY <1>1 DEF Session, Unused
<1>4. \A t \in Ids : t > base' => pc'[t] = "unborn"
  BY <1>1, <1>2, <1>3, NoThread
<1>5. QED
  BY <1>1, <1>2, <1>3, <1>4, FreshSession

LEMMA StopJoinSession ==
  ASSUME TypeOK, Numbering, StopJoin
  PROVE  Session'
<1>1. /\ base' = connects /\ connects' = connects
      /\ ~mInitialConnection' /\ ~mIsConnected' /\ mListenerThread' = Nothing
      /\ mClient' = Nothing /\ registrations' = 0
      /\ Goto(Main, "idle")
  BY DEF StopJoin, DeleteClient
<1>2. pc'[Main] = "idle" /\ \A t \in Ids : pc'[t] = pc[t]
  BY <1>1, GotoOnly
<1>3. \A t \in Ids : t > base' => pc'[t] = "unborn"
  BY <1>1, <1>2 DEF Numbering
<1>4. QED
  BY <1>1, <1>2, <1>3, FreshSession

LEMMA StartRejectedSession ==
  ASSUME TypeOK, Session, StartRejected
  PROVE  Session'
<1>1. /\ connectResult' = FALSE
      /\ UNCHANGED <<object, connects, base, conn, pc, sid, reported, registrations,
                     overlapped>>
  BY DEF StartRejected
<1>2. Unused' /\ Used'
  BY <1>1 DEF Session, Unused, Used, object
<1>3. Threads'
  BY <1>1 DEF Session, Threads, OneRegistering, RegisteringThread, Openers, OldClientsDown,
              Mine, object
<1>4. Current' /\ FirstConnect'
  BY <1>1 DEF Session, Current, Secured, FirstConnect, object
<1>5. EndSeen'
  BY <1>1 DEF Session, EndSeen, EndKnown, WillReport, Finishing, Mine, object
<1>6. QED
  BY <1>2, <1>3, <1>4, <1>5 DEF Session

\* Inside stopInterface there is a connection to stop, and nobody connects.
LEMMA Stopping ==
  ASSUME TypeOK, Session, pc[Main] \in {"stop", "close", "join", "joining"} \/ mIsConnected
  PROVE  mClient \in Ids
BY DEF Session, Unused, TypeOK

\* The application goes from one point of stopInterface to the next.
LEMMA MainMoveSession ==
  ASSUME TypeOK, Session, mClient \in Ids,
         pc[Main] \notin Registering,
         NEW place \in {"stop", "close", "join", "joining"}, Goto(Main, place),
         mInitialConnection' => mInitialConnection,
         UNCHANGED <<mListenerThread, mAccountStatus, mIsConnected, mClient, connects, base,
                     conn, history>>,
         \A t \in Ids : sid'[t] = sid[t],
         place = "joining" => sid'[Main] = mListenerThread
  PROVE  Session'
<1>1. pc'[Main] = place /\ \A t \in Actors : t # Main => pc'[t] = pc[t]
  BY GotoOnly
<1>2. UNCHANGED <<reported, registrations, overlapped, connectResult>>
  BY DEF history
<1>3. Unused' /\ Used'
  BY <1>1 DEF Session, Unused, Used
<1>4. Threads'
  <2>1. OneRegistering'
    BY <1>1 DEF Session, Threads, OneRegistering, Mine, Registering
  <2>2. RegisteringThread'
    BY <1>1, <1>2 DEF Session, Threads, RegisteringThread, Mine, Registering
  <2>3. Openers'
    BY <1>1 DEF Session, Threads, Openers
  <2>4. OldClientsDown'
    BY DEF Session, Threads, OldClientsDown
  <2>5. QED
    BY <2>1, <2>2, <2>3, <2>4 DEF Threads
<1>5. Current' /\ FirstConnect'
  BY <1>1, <1>2 DEF Session, Current, Secured, FirstConnect
<1>6. EndSeen'
  <2>1. Finishing' => Finishing
    BY <1>1 DEF Finishing, Mine
  <2>2. WillReport => WillReport'
    BY <1>1 DEF WillReport, Mine, Registering
  <2>3. QED
    BY <1>2, <2>1, <2>2 DEF Session, EndSeen, EndKnown
<1>7. QED
  BY <1>3, <1>4, <1>5, <1>6 DEF Session

\* disconnect() of gloox ends the current connection and reports it.
LEMMA StopCloseSession ==
  ASSUME TypeOK, Session, StopClose
  PROVE  Session'
<1>1. pc[Main] = "close"
  BY DEF StopClose
<1>2. mClient \in Ids /\ pc[Main] \notin Registering
  BY <1>1, Stopping DEF Registering
<1>3. CASE ~(mIsConnected /\ Live(mClient))
  BY <1>2, <1>3, MainMoveSession DEF StopClose, object
<1>4. CASE mIsConnected /\ Live(mClient)
  <2>1. /\ conn' = [conn EXCEPT ![mClient] = "down"]
        /\ mIsConnected' = FALSE
        /\ reported' = "DISCONNECTED"
        /\ Goto(Main, "join")
        /\ UNCHANGED <<mInitialConnection, mListenerThread, mAccountStatus, mClient, connects,
                       base, sid, registrations, overlapped, connectResult>>
    BY <1>4 DEF StopClose, OnDisconnect, Push, AuthErrors
  <2>2. pc'[Main] = "join" /\ \A t \in Actors : t # Main => pc'[t] = pc[t]
    BY <2>1, GotoOnly
  <2>3. conn'[mClient] = "down" /\ \A c \in Ids : c # mClient => conn'[c] = conn[c]
    BY <1>2, <2>1 DEF TypeOK
  <2>4. conn[mClient] \notin {"new", "connecting", "down"}
    BY <1>4 DEF Session, Current, Secured
  <2>5. Unused' /\ Used'
    BY <1>2, <2>1, <2>2 DEF Session, Unused, Used
  <2>6. Threads'
    <3>1. OneRegistering'
      BY <2>1, <2>2 DEF Session, Threads, OneRegistering, Mine, Registering
    <3>2. RegisteringThread'
      BY <2>1, <2>2, <2>3, <2>4 DEF Session, Threads, RegisteringThread, Mine, Registering
    <3>3. Openers'
      BY <2>1, <2>2, <2>4 DEF Session, Threads, Openers
    <3>4. OldClientsDown'
      <4>1. \A c \in Ids : conn[c] = "down" => conn'[c] = "down"
        BY <2>3
      <4>2. QED
        BY <2>1, <4>1 DEF Session, Threads, OldClientsDown
    <3>5. QED
      BY <3>1, <3>2, <3>3, <3>4 DEF Threads
  <2>7. Current' /\ FirstConnect'
    BY <2>1, <2>2, <2>3 DEF Session, Current, Secured, FirstConnect
  <2>8. EndSeen'
    BY <2>1 DEF EndSeen, EndKnown
  <2>9. QED
    BY <2>5, <2>6, <2>7, <2>8 DEF Session
<1>5. QED
  BY <1>3, <1>4

LEMMA GetNextStatusChangeSession ==
  ASSUME Session, GetNextStatusChange
  PROVE  Session'
<1>1. UNCHANGED <<mInitialConnection, mListenerThread, mAccountStatus, mIsConnected, mClient,
                  connects, base, conn, pc, sid, reported, registrations, overlapped,
                  connectResult>>
  BY DEF GetNextStatusChange, history
<1>2. Unused' /\ Used'
  BY <1>1 DEF Session, Unused, Used
<1>3. Threads'
  BY <1>1 DEF Session, Threads, OneRegistering, RegisteringThread, Openers, OldClientsDown, Mine
<1>4. Current' /\ FirstConnect'
  BY <1>1 DEF Session, Current, Secured, FirstConnect
<1>5. EndSeen'
  BY <1>1 DEF Session, EndSeen, EndKnown, WillReport, Finishing, Mine
<1>6. QED
  BY <1>2, <1>3, <1>4, <1>5 DEF Session

\* All steps of the application, on a Client that is started once.
LEMMA MainStepSession ==
  ASSUME TypeOK, Numbering, Session, ~overlapped, ~overlapped', MainStep
  PROVE  Session'
<1>1. CASE StopCheck
  <2>1. /\ pc[Main] = "idle" /\ mIsConnected /\ Goto(Main, "stop")
        /\ UNCHANGED <<mInitialConnection, mListenerThread, mAccountStatus, mIsConnected,
                       mClient, connects, base, conn, sid, history>>
    BY <1>1 DEF StopCheck, object
  <2>2. mClient \in Ids /\ pc[Main] \notin Registering
    BY <2>1, Stopping DEF Registering
  <2>3. QED
    BY <2>1, <2>2, MainMoveSession
<1>2. CASE StopBegin
  <2>1. /\ pc[Main] = "stop" /\ ~mInitialConnection' /\ Goto(Main, "close")
        /\ UNCHANGED <<mListenerThread, mAccountStatus, mIsConnected,
                       mClient, connects, base, conn, sid, history>>
    BY <1>2 DEF StopBegin
  <2>2. mClient \in Ids /\ pc[Main] \notin Registering
    BY <2>1, Stopping DEF Registering
  <2>3. QED
    BY <2>1, <2>2, MainMoveSession
<1>3. CASE JoinBegin
  <2>1. /\ pc[Main] = "join" /\ sid' = [sid EXCEPT ![Main] = mListenerThread]
        /\ Goto(Main, "joining")
        /\ UNCHANGED <<mInitialConnection, mListenerThread, mAccountStatus, mIsConnected,
                       mClient, connects, base, conn, history>>
    BY <1>3 DEF JoinBegin, object
  <2>2. mClient \in Ids /\ pc[Main] \notin Registering
    BY <2>1, Stopping DEF Registering
  <2>3. sid'[Main] = mListenerThread /\ \A t \in Ids : sid'[t] = sid[t]
    BY <2>1 DEF TypeOK
  <2>4. QED
    BY <2>1, <2>2, <2>3, MainMoveSession
<1>4. CASE StopRefused
  BY <1>4 DEF StopRefused, vars, object, history, Session, Unused, Used, Threads, OneRegistering,
              RegisteringThread, Openers, OldClientsDown, Mine, Current, Secured, FirstConnect,
              EndSeen, EndKnown, WillReport, Finishing
<1>5. QED
  BY <1>1, <1>2, <1>3, <1>4, StartInterfaceSession, StartRejectedSession, StopCloseSession,
     StopJoinSession, GetNextStatusChangeSession DEF MainStep

-----------------------------------------------------------------------------
(* The numbers of the connects, with or without overlapping calls          *)

\* A step of one thread that begins no connect.
LEMMA NumberingKept ==
  ASSUME TypeOK, Numbering, NEW a \in Actors, a = Main \/ a <= connects,
         connects' = connects, mClient' \in {mClient, Nothing},
         \A b \in Actors : b # a => pc'[b] = pc[b] /\ sid'[b] = sid[b],
         a # Main /\ pc'[a] \in {"connecting", "recv"} => sid'[a] <= connects,
         \A c \in Ids : c > connects => conn'[c] = conn[c]
  PROVE  Numbering'
<1>1. connects \in Nat
  BY DEF TypeOK
<1>2. mClient' <= connects'
  BY <1>1 DEF Numbering
<1>3. \A t \in Ids : pc'[t] \in {"connecting", "recv"} => sid'[t] <= connects'
  BY DEF Numbering
<1>4. \A c \in Ids : c > connects' => conn'[c] = "new" /\ pc'[c] = "unborn"
  BY <1>1 DEF Numbering
<1>5. QED
  BY <1>2, <1>3, <1>4 DEF Numbering

LEMMA ListenerNumbering ==
  ASSUME TypeOK, SessionOK, Numbering, NEW t \in Ids, ListenerStep(t) \/ NetworkStep(t)
  PROVE  Numbering' /\ overlapped' = overlapped
<1>1. UNCHANGED <<connects, mClient, overlapped>>
  BY DEF ListenerStep, NetworkStep, OpenSkipped, OpenConnect, RecvEnter, RecvNotConnected,
         RegisterCheck, ConnectAccepted, ConnectRefused, RecvTls, RecvAuthenticated, RecvRoster,
         RecvRejected, RecvStreamError, RecvClosed, RegisterReturns, OnDisconnect, OnStatus,
         object, history
<1>2. pc[t] # "unborn" /\ pc[t] # "exited" /\ t > base
  BY DEF ListenerStep, NetworkStep, Attached, OpenSkipped, OpenConnect, RecvEnter,
         RecvNotConnected, RegisterCheck, ConnectAccepted, ConnectRefused, RecvTls,
         RecvAuthenticated, RecvRoster, RecvRejected, RecvStreamError, RecvClosed,
         RegisterReturns
<1>3. t <= connects /\ mClient \in Ids /\ connects \in Nat
  BY <1>2 DEF SessionOK, TypeOK, Running
<1>4. PICK place : Goto(t, place)
  BY DEF ListenerStep, NetworkStep, OpenSkipped, OpenConnect, RecvEnter, RecvNotConnected,
         RegisterCheck, ConnectAccepted, ConnectRefused, RecvTls, RecvAuthenticated, RecvRoster,
         RecvRejected, RecvStreamError, RecvClosed, RegisterReturns, OnDisconnect, OnStatus
<1>5. pc'[t] = place /\ \A b \in Actors : b # t => pc'[b] = pc[b]
  BY <1>4, GotoOnly
<1>6. sid' \in {sid, [sid EXCEPT ![t] = mClient]}
  BY DEF ListenerStep, NetworkStep, OpenSkipped, OpenConnect, RecvEnter, RecvNotConnected,
         RegisterCheck, ConnectAccepted, ConnectRefused, RecvTls, RecvAuthenticated, RecvRoster,
         RecvRejected, RecvStreamError, RecvClosed, RegisterReturns, OnDisconnect, OnStatus
<1>7. /\ sid'[t] \in {sid[t], mClient}
      /\ \A b \in Actors : b # t => sid'[b] = sid[b]
  BY <1>6 DEF TypeOK
<1>8. PICK c \in {sid[t], mClient} :
        /\ \A d \in Ids : d # c => conn'[d] = conn[d]
        /\ c = sid[t] => pc[t] \in {"connecting", "recv"} \/ c = mClient
  <2>1. CASE ListenerStep(t)
    <3>1. conn' = conn \/ conn' = [conn EXCEPT ![mClient] = "connecting"]
      BY <2>1 DEF ListenerStep, OpenSkipped, OpenConnect, RecvEnter, RecvNotConnected,
                  RegisterCheck
    <3>2. \A d \in Ids : d # mClient => conn'[d] = conn[d]
      BY <3>1 DEF TypeOK
    <3>3. QED
      BY <3>2
  <2>2. CASE NetworkStep(t)
    <3>1. \/ conn' = conn
          \/ pc[t] \in {"connecting", "recv"} /\ \E s \in Conn : conn' = [conn EXCEPT ![sid[t]] = s]
      BY <2>2 DEF NetworkStep, ConnectAccepted, ConnectRefused, RecvTls, RecvAuthenticated,
                  RecvRoster, RecvRejected, RecvStreamError, RecvClosed, RegisterReturns,
                  OnStatus, Conn
    <3>2. CASE conn' = conn
      BY <3>2
    <3>3. CASE pc[t] \in {"connecting", "recv"} /\ \E s \in Conn : conn' = [conn EXCEPT ![sid[t]] = s]
      <4>1. \A d \in Ids : d # sid[t] => conn'[d] = conn[d]
        BY <3>3 DEF TypeOK
      <4>2. QED
        BY <3>3, <4>1
    <3>4. QED
      BY <3>1, <3>2, <3>3
  <2>3. QED
    BY <2>1, <2>2
<1>9. c <= connects
  BY <1>8 DEF Numbering
<1>10. pc'[t] \in {"connecting", "recv"} => sid'[t] <= connects
  <2>1. pc'[t] \in {"connecting", "recv"} => sid'[t] = mClient \/ pc[t] \in {"connecting", "recv"}
    <3>1. CASE OpenConnect(t) \/ RecvEnter(t)
      BY <3>1 DEF OpenConnect, RecvEnter, TypeOK
    <3>2. CASE ~(OpenConnect(t) \/ RecvEnter(t))
      <4>1. Goto(t, "exited") \/ Goto(t, "setup") \/ Goto(t, "loop") \/ Goto(t, "register")
            \/ Goto(t, "check")
        BY <3>2 DEF ListenerStep, NetworkStep, OpenSkipped, RecvNotConnected, RegisterCheck,
             ConnectAccepted, ConnectRefused, RecvTls, RecvAuthenticated, RecvRoster,
             RecvRejected, RecvStreamError, RecvClosed, RegisterReturns, OnDisconnect, OnStatus
      <4>2. QED
        BY <4>1, GotoOnly
    <3>3. QED
      BY <3>1, <3>2
  <2>2. QED
    BY <1>7, <2>1 DEF Numbering
<1>11. \A d \in Ids : d > connects => conn'[d] = conn[d]
  BY <1>3, <1>8, <1>9
<1>12. QED
  BY <1>1, <1>3, <1>5, <1>7, <1>10, <1>11, NumberingKept

LEMMA ConnectCallNumbering ==
  ASSUME TypeOK, SessionOK, Numbering, NEW a \in Actors, ConnectCall(a)
  PROVE  Numbering' /\ overlapped' = overlapped
<1>1. overlapped' = overlapped
  BY DEF ConnectCall, ConnectSetup, ConnectSpawn, ConnectSpawnFails, ConnectFinish, history
<1>2. a = Main \/ a <= connects
  BY DEF SessionOK, ConnectCall, ConnectSetup, ConnectSpawn, ConnectSpawnFails, ConnectFinish
<1>3. CASE ConnectSetup(a)
  <2>1. /\ connects < MaxConnects /\ connects' = connects + 1 /\ mClient' = connects + 1
        /\ sid' = [sid EXCEPT ![a] = connects + 1] /\ conn' = conn
        /\ Goto(a, "spawn")
    BY <1>3 DEF ConnectSetup
  <2>2. pc'[a] = "spawn" /\ \A b \in Actors : b # a => pc'[b] = pc[b]
    BY <2>1, GotoOnly
  <2>3. connects \in Nat /\ \A b \in Actors : sid[b] \in Nat /\ (b # a => sid'[b] = sid[b])
    BY <2>1 DEF TypeOK
  <2>4. \A t \in Ids : pc'[t] \in {"connecting", "recv"} => sid'[t] <= connects'
    BY <2>1, <2>2, <2>3 DEF Numbering
  <2>5. \A c \in Ids : c > connects' => conn'[c] = "new" /\ pc'[c] = "unborn"
    BY <1>2, <2>1, <2>2, <2>3 DEF Numbering
  <2>6. mClient' <= connects'
    BY <2>1, <2>3
  <2>7. QED
    BY <1>1, <2>4, <2>5, <2>6 DEF Numbering
<1>4. CASE ConnectSpawn(a)
  <2>1. pc[a] = "spawn" /\ pc' = [pc EXCEPT ![a] = "finish", ![sid[a]] = "entry"]
    BY <1>4 DEF ConnectSpawn
  <2>2. UNCHANGED <<connects, mClient, conn, sid>>
    BY <1>4 DEF ConnectSpawn
  <2>3. sid[a] \in 1..connects /\ sid[a] \in Ids /\ connects \in Nat
    BY <2>1 DEF SessionOK, TypeOK
  <2>4. /\ \A b \in Actors : pc'[b] \in {"finish", "entry"} \/ pc'[b] = pc[b]
        /\ \A b \in Actors : b # a /\ b # sid[a] => pc'[b] = pc[b]
    BY <2>1, <2>3 DEF TypeOK
  <2>5. \A t \in Ids : pc'[t] \in {"connecting", "recv"} => sid'[t] <= connects'
    <3>1. TAKE t \in Ids
    <3>2. HAVE pc'[t] \in {"connecting", "recv"}
    <3>3. pc[t] = pc'[t]
      BY <2>4, <3>2
    <3>4. QED
      BY <2>2, <3>2, <3>3 DEF Numbering
  <2>6. \A c \in Ids : c > connects' => conn'[c] = "new" /\ pc'[c] = "unborn"
    <3>1. TAKE c \in Ids
    <3>2. HAVE c > connects'
    <3>3. c > connects /\ c # a /\ c # sid[a]
      BY <1>2, <2>2, <2>3, <3>2
    <3>4. QED
      BY <2>2, <2>4, <3>3 DEF Numbering
  <2>7. mClient' <= connects'
    BY <2>2 DEF Numbering
  <2>8. QED
    BY <1>1, <2>5, <2>6, <2>7 DEF Numbering
<1>5. CASE ConnectSpawnFails(a) \/ ConnectFinish(a)
  <2>1. Goto(a, AfterConnect(a)) /\ UNCHANGED <<connects, mClient, conn, sid>>
    BY <1>5 DEF ConnectSpawnFails, ConnectFinish, object
  <2>2. pc'[a] = AfterConnect(a) /\ \A b \in Actors : b # a => pc'[b] = pc[b]
    BY <2>1, GotoOnly
  <2>3. pc'[a] \notin {"connecting", "recv"}
    BY <2>2 DEF AfterConnect
  <2>4. QED
    BY <1>1, <1>2, <2>1, <2>2, <2>3, NumberingKept
<1>6. QED
  BY <1>1, <1>3, <1>4, <1>5 DEF ConnectCall

\* The calls of the application move only its own thread; StopClose and StopJoin end
\* the current connection.
LEMMA MainNumbering ==
  ASSUME TypeOK, Numbering, MainStep
  PROVE  Numbering'
<1>1. connects' = connects /\ mClient' \in {mClient, Nothing}
  BY DEF MainStep, StartInterface, StartRejected, StopRefused, StopCheck, StopBegin, StopClose,
         JoinBegin, StopJoin, DeleteClient, GetNextStatusChange, OnDisconnect, vars, object
<1>2. pc' = pc \/ \E place \in MainPC \cup {"register"} : Goto(Main, place)
  BY DEF MainStep, StartInterface, StartRejected, StopRefused, StopCheck, StopBegin, StopClose,
         JoinBegin, StopJoin, DeleteClient, GetNextStatusChange, OnDisconnect, vars, MainPC,
         ConnectPC
<1>3. sid' = sid \/ sid' = [sid EXCEPT ![Main] = mListenerThread]
  BY DEF MainStep, StartInterface, StartRejected, StopRefused, StopCheck, StopBegin, StopClose,
         JoinBegin, StopJoin, DeleteClient, GetNextStatusChange, OnDisconnect, vars
<1>4. conn' = conn \/ conn' = [conn EXCEPT ![mClient] = "down"]
  BY DEF MainStep, StartInterface, StartRejected, StopRefused, StopCheck, StopBegin, StopClose,
         JoinBegin, StopJoin, DeleteClient, GetNextStatusChange, vars
<1>5. \A b \in Actors : b # Main => pc'[b] = pc[b]
  BY <1>2 DEF Goto, TypeOK
<1>6. \A b \in Actors : b # Main => sid'[b] = sid[b]
  BY <1>3 DEF TypeOK
<1>7. \A c \in Ids : c > connects => conn'[c] = conn[c]
  BY <1>4 DEF Numbering, TypeOK
<1>8. QED
  BY <1>1, <1>5, <1>6, <1>7, NumberingKept

-----------------------------------------------------------------------------
(* The theorems                                                            *)

LEMMA NextSession ==
  ASSUME TypeOK, SessionOK, SessionInv, Next
  PROVE  SessionInv'
<1>1. ASSUME NEW t \in Ids, ListenerStep(t) \/ NetworkStep(t)
      PROVE  SessionInv'
  BY <1>1, ListenerNumbering, ListenerStepSession, NetworkStepSession DEF SessionInv
<1>2. ASSUME NEW a \in Actors, ConnectCall(a)
      PROVE  SessionInv'
  BY <1>2, ConnectCallNumbering, ConnectCallSession DEF SessionInv
<1>3. CASE MainStep
  <2>1. Numbering'
    BY <1>3, MainNumbering DEF SessionInv
  <2>2. CASE StopJoin
    BY <2>1, <2>2, StopJoinSession DEF SessionInv
  <2>3. CASE ~StopJoin /\ ~overlapped'
    <3>1. ~overlapped
      BY <1>3, <2>3 DEF MainStep, StartInterface, StartRejected, StopRefused, StopCheck,
             StopBegin, StopClose, JoinBegin, GetNextStatusChange, OnDisconnect, vars, history
    <3>2. QED
      BY <1>3, <2>1, <2>3, <3>1, MainStepSession DEF SessionInv
  <2>4. QED
    BY <2>1, <2>2, <2>3 DEF SessionInv
<1>4. QED
  BY <1>1, <1>2, <1>3 DEF Next, MainStep

LEMMA SessionInvariant == Spec => [](IInv /\ SessionInv)
<1>1. Init => SessionInv
  <2> SUFFICES ASSUME Init PROVE SessionInv
    OBVIOUS
  <2>1. \A a \in Actors : pc[a] \in {"idle", "unborn"}
    BY DEF Init
  <2>2. pc[Main] = "idle" /\ \A c \in Ids : pc[c] = "unborn" /\ conn[c] = "new"
    BY DEF Init
  <2>3. Numbering
    BY <2>2 DEF Init, Numbering
  <2>4. Unused /\ Used /\ Current /\ FirstConnect /\ EndSeen
    BY <2>2 DEF Init, Unused, Used, Current, Secured, FirstConnect, EndSeen
  <2>5. Threads
    BY <2>1, <2>2 DEF Init, Threads, OneRegistering, RegisteringThread, Openers, OldClientsDown,
                      Mine, Registering
  <2>6. QED
    BY <2>3, <2>4, <2>5 DEF SessionInv, Session
<1>2. IInv /\ SessionInv /\ [Next]_vars => SessionInv'
  <2> SUFFICES ASSUME IInv, SessionInv, [Next]_vars
               PROVE  SessionInv'
    OBVIOUS
  <2>1. CASE Next
    BY <2>1, NextSession DEF IInv
  <2>2. CASE UNCHANGED vars
    BY <2>2 DEF vars, object, history, SessionInv, Numbering, Session, Unused, Used, Threads,
                OneRegistering, RegisteringThread, Openers, OldClientsDown, Mine, Current,
                Secured, FirstConnect, EndSeen, EndKnown, WillReport, Finishing
  <2>3. QED
    BY <2>1, <2>2
<1>3. QED
  BY <1>1, <1>2, InductiveInvariant, PTL DEF Spec

\* The flag behind isConnected() says that the gloox client that sendMessage and
\* stopInterface use is past its TLS handshake, neither more nor less, however many
\* registrations replaced it, as long as the Client was started once.
THEOREM ConnectedIsCurrent == Spec => []ConnectedMeansCurrent
<1>1. SessionInv => ConnectedMeansCurrent
  BY DEF SessionInv, Session, Current, ConnectedMeansCurrent
<1>2. QED
  BY <1>1, SessionInvariant, PTL

\* When no thread is left on a Client, the application has been told that its
\* connection is gone, or its thread was never created, or a registration failed.
THEOREM EndReported == Spec => []EndIsReported
<1>1. IInv /\ SessionInv => EndIsReported
  <2> SUFFICES ASSUME TypeOK, SessionInv, Quiescent, ~overlapped, connectResult
               PROVE  EndKnown
    BY DEF IInv, EndIsReported, EndKnown
  <2>1. mClient \in Ids /\ pc[Main] = "idle" /\ \A t \in Ids : t > base => ~Running(t)
    BY DEF Quiescent, TypeOK
  <2>2. mClient > base
    BY <2>1 DEF SessionInv, Session, Used, TypeOK
  <2>3. ~WillReport
    BY <2>1, <2>2 DEF WillReport, Mine, Running
  <2>4. QED
    BY <2>1, <2>3 DEF SessionInv, Session, EndSeen
<1>2. QED
  BY <1>1, SessionInvariant, PTL

\* stopInterface deletes a Client that was started once and never registered only when
\* its thread has ended and its connection is closed.
THEOREM StopIsClean == Spec => CleanStop
<1>1. ASSUME IInv, SessionInv, [Next]_vars, clientPtr, ~clientPtr', ~overlapped,
             registrations = 0
      PROVE  \A t \in Ids : t > base => ~Running(t) /\ ~Live(t)'
  <2>1. StopJoin
    BY <1>1 DEF Next, vars, StartInterface, StartRejected, StopRefused, StopCheck, StopBegin,
         StopClose, JoinBegin, GetNextStatusChange, ConnectCall, ConnectSetup, ConnectSpawn,
         ConnectSpawnFails, ConnectFinish, ListenerStep, NetworkStep, OpenSkipped, OpenConnect,
         RecvEnter, RecvNotConnected, RegisterCheck, ConnectAccepted, ConnectRefused, RecvTls,
         RecvAuthenticated, RecvRoster, RecvRejected, RecvStreamError, RecvClosed,
         RegisterReturns, OnDisconnect, OnStatus
  <2>2. /\ pc[Main] = "joining" /\ pc[sid[Main]] = "exited"
        /\ conn' = [conn EXCEPT ![mClient] = "down"]
    BY <2>1 DEF StopJoin, DeleteClient
  <2>3. mClient \in Ids
    BY <1>1, <2>2, Stopping DEF IInv, SessionInv
  <2>4. mClient = base + 1 /\ mClient = connects /\ sid[Main] \in {Nothing, mClient}
    BY <1>1, <2>2, <2>3 DEF SessionInv, Session, FirstConnect, Used
  <2>5. pc[mClient] = "exited" /\ conn'[mClient] = "down"
    BY <1>1, <2>2, <2>3, <2>4 DEF IInv, TypeOK
  <2>6. \A t \in Ids : t > base /\ t # mClient => pc[t] = "unborn" /\ conn'[t] = "new"
    BY <1>1, <2>2, <2>3, <2>4 DEF IInv, TypeOK, SessionInv, Numbering
  <2>7. QED
    BY <2>5, <2>6 DEF Running, Live
<1>2. IInv /\ SessionInv /\ [Next]_vars =>
        [(clientPtr /\ ~clientPtr' /\ ~overlapped /\ registrations = 0) =>
            \A t \in Ids : t > base => ~Running(t) /\ ~Live(t)']_vars
  BY <1>1
<1>3. QED
  BY <1>2, SessionInvariant, PTL DEF Spec, CleanStop
=============================================================================
