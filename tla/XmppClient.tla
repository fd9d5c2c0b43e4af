----------------------------- MODULE XmppClient -----------------------------
(***************************************************************************)
(* Life cycle of the XMPP connection: the plugin functions startInterface  *)
(* and stopInterface (PluginInterface.mm), xmpp::Client (XmppClient.cpp)   *)
(* and xmpp::Listener (XmppListener.cpp), with the threads they spawn and  *)
(* the gloox clients they create.                                          *)
(*                                                                         *)
(* Every connect() creates one gloox::Client and one pthread: both carry   *)
(* the number of that connect() as their identity.  The application runs   *)
(* on the thread Main.  gloox is external: its connections are the         *)
(* function conn, and its callbacks run synchronously on the thread that   *)
(* is inside recv() or disconnect().                                       *)
(***************************************************************************)
EXTENDS Naturals, Sequences, FiniteSets

CONSTANTS
  MaxConnects,   (* bound: calls of xmpp::Client::connect in a behaviour    *)
  MayOverlap     (* may the application call startInterface on a Client     *)
                 (* that was already started, as GameModel does to retry?   *)

ASSUME ConstantsAssumption ==
  /\ MaxConnects \in Nat \ {0}
  /\ MayOverlap \in BOOLEAN

Main    == 0
Ids     == 1..MaxConnects          \* gloox clients and listener threads
Actors  == 0..MaxConnects          \* the threads: Main and the listeners
Nothing == 0                       \* the null pointer, the unset handle

States  == {"TLS_CONNECTED", "CONNECTED", "ROSTER_LOADED", "DISCONNECTED"}
Account == {"INCOMPLETE", "SUCCESS", "FAILURE"}
Conn    == {"new", "connecting", "up", "tls", "auth", "ready", "down"}
ConnectPC  == {"setup", "spawn", "finish"}
MainPC     == ConnectPC \cup {"idle", "stop", "close", "join", "joining"}
ListenerPC == ConnectPC \cup {"unborn", "entry", "connecting", "loop", "recv",
                              "register", "check", "exited"}

VARIABLES
  clientPtr,           \* the plugin's global xmpp::Client exists
  mInitialConnection,  \* Client: try to register if authentication fails
  mListenerThread,     \* Client: the pthread handle
  mStateQueue,         \* Client: status changes not yet polled
  mAccountStatus,      \* Client: mAccountCreator.status()
  mIsConnected,        \* Listener
  mClient,             \* Listener: the current gloox client
  connects,            \* number of connect() calls so far
  base,                \* listeners up to base belong to deleted Clients
  conn,                \* state of every gloox client
  pc,                  \* program counter of every thread
  sid,                 \* the gloox client a thread is using, or the thread that
                       \* it is creating or joining
  reported,            \* history: last status queued since the queues were cleared
  registrations,       \* history: registrations begun in this Client's life
  overlapped,          \* history: startInterface found this Client connecting,
                       \* connected or dropped, instead of unused
  connectResult        \* history: did the latest connect() return true?

object  == <<mInitialConnection, mListenerThread, mStateQueue, mAccountStatus,
             mIsConnected, mClient>>
history == <<reported, registrations, overlapped, connectResult>>
vars    == <<clientPtr, object, connects, base, conn, pc, sid, history>>

Goto(a, place) == pc' = [pc EXCEPT ![a] = place]

\* A gloox client that gloox itself would still disconnect.
Live(c)    == c # Nothing /\ conn[c] \in {"connecting", "up", "tls", "auth", "ready"}
\* Past the TLS handshake, when Listener starts to call itself connected.
Secured(c) == c # Nothing /\ conn[c] \in {"tls", "auth", "ready"}

Running(t) == pc[t] \notin {"unborn", "exited"}

\* A listener thread works on the Client that created it; one whose Client
\* was deleted runs on freed memory and is not followed further.
Attached(t) == clientPtr /\ t > base

\* A listener thread runs on a Client that has been deleted: from here on the
\* program's behaviour is undefined, and the application is not followed further.
Undefined == \E t \in Ids : t <= base /\ Running(t)

\* The bound MaxConnects: is there an identity left for one more connect()?
Room ==
  LET waiting == {a \in Actors : (a = Main \/ Attached(a)) /\ pc[a] \in {"check", "setup"}}
  IN  connects + Cardinality(waiting) < MaxConnects

\* mStateQueue.push_back(s)
Push(s) ==
  /\ mStateQueue' = Append(mStateQueue, s)
  /\ reported' = s

Init ==
  /\ clientPtr = FALSE
  /\ mInitialConnection = FALSE
  /\ mListenerThread = Nothing
  /\ mStateQueue = <<>>
  /\ mAccountStatus = "INCOMPLETE"
  /\ mIsConnected = FALSE
  /\ mClient = Nothing
  /\ connects = 0
  /\ base = 0
  /\ conn = [c \in Ids |-> "new"]
  /\ pc = [a \in Actors |-> IF a = Main THEN "idle" ELSE "unborn"]
  /\ sid = [a \in Actors |-> Nothing]
  /\ reported = "none"
  /\ registrations = 0
  /\ overlapped = FALSE
  /\ connectResult = TRUE

(***************************************************************************)
(* xmpp::Client::connect, called by startInterface on Main and by          *)
(* onDisconnect on a listener thread that has just registered an account.  *)
(* It is not atomic: the thread it spawns may run before it returns.       *)
(***************************************************************************)
\* Faulty variant: every caller is taken for a listener thread.
AfterConnectToLoop(a) == "loop"

AfterConnect(a) == IF a = Main THEN "idle" ELSE "loop"

\* mListener->setup, then the three queues are cleared.
ConnectSetup(a) ==
  /\ pc[a] = "setup"
  /\ connects < MaxConnects
  /\ connects' = connects + 1
  /\ mClient' = connects + 1
  /\ sid' = [sid EXCEPT ![a] = connects + 1]
  /\ mStateQueue' = <<>>
  /\ reported' = "none"
  /\ Goto(a, "spawn")
  /\ UNCHANGED <<clientPtr, mInitialConnection, mListenerThread, mAccountStatus,
                 mIsConnected, base, conn, registrations, overlapped,
                 connectResult>>

ConnectSpawn(a) ==
  /\ pc[a] = "spawn"
  /\ pc' = [pc EXCEPT ![a] = "finish", ![sid[a]] = "entry"]
  /\ mListenerThread' = sid[a]
  /\ UNCHANGED <<clientPtr, mInitialConnection, mStateQueue, mAccountStatus,
                 mIsConnected, mClient, connects, base, conn, sid, history>>

\* pthread_create fails: false, with mClient already replaced.
ConnectSpawnFails(a) ==
  /\ pc[a] = "spawn"
  /\ connectResult' = FALSE
  /\ Goto(a, AfterConnect(a))
  /\ UNCHANGED <<clientPtr, object, connects, base, conn, sid, reported, registrations,
                 overlapped>>

\* Faulty variant: the queues are cleared when the thread already runs.
ConnectFinishClears(a) ==
  /\ pc[a] = "finish"
  /\ mInitialConnection' = TRUE
  /\ mStateQueue' = <<>>
  /\ reported' = "none"
  /\ connectResult' = TRUE
  /\ Goto(a, AfterConnect(a))
  /\ UNCHANGED <<clientPtr, mListenerThread, mAccountStatus, mIsConnected, mClient,
                 connects, base, conn, sid, registrations, overlapped>>

\* The credentials are stored and the flag is set after the thread has started.
ConnectFinish(a) ==
  /\ pc[a] = "finish"
  /\ mInitialConnection' = TRUE
  /\ connectResult' = TRUE
  /\ Goto(a, AfterConnect(a))
  /\ UNCHANGED <<clientPtr, mListenerThread, mStateQueue, mAccountStatus,
                 mIsConnected, mClient, connects, base, conn, sid, reported,
                 registrations, overlapped>>

ConnectCall(a) ==
  /\ a = Main \/ Attached(a)
  /\ \/ ConnectSetup(a)
     \/ ConnectSpawn(a)
     \/ ConnectSpawnFails(a)
     \/ ConnectFinish(a)

(***************************************************************************)
(* xmpp::Client::onDisconnect behind Listener::onDisconnect, on the thread *)
(* a that was inside gloox.  An authentication error starts a registration *)
(* when mInitialConnection is set, and then nothing is queued.             *)
(***************************************************************************)
AuthErrors == {"ConnTlsFailed", "ConnAuthenticationFailed"}

\* Faulty variant: a failed login leaves mIsConnected as the handshake set it.
OnDisconnectKeepsFlag(a, e, continue) ==
  /\ mIsConnected' = (mIsConnected /\ e \in AuthErrors)
  /\ Push("DISCONNECTED")
  /\ Goto(a, continue)
  /\ UNCHANGED <<clientPtr, mInitialConnection, mListenerThread, mAccountStatus, mClient,
                 connects, base, sid, registrations, overlapped, connectResult>>

OnDisconnect(a, e, continue) ==
  /\ mIsConnected' = FALSE
  /\ IF e \in AuthErrors /\ mInitialConnection
     THEN /\ mAccountStatus' = "INCOMPLETE"
          /\ registrations' = registrations + 1
          /\ Goto(a, "register")
          /\ UNCHANGED <<mStateQueue, reported>>
     ELSE /\ Push("DISCONNECTED")
          /\ Goto(a, continue)
          /\ UNCHANGED <<mAccountStatus, registrations>>
  /\ UNCHANGED <<clientPtr, mInitialConnection, mListenerThread, mClient, connects,
                 base, sid, overlapped, connectResult>>

\* A callback that only records a new status on a connection that stays up.
OnStatus(t, state, status) ==
  /\ conn' = [conn EXCEPT ![sid[t]] = state]
  /\ Push(status)
  /\ Goto(t, "loop")
  /\ UNCHANGED <<clientPtr, mInitialConnection, mListenerThread, mAccountStatus,
                 mClient, connects, base, sid, registrations, overlapped,
                 connectResult>>

(***************************************************************************)
(* Listener::openConnection on the listener thread t.                      *)
(***************************************************************************)
OpenSkipped(t) ==
  /\ pc[t] = "entry"
  /\ mIsConnected
  /\ Goto(t, "exited")
  /\ UNCHANGED <<clientPtr, object, connects, base, conn, sid, history>>

\* gloox connects an idle client, and leaves alone one that is already busy.
OpenConnect(t) ==
  /\ pc[t] = "entry"
  /\ ~mIsConnected
  /\ sid' = [sid EXCEPT ![t] = mClient]
  /\ IF Live(mClient)
     THEN Goto(t, "loop") /\ UNCHANGED conn
     ELSE Goto(t, "connecting") /\ conn' = [conn EXCEPT ![mClient] = "connecting"]
  /\ UNCHANGED <<clientPtr, object, connects, base, history>>

\* connect() opens the socket, or finds that another thread has done so.
ConnectAccepted(t) ==
  /\ pc[t] = "connecting"
  /\ conn' = IF conn[sid[t]] \in {"connecting", "down"}
             THEN [conn EXCEPT ![sid[t]] = "up"]
             ELSE conn
  /\ Goto(t, "loop")
  /\ UNCHANGED <<clientPtr, object, connects, base, sid, history>>

ConnectRefused(t) ==
  /\ pc[t] = "connecting"
  /\ conn[sid[t]] \in {"connecting", "down"}
  /\ conn' = [conn EXCEPT ![sid[t]] = "down"]
  /\ OnDisconnect(t, "ConnConnectionRefused", "exited")

\* Each iteration of the loop reads mClient anew.
RecvEnter(t) ==
  /\ pc[t] = "loop"
  /\ sid' = [sid EXCEPT ![t] = mClient]
  /\ Goto(t, "recv")
  /\ UNCHANGED <<clientPtr, object, connects, base, conn, history>>

\* recv() on a client that has no connection returns ConnNotConnected.
RecvNotConnected(t) ==
  /\ pc[t] = "recv"
  /\ conn[sid[t]] \in {"new", "connecting", "down"}
  /\ Goto(t, "exited")
  /\ UNCHANGED <<clientPtr, object, connects, base, conn, sid, history>>

\* Faulty variant: only the finished login sets the flag.
RecvTlsUnflagged(t) ==
  /\ pc[t] = "recv"
  /\ conn[sid[t]] = "up"
  /\ OnStatus(t, "tls", "TLS_CONNECTED")
  /\ UNCHANGED mIsConnected

RecvTls(t) ==
  /\ pc[t] = "recv"
  /\ conn[sid[t]] = "up"
  /\ mIsConnected' = TRUE
  /\ OnStatus(t, "tls", "TLS_CONNECTED")

\* The server may also let a client authenticate without TLS.
RecvAuthenticated(t) ==
  /\ pc[t] = "recv"
  /\ conn[sid[t]] \in {"up", "tls"}
  /\ mIsConnected' = TRUE
  /\ OnStatus(t, "auth", "CONNECTED")

RecvRoster(t) ==
  /\ pc[t] = "recv"
  /\ conn[sid[t]] = "auth"
  /\ OnStatus(t, "ready", "ROSTER_LOADED")
  /\ UNCHANGED mIsConnected

\* The handshake or the login fails; it arrives as data, so recv() returns
\* ConnNoError and the thread goes round its loop again.
RecvRejected(t) ==
  /\ pc[t] = "recv"
  /\ conn[sid[t]] \in {"up", "tls"}
  /\ conn' = [conn EXCEPT ![sid[t]] = "down"]
  /\ \E e \in AuthErrors : OnDisconnect(t, e, "loop")

\* The stream ends with an error element, again as data.
RecvStreamError(t) ==
  /\ pc[t] = "recv"
  /\ conn[sid[t]] \in {"up", "tls", "auth", "ready"}
  /\ conn' = [conn EXCEPT ![sid[t]] = "down"]
  /\ OnDisconnect(t, "ConnStreamError", "loop")

\* The socket is closed or broken: recv() returns that error.
RecvClosed(t) ==
  /\ pc[t] = "recv"
  /\ conn[sid[t]] \in {"up", "tls", "auth", "ready"}
  /\ conn' = [conn EXCEPT ![sid[t]] = "down"]
  /\ OnDisconnect(t, "ConnIoError", "exited")

\* mAccountCreator.init returns; INCOMPLETE when its own connection failed.
RegisterReturns(t) ==
  /\ pc[t] = "register"
  /\ \E s \in Account : (s = "SUCCESS" => Room) /\ mAccountStatus' = s
  /\ Goto(t, "check")
  /\ UNCHANGED <<clientPtr, mInitialConnection, mListenerThread, mStateQueue,
                 mIsConnected, mClient, connects, base, conn, sid, history>>

RegisterCheck(t) ==
  /\ pc[t] = "check"
  /\ mInitialConnection' = FALSE
  /\ Goto(t, IF mAccountStatus = "SUCCESS" THEN "setup" ELSE "loop")
  /\ UNCHANGED <<clientPtr, mListenerThread, mStateQueue, mAccountStatus,
                 mIsConnected, mClient, connects, base, conn, sid, history>>

(***************************************************************************)
(* The plugin functions, on Main.                                          *)
(***************************************************************************)
\* createXmppClient, then connect(): the members of a new Client are those
\* Init and StopJoin leave behind.
StartInterface ==
  /\ pc[Main] = "idle"
  /\ ~Undefined
  /\ Room
  /\ MayOverlap \/ mClient = Nothing
  /\ clientPtr' = TRUE
  /\ overlapped' = (overlapped \/ mClient # Nothing)
  /\ Goto(Main, "setup")
  /\ UNCHANGED <<object, connects, base, conn, sid, reported, registrations,
                 connectResult>>

\* connect() refuses an empty user or server, after the Client was created.
StartRejected ==
  /\ pc[Main] = "idle"
  /\ ~Undefined
  /\ clientPtr' = TRUE
  /\ connectResult' = FALSE
  /\ UNCHANGED <<object, connects, base, conn, pc, sid, reported, registrations,
                 overlapped>>

\* stopInterface returns -1 without a Client and 1 without a connection.
StopRefused ==
  /\ pc[Main] = "idle"
  /\ ~clientPtr \/ ~mIsConnected
  /\ UNCHANGED vars

\* disconnect() has found the Listener connected: it goes on, whatever the
\* listener thread does next.
StopCheck ==
  /\ pc[Main] = "idle"
  /\ clientPtr
  /\ mIsConnected
  /\ Goto(Main, "stop")
  /\ UNCHANGED <<clientPtr, object, connects, base, conn, sid, history>>

StopBegin ==
  /\ pc[Main] = "stop"
  /\ mInitialConnection' = FALSE
  /\ Goto(Main, "close")
  /\ UNCHANGED <<clientPtr, mListenerThread, mStateQueue, mAccountStatus,
                 mIsConnected, mClient, connects, base, conn, sid, history>>

\* Faulty variant: stopInterface waits for the thread without disconnecting.
StopCloseForgotten ==
  /\ pc[Main] = "close"
  /\ Goto(Main, "join")
  /\ UNCHANGED <<clientPtr, object, connects, base, conn, sid, history>>

\* closeConnection: gloox calls onDisconnect back before disconnect() returns.
StopClose ==
  /\ pc[Main] = "close"
  /\ IF mIsConnected /\ Live(mClient)
     THEN /\ conn' = [conn EXCEPT ![mClient] = "down"]
          /\ OnDisconnect(Main, "ConnUserDisconnected", "join")
     ELSE /\ Goto(Main, "join")
          /\ UNCHANGED <<clientPtr, object, connects, base, conn, sid, history>>

\* pthread_join is called with the handle as it is now.
JoinBegin ==
  /\ pc[Main] = "join"
  /\ sid' = [sid EXCEPT ![Main] = mListenerThread]
  /\ Goto(Main, "joining")
  /\ UNCHANGED <<clientPtr, object, connects, base, conn, history>>

\* pthread_join has returned: the Client, its Listener and the current gloox
\* client are deleted.  Gloox clients that setup() replaced are leaked.
DeleteClient ==
  /\ clientPtr' = FALSE
  /\ base' = connects
  /\ conn' = [conn EXCEPT ![mClient] = "down"]
  /\ mInitialConnection' = FALSE
  /\ mListenerThread' = Nothing
  /\ mStateQueue' = <<>>
  /\ mAccountStatus' = "INCOMPLETE"
  /\ mIsConnected' = FALSE
  /\ mClient' = Nothing
  /\ reported' = "none"
  /\ registrations' = 0
  /\ overlapped' = FALSE
  /\ Goto(Main, "idle")
  /\ UNCHANGED <<connects, sid, connectResult>>

\* Faulty variant: the Client is deleted without joining its thread.
StopWithoutJoin ==
  /\ pc[Main] = "joining"
  /\ DeleteClient

StopJoin ==
  /\ pc[Main] = "joining"
  /\ pc[sid[Main]] = "exited"
  /\ DeleteClient

GetNextStatusChange ==
  /\ pc[Main] = "idle"
  /\ clientPtr
  /\ mStateQueue # <<>>
  /\ mStateQueue' = Tail(mStateQueue)
  /\ UNCHANGED <<clientPtr, mInitialConnection, mListenerThread, mAccountStatus,
                 mIsConnected, mClient, connects, base, conn, pc, sid, history>>

-----------------------------------------------------------------------------

\* What a listener thread does without waiting for the network.
ListenerStep(t) ==
  /\ Attached(t)
  /\ \/ OpenSkipped(t)
     \/ OpenConnect(t)
     \/ RecvEnter(t)
     \/ RecvNotConnected(t)
     \/ RegisterCheck(t)

\* What it does when the network answers.
NetworkStep(t) ==
  /\ Attached(t)
  /\ \/ ConnectAccepted(t)
     \/ ConnectRefused(t)
     \/ RecvTls(t)
     \/ RecvAuthenticated(t)
     \/ RecvRoster(t)
     \/ RecvRejected(t)
     \/ RecvStreamError(t)
     \/ RecvClosed(t)
     \/ RegisterReturns(t)

Next ==
  \/ StartInterface
  \/ StartRejected
  \/ StopRefused
  \/ StopCheck
  \/ StopBegin
  \/ StopClose
  \/ JoinBegin
  \/ StopJoin
  \/ GetNextStatusChange
  \/ \E a \in Actors : ConnectCall(a)
  \/ \E t \in Ids : ListenerStep(t) \/ NetworkStep(t)

\* The operating system schedules every thread that can run, and a blocking
\* connect() ends; no answer of the server is promised.
Fairness ==
  /\ WF_vars(StopBegin \/ StopClose \/ JoinBegin \/ StopJoin)
  /\ \A a \in Actors : WF_vars(ConnectCall(a))
  /\ \A t \in Ids : /\ WF_vars(ListenerStep(t))
                    /\ WF_vars(Attached(t) /\ (ConnectAccepted(t) \/ ConnectRefused(t)))

Spec == Init /\ [][Next]_vars

FairSpec == Spec /\ Fairness

-----------------------------------------------------------------------------

\* Type invariant.  The application and the listener threads share no place: a
\* listener that reconnects (XmppClient.cpp:170-176) comes back to its own loop.
TypeOK ==
  /\ clientPtr \in BOOLEAN
  /\ mInitialConnection \in BOOLEAN
  /\ mListenerThread \in Ids \cup {Nothing}
  /\ mStateQueue \in Seq(States)
  /\ mAccountStatus \in Account
  /\ mIsConnected \in BOOLEAN
  /\ mClient \in Ids \cup {Nothing}
  /\ connects \in 0..MaxConnects
  /\ base \in 0..connects
  /\ conn \in [Ids -> Conn]
  /\ pc \in [Actors -> MainPC \cup ListenerPC]
  /\ pc[Main] \in MainPC
  /\ \A t \in Ids : pc[t] \in ListenerPC
  /\ sid \in [Actors -> Ids \cup {Nothing}]
  /\ reported \in States \cup {"none"}
  /\ registrations \in Nat
  /\ overlapped \in BOOLEAN
  /\ connectResult \in BOOLEAN

\* isConnected() is never a memory of a dead connection: some gloox client of
\* this Client is past its TLS handshake whenever mIsConnected is set.
ConnectedMeansLive ==
  mIsConnected => \E c \in Ids : Secured(c)

\* With one startInterface per Client, and however many registrations replace its
\* gloox client (XmppClient.cpp:170-176), the connection that isConnected() speaks of is
\* the one sendMessage and stopInterface use.
ConnectedMeansCurrent ==
  ~overlapped => (mIsConnected <=> Secured(mClient))

Quiescent ==
  /\ clientPtr
  /\ mClient # Nothing
  /\ pc[Main] = "idle"
  /\ \A t \in Ids : t > base => ~Running(t)

\* An application that polls getNextStatusChange learns that its connection is
\* gone: when no listener thread is left the last status queued was
\* DISCONNECTED, unless the thread could not be created or the registration
\* failed, the two ends nobody reports.
EndIsReported ==
  (Quiescent /\ ~overlapped) =>
     \/ reported = "DISCONNECTED"
     \/ ~connectResult
     \/ registrations > 0 /\ mAccountStatus # "SUCCESS"

\* stopInterface of a Client that was started once and never registered leaves
\* no thread running on the deleted Client, and no connection open.
CleanStop ==
  [][(clientPtr /\ ~clientPtr' /\ ~overlapped /\ registrations = 0) =>
        \A t \in Ids : t > base => ~Running(t) /\ ~Live(t)']_vars

\* stopInterface returns: the join of such a Client ends.
StopReturns ==
  (pc[Main] = "stop" /\ ~overlapped /\ registrations = 0)
     ~> (pc[Main] = "idle" \/ overlapped \/ registrations > 0)

\* XmppClient.h:153, "Destructor joins thread if necessary": no listener thread
\* runs on a Client that has been deleted.
DestructorJoinsThread == ~Undefined

\* PluginInterface.h:120, "Disconnects the client (if already connected)": a
\* stopInterface that found a connection does not wait for ever for a Client that
\* stays connected.
StopDisconnects ==
  []<>~(pc[Main] = "joining" /\ Secured(mClient))

\* XmppClient.h:159-161, "a one-time account registration after the first
\* failure to authenticate".
OneTimeRegistration ==
  ~overlapped => registrations <= 1
=============================================================================
