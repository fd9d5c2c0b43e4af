----------------------------- MODULE XmppRoster -----------------------------
(***************************************************************************)
(* What a connected xmpp::Client keeps about its peers, and what the       *)
(* application sees of it: the roster map, which the listener thread       *)
(* rebuilds and updates in the callbacks of gloox, the queues of events,   *)
(* presences and status changes, which the application polls, and the      *)
(* broadcasts of PluginInterface.mm, which walk through the map on the     *)
(* application's thread without a lock.                                    *)
(*                                                                         *)
(* The application starts the same Client again after a lost connection,   *)
(* and broadcasts once it has polled ROSTER_LOADED.  The server delivers   *)
(* the stanzas of one connection in order.  The threads and handshakes of  *)
(* a connection are in XmppClient; here a login is one step.               *)
(***************************************************************************)
EXTENDS Naturals, Sequences, FiniteSets, FiniteSetsExt

CONSTANTS
  NumUsers,      (* the other accounts                                      *)
  Resources,     (* devices with which an account can be logged in          *)
  IsDocent,      (* is the Client's own user the docent?                    *)
  MaxLogins,     (* bound: calls of startInterface                          *)
  MaxChanges,    (* bound: presence changes and new contacts                *)
  MaxMessages    (* bound: messages that arrive                             *)

ASSUME ConstantsAssumption ==
  /\ NumUsers \in Nat \ {0}
  /\ IsDocent \in BOOLEAN
  /\ MaxLogins \in Nat
  /\ MaxChanges \in Nat
  /\ MaxMessages \in Nat

\* In the order of the map's keys.
Users      == 1..NumUsers
GameEngine == 1

\* status_t; Absent is no status but "not in the map".
Available   == 0
Unavailable == 5
Invalid     == 6
Absent      == 7
Statuses    == {Available, Unavailable, Invalid}

\* State, of the connection.
States == {"TLS_CONNECTED", "CONNECTED", "DISCONNECTED", "ROSTER_LOADED"}

\* Peer::setStatus: mConnected = mStatus < 5.
Connected(status) == status < 5

Presence(u, s)   == [kind |-> "presence", user |-> u, status |-> s]
Push(u)          == [kind |-> "push", user |-> u]
Subscribe(u)     == [kind |-> "subscribe", user |-> u]
Chat(u, n)       == [kind |-> "message", user |-> u, number |-> n]
FullRoster(us)   == [kind |-> "roster", users |-> us]
Stanzas ==
  [kind : {"presence"}, user : Users, status : Statuses]
    \cup [kind : {"push", "subscribe"}, user : Users]
    \cup [kind : {"message"}, user : Users, number : Nat]
    \cup [kind : {"roster"}, users : SUBSET Users]

EndOfMap == NumUsers + 1
NoBroadcast == 0

VARIABLES
  contacts,        \* server: the roster of the Client's account
  online,          \* server: the resources with which every user is available
  asked,           \* server: users to whom the Client has sent a subscription
  due,             \* server: presences to send since the initial presence or a
                   \* subscription
  wire,            \* stanzas on their way to the Client
  conn,            \* "none", "connecting", "auth" (no roster yet) or "ready"
  glooxRoster,     \* gloox: users in its own copy of the roster
  handling,        \* is the listener thread inside Client::handleRoster?
  refill,          \* users that handleRoster has still to insert
  mRoster,         \* Client: status of every Peer, or Absent
  mStateQueue, mPresenceQueue, mEventQueue,
  iter,            \* application: position of its broadcast in the map
  loaded,          \* application: has it polled ROSTER_LOADED since it started?
  view,            \* history: last presence polled of every user since the start
  received,        \* history: messages handled since the start
  polled,          \* history: messages polled since the start
  logins, changes, messages

server   == <<contacts, online, asked, due>>
listener == <<conn, glooxRoster, handling, refill, mRoster>>
queues   == <<mStateQueue, mPresenceQueue, mEventQueue>>
app      == <<iter, loaded, view, polled>>
counts   == <<logins, changes, messages>>
vars     == <<server, wire, listener, queues, app, received, counts>>

NoPeers == [u \in Users |-> Absent]
Unseen  == [u \in Users |-> Invalid]

Init ==
  /\ contacts \in SUBSET Users
  /\ online = [u \in Users |-> {}]
  /\ asked = {}
  /\ due = {}
  /\ wire = <<>>
  /\ conn = "none"
  /\ glooxRoster = {}
  /\ handling = FALSE
  /\ refill = {}
  /\ mRoster = NoPeers
  /\ mStateQueue = <<>>
  /\ mPresenceQueue = <<>>
  /\ mEventQueue = <<>>
  /\ iter = NoBroadcast
  /\ loaded = FALSE
  /\ view = Unseen
  /\ received = <<>>
  /\ polled = <<>>
  /\ logins = 0
  /\ changes = 0
  /\ messages = 0

-----------------------------------------------------------------------------
(* The server and the other users (external)                               *)

\* Does the server tell this connection about u's presence?
Told(u) == conn = "ready" /\ u \in contacts

Change == changes < MaxChanges /\ changes' = changes + 1

ComeOnline(u, r) ==
  /\ Change
  /\ r \notin online[u]
  /\ online' = [online EXCEPT ![u] = @ \cup {r}]
  /\ wire' = IF Told(u) THEN Append(wire, Presence(u, Available)) ELSE wire
  /\ UNCHANGED <<contacts, asked, due, listener, queues, app, received, logins, messages>>

\* A resource that was not announced yet is not called unavailable either.
GoOffline(u, r) ==
  /\ Change
  /\ r \in online[u]
  /\ online' = [online EXCEPT ![u] = @ \ {r}]
  /\ due' = due \ {<<u, r>>}
  /\ wire' = IF Told(u) /\ <<u, r>> \notin due
             THEN Append(wire, Presence(u, Unavailable)) ELSE wire
  /\ UNCHANGED <<contacts, asked, listener, queues, app, received, logins, messages>>

Announce(u, r) ==
  /\ <<u, r>> \in due
  /\ due' = due \ {<<u, r>>}
  /\ wire' = Append(wire, Presence(u, Available))
  /\ UNCHANGED <<contacts, online, asked, listener, queues, app, received, counts>>

\* A user that is no contact yet asks for a subscription.
AskUs(u) ==
  /\ Change
  /\ conn = "ready"
  /\ u \notin (contacts \cup asked)
  /\ wire' = Append(wire, Subscribe(u))
  /\ UNCHANGED <<server, listener, queues, app, received, logins, messages>>

\* The Client's own subscription: the other side accepts, as every Listener does.
\* The server adds the contact, pushes it and sends its presences.
AddContact(u) ==
  /\ u \in asked
  /\ asked' = asked \ {u}
  /\ contacts' = contacts \cup {u}
  /\ wire' = IF conn \in {"auth", "ready"} /\ u \notin contacts
             THEN Append(wire, Push(u)) ELSE wire
  /\ due' = IF conn = "ready" /\ u \notin contacts
            THEN due \cup ({u} \X online[u]) ELSE due
  /\ UNCHANGED <<online, listener, queues, app, received, counts>>

MessageArrives(u) ==
  /\ conn = "ready"
  /\ messages < MaxMessages
  /\ messages' = messages + 1
  /\ wire' = Append(wire, Chat(u, messages + 1))
  /\ UNCHANGED <<server, listener, queues, app, received, logins, changes>>

-----------------------------------------------------------------------------
(* The listener thread                                                     *)

\* The stanza that recv() hands over, of the given kind.
Take(kind) ==
  /\ ~handling
  /\ wire # <<>>
  /\ Head(wire).kind = kind
  /\ wire' = Tail(wire)

\* onTLSConnect, if the server wants TLS, and then onConnect or onDisconnect.
LoginReports(state) ==
  \E tls \in {<<>>, <<"TLS_CONNECTED">>} : mStateQueue' = mStateQueue \o Append(tls, state)

\* gloox asks for the roster.
LoginAccepted ==
  /\ conn = "connecting"
  /\ conn' = "auth"
  /\ glooxRoster' = {}
  /\ wire' = <<FullRoster(contacts)>>
  /\ LoginReports("CONNECTED")
  /\ UNCHANGED <<server, handling, refill, mRoster, mPresenceQueue, mEventQueue, app, received,
                 counts>>

LoginFails ==
  /\ conn = "connecting"
  /\ conn' = "none"
  /\ LoginReports("DISCONNECTED")
  /\ UNCHANGED <<server, wire, glooxRoster, handling, refill, mRoster, mPresenceQueue,
                 mEventQueue, app, received, counts>>

\* The connection breaks: what was on its way is lost.
ConnectionLost ==
  /\ conn \in {"auth", "ready"}
  /\ ~handling
  /\ conn' = "none"
  /\ wire' = <<>>
  /\ due' = {}
  /\ mStateQueue' = Append(mStateQueue, "DISCONNECTED")
  /\ UNCHANGED <<contacts, online, asked, glooxRoster, handling, refill, mRoster,
                 mPresenceQueue, mEventQueue, app, received, counts>>

\* Faulty variant: the peers of the connection before stay in the map.
HandleRosterUncleared ==
  /\ Take("roster")
  /\ conn' = "ready"
  /\ glooxRoster' = Head(wire).users
  /\ due' = UNION {{u} \X online[u] : u \in contacts}
  /\ handling' = TRUE
  /\ refill' = Head(wire).users
  /\ UNCHANGED <<contacts, online, asked, mRoster, queues, app, received, counts>>

\* The roster arrives: gloox announces the Client, and handleRoster clears the map.
HandleRoster ==
  /\ Take("roster")
  /\ conn' = "ready"
  /\ glooxRoster' = Head(wire).users
  /\ due' = UNION {{u} \X online[u] : u \in contacts}
  /\ handling' = TRUE
  /\ refill' = Head(wire).users
  /\ mRoster' = NoPeers
  /\ UNCHANGED <<contacts, online, asked, queues, app, received, counts>>

\* mRoster.insert, which leaves a Peer alone that is there already.
InsertPeer ==
  /\ handling
  /\ refill # {}
  /\ refill' = refill \ {Min(refill)}
  /\ mRoster' = IF mRoster[Min(refill)] = Absent
                THEN [mRoster EXCEPT ![Min(refill)] = Invalid] ELSE mRoster
  /\ UNCHANGED <<server, wire, conn, glooxRoster, handling, queues, app, received, counts>>

\* The end of handleRoster: subscribe to the game engine if it is missing.
RosterLoaded ==
  /\ handling
  /\ refill = {}
  /\ handling' = FALSE
  /\ asked' = IF IsDocent \/ GameEngine \in glooxRoster THEN asked ELSE asked \cup {GameEngine}
  /\ mStateQueue' = Append(mStateQueue, "ROSTER_LOADED")
  /\ UNCHANGED <<contacts, online, due, wire, conn, glooxRoster, refill, mRoster,
                 mPresenceQueue, mEventQueue, app, received, counts>>

\* handleItemAdded and the other callbacks of a roster push do nothing.
HandlePush ==
  /\ Take("push")
  /\ glooxRoster' = glooxRoster \cup {Head(wire).user}
  /\ UNCHANGED <<server, conn, handling, refill, mRoster, queues, app, received, counts>>

HandleSubscriptionRequest ==
  /\ Take("subscribe")
  /\ asked' = asked \cup {Head(wire).user}
  /\ UNCHANGED <<contacts, online, due, listener, queues, app, received, counts>>

\* Of a user in its roster; gloox ignores the presence of others.
HandleRosterPresence ==
  /\ Take("presence")
  /\ LET u == Head(wire).user
         s == Head(wire).status
     IN  IF u \in glooxRoster
         THEN /\ mRoster' = IF mRoster[u] = Absent THEN mRoster ELSE [mRoster EXCEPT ![u] = s]
              /\ mPresenceQueue' = Append(mPresenceQueue, [user |-> u, status |-> s])
         ELSE UNCHANGED <<mRoster, mPresenceQueue>>
  /\ UNCHANGED <<server, conn, glooxRoster, handling, refill, mStateQueue, mEventQueue, app,
                 received, counts>>

HandleMessage ==
  /\ Take("message")
  /\ mEventQueue' = Append(mEventQueue, Head(wire).number)
  /\ received' = Append(received, Head(wire).number)
  /\ UNCHANGED <<server, listener, mStateQueue, mPresenceQueue, app, counts>>

-----------------------------------------------------------------------------
(* The application                                                         *)

Forget ==
  /\ loaded' = FALSE
  /\ view' = Unseen
  /\ received' = <<>>
  /\ polled' = <<>>

\* Faulty variant: only the presence queue is cleared.
StartKeepsQueues ==
  /\ conn = "none"
  /\ iter = NoBroadcast
  /\ logins < MaxLogins
  /\ logins' = logins + 1
  /\ conn' = "connecting"
  /\ mPresenceQueue' = <<>>
  /\ Forget
  /\ UNCHANGED <<server, wire, glooxRoster, handling, refill, mRoster, mStateQueue,
                 mEventQueue, iter, changes, messages>>

\* Faulty variant: the presence queue is not cleared.
StartKeepsPresences ==
  /\ conn = "none"
  /\ iter = NoBroadcast
  /\ logins < MaxLogins
  /\ logins' = logins + 1
  /\ conn' = "connecting"
  /\ mStateQueue' = <<>>
  /\ mEventQueue' = <<>>
  /\ Forget
  /\ UNCHANGED <<server, wire, glooxRoster, handling, refill, mRoster, mPresenceQueue,
                 iter, changes, messages>>

\* startInterface, on a Client whose connection is gone: the queues are cleared,
\* the map is not.
StartInterface ==
  /\ conn = "none"
  /\ iter = NoBroadcast
  /\ logins < MaxLogins
  /\ logins' = logins + 1
  /\ conn' = "connecting"
  /\ mStateQueue' = <<>>
  /\ mPresenceQueue' = <<>>
  /\ mEventQueue' = <<>>
  /\ Forget
  /\ UNCHANGED <<server, wire, glooxRoster, handling, refill, mRoster, iter, changes, messages>>

\* stopInterface, on a connected Client: it is deleted.
StopInterface ==
  /\ conn \in {"auth", "ready"}
  /\ iter = NoBroadcast
  /\ ~handling
  /\ conn' = "none"
  /\ wire' = <<>>
  /\ due' = {}
  /\ glooxRoster' = {}
  /\ mRoster' = NoPeers
  /\ mStateQueue' = <<>>
  /\ mPresenceQueue' = <<>>
  /\ mEventQueue' = <<>>
  /\ Forget
  /\ UNCHANGED <<contacts, online, asked, handling, refill, iter, counts>>

GetNextStatusChange ==
  /\ iter = NoBroadcast
  /\ mStateQueue # <<>>
  /\ loaded' = (loaded \/ Head(mStateQueue) = "ROSTER_LOADED")
  /\ mStateQueue' = Tail(mStateQueue)
  /\ UNCHANGED <<server, wire, listener, mPresenceQueue, mEventQueue, iter, view, polled,
                 received, counts>>

GetNextPresenceEvent ==
  /\ iter = NoBroadcast
  /\ mPresenceQueue # <<>>
  /\ view' = [view EXCEPT ![Head(mPresenceQueue).user] = Head(mPresenceQueue).status]
  /\ mPresenceQueue' = Tail(mPresenceQueue)
  /\ UNCHANGED <<server, wire, listener, mStateQueue, mEventQueue, iter, loaded, polled,
                 received, counts>>

GetNextEvent ==
  /\ iter = NoBroadcast
  /\ mEventQueue # <<>>
  /\ polled' = Append(polled, Head(mEventQueue))
  /\ mEventQueue' = Tail(mEventQueue)
  /\ UNCHANGED <<server, wire, listener, mStateQueue, mPresenceQueue, iter, loaded, view,
                 received, counts>>

\* The next key of the map after u.
NextPeer(u) == Min({v \in Users : v > u /\ mRoster[v] # Absent} \cup {EndOfMap})

\* startGame, endGame, pauseGame, broadcastEvent and the others.
BroadcastBegins ==
  /\ loaded
  /\ iter = NoBroadcast
  /\ iter' = NextPeer(0)
  /\ UNCHANGED <<server, wire, listener, queues, loaded, view, polled, received, counts>>

\* Faulty variant: the iterator is not compared with end().
BroadcastNextPastEnd ==
  /\ iter # NoBroadcast
  /\ iter' = iter + 1
  /\ UNCHANGED <<server, wire, listener, queues, loaded, view, polled, received, counts>>

\* One peer: a message to it if it is connected, which changes nothing here, and the
\* iterator advances.
BroadcastNext ==
  /\ iter # NoBroadcast
  /\ iter' = IF iter = EndOfMap THEN NoBroadcast ELSE NextPeer(iter)
  /\ UNCHANGED <<server, wire, listener, queues, loaded, view, polled, received, counts>>

-----------------------------------------------------------------------------
Next ==
  \/ \E u \in Users, r \in Resources : ComeOnline(u, r) \/ GoOffline(u, r) \/ Announce(u, r)
  \/ \E u \in Users : AskUs(u) \/ AddContact(u) \/ MessageArrives(u)
  \/ LoginAccepted \/ LoginFails \/ ConnectionLost
  \/ HandleRoster \/ InsertPeer \/ RosterLoaded \/ HandlePush
  \/ HandleSubscriptionRequest \/ HandleRosterPresence \/ HandleMessage
  \/ StartInterface \/ StopInterface
  \/ GetNextStatusChange \/ GetNextPresenceEvent \/ GetNextEvent
  \/ BroadcastBegins \/ BroadcastNext

Spec == Init /\ [][Next]_vars

-----------------------------------------------------------------------------
(* Properties                                                              *)

\* Type invariant; the iterator of a broadcast stops at the end of the map
\* (PluginInterface.mm:394-491, 564-578).
TypeOK ==
  /\ contacts \subseteq Users
  /\ online \in [Users -> SUBSET Resources]
  /\ asked \subseteq Users
  /\ due \subseteq Users \X Resources
  /\ wire \in Seq(Stanzas)
  /\ conn \in {"none", "connecting", "auth", "ready"}
  /\ glooxRoster \subseteq Users
  /\ handling \in BOOLEAN
  /\ refill \subseteq Users
  /\ mRoster \in [Users -> Statuses \cup {Absent}]
  /\ mStateQueue \in Seq(States)
  /\ mPresenceQueue \in Seq([user : Users, status : Statuses])
  /\ mEventQueue \in Seq(Nat)
  /\ iter \in 0..EndOfMap
  /\ loaded \in BOOLEAN
  /\ view \in [Users -> Statuses]
  /\ received \in Seq(Nat)
  /\ polled \in Seq(Nat)
  /\ logins \in 0..MaxLogins
  /\ changes \in 0..MaxChanges
  /\ messages \in 0..MaxMessages

\* Nothing about u is on its way to the Client.
Settled(u) ==
  /\ conn = "ready" /\ ~handling
  /\ \A r \in Resources : <<u, r>> \notin due
  /\ \A i \in 1..Len(wire) : wire[i].kind \in {"presence", "push"} => wire[i].user # u

\* isPeerConnected (XmppClient.cpp:329-336) tells the truth about the peers of the
\* map, after any number of lost connections and new logins, for users with one
\* device: no peer stays connected that left while the connection was down.
RosterIsCurrent ==
  \A u \in contacts :
    (mRoster[u] # Absent /\ Settled(u)) => (Connected(mRoster[u]) <=> online[u] # {})

\* An application that follows the presence events since its last start
\* (PluginInterface.mm:523-536) sees what the map says, of every peer in it.
PresencesMatchRoster ==
  (conn = "ready" /\ ~handling /\ mPresenceQueue = <<>>) =>
     \A u \in Users : mRoster[u] # Absent => view[u] = mRoster[u]

\* handleRoster (XmppClient.cpp:238-283) does not rebuild the map under the iterator
\* of a broadcast, if the application waits for the ROSTER_LOADED of its last start.
IteratorStaysValid == ~(iter # NoBroadcast /\ handling)

\* The events polled since the last start are the messages that arrived since, each
\* once and in order, whatever the connection before left (XmppClient.cpp:71).
EventsAreOfThisConnection == polled \o mEventQueue = received

\* "Sends the input message event to all clients currently connected"
\* (PluginInterface.h:157): a contact that is online, and of whom the Client knows
\* all there is to know, is one that broadcasts address.
BroadcastReachesConnected ==
  \A u \in contacts : (Settled(u) /\ online[u] # {}) => Connected(mRoster[u])
=============================================================================
