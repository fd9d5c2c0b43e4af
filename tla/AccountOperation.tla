-------------------------- MODULE AccountOperation --------------------------
(***************************************************************************)
(* AccountRegistration and AccountEraser: init() opens a connection of its *)
(* own with a new gloox client and stays in recv() until a handler has set *)
(* the status or the connection is gone.  A registration first fetches the *)
(* fields that the server wants, an eraser logs in and asks at once.       *)
(*                                                                         *)
(* All objects work on one account, each on a thread of its own: two       *)
(* devices with the same identifier, or a test that creates and erases.    *)
(* A request that was sent may be served after its connection broke.       *)
(***************************************************************************)
EXTENDS Naturals, FiniteSets

CONSTANTS
  Registrations, Erasers,   \* the objects
  MaxClients                (* bound: gloox clients created, i.e. calls of init *)

ASSUME ConstantsAssumption ==
  /\ MaxClients \in Nat
  /\ Registrations \cap Erasers = {}

Objects == Registrations \cup Erasers
Clients == 1..MaxClients
None    == 0

Requests == {"fetch", "create", "remove"}
Replies  == {"fields", "form", "registered", "done", "refused"}
Terminal == {"SUCCESS", "FAILURE"}

VARIABLES
  place,       \* of every object: "idle", or in init(): "connect" or "recv"
  mStatus,     \* of every object
  mClient,     \* of every object: its latest gloox client, or None
  clients,     \* number of gloox clients created
  stream,      \* of every client: "new", "up" (login finished) or "down"
  transit,     \* of every client: the request or reply on its way, "none", or
               \* "unsent" when gloox has refused to send the request
  exists,      \* server: does the account exist?
  committed    \* history: clients whose request the server has carried out

object == <<place, mStatus, mClient, clients>>
vars   == <<object, stream, transit, exists, committed>>

Init ==
  /\ place = [o \in Objects |-> "idle"]
  /\ mStatus = [o \in Objects |-> "INCOMPLETE"]
  /\ mClient = [o \in Objects |-> None]
  /\ clients = 0
  /\ stream = [c \in Clients |-> "new"]
  /\ transit = [c \in Clients |-> "none"]
  /\ exists \in BOOLEAN
  /\ committed = {}

-----------------------------------------------------------------------------
(* The objects                                                             *)

\* Faulty variant: the status of the operation before is kept.
InitBeginsUnreset(o) ==
  /\ place[o] = "idle"
  /\ clients < MaxClients
  /\ clients' = clients + 1
  /\ mClient' = [mClient EXCEPT ![o] = clients + 1]
  /\ place' = [place EXCEPT ![o] = "connect"]
  /\ UNCHANGED <<mStatus, stream, transit, exists, committed>>

\* Faulty variant: no client is created.
InitBeginsWithoutClient(o) ==
  /\ place[o] = "idle"
  /\ clients < MaxClients
  /\ clients' = clients + 1
  /\ mStatus' = [mStatus EXCEPT ![o] = "INCOMPLETE"]
  /\ place' = [place EXCEPT ![o] = "connect"]
  /\ UNCHANGED <<mClient, stream, transit, exists, committed>>

\* init() up to connect().  The client of an earlier init() is leaked, with its
\* connection if that is still open.
InitBegins(o) ==
  /\ place[o] = "idle"
  /\ clients < MaxClients
  /\ clients' = clients + 1
  /\ mStatus' = [mStatus EXCEPT ![o] = "INCOMPLETE"]
  /\ mClient' = [mClient EXCEPT ![o] = clients + 1]
  /\ place' = [place EXCEPT ![o] = "connect"]
  /\ UNCHANGED <<stream, transit, exists, committed>>

\* init() returns true all the same.
ConnectFails(o) ==
  /\ place[o] = "connect"
  /\ place' = [place EXCEPT ![o] = "idle"]
  /\ stream' = [stream EXCEPT ![mClient[o]] = "down"]
  /\ UNCHANGED <<mStatus, mClient, clients, transit, exists, committed>>

\* The loop of recv(), up to onConnect(): the first request is sent.
OnConnect(o) ==
  /\ place[o] = "connect"
  /\ place' = [place EXCEPT ![o] = "recv"]
  /\ stream' = [stream EXCEPT ![mClient[o]] = "up"]
  /\ transit' = [transit EXCEPT ![mClient[o]] =
                   IF o \in Registrations THEN "fetch" ELSE "remove"]
  /\ UNCHANGED <<mStatus, mClient, clients, exists, committed>>

\* handleRegistrationFields: the account is asked for.  createAccount() sends nothing
\* and returns false if the name is not valid in XMPP, and its result is not looked at.
HandleFields(o) ==
  /\ place[o] = "recv"
  /\ transit[mClient[o]] = "fields"
  /\ \E sent \in {"create", "unsent"} : transit' = [transit EXCEPT ![mClient[o]] = sent]
  /\ UNCHANGED <<object, stream, exists, committed>>

\* Faulty variant: the loop ends with the connection only.
AfterRecvUntilDown(status) == "recv"

\* The test after every recv().
AfterRecv(status) == IF status \in Terminal THEN "idle" ELSE "recv"

\* handleAlreadyRegistered and handleRegistrationResult.
HandleResult(o) ==
  LET reply  == transit[mClient[o]]
      status == IF reply = "done" THEN "SUCCESS" ELSE "FAILURE"
  IN  /\ place[o] = "recv"
      /\ reply \in {"registered", "done", "refused"}
      /\ mStatus' = [mStatus EXCEPT ![o] = status]
      /\ place' = [place EXCEPT ![o] = AfterRecv(status)]
      /\ transit' = [transit EXCEPT ![mClient[o]] = "none"]
      /\ UNCHANGED <<mClient, clients, stream, exists, committed>>

\* recv() returns an error: init() returns with the status as it is.
RecvFails(o) ==
  /\ place[o] = "recv"
  /\ stream[mClient[o]] = "down"
  /\ place' = [place EXCEPT ![o] = "idle"]
  /\ UNCHANGED <<mStatus, mClient, clients, stream, transit, exists, committed>>

-----------------------------------------------------------------------------
(* The server and the network (external)                                   *)

\* A reply reaches a connection that is still there.
Reply(c, reply) ==
  transit' = [transit EXCEPT ![c] = IF stream[c] = "up" THEN reply ELSE "none"]

\* A server that wants a form filled in, or refers to another place, answers with that
\* instead of the fields.  handleDataForm and handleOOB are empty: "form" stays.
AnswerFetch(c) ==
  /\ transit[c] = "fetch"
  /\ \E reply \in {"fields", "form", "registered", "refused"} : Reply(c, reply)
  /\ UNCHANGED <<object, stream, exists, committed>>

Serve(c) ==
  /\ transit[c] \in {"create", "remove"}
  /\ exists = (transit[c] = "remove")
  /\ exists' = ~exists
  /\ committed' = committed \cup {c}
  /\ Reply(c, "done")
  /\ UNCHANGED <<object, stream>>

\* The account exists, or does not, or the server does not allow it.
Refuse(c) ==
  /\ transit[c] \in {"create", "remove"}
  /\ Reply(c, "refused")
  /\ UNCHANGED <<object, stream, exists, committed>>

\* What is on its way to the client is lost, what is on its way to the server may be.
Break(c) ==
  /\ stream[c] = "up"
  /\ stream' = [stream EXCEPT ![c] = "down"]
  /\ transit' \in {transit, [transit EXCEPT ![c] = "none"]}
  /\ transit[c] \in Replies => transit'[c] = "none"
  /\ UNCHANGED <<object, exists, committed>>

-----------------------------------------------------------------------------
ObjectStep(o) ==
  ConnectFails(o) \/ OnConnect(o) \/ HandleFields(o) \/ HandleResult(o) \/ RecvFails(o)
ServerStep(c) == AnswerFetch(c) \/ Serve(c) \/ Refuse(c)

Next ==
  \/ \E o \in Objects : InitBegins(o) \/ ObjectStep(o)
  \/ \E c \in Clients : ServerStep(c) \/ Break(c)

Spec == Init /\ [][Next]_vars

\* connect() ends and the server answers every request: recv() has no timeout.
FairSpec ==
  /\ Spec
  /\ \A o \in Objects : WF_vars(ObjectStep(o))
  /\ \A c \in Clients : WF_vars(ServerStep(c))

-----------------------------------------------------------------------------
(* Properties                                                              *)

\* Type invariant; an object inside init() has a client of its own.
TypeOK ==
  /\ place \in [Objects -> {"idle", "connect", "recv"}]
  /\ mStatus \in [Objects -> {"INCOMPLETE"} \cup Terminal]
  /\ mClient \in [Objects -> Clients \cup {None}]
  /\ clients \in 0..MaxClients
  /\ stream \in [Clients -> {"new", "up", "down"}]
  /\ transit \in [Clients -> Requests \cup Replies \cup {"none", "unsent"}]
  /\ exists \in BOOLEAN
  /\ committed \subseteq Clients
  /\ \A o \in Objects : place[o] # "idle" => mClient[o] # None
  /\ \A o, p \in Objects : o # p /\ mClient[o] = mClient[p] => mClient[o] = None

Promise ==
  INSTANCE AccountPromise WITH
    begun   <- clients,
    current <- mClient,
    running <- {o \in Objects : place[o] # "idle"},
    status  <- [o \in Objects |-> IF place[o] = "idle" THEN mStatus[o] ELSE "INCOMPLETE"]

\* status() tells the truth about the request of the latest init(), although the
\* account may change in the meantime, an object is used again, and an earlier
\* request of the same object is served late (AccountRegistration.cpp:19-96,
\* AccountEraser.cpp:21-86).
ImplementsPromise == Promise!Spec

\* Waiting for ever on a connection that is up, since nobody will send anything more.
Stalled(o) ==
  /\ place[o] = "recv"
  /\ stream[mClient[o]] = "up"
  /\ transit[mClient[o]] \in {"form", "unsent"}

\* If the server answers every request, init() returns (AccountRegistration.cpp:49-57,
\* AccountEraser.cpp:49-59), whatever the other objects do and wherever the connection
\* breaks; the only ways not to return are the two that Stalled names.
InitReturns == \A o \in Objects : place[o] # "idle" ~> (place[o] = "idle" \/ Stalled(o))

\* "If the server requires more than a username and password, then the process will
\* always fail" (AccountRegistration.h:48): it ends, whatever the server requires.
InitAlwaysReturns == \A o \in Objects : place[o] # "idle" ~> place[o] = "idle"
=============================================================================
